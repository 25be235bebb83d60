------------------------------ MODULE Cognito ------------------------------
(***************************************************************************)
(* CognitoProvider.SetPolicyInfo and cognitoClient.SetGroupsAssignedTo of  *)
(* providers/aws: for each policy, makes the members of the user pool      *)
(* group that its action names those its subjects name by email. Users     *)
(* whose lookup fails have no place in the maps that are compared: what    *)
(* ProcessAsync drops, and what getPrincipalIdFromEmail cannot resolve,    *)
(* counts as not there; so does what is beyond the first page of a listing *)
(* (NextToken is not read). Two administrators may set one pool.           *)
(***************************************************************************)
EXTENDS Naturals, Sequences, FiniteSets

CONSTANTS
  Admins,
  Groups,     \* the groups of the user pool
  Users,      \* its users
  NoEmail,    \* a user without the email attribute
  emailOf,    \* emailOf[u]: the user's email
  Members,    \* the memberships the pool may start with
  Wants,      \* the lists of policies, each [group, emails], that may be set
  PageSizes,  \* how many a first page may hold that leaves some out
  MaxFaults,  \* bound: calls that fail
  MaxRuns     \* bound: MaxRuns[a] runs of administrator a

VARIABLES
  member,    \* member[g]: the users in group g, at Cognito
  want,      \* want[a]: the argument policyInfos
  phase,     \* phase[a]: "idle" | "groups" | "list" | "resolve" | "change" | "done"
  pos,       \* pos[a]: the policy at hand
  known,     \* known[a]: allGroups, the groups that were listed
  existing,  \* existing[a]: existingUserEmailMap's users
  asked,     \* asked[a]: the policy's emails that were looked up
  wanted,    \* wanted[a]: policyUserEmailMap's users
  toRemove, toAdd,  \* what is left of the differences to apply
  result,    \* result[a]: the status returned, 0 while running
  runs, faults,
  sound,     \* history, sound[a]: no lookup failed in a's run
  whole,     \* history, whole[a]: no listing of a's run went beyond its first page
  alone      \* history, alone[a]: nobody else ran since a's run started

policies == <<existing, asked, wanted, toRemove, toAdd>>
history == <<sound, whole, alone>>
vars == <<member, want, phase, pos, known, policies, result, runs, faults, history>>

Init ==
  /\ member \in Members
  /\ want \in [Admins -> Wants]
  /\ phase = [a \in Admins |-> "idle"]
  /\ pos = [a \in Admins |-> 1]
  /\ known = [a \in Admins |-> {}]
  /\ existing = [a \in Admins |-> {}]
  /\ asked = [a \in Admins |-> {}]
  /\ wanted = [a \in Admins |-> {}]
  /\ toRemove = [a \in Admins |-> {}]
  /\ toAdd = [a \in Admins |-> {}]
  /\ result = [a \in Admins |-> 0]
  /\ runs = [a \in Admins |-> 0]
  /\ faults = 0
  /\ sound = [a \in Admins |-> TRUE]
  /\ whole = [a \in Admins |-> TRUE]
  /\ alone = [a \in Admins |-> FALSE]

Fault == faults < MaxFaults /\ faults' = faults + 1
Goto(a, next) == phase' = [phase EXCEPT ![a] = next]
Policy(a) == want[a][pos[a]]

\* What one call may list of S: everything, or a first page of it.
Listings(S) == {page \in SUBSET S : page = S \/ Cardinality(page) \in PageSizes}

Start(a) ==
  /\ phase[a] = "idle" \/ (phase[a] = "done" /\ result[a] # 201)
  /\ runs[a] < MaxRuns[a]
  /\ runs' = [runs EXCEPT ![a] = @ + 1]
  /\ result' = [result EXCEPT ![a] = 0]
  /\ pos' = [pos EXCEPT ![a] = 1]
  /\ sound' = [sound EXCEPT ![a] = TRUE]
  /\ whole' = [whole EXCEPT ![a] = TRUE]
  /\ alone' = [b \in Admins |->
                 b = a /\ \A c \in Admins \ {a} : phase[c] \in {"idle", "done"}]
  /\ Goto(a, "groups")
  /\ UNCHANGED <<member, want, known, policies, faults>>

\* SetGroupsAssignedTo returns, and with it go its maps and differences.
Forget(a) ==
  /\ existing' = [existing EXCEPT ![a] = {}]
  /\ asked' = [asked EXCEPT ![a] = {}]
  /\ wanted' = [wanted EXCEPT ![a] = {}]
  /\ toRemove' = [toRemove EXCEPT ![a] = {}]
  /\ toAdd' = [toAdd EXCEPT ![a] = {}]

Return(a, status) ==
  /\ Goto(a, "done")
  /\ result' = [result EXCEPT ![a] = status]
  /\ known' = [known EXCEPT ![a] = {}]
  /\ Forget(a)
  /\ UNCHANGED <<want, pos, runs, history>>

GetGroups(a) ==
  /\ phase[a] = "groups"
  /\ \E page \in Listings(Groups) :
       /\ known' = [known EXCEPT ![a] = page]
       /\ whole' = [whole EXCEPT ![a] = @ /\ page = Groups]
  /\ Goto(a, "list")
  /\ UNCHANGED <<member, want, pos, policies, result, runs, faults, sound, alone>>

NextPolicy(a) ==
  /\ pos' = [pos EXCEPT ![a] = @ + 1]
  /\ Goto(a, "list")
  /\ UNCHANGED <<want, known, result, runs>>

HasPolicy(a) == phase[a] = "list" /\ pos[a] <= Len(want[a])

\* A policy for a group that was not listed is passed over.
SkipPolicy(a) ==
  /\ HasPolicy(a) /\ Policy(a).group \notin known[a]
  /\ NextPolicy(a)
  /\ UNCHANGED <<member, policies, faults, history>>

\* listUsersInGroup: ProcessAsync returns the users whose AdminGetUser succeeds
\* and finds an email; lost are those for which the call fails.
ListUsers(a) ==
  /\ HasPolicy(a) /\ Policy(a).group \in known[a]
  /\ \E page \in Listings(member[Policy(a).group]) : \E lost \in SUBSET page :
       /\ IF lost = {} THEN UNCHANGED <<faults, sound>>
          ELSE Fault /\ sound' = [sound EXCEPT ![a] = FALSE]
       /\ whole' = [whole EXCEPT ![a] = @ /\ page = member[Policy(a).group]]
       /\ existing' = [existing EXCEPT ![a] = {u \in page \ lost : emailOf[u] # NoEmail}]
  /\ Goto(a, "resolve")
  /\ UNCHANGED <<member, want, pos, known, asked, wanted, toRemove, toAdd, result, runs,
                 alone>>

\* getPrincipalIdFromEmail for the next subject: a user with that email, none,
\* or an error, which is logged and passed over like none.
Resolve(a) ==
  /\ phase[a] = "resolve"
  /\ \E e \in Policy(a).emails \ asked[a] :
       /\ asked' = [asked EXCEPT ![a] = @ \union {e}]
       /\ \/ /\ \E u \in Users : /\ emailOf[u] = e
                                 /\ wanted' = [wanted EXCEPT ![a] = @ \union {u}]
             /\ UNCHANGED <<faults, sound>>
          \/ /\ \A u \in Users : emailOf[u] # e
             /\ UNCHANGED <<wanted, faults, sound>>
          \/ /\ Fault
             /\ sound' = [sound EXCEPT ![a] = FALSE]
             /\ UNCHANGED wanted
  /\ UNCHANGED <<member, want, phase, pos, known, existing, toRemove, toAdd, result,
                 runs, whole, alone>>

\* Mutant: everybody in the group is removed and the wanted are added again.
Compare_Replace(a) ==
  /\ phase[a] = "resolve" /\ asked[a] = Policy(a).emails
  /\ toRemove' = [toRemove EXCEPT ![a] = existing[a]]
  /\ toAdd' = [toAdd EXCEPT ![a] = wanted[a]]
  /\ Goto(a, "change")
  /\ UNCHANGED <<member, want, pos, known, existing, asked, wanted, result, runs,
                 faults, history>>

Compare(a) ==
  /\ phase[a] = "resolve" /\ asked[a] = Policy(a).emails
  /\ toRemove' = [toRemove EXCEPT ![a] = existing[a] \ wanted[a]]
  /\ toAdd' = [toAdd EXCEPT ![a] = wanted[a] \ existing[a]]
  /\ Goto(a, "change")
  /\ UNCHANGED <<member, want, pos, known, existing, asked, wanted, result, runs,
                 faults, history>>

Sets(a, users) ==
  member' = [member EXCEPT ![Policy(a).group] = users]

\* removeUsersFromGroup, in the random order of the map.
Remove(a) ==
  /\ phase[a] = "change"
  /\ \E u \in toRemove[a] :
       /\ Sets(a, member[Policy(a).group] \ {u})
       /\ toRemove' = [toRemove EXCEPT ![a] = @ \ {u}]
  /\ UNCHANGED <<want, phase, pos, known, existing, asked, wanted, toAdd, result,
                 runs, faults, history>>

Add(a) ==
  /\ phase[a] = "change" /\ toRemove[a] = {}
  /\ \E u \in toAdd[a] :
       /\ Sets(a, member[Policy(a).group] \union {u})
       /\ toAdd' = [toAdd EXCEPT ![a] = @ \ {u}]
  /\ UNCHANGED <<want, phase, pos, known, existing, asked, wanted, toRemove, result,
                 runs, faults, history>>

Changed(a) ==
  /\ phase[a] = "change" /\ toRemove[a] = {} /\ toAdd[a] = {}
  /\ Forget(a) /\ NextPolicy(a)
  /\ UNCHANGED <<member, faults, history>>

ReturnCreated(a) ==
  /\ phase[a] = "list" /\ pos[a] > Len(want[a])
  /\ Return(a, 201)
  /\ UNCHANGED <<member, faults>>

\* A list call fails, or a change of the group does, with or without effect.
CallFails(a) ==
  /\ Fault
  /\ \/ /\ phase[a] = "groups" \/ (HasPolicy(a) /\ Policy(a).group \in known[a])
        /\ UNCHANGED member
     \/ /\ phase[a] = "change"
        /\ \/ toRemove[a] \union toAdd[a] # {} /\ UNCHANGED member
           \/ \E u \in toRemove[a] : Sets(a, member[Policy(a).group] \ {u})
           \/ /\ toRemove[a] = {}
              /\ \E u \in toAdd[a] : Sets(a, member[Policy(a).group] \union {u})
  /\ Return(a, 500)

Run(a) ==
  \/ Start(a) \/ GetGroups(a) \/ SkipPolicy(a) \/ ListUsers(a) \/ Resolve(a)
  \/ Compare(a) \/ Remove(a) \/ Add(a) \/ Changed(a) \/ ReturnCreated(a)

Next == \E a \in Admins : Run(a) \/ CallFails(a)

Spec == Init /\ [][Next]_vars
----------------------------------------------------------------------------
EmailsIn(users) == {emailOf[u] : u \in users} \ {NoEmail}
Known(emails) == emails \intersect EmailsIn(Users)

\* The last policy of list w for each group of the pool is in effect.
Applied(w) ==
  \A j \in DOMAIN w :
    w[j].group \in Groups /\ (\A k \in DOMAIN w : w[k].group = w[j].group => k <= j)
      => EmailsIn(member[w[j].group]) = Known(w[j].emails)

\* A run that had the pool to itself, whose lookups all worked, whose listings
\* fit one page and that returned 201 has set the groups' members, whatever
\* failed runs left before.
CreatedMeansApplied ==
  \A a \in Admins : sound[a] /\ whole[a] /\ alone[a] /\ result[a] = 201 => Applied(want[a])

\* No member whom every policy for the group wants is removed from it, even for
\* a moment, by administrators whose lookups work; nor does anybody get into a
\* group whom no policy wants there.
ChangesAreWanted ==
  \A g \in Groups : \A u \in Users :
    LET wantedBy(a, j) == want[a][j].group = g /\ emailOf[u] \in want[a][j].emails
    IN  /\ u \in member[g] \ member'[g] =>
             \E a \in Admins :
               phase[a] = "change"
               /\ (sound[a] => ~wantedBy(a, pos[a])
                     \/ \E v \in Users \ {u} : emailOf[v] = emailOf[u])
        /\ u \in member'[g] \ member[g] =>
             \E a \in Admins : phase[a] = "change" /\ wantedBy(a, pos[a])
=============================================================================
