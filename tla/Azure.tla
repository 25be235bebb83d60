-------------------------------- MODULE Azure --------------------------------
(***************************************************************************)
(* AzureProvider.SetPolicyInfo and azureClient.SetAppRoleAssignedTo of     *)
(* providers/azure: for each policy, assigns the application role that its *)
(* action names to those its subjects name by email.  Errors of the two    *)
(* lookups are dropped: an application not found is dereferenced, a user   *)
(* whose lookup fails is passed over.  Additions are made before removals. *)
(* Two administrators may set one application.                             *)
(***************************************************************************)
EXTENDS Naturals, Sequences, FiniteSets, SequencesExt

CONSTANTS
  Admins,
  Groups,     \* the roles of the application
  Users,      \* the users of the tenant
  NoEmail,    \* a user without a mail attribute
  emailOf,    \* emailOf[u]: the user's mail
  Members,    \* the assignments the application may start with
  Wants,      \* the lists of policies, each [group, emails], that may be set
  Page,       \* assignments in one page of the listing
  MaxFaults,  \* bound: calls that fail
  MaxRuns     \* bound: MaxRuns[a] runs of administrator a

VARIABLES
  member,    \* member[g]: the users to whom role g is assigned, at Azure
  want,      \* want[a]: the argument policyInfos
  phase,     \* phase[a]: "idle" | "principal" | "policy" | "resolve" |
             \*           "change" | "done" | "panicked"
  pos,       \* pos[a]: the policy at hand
  asked,     \* asked[a]: how many of its subjects were looked up
  wanted,    \* wanted[a]: the principals found, in order
  toAdd,     \* toAdd[a]: the positions in wanted that addAppRolesAssignedTo has left
  toRemove,  \* toRemove[a]: those that deleteAppRolesAssignedTo has left
  result,    \* result[a]: the status returned, 0 while running
  runs, faults,
  sound,     \* history, sound[a]: no lookup failed in a's run and no listing
             \* went beyond its first page
  alone      \* history, alone[a]: nobody else ran since a's run started

policies == <<asked, wanted, toAdd, toRemove>>
vars == <<member, want, phase, pos, policies, result, runs, faults, sound, alone>>

Init ==
  /\ member \in Members
  /\ want \in [Admins -> Wants]
  /\ phase = [a \in Admins |-> "idle"]
  /\ pos = [a \in Admins |-> 1]
  /\ asked = [a \in Admins |-> 0]
  /\ wanted = [a \in Admins |-> <<>>]
  /\ toAdd = [a \in Admins |-> {}]
  /\ toRemove = [a \in Admins |-> {}]
  /\ result = [a \in Admins |-> 0]
  /\ runs = [a \in Admins |-> 0]
  /\ faults = 0
  /\ sound = [a \in Admins |-> TRUE]
  /\ alone = [a \in Admins |-> FALSE]

Fault == faults < MaxFaults /\ faults' = faults + 1
Goto(a, next) == phase' = [phase EXCEPT ![a] = next]
Policy(a) == want[a][pos[a]]
Stopped(a) == phase[a] \in {"idle", "done", "panicked"}

Assignments == {x \in Groups \X Users : x[2] \in member[x[1]]}

\* What GetAppRoleAssignedTo may return: it reads the first page only.
Listings ==
  IF Cardinality(Assignments) <= Page THEN {Assignments}
  ELSE {page \in SUBSET Assignments : Cardinality(page) = Page}

\* The emails of those assigned role g who have a mail.
Emails(g, existing, lost) ==
  LET list == SetToSeq({u \in Users \ lost : <<g, u>> \in existing /\ emailOf[u] # NoEmail})
  IN [i \in 1..Len(list) |-> emailOf[list[i]]]

\* AzurePolicyMapper: a policy for each role.
ToIDQL(existing, lost) ==
  LET roles == SetToSeq(Groups)
  IN [i \in 1..Len(roles) |-> [group |-> roles[i], emails |-> Emails(roles[i], existing, lost)]]

\* GetPolicyInfo, by an administrator who has no policies yet and sets what it
\* read.  A user whose lookup fails (lost) is dropped like one without a mail;
\* when the listing fails, all roles are read as assigned to nobody.
GetPolicyInfo(a) ==
  /\ phase[a] = "idle" /\ want[a] = <<>>
  /\ \E existing \in Listings :
       \/ want' = [want EXCEPT ![a] = ToIDQL(existing, {})] /\ UNCHANGED faults
       \/ \E u \in UNION Range(member) :
            Fault /\ want' = [want EXCEPT ![a] = ToIDQL(existing, {u})]
       \/ Fault /\ want' = [want EXCEPT ![a] = ToIDQL({}, {})]
  /\ UNCHANGED <<member, phase, pos, policies, result, runs, sound, alone>>

Start(a) ==
  /\ Stopped(a) /\ want[a] # <<>> /\ result[a] # 201 /\ runs[a] < MaxRuns[a]
  /\ runs' = [runs EXCEPT ![a] = @ + 1]
  /\ result' = [result EXCEPT ![a] = 0]
  /\ sound' = [sound EXCEPT ![a] = TRUE]
  /\ alone' = [b \in Admins |-> b = a /\ \A c \in Admins \ {a} : Stopped(c)]
  /\ Goto(a, "principal")
  /\ UNCHANGED <<member, want, pos, policies, faults>>

\* GetServicePrincipals: without an answer, sps.List[0] panics.
GetServicePrincipals(a) ==
  /\ phase[a] = "principal"
  /\ pos' = [pos EXCEPT ![a] = 1]
  /\ \/ Goto(a, "policy") /\ UNCHANGED faults
     \/ Goto(a, "panicked") /\ Fault
  /\ UNCHANGED <<member, want, policies, result, runs, sound, alone>>

NextPolicy(a) ==
  /\ pos' = [pos EXCEPT ![a] = @ + 1]
  /\ Goto(a, "policy")

HasPolicy(a) == phase[a] = "policy" /\ pos[a] <= Len(want[a])

\* A policy for a role that the application does not have is passed over.
SkipPolicy(a) ==
  /\ HasPolicy(a) /\ Policy(a).group \notin Groups
  /\ NextPolicy(a)
  /\ UNCHANGED <<member, want, policies, result, runs, faults, sound, alone>>

StartPolicy(a) ==
  /\ HasPolicy(a) /\ Policy(a).group \in Groups
  /\ asked' = [asked EXCEPT ![a] = 0]
  /\ wanted' = [wanted EXCEPT ![a] = <<>>]
  /\ Goto(a, "resolve")
  /\ UNCHANGED <<member, want, pos, toAdd, toRemove, result, runs, faults, sound, alone>>

\* GetPrincipalIdFromEmail for the next subject: the first user with that
\* mail; an error, which is passed over; or the panic of userValues.List[0]
\* where no user has it.
Resolve(a) ==
  /\ phase[a] = "resolve" /\ asked[a] < Len(Policy(a).emails)
  /\ LET email == Policy(a).emails[asked[a] + 1]
         known == {u \in Users : emailOf[u] = email}
     IN \/ /\ \E u \in known : wanted' = [wanted EXCEPT ![a] = Append(@, u)]
           /\ UNCHANGED <<phase, faults, sound>>
        \/ /\ known = {}
           /\ Goto(a, "panicked")
           /\ UNCHANGED <<wanted, faults, sound>>
        \/ /\ Fault
           /\ sound' = [sound EXCEPT ![a] = FALSE]
           /\ UNCHANGED <<phase, wanted>>
  /\ asked' = [asked EXCEPT ![a] = @ + 1]
  /\ UNCHANGED <<member, want, pos, toAdd, toRemove, result, runs, alone>>

Resolved(a) == phase[a] = "resolve" /\ asked[a] = Len(Policy(a).emails)
HasAssignments(a) == wanted[a] # <<>> \/ Policy(a).emails = <<>>

\* A policy none of whose subjects was found changes nothing.
NobodyFound(a) ==
  /\ Resolved(a) /\ ~HasAssignments(a)
  /\ NextPolicy(a)
  /\ UNCHANGED <<member, want, policies, result, runs, faults, sound, alone>>

ShouldAdd(a, existing) == {i \in DOMAIN wanted[a] : <<Policy(a).group, wanted[a][i]>> \notin existing}

\* Mutant: a policy without subjects removes nobody.
ShouldRemove_NotAll(a, existing) ==
  {u \in Users \ Range(wanted[a]) : <<Policy(a).group, u>> \in existing /\ wanted[a] # <<>>}

ShouldRemove(a, existing) == {u \in Users \ Range(wanted[a]) : <<Policy(a).group, u>> \in existing}

\* GetAppRoleAssignedTo, which reads the first page only, and the comparison
\* with what the policy wants.  Without subjects all assignments of the role go.
ListAssignments(a) ==
  /\ Resolved(a) /\ HasAssignments(a)
  /\ sound' = [sound EXCEPT ![a] = @ /\ Listings = {Assignments}]
  /\ \E existing \in Listings :
       /\ toAdd' = [toAdd EXCEPT ![a] = ShouldAdd(a, existing)]
       /\ toRemove' = [toRemove EXCEPT ![a] = ShouldRemove(a, existing)]
  /\ Goto(a, "change")
  /\ UNCHANGED <<member, want, pos, asked, wanted, result, runs, faults, alone>>

Sets(a, users) == member' = [member EXCEPT ![Policy(a).group] = users]
Holders(a) == member[Policy(a).group]

Return(a, status) ==
  /\ Goto(a, "done")
  /\ result' = [result EXCEPT ![a] = status]
  /\ UNCHANGED <<want, pos, runs, sound, alone>>

\* The first position that is left, if one is.
NextToAdd(a) == {i \in toAdd[a] : \A j \in toAdd[a] : i <= j}

\* addAppRolesAssignedTo, in order; Azure refuses to assign a role twice.
AddAssignment(a) ==
  /\ phase[a] = "change"
  /\ \E i \in NextToAdd(a) :
       /\ wanted[a][i] \notin Holders(a)
       /\ Sets(a, Holders(a) \union {wanted[a][i]})
       /\ toAdd' = [toAdd EXCEPT ![a] = @ \ {i}]
  /\ UNCHANGED <<want, phase, pos, asked, wanted, toRemove, result, runs, faults, sound, alone>>

AddRefused(a) ==
  /\ phase[a] = "change" /\ \E i \in NextToAdd(a) : wanted[a][i] \in Holders(a)
  /\ Return(a, 500)
  /\ UNCHANGED <<member, policies, faults>>

\* deleteAppRolesAssignedTo; what is gone already is an error.
DeleteAssignment(a) ==
  /\ phase[a] = "change" /\ toAdd[a] = {}
  /\ \E u \in toRemove[a] :
       IF u \in Holders(a)
       THEN /\ Sets(a, Holders(a) \ {u})
            /\ toRemove' = [toRemove EXCEPT ![a] = @ \ {u}]
            /\ UNCHANGED <<want, phase, pos, result, runs, sound, alone>>
       ELSE Return(a, 500) /\ UNCHANGED <<member, toRemove>>
  /\ UNCHANGED <<asked, wanted, toAdd, faults>>

Changed(a) ==
  /\ phase[a] = "change" /\ toAdd[a] = {} /\ toRemove[a] = {}
  /\ NextPolicy(a)
  /\ UNCHANGED <<member, want, policies, result, runs, faults, sound, alone>>

ReturnCreated(a) ==
  /\ phase[a] = "policy" /\ pos[a] > Len(want[a])
  /\ Return(a, 201)
  /\ UNCHANGED <<member, policies, faults>>

\* The listing fails, or a change does, with or without effect.
CallFails(a) ==
  /\ Fault
  /\ \/ Resolved(a) /\ HasAssignments(a) /\ UNCHANGED member
     \/ /\ phase[a] = "change"
        /\ \E i \in NextToAdd(a) : UNCHANGED member \/ Sets(a, Holders(a) \union {wanted[a][i]})
     \/ /\ phase[a] = "change" /\ toAdd[a] = {}
        /\ \E u \in toRemove[a] : UNCHANGED member \/ Sets(a, Holders(a) \ {u})
  /\ Return(a, 500)
  /\ UNCHANGED policies

Run(a) ==
  \/ GetPolicyInfo(a) \/ Start(a) \/ GetServicePrincipals(a) \/ SkipPolicy(a) \/ StartPolicy(a)
  \/ Resolve(a) \/ NobodyFound(a) \/ ListAssignments(a)
  \/ AddAssignment(a) \/ AddRefused(a) \/ DeleteAssignment(a) \/ Changed(a) \/ ReturnCreated(a)

Next == \E a \in Admins : Run(a) \/ CallFails(a)

Spec == Init /\ [][Next]_vars
-----------------------------------------------------------------------------
EmailsIn(users) == {emailOf[u] : u \in users} \ {NoEmail}

\* The last policy of list w for each role is in effect.
Applied(w) ==
  \A j \in DOMAIN w :
    w[j].group \in Groups /\ (\A k \in DOMAIN w : w[k].group = w[j].group => k <= j)
      => EmailsIn(member[w[j].group]) = Range(w[j].emails)

\* A run that had the application to itself, whose lookups all worked, whose
\* listings fit one page and that returned 201 has assigned each role to whom
\* the policies name, whatever failed or panicked runs left before.
CreatedMeansApplied ==
  \A a \in Admins : sound[a] /\ alone[a] /\ result[a] = 201 => Applied(want[a])

\* A role is taken only from a user whom the policy at hand does not name,
\* and only when everybody it names has the role: a step of administrators
\* whose lookups work.  Nobody gets a role that no policy at hand gives.
ChangesAreWanted ==
  \A g \in Groups : \A u \in Users :
    LET wantedBy(a) == Policy(a).group = g /\ emailOf[u] \in Range(Policy(a).emails)
    IN /\ u \in member[g] \ member'[g] =>
            \E a \in Admins :
              /\ phase[a] = "change" /\ Policy(a).group = g
              /\ sound[a] => ~wantedBy(a) \/ \E v \in Users \ {u} : emailOf[v] = emailOf[u]
              /\ sound[a] /\ alone[a] => Range(Policy(a).emails) \subseteq EmailsIn(member[g])
       /\ u \in member'[g] \ member[g] =>
            \E a \in Admins : phase[a] = "change" /\ wantedBy(a)
=============================================================================
