---------------------------- MODULE MembersProofs ----------------------------
(***************************************************************************)
(* Proofs about who has a role or is in a group, for any number of         *)
(* administrators, users, groups, policies, runs and failures.  Each       *)
(* module, GoogleIap, Cognito, Azure and ApiGateway, has an inductive      *)
(* invariant and an assumption about its lists; the last part carries what *)
(* they promise over to Platforms.                                         *)
(***************************************************************************)
EXTENDS Platforms, FiniteSetTheorems, TLAPS

Resting == {"idle", "done"}

\* A run that nobody's overlapped is the only one under way.
AloneOnly ==
  \A a \in Admins : alone[a] => \A b \in Admins \ {a} : phase[b] \in Resting

DoneIfCreated == \A a \in Admins : result[a] = 201 => phase[a] = "done"

-----------------------------------------------------------------------------
(* GoogleIap. *)

\* What is set is a list.
IapAssumption == \A w \in Policies : \E S : w \in Seq(S)

IapTypeOK ==
  /\ want \in [Admins -> Policies]
  /\ phase \in [Admins -> {"idle", "set", "done"}]
  /\ pos \in [Admins -> Nat \ {0}]
  /\ result \in [Admins -> Nat]
  /\ sound \in [Admins -> BOOLEAN] /\ alone \in [Admins -> BOOLEAN]

\* The policy before the one at hand is what a run alone has left.
IapSet ==
  \A a \in Admins : sound[a] /\ alone[a] =>
    /\ phase[a] = "set" =>
         pos[a] <= Len(want[a]) + 1
         /\ (pos[a] > 1 => bindings = G!Replaced(want[a][pos[a] - 1]))
    /\ result[a] = 201 /\ want[a] # <<>> => bindings = G!Replaced(want[a][Len(want[a])])

IapInv == IapTypeOK /\ AloneOnly /\ DoneIfCreated /\ IapSet

LEMMA ListFacts ==
  ASSUME NEW w, \E S : w \in Seq(S)
  PROVE  Len(w) \in Nat /\ DOMAIN w = 1..Len(w) /\ (Len(w) = 0 => w = <<>>)
OBVIOUS

LEMMA IapInit == IapAssumption /\ G!Init => IapInv
BY ListFacts
DEF IapAssumption, G!Init, IapInv, IapTypeOK, AloneOnly, DoneIfCreated, IapSet, Resting

LEMMA IapStep == IapAssumption /\ IapInv /\ [G!Next]_G!vars => IapInv'
<1> SUFFICES ASSUME IapAssumption, IapInv, [G!Next]_G!vars PROVE IapInv'
  OBVIOUS
<1>0. \A a \in Admins : Len(want[a]) \in Nat /\ (Len(want[a]) = 0 => want[a] = <<>>)
  BY ListFacts DEF IapAssumption, IapInv, IapTypeOK
<1> USE DEF IapInv, IapTypeOK, G!Goto, Resting
<1>1. ASSUME NEW a \in Admins, G!Start(a) PROVE IapInv'
  <2>1. IapTypeOK' BY <1>1 DEF G!Start
  <2>2. AloneOnly' BY <1>1 DEF G!Start, G!Stopped, AloneOnly
  <2>3. DoneIfCreated' BY <1>1 DEF G!Start, DoneIfCreated
  <2>4. IapSet' BY <1>0, <1>1 DEF G!Start, IapSet
  <2> QED BY <2>1, <2>2, <2>3, <2>4
<1>2. ASSUME NEW a \in Admins, G!SetBackendPolicy(a) PROVE IapInv'
  <2>1. /\ phase[a] = "set" /\ pos[a] <= Len(want[a])
        /\ pos' = [pos EXCEPT ![a] = @ + 1]
        /\ UNCHANGED <<want, phase, result, alone>>
    BY <1>2 DEF G!SetBackendPolicy, G!HasPolicy
  <2>2. result[a] # 201 BY <2>1 DEF DoneIfCreated
  <2>3. \A b \in Admins : b # a => ~alone[b]
    BY <2>1 DEF AloneOnly
  <2>4. AloneOnly' /\ DoneIfCreated' BY <2>1 DEF AloneOnly, DoneIfCreated
  <2>5. \A b \in Admins : pos'[b] \in Nat \ {0} /\ (b # a => pos'[b] = pos[b]) BY <2>1
  <2>6. pos'[a] = pos[a] + 1 BY <2>1
  <2>7. CASE bindings' = G!Replaced(want[a][pos[a]]) /\ UNCHANGED sound
    <3>1. IapSet' BY <1>0, <2>1, <2>2, <2>3, <2>6, <2>7 DEF IapSet, G!Replaced
    <3> QED BY <2>1, <2>4, <2>7, <3>1
  <2>8. CASE UNCHANGED bindings /\ sound' = [sound EXCEPT ![a] = FALSE]
    <3>1. IapSet' BY <2>1, <2>3, <2>8 DEF IapSet, G!Replaced
    <3> QED BY <2>1, <2>4, <2>8, <3>1
  <2> QED BY <1>2, <2>7, <2>8 DEF G!SetBackendPolicy, G!Policy
<1>3. ASSUME NEW a \in Admins, G!MappingFails(a) \/ G!CallFails(a) PROVE IapInv'
  <2>1. IapTypeOK' BY <1>3 DEF G!MappingFails, G!CallFails, G!Return
  <2>2. AloneOnly' /\ DoneIfCreated'
    BY <1>3 DEF G!MappingFails, G!CallFails, G!Return, AloneOnly, DoneIfCreated
  <2>3. IapSet'
    <3>1. /\ UNCHANGED <<want, pos, alone, sound>> /\ phase[a] = "set"
          /\ phase' = [phase EXCEPT ![a] = "done"] /\ result' = [result EXCEPT ![a] = 500]
          /\ G!CallFails(a) \/ UNCHANGED bindings
      BY <1>3 DEF G!MappingFails, G!CallFails, G!Return, G!HasPolicy
    <3>2. phase'[a] = "done" /\ result'[a] # 201 BY <3>1
    <3>3. ASSUME NEW b \in Admins \ {a}
          PROVE  phase'[b] = phase[b] /\ result'[b] = result[b] /\ ~alone'[b]
      BY <3>1, <3>3 DEF AloneOnly
    <3> QED BY <3>1, <3>2, <3>3 DEF IapSet
  <2> QED BY <2>1, <2>2, <2>3
<1>4. ASSUME NEW a \in Admins, G!ReturnCreated(a) PROVE IapInv'
  <2>1. IapTypeOK' BY <1>4 DEF G!ReturnCreated, G!Return
  <2>2. AloneOnly' /\ DoneIfCreated' BY <1>4 DEF G!ReturnCreated, G!Return, AloneOnly, DoneIfCreated
  <2>3. IapSet' BY <1>0, <1>4 DEF G!ReturnCreated, G!Return, IapSet
  <2> QED BY <2>1, <2>2, <2>3
<1>5. CASE UNCHANGED G!vars BY <1>5 DEF G!vars, AloneOnly, DoneIfCreated, IapSet, G!Replaced
<1> QED BY <1>1, <1>2, <1>3, <1>4, <1>5 DEF G!Next

\* GoogleProvider.SetPolicyInfo that returns 201, alone and with no call
\* refused, leaves the last policy only: of all others, those that were there
\* and those set before it, nothing remains.
THEOREM LastPolicyRemains ==
  ASSUME IapAssumption
  PROVE  G!Spec => []G!CreatedMeansLast
<1>1. IapInv => G!CreatedMeansLast
  <2> SUFFICES ASSUME IapInv, NEW a \in Admins,
                      sound[a], alone[a], result[a] = 201, want[a] # <<>>
               PROVE  LET last == want[a][Len(want[a])]
                          left == G!ConvertCelToCondition(G!ConvertPolicyCondition(last.condition))
                      IN /\ left # Unmappable => G!GetPolicyInfo # {}
                         /\ \A p \in G!GetPolicyInfo :
                              /\ p.subjects = last.subjects /\ p.condition = left
                              /\ G!ConvertActionToRole(p.actions) = G!ConvertActionToRole(last.actions)
    BY DEF G!CreatedMeansLast
  <2> DEFINE last == want[a][Len(want[a])]
             b == G!MapPolicyToBinding(last)
             left == G!ConvertCelToCondition(G!ConvertPolicyCondition(last.condition))
  <2>0. bindings = {b} BY DEF IapInv, IapSet, G!Replaced
  <2>2. ASSUME NEW role PROVE G!ConvertActionToRole(G!ConvertRoleToAction(role)) = role
    <3>1. CASE role = G!NoRole
      BY <3>1 DEF G!ConvertActionToRole, G!ConvertRoleToAction
    <3>2. CASE role # G!NoRole
      <4>1. PICK x : x = G!Action(TRUE, role) OBVIOUS
      <4>2. PICK l : l = <<x>> OBVIOUS
      <4>3. G!ConvertRoleToAction(role) = l BY <3>2, <4>1, <4>2 DEF G!ConvertRoleToAction
      <4>4. l # <<>> /\ Head(l) = x BY <4>2
      <4>5. x.role = role BY <4>1 DEF G!Action
      <4>6. G!ConvertActionToRole(l) = role BY <4>4, <4>5 DEF G!ConvertActionToRole
      <4> QED BY <4>3, <4>6
    <3> QED BY <3>1, <3>2
  <2> HIDE DEF last
  <2>3. /\ b.role = G!ConvertActionToRole(last.actions)
        /\ b.members = last.subjects /\ b.condition = G!ConvertPolicyCondition(last.condition)
    BY DEF G!MapPolicyToBinding
  <2> HIDE DEF b, left
  <2>4. LET p == G!MapBindingToPolicy(Object, b)
        IN /\ p.actions = G!ConvertRoleToAction(b.role)
           /\ p.subjects = b.members /\ p.condition = G!ConvertCelToCondition(b.condition)
    BY DEF G!MapBindingToPolicy
  <2>5. left = G!ConvertCelToCondition(b.condition) BY <2>3 DEF left
  <2>6. G!GetPolicyInfo = IF left = Unmappable THEN {} ELSE {G!MapBindingToPolicy(Object, b)}
    <3>1. (\E x \in bindings : G!ConvertCelToCondition(x.condition) = Unmappable) <=> left = Unmappable
      BY <2>0, <2>5
    <3>2. {G!MapBindingToPolicy(Object, x) : x \in bindings} = {G!MapBindingToPolicy(Object, b)}
      BY <2>0
    <3> QED BY <3>1, <3>2 DEF G!GetPolicyInfo
  <2> QED BY <2>2, <2>3, <2>4, <2>5, <2>6 DEF last, left
<1> QED BY <1>1, IapInit, IapStep, PTL DEF G!Spec

-----------------------------------------------------------------------------
(* Cognito. *)

\* What is set is a list; the pool's groups have users of the pool.
CognitoAssumption ==
  /\ \A w \in Wants : \E S : w \in Seq(S)
  /\ Members \subseteq [Groups -> SUBSET Users]

CognitoTypeOK ==
  /\ member \in [Groups -> SUBSET Users]
  /\ want \in [Admins -> Wants]
  /\ phase \in [Admins -> {"idle", "groups", "list", "resolve", "change", "done"}]
  /\ pos \in [Admins -> Nat \ {0}]
  /\ known \in [Admins -> SUBSET Groups]
  /\ asked = [a \in Admins |-> asked[a]]
  /\ existing \in [Admins -> SUBSET Users] /\ wanted \in [Admins -> SUBSET Users]
  /\ toRemove \in [Admins -> SUBSET Users] /\ toAdd \in [Admins -> SUBSET Users]
  /\ result \in [Admins -> Nat]
  /\ sound \in [Admins -> BOOLEAN] /\ whole \in [Admins -> BOOLEAN]
  /\ alone \in [Admins -> BOOLEAN]

\* The users wanted are those of the emails asked for, where lookups work one
\* for each; what is left of the differences keeps to the two lists.
LookupOK(a) ==
  /\ phase[a] \in {"resolve", "change"} =>
       /\ pos[a] <= Len(want[a]) /\ C!Policy(a).group \in Groups
       /\ asked[a] \subseteq C!Policy(a).emails
       /\ \A u \in wanted[a] : emailOf[u] \in asked[a]
       /\ sound[a] => \A u \in Users :
            emailOf[u] \in asked[a] => \E v \in wanted[a] : emailOf[v] = emailOf[u]
  /\ phase[a] = "change" =>
       /\ asked[a] = C!Policy(a).emails
       /\ toAdd[a] \subseteq wanted[a] /\ toRemove[a] \intersect wanted[a] = {}
  /\ phase[a] \notin {"resolve", "change"} => asked[a] = {} /\ wanted[a] = {}

\* Of the first n policies of list w the last for each group, but for those in
\* X, is in effect.
InEffect(w, n, X) ==
  \A j \in 1..n :
    w[j].group \in Groups \ X /\ (\A k \in 1..n : w[k].group = w[j].group => k <= j)
      => C!EmailsIn(member[w[j].group]) = C!Known(w[j].emails)

Emailed(users) == {u \in users : emailOf[u] # NoEmail}

\* What a run alone, whose lookups worked and whose listings were whole, has set
\* so far and will have set when what is left of the differences is applied.
AloneOK(a) ==
  sound[a] /\ whole[a] /\ alone[a] =>
    /\ phase[a] \in {"list", "resolve", "change"} =>
         pos[a] <= Len(want[a]) + 1 /\ known[a] = Groups
    /\ phase[a] = "groups" => pos[a] = 1
    /\ phase[a] \in {"list", "resolve"} => InEffect(want[a], pos[a] - 1, {})
    /\ phase[a] = "resolve" => existing[a] = Emailed(member[C!Policy(a).group])
    /\ phase[a] = "change" =>
         LET g == C!Policy(a).group
         IN  /\ InEffect(want[a], pos[a] - 1, {g})
             /\ Emailed((member[g] \ toRemove[a]) \union toAdd[a]) = Emailed(wanted[a])
    /\ result[a] = 201 => C!Applied(want[a])

CognitoInv ==
  /\ CognitoTypeOK /\ AloneOnly /\ DoneIfCreated
  /\ \A a \in Admins : LookupOK(a) /\ AloneOK(a)

\* What a step of a leaves as it is of the others.
OthersKept(a) ==
  \A b \in Admins \ {a} :
    /\ want'[b] = want[b] /\ phase'[b] = phase[b] /\ pos'[b] = pos[b]
    /\ asked'[b] = asked[b] /\ wanted'[b] = wanted[b]
    /\ toRemove'[b] = toRemove[b] /\ toAdd'[b] = toAdd[b] /\ result'[b] = result[b]
    /\ sound'[b] = sound[b]

LEMMA WantFacts ==
  ASSUME CognitoAssumption, CognitoTypeOK, NEW a \in Admins
  PROVE  Len(want[a]) \in Nat /\ DOMAIN want[a] = 1..Len(want[a])
BY ListFacts DEF CognitoAssumption, CognitoTypeOK

\* A run under way is the only one that may be alone, so that its step must
\* keep no more than what it did itself.
LEMMA OwnStep ==
  ASSUME CognitoInv, NEW a \in Admins, phase[a] \notin Resting, CognitoTypeOK',
         OthersKept(a), UNCHANGED alone, LookupOK(a)', AloneOK(a)',
         result'[a] = 201 => phase'[a] = "done"
  PROVE  CognitoInv'
<1>1. \A b \in Admins : b # a => ~alone[b] BY DEF CognitoInv, AloneOnly
<1>2. AloneOnly' BY <1>1 DEF CognitoInv, AloneOnly, OthersKept
<1>3. DoneIfCreated' BY DEF CognitoInv, DoneIfCreated, OthersKept
<1>4. ASSUME NEW b \in Admins \ {a} PROVE LookupOK(b)' /\ AloneOK(b)'
  <2>1. LookupOK(b) BY DEF CognitoInv
  <2>2. LookupOK(b)' BY <2>1 DEF OthersKept, LookupOK, C!Policy
  <2>3. ~alone'[b] BY <1>1
  <2> QED BY <2>2, <2>3 DEF AloneOK
<1> QED BY <1>2, <1>3, <1>4 DEF CognitoInv

\* The maps and the differences of a policy that is done with are gone.
Forgotten(a) ==
  /\ existing' \in [Admins -> SUBSET Users] /\ wanted' \in [Admins -> SUBSET Users]
  /\ toRemove' \in [Admins -> SUBSET Users] /\ toAdd' \in [Admins -> SUBSET Users]
  /\ asked' = [b \in Admins |-> asked'[b]]
  /\ asked'[a] = {} /\ wanted'[a] = {}
  /\ \A b \in Admins \ {a} :
       /\ asked'[b] = asked[b] /\ wanted'[b] = wanted[b]
       /\ toRemove'[b] = toRemove[b] /\ toAdd'[b] = toAdd[b]

LEMMA ForgetFacts ==
  ASSUME CognitoTypeOK, NEW a \in Admins, C!Forget(a)
  PROVE  Forgotten(a)
<1>1. asked' = [b \in Admins |-> asked'[b]] /\ asked'[a] = {}
      /\ \A b \in Admins \ {a} : asked'[b] = asked[b]
  BY DEF CognitoTypeOK, C!Forget
<1> QED BY <1>1 DEF CognitoTypeOK, C!Forget, Forgotten

LEMMA CognitoInit == CognitoAssumption /\ C!Init => CognitoInv
BY DEF CognitoAssumption, C!Init, CognitoInv, CognitoTypeOK, AloneOnly, DoneIfCreated, LookupOK,
       AloneOK, Resting

\* Skipped or applied, the policy at hand is the last of its group so far.
LEMMA OneMore ==
  ASSUME NEW w, NEW n \in Nat \ {0}, NEW X,
         InEffect(w, n - 1, X), X \subseteq {w[n].group},
         w[n].group \in Groups => C!EmailsIn(member[w[n].group]) = C!Known(w[n].emails)
  PROVE  InEffect(w, n, {})
<1> SUFFICES ASSUME NEW j \in 1..n, w[j].group \in Groups,
                    \A k \in 1..n : w[k].group = w[j].group => k <= j
             PROVE  C!EmailsIn(member[w[j].group]) = C!Known(w[j].emails)
  BY DEF InEffect
<1>1. CASE j = n BY <1>1
<1>2. CASE j # n
  <2>1. j \in 1..(n - 1) /\ n \in 1..n /\ ~(n <= j) BY <1>2
  <2>2. w[n].group # w[j].group BY <2>1
  <2>3. w[j].group \in Groups \ X BY <2>2
  <2>4. \A k \in 1..(n - 1) : w[k].group = w[j].group => k <= j OBVIOUS
  <2> QED BY <2>1, <2>3, <2>4 DEF InEffect
<1> QED BY <1>1, <1>2

LEMMA AllInEffect ==
  ASSUME NEW w, Len(w) \in Nat, DOMAIN w = 1..Len(w), InEffect(w, Len(w), {})
  PROVE  C!Applied(w)
BY DEF InEffect, C!Applied

LEMMA StartStep ==
  ASSUME CognitoInv, NEW a \in Admins, C!Start(a)
  PROVE  CognitoInv'
<1> USE DEF C!Goto, Resting
<1>1. /\ UNCHANGED <<member, want, existing, asked, wanted, toRemove, toAdd>>
      /\ alone' = [b \in Admins |-> b = a /\ \A c \in Admins \ {a} : phase[c] \in Resting]
      /\ phase' = [phase EXCEPT ![a] = "groups"] /\ result' = [result EXCEPT ![a] = 0]
      /\ pos' = [pos EXCEPT ![a] = 1] /\ sound' = [sound EXCEPT ![a] = TRUE]
      /\ whole' = [whole EXCEPT ![a] = TRUE] /\ UNCHANGED known
      /\ phase[a] \in Resting
  BY DEF C!Start, C!policies
<1>2. CognitoTypeOK' BY <1>1 DEF CognitoInv, CognitoTypeOK
<1>3. AloneOnly' BY <1>1 DEF CognitoInv, CognitoTypeOK, AloneOnly
<1>4. DoneIfCreated' BY <1>1 DEF CognitoInv, CognitoTypeOK, DoneIfCreated
<1>5. phase'[a] = "groups" /\ result'[a] = 0 /\ pos'[a] = 1
  BY <1>1 DEF CognitoInv, CognitoTypeOK
<1>6. LookupOK(a)' /\ AloneOK(a)'
  <2>1. LookupOK(a) BY DEF CognitoInv
  <2> QED BY <1>1, <1>5, <2>1 DEF LookupOK, AloneOK
<1>7. ASSUME NEW b \in Admins \ {a} PROVE LookupOK(b)' /\ AloneOK(b)'
  <2>1. OthersKept(a) BY <1>1 DEF CognitoInv, CognitoTypeOK, OthersKept
  <2>2. LookupOK(b) BY DEF CognitoInv
  <2>3. LookupOK(b)' BY <2>1, <2>2 DEF OthersKept, LookupOK, C!Policy
  <2>4. ~alone'[b] BY <1>1
  <2> QED BY <2>3, <2>4 DEF AloneOK
<1> QED BY <1>2, <1>3, <1>4, <1>6, <1>7 DEF CognitoInv

\* The steps that read the pool, look users up or compare.
LEMMA LookupStep ==
  ASSUME CognitoAssumption, CognitoInv, NEW a \in Admins,
         C!GetGroups(a) \/ C!SkipPolicy(a) \/ C!ListUsers(a) \/ C!Resolve(a) \/ C!Compare(a)
  PROVE  CognitoInv'
<1> USE DEF C!Goto, C!policies, Resting
<1>0. /\ CognitoTypeOK /\ LookupOK(a) /\ AloneOK(a) /\ phase[a] # "done" /\ result[a] # 201
      /\ phase[a] \notin Resting
  BY DEF CognitoInv, CognitoTypeOK, DoneIfCreated, C!GetGroups, C!SkipPolicy, C!ListUsers, C!Resolve,
         C!Compare, C!HasPolicy
<1>L. Len(want[a]) \in Nat BY <1>0, WantFacts
<1>1. CASE C!GetGroups(a)
  <2>0. PICK page \in SUBSET Groups :
          known' = [known EXCEPT ![a] = page] /\ whole' = [whole EXCEPT ![a] = @ /\ page = Groups]
    BY <1>1 DEF C!GetGroups, C!Listings
  <2>1. CognitoTypeOK' BY <1>0, <1>1, <2>0 DEF C!GetGroups, CognitoTypeOK
  <2>2. phase'[a] = "list" /\ OthersKept(a) BY <1>0, <1>1 DEF C!GetGroups, CognitoTypeOK, OthersKept
  <2>3. UNCHANGED <<member, want, pos, asked, wanted, result, sound, alone>> /\ phase[a] = "groups"
    BY <1>1 DEF C!GetGroups
  <2>4. LookupOK(a)' BY <1>0, <2>2, <2>3 DEF LookupOK
  <2>5. ASSUME sound'[a], whole'[a], alone'[a] PROVE pos'[a] = 1 /\ known'[a] = Groups
    <3>1. known'[a] = page /\ whole[a] /\ page = Groups BY <1>0, <2>0, <2>5 DEF CognitoTypeOK
    <3> QED BY <1>0, <2>3, <2>5, <3>1 DEF AloneOK
  <2>6. AloneOK(a)' BY <1>0, <1>L, <2>2, <2>3, <2>5 DEF AloneOK, InEffect
  <2> QED BY <1>0, <2>1, <2>2, <2>3, <2>4, <2>6, OwnStep
<1>2. CASE C!SkipPolicy(a)
  <2>1. CognitoTypeOK' BY <1>0, <1>2 DEF C!SkipPolicy, C!NextPolicy, C!history, CognitoTypeOK
  <2>2. phase'[a] = "list" /\ pos'[a] = pos[a] + 1 /\ OthersKept(a)
    BY <1>0, <1>2 DEF C!SkipPolicy, C!NextPolicy, C!HasPolicy, C!history, CognitoTypeOK, OthersKept
  <2>3. /\ UNCHANGED <<member, want, known, asked, wanted, result, sound, whole, alone>>
        /\ phase[a] = "list" /\ pos[a] <= Len(want[a]) /\ want[a][pos[a]].group \notin known[a]
    BY <1>2 DEF C!SkipPolicy, C!NextPolicy, C!HasPolicy, C!history, C!Policy
  <2>4. LookupOK(a)' BY <1>0, <2>2, <2>3 DEF LookupOK
  <2>5. ASSUME sound[a], whole[a], alone[a] PROVE InEffect(want[a], pos[a], {}) /\ known[a] = Groups
    <3>1. InEffect(want[a], pos[a] - 1, {}) /\ known[a] = Groups BY <1>0, <2>3, <2>5 DEF AloneOK
    <3> QED BY <1>0, <2>3, <3>1, OneMore DEF CognitoTypeOK
  <2>6. pos[a] \in Nat /\ pos'[a] - 1 = pos[a] BY <1>0, <2>2 DEF CognitoTypeOK
  <2>8. AloneOK(a)' BY <1>0, <1>L, <2>2, <2>3, <2>5, <2>6 DEF AloneOK, InEffect
  <2> QED BY <1>0, <2>1, <2>2, <2>3, <2>4, <2>8, OwnStep
<1>3. CASE C!ListUsers(a)
  <2> DEFINE g == C!Policy(a).group
  <2>1. PICK page \in SUBSET member[g], lost \in SUBSET member[g] :
          /\ IF lost = {} THEN UNCHANGED <<faults, sound>>
             ELSE C!Fault /\ sound' = [sound EXCEPT ![a] = FALSE]
          /\ whole' = [whole EXCEPT ![a] = @ /\ page = member[g]]
          /\ existing' = [existing EXCEPT ![a] = Emailed(page \ lost)]
    BY <1>3 DEF C!ListUsers, C!Listings, Emailed
  <2>2. /\ UNCHANGED <<member, want, pos, known, asked, wanted, toRemove, toAdd, result, alone>>
        /\ phase[a] = "list" /\ pos[a] <= Len(want[a]) /\ g \in Groups
        /\ phase' = [phase EXCEPT ![a] = "resolve"]
    BY <1>0, <1>3 DEF C!ListUsers, C!HasPolicy, CognitoTypeOK
  <2>3. Emailed(page \ lost) \subseteq Users BY <1>0, <2>2 DEF CognitoTypeOK, Emailed
  <2> HIDE DEF g
  <2>4. sound' \in [Admins -> BOOLEAN] /\ (\A b \in Admins \ {a} : sound'[b] = sound[b])
        /\ (sound'[a] => sound[a] /\ lost = {})
        /\ whole' \in [Admins -> BOOLEAN] /\ (whole'[a] => whole[a] /\ page = member[g])
    <3>1. sound \in [Admins -> BOOLEAN] /\ whole \in [Admins -> BOOLEAN] BY <1>0 DEF CognitoTypeOK
    <3>2. (sound' = sound /\ lost = {}) \/ sound' = [sound EXCEPT ![a] = FALSE] BY <2>1
    <3> QED BY <2>1, <3>1, <3>2
  <2>5. CognitoTypeOK'
    <3>1. existing' \in [Admins -> SUBSET Users] BY <1>0, <2>1, <2>3 DEF CognitoTypeOK
    <3>2. asked' = [b \in Admins |-> asked'[b]] BY <1>0, <2>2 DEF CognitoTypeOK
    <3>3. phase' \in [Admins -> {"idle", "groups", "list", "resolve", "change", "done"}]
      BY <1>0, <2>2 DEF CognitoTypeOK
    <3> QED BY <1>0, <2>2, <2>4, <3>1, <3>2, <3>3 DEF CognitoTypeOK
  <2>6. OthersKept(a) BY <1>0, <2>2, <2>4 DEF CognitoTypeOK, OthersKept
  <2>7. phase'[a] = "resolve" /\ asked'[a] = {} /\ wanted'[a] = {}
        /\ existing'[a] = Emailed(page \ lost)
    BY <1>0, <2>1, <2>2 DEF CognitoTypeOK, LookupOK
  <2>8. LookupOK(a)' BY <2>2, <2>7 DEF LookupOK, C!Policy, g
  <2>9. AloneOK(a)' BY <1>0, <2>2, <2>4, <2>7 DEF AloneOK, InEffect, Emailed, C!Policy, g
  <2> QED BY <1>0, <2>2, <2>5, <2>6, <2>8, <2>9, OwnStep
<1>4. CASE C!Resolve(a)
  <2>1. PICK e \in C!Policy(a).emails \ asked[a] :
          /\ asked' = [asked EXCEPT ![a] = @ \union {e}]
          /\ \/ /\ \E u \in Users : /\ emailOf[u] = e
                                    /\ wanted' = [wanted EXCEPT ![a] = @ \union {u}]
                /\ UNCHANGED <<faults, sound>>
             \/ /\ \A u \in Users : emailOf[u] # e
                /\ UNCHANGED <<wanted, faults, sound>>
             \/ /\ C!Fault
                /\ sound' = [sound EXCEPT ![a] = FALSE]
                /\ UNCHANGED wanted
    BY <1>4 DEF C!Resolve
  <2>2. /\ UNCHANGED <<member, want, phase, pos, known, existing, toRemove, toAdd, result, whole,
                       alone>>
        /\ phase[a] = "resolve"
    BY <1>4 DEF C!Resolve
  <2>3. PICK found \in SUBSET Users :
          /\ wanted' = [wanted EXCEPT ![a] = @ \union found]
          /\ \A u \in found : emailOf[u] = e
          /\ sound'[a] => sound[a] /\ (found = {} => \A u \in Users : emailOf[u] # e)
    <3>1. ASSUME UNCHANGED wanted, sound'[a] => sound[a] /\ \A u \in Users : emailOf[u] # e
          PROVE  \E found \in SUBSET Users :
                   /\ wanted' = [wanted EXCEPT ![a] = @ \union found]
                   /\ \A v \in found : emailOf[v] = e
                   /\ sound'[a] => sound[a] /\ (found = {} => \A v \in Users : emailOf[v] # e)
      <4>1. wanted' = [wanted EXCEPT ![a] = @ \union {}] BY <1>0, <3>1 DEF CognitoTypeOK
      <4>2. {} \in SUBSET Users /\ (\A v \in {} : emailOf[v] = e) OBVIOUS
      <4> QED BY <3>1, <4>1, <4>2
    <3>2. ASSUME NEW u \in Users, emailOf[u] = e, wanted' = [wanted EXCEPT ![a] = @ \union {u}],
                 UNCHANGED sound
          PROVE  \E found \in SUBSET Users :
                   /\ wanted' = [wanted EXCEPT ![a] = @ \union found]
                   /\ \A v \in found : emailOf[v] = e
                   /\ sound'[a] => sound[a] /\ (found = {} => \A v \in Users : emailOf[v] # e)
      <4>1. {u} \in SUBSET Users /\ {u} # {} /\ (\A v \in {u} : emailOf[v] = e) BY <3>2
      <4> QED BY <3>2, <4>1
    <3>3. CASE UNCHANGED sound /\ \A u \in Users : emailOf[u] # e
      BY <2>1, <3>1, <3>2, <3>3
    <3>4. CASE sound' = [sound EXCEPT ![a] = FALSE] /\ UNCHANGED wanted
      <4>1. ~sound'[a] BY <1>0, <3>4 DEF CognitoTypeOK
      <4> QED BY <3>1, <3>4, <4>1
    <3> QED BY <2>1, <3>2, <3>3, <3>4
  <2>4. sound' \in [Admins -> BOOLEAN] /\ (\A b \in Admins \ {a} : sound'[b] = sound[b])
    <3>1. sound \in [Admins -> BOOLEAN] BY <1>0 DEF CognitoTypeOK
    <3>2. sound' = sound \/ sound' = [sound EXCEPT ![a] = FALSE] BY <2>1
    <3> QED BY <3>1, <3>2
  <2>5. wanted'[a] = wanted[a] \union found /\ asked'[a] = asked[a] \union {e}
    BY <1>0, <2>1, <2>3 DEF CognitoTypeOK
  <2>6. CognitoTypeOK'
    <3>1. wanted' \in [Admins -> SUBSET Users] BY <1>0, <2>3 DEF CognitoTypeOK
    <3>2. asked' = [b \in Admins |-> asked'[b]] BY <1>0, <2>1 DEF CognitoTypeOK
    <3> QED BY <1>0, <2>2, <2>4, <3>1, <3>2 DEF CognitoTypeOK
  <2>7. OthersKept(a) BY <1>0, <2>1, <2>2, <2>3, <2>4 DEF CognitoTypeOK, OthersKept
  <2>8. LookupOK(a)'
    <3>1. asked'[a] \subseteq C!Policy(a)'.emails /\ C!Policy(a)' = C!Policy(a)
      BY <1>0, <2>1, <2>2, <2>5 DEF LookupOK, C!Policy
    <3>2. \A u \in wanted'[a] : emailOf[u] \in asked'[a] BY <1>0, <2>2, <2>3, <2>5 DEF LookupOK
    <3>3. ASSUME sound'[a], NEW u \in Users, emailOf[u] \in asked'[a]
          PROVE  \E v \in wanted'[a] : emailOf[v] = emailOf[u]
      BY <1>0, <2>2, <2>3, <2>5, <3>3 DEF LookupOK
    <3> QED BY <1>0, <2>2, <3>1, <3>2, <3>3 DEF LookupOK
  <2>9. AloneOK(a)' BY <1>0, <2>2, <2>3 DEF AloneOK, InEffect, C!Policy
  <2> QED BY <1>0, <2>2, <2>6, <2>7, <2>8, <2>9, OwnStep
<1>5. CASE C!Compare(a)
  <2>1. /\ UNCHANGED <<member, want, pos, known, existing, asked, wanted, result, sound, whole,
                       alone>>
        /\ phase[a] = "resolve" /\ asked[a] = C!Policy(a).emails
        /\ toRemove' = [toRemove EXCEPT ![a] = existing[a] \ wanted[a]]
        /\ toAdd' = [toAdd EXCEPT ![a] = wanted[a] \ existing[a]]
        /\ phase' = [phase EXCEPT ![a] = "change"]
    BY <1>5 DEF C!Compare, C!history
  <2>2. /\ phase'[a] = "change" /\ toRemove'[a] = existing[a] \ wanted[a]
        /\ toAdd'[a] = wanted[a] \ existing[a] /\ C!Policy(a)' = C!Policy(a)
    BY <1>0, <2>1 DEF CognitoTypeOK, C!Policy
  <2>3. CognitoTypeOK' BY <1>0, <2>1 DEF CognitoTypeOK
  <2>4. OthersKept(a) BY <1>0, <2>1 DEF CognitoTypeOK, OthersKept
  <2>5. LookupOK(a)' BY <1>0, <2>1, <2>2 DEF LookupOK
  <2>6. ASSUME sound[a], whole[a], alone[a]
        PROVE  LET g == C!Policy(a).group
               IN  /\ InEffect(want[a], pos[a] - 1, {g})'
                   /\ Emailed((member[g] \ toRemove'[a]) \union toAdd'[a]) = Emailed(wanted[a])
    <3> DEFINE g == C!Policy(a).group
    <3>1. existing[a] = Emailed(member[g]) /\ InEffect(want[a], pos[a] - 1, {})
      BY <1>0, <2>1, <2>6 DEF AloneOK
    <3> HIDE DEF g
    <3>2. Emailed((member[g] \ toRemove'[a]) \union toAdd'[a]) = Emailed(wanted[a])
      BY <2>2, <3>1 DEF Emailed
    <3>3. InEffect(want[a], pos[a] - 1, {g}) BY <3>1 DEF InEffect
    <3>4. InEffect(want[a], pos[a] - 1, {g})' BY <2>1, <2>2, <3>3 DEF InEffect, g
    <3> QED BY <3>2, <3>4 DEF g
  <2>7. AloneOK(a)' BY <1>0, <2>1, <2>2, <2>6 DEF AloneOK
  <2> QED BY <1>0, <2>1, <2>3, <2>4, <2>5, <2>7, OwnStep
<1> QED BY <1>1, <1>2, <1>3, <1>4, <1>5

\* Giving group g the users x changes what a run alone keeps only of g.
LEMMA GroupSet ==
  ASSUME CognitoTypeOK, NEW g \in Groups, NEW x \in SUBSET Users,
         member' = [member EXCEPT ![g] = x]
  PROVE  /\ member' \in [Groups -> SUBSET Users] /\ member'[g] = x
         /\ \A w, n : InEffect(w, n, {g}) =>
              \A j \in 1..n :
                w[j].group \in Groups \ {g} /\ (\A k \in 1..n : w[k].group = w[j].group => k <= j)
                  => C!EmailsIn(member'[w[j].group]) = C!Known(w[j].emails)
<1>1. \A h \in Groups \ {g} : member'[h] = member[h] BY DEF CognitoTypeOK
<1>2. \A w, n : InEffect(w, n, {g}) =>
        \A j \in 1..n :
          w[j].group \in Groups \ {g} /\ (\A k \in 1..n : w[k].group = w[j].group => k <= j)
            => C!EmailsIn(member'[w[j].group]) = C!Known(w[j].emails)
  BY <1>1 DEF InEffect
<1> QED BY <1>2 DEF CognitoTypeOK

\* The steps that change a group: one user of the differences leaves or joins.
LEMMA ChangeStep ==
  ASSUME CognitoAssumption, CognitoInv, NEW a \in Admins, C!Remove(a) \/ C!Add(a)
  PROVE  CognitoInv'
<1> DEFINE g == C!Policy(a).group
<1>0. /\ CognitoTypeOK /\ LookupOK(a) /\ AloneOK(a) /\ phase[a] = "change" /\ result[a] # 201
      /\ phase[a] \notin Resting /\ g \in Groups
  BY DEF CognitoInv, CognitoTypeOK, DoneIfCreated, LookupOK, C!Remove, C!Add, Resting
<1>1. /\ UNCHANGED <<want, phase, pos, known, existing, asked, wanted, result, sound, whole, alone>>
      /\ C!Policy(a)' = C!Policy(a)
  BY DEF C!Remove, C!Add, C!Policy, C!history
<1>2. member[g] \in SUBSET Users /\ toRemove[a] \in SUBSET Users /\ toAdd[a] \in SUBSET Users
  BY <1>0 DEF CognitoTypeOK
<1>3. ASSUME NEW x \in SUBSET Users, C!Sets(a, x), CognitoTypeOK', OthersKept(a),
             toRemove'[a] \subseteq toRemove[a], toAdd'[a] \subseteq toAdd[a],
             (x \ toRemove'[a]) \union toAdd'[a] = (member[g] \ toRemove[a]) \union toAdd[a]
      PROVE  CognitoInv'
  <2>1. LookupOK(a)' BY <1>0, <1>1, <1>3 DEF LookupOK
  <2>2. AloneOK(a)'
    <3> SUFFICES ASSUME sound[a], whole[a], alone[a]
                 PROVE  /\ pos[a] <= Len(want[a]) + 1 /\ known[a] = Groups
                        /\ InEffect(want[a], pos[a] - 1, {g})'
                        /\ Emailed((member'[g] \ toRemove'[a]) \union toAdd'[a]) = Emailed(wanted[a])
      BY <1>0, <1>1 DEF AloneOK
    <3> HIDE DEF g
    <3>1. member' = [member EXCEPT ![g] = x] BY <1>3 DEF C!Sets, g
    <3>2. /\ pos[a] <= Len(want[a]) + 1 /\ known[a] = Groups /\ InEffect(want[a], pos[a] - 1, {g})
          /\ Emailed((member[g] \ toRemove[a]) \union toAdd[a]) = Emailed(wanted[a])
      BY <1>0 DEF AloneOK, g
    <3>3. g' = g BY <1>1 DEF g
    <3>4. InEffect(want[a], pos[a] - 1, {g})'
      BY <1>0, <1>1, <1>3, <3>1, <3>2, <3>3, GroupSet DEF InEffect, C!EmailsIn, C!Known
    <3>5. member'[g] = x BY <1>0, <1>3, <3>1, GroupSet
    <3> QED BY <1>3, <3>2, <3>4, <3>5
  <2> QED BY <1>0, <1>1, <1>3, <2>1, <2>2, OwnStep
<1>4. ASSUME NEW u \in toRemove[a], C!Sets(a, member[g] \ {u}),
             toRemove' = [toRemove EXCEPT ![a] = @ \ {u}], UNCHANGED toAdd
      PROVE  CognitoInv'
  <2>1. member[g] \ {u} \in SUBSET Users /\ toRemove'[a] = toRemove[a] \ {u}
    BY <1>0, <1>2, <1>4 DEF CognitoTypeOK
  <2>2. CognitoTypeOK' BY <1>0, <1>1, <1>4, <2>1, GroupSet DEF CognitoTypeOK, C!Sets
  <2>3. OthersKept(a) BY <1>0, <1>1, <1>4 DEF CognitoTypeOK, OthersKept
  <2> HIDE DEF g
  <2> QED BY <1>3, <1>4, <2>1, <2>2, <2>3
<1>5. ASSUME NEW u \in toAdd[a], C!Sets(a, member[g] \union {u}), toRemove[a] = {},
             toAdd' = [toAdd EXCEPT ![a] = @ \ {u}], UNCHANGED toRemove
      PROVE  CognitoInv'
  <2>1. member[g] \union {u} \in SUBSET Users /\ toAdd'[a] = toAdd[a] \ {u}
    BY <1>0, <1>2, <1>5 DEF CognitoTypeOK
  <2>2. CognitoTypeOK' BY <1>0, <1>1, <1>5, <2>1, GroupSet DEF CognitoTypeOK, C!Sets
  <2>3. OthersKept(a) BY <1>0, <1>1, <1>5 DEF CognitoTypeOK, OthersKept
  <2> HIDE DEF g
  <2> QED BY <1>3, <1>5, <2>1, <2>2, <2>3
<1> QED BY <1>4, <1>5 DEF C!Remove, C!Add

\* When no differences are left the policy at hand is in effect.
LEMMA ChangedStep ==
  ASSUME CognitoAssumption, CognitoInv, NEW a \in Admins, C!Changed(a)
  PROVE  CognitoInv'
<1> DEFINE p == C!Policy(a)
<1>0. /\ CognitoTypeOK /\ LookupOK(a) /\ AloneOK(a) /\ phase[a] = "change" /\ result[a] # 201
      /\ phase[a] \notin Resting /\ p.group \in Groups
  BY DEF CognitoInv, CognitoTypeOK, DoneIfCreated, LookupOK, C!Changed, Resting
<1>L. Len(want[a]) \in Nat /\ pos[a] \in Nat \ {0} BY <1>0, WantFacts DEF CognitoTypeOK
<1>1. /\ UNCHANGED <<member, want, known, result, sound, whole, alone>> /\ C!Forget(a)
      /\ phase' = [phase EXCEPT ![a] = "list"] /\ pos' = [pos EXCEPT ![a] = @ + 1]
      /\ toRemove[a] = {} /\ toAdd[a] = {}
  BY DEF C!Changed, C!NextPolicy, C!Goto, C!history
<1>F. Forgotten(a) BY <1>0, <1>1, ForgetFacts
<1>2. CognitoTypeOK'
  <2>1. asked' = [b \in Admins |-> asked'[b]] BY <1>F DEF Forgotten
  <2>2. phase' \in [Admins -> {"idle", "groups", "list", "resolve", "change", "done"}]
        /\ pos' \in [Admins -> Nat \ {0}]
    BY <1>0, <1>1 DEF CognitoTypeOK
  <2> QED BY <1>0, <1>1, <1>F, <2>1, <2>2 DEF CognitoTypeOK, Forgotten
<1>3. phase'[a] = "list" /\ pos'[a] = pos[a] + 1 /\ OthersKept(a)
  BY <1>0, <1>1, <1>F DEF CognitoTypeOK, OthersKept, Forgotten
<1>4. LookupOK(a)' BY <1>3, <1>F DEF LookupOK, Forgotten
<1>5. ASSUME sound[a], whole[a], alone[a] PROVE InEffect(want[a], pos[a], {}) /\ known[a] = Groups
  <2>0. known[a] = Groups BY <1>0, <1>5 DEF AloneOK
  <2>1. InEffect(want[a], pos[a] - 1, {p.group}) /\ Emailed(member[p.group]) = Emailed(wanted[a])
    BY <1>0, <1>1, <1>5 DEF AloneOK
  <2>2. \A u \in wanted[a] : u \in Users /\ emailOf[u] \in p.emails
    BY <1>0 DEF LookupOK, CognitoTypeOK
  <2>3. \A u \in Users : emailOf[u] \in p.emails => \E v \in wanted[a] : emailOf[v] = emailOf[u]
    BY <1>0, <1>5 DEF LookupOK
  <2> HIDE DEF p
  <2>4. C!EmailsIn(wanted[a]) = C!Known(p.emails) BY <2>2, <2>3 DEF C!EmailsIn, C!Known
  <2>5. C!EmailsIn(member[p.group]) = C!EmailsIn(wanted[a])
    <3>1. \A x : C!EmailsIn(x) = {emailOf[u] : u \in Emailed(x)} BY DEF C!EmailsIn, Emailed
    <3> QED BY <2>1, <3>1
  <2> QED BY <1>L, <2>0, <2>1, <2>4, <2>5, OneMore DEF p, C!Policy
<1>6. AloneOK(a)'
  <2>1. pos[a] \in Nat /\ pos[a] <= Len(want[a]) BY <1>0 DEF LookupOK, CognitoTypeOK
  <2>2. pos'[a] - 1 = pos[a] /\ pos'[a] <= Len(want'[a]) + 1 BY <1>L, <1>1, <1>3, <2>1
  <2>3. sound'[a] /\ whole'[a] /\ alone'[a] => InEffect(want[a], pos[a], {}) /\ known[a] = Groups
    BY <1>1, <1>5
  <2>4. (sound[a] /\ whole[a] /\ alone[a] =>
           InEffect(want[a], pos[a] - 1, {}) /\ known[a] = Groups)'
    BY <1>1, <2>2, <2>3 DEF InEffect
  <2>5. result'[a] # 201 /\ phase'[a] = "list" BY <1>0, <1>1, <1>3
  <2> QED BY <2>2, <2>4, <2>5 DEF AloneOK
<1> QED BY <1>0, <1>1, <1>2, <1>3, <1>4, <1>6, OwnStep

\* A run that ends.
LEMMA ReturnStep ==
  ASSUME CognitoAssumption, CognitoInv, NEW a \in Admins, C!ReturnCreated(a) \/ C!CallFails(a)
  PROVE  CognitoInv'
<1>0. CognitoTypeOK /\ LookupOK(a) /\ AloneOK(a) /\ phase[a] \notin Resting
  BY DEF CognitoInv, C!ReturnCreated, C!CallFails, C!HasPolicy, Resting
<1>1. PICK status \in {201, 500} : C!Return(a, status) /\ (status = 201 => C!ReturnCreated(a))
  BY DEF C!ReturnCreated, C!CallFails
<1>2. UNCHANGED <<want, pos, sound, whole, alone>> /\ known' = [known EXCEPT ![a] = {}]
      /\ C!Forget(a)
  BY <1>1 DEF C!Return, C!history
<1>F. Forgotten(a) BY <1>0, <1>2, ForgetFacts
<1>3. phase' = [phase EXCEPT ![a] = "done"] /\ result' = [result EXCEPT ![a] = status]
  BY <1>1 DEF C!Return, C!Goto
<1>4. member' \in [Groups -> SUBSET Users]
  <2>2. CASE UNCHANGED member BY <1>0, <2>2 DEF CognitoTypeOK
  <2>3. CASE phase[a] = "change"
    <3> DEFINE h == C!Policy(a).group
    <3>1. /\ h \in Groups /\ member[h] \in SUBSET Users
          /\ toRemove[a] \subseteq Users /\ toAdd[a] \subseteq Users
      BY <1>0, <2>3 DEF LookupOK, CognitoTypeOK
    <3>2. \/ UNCHANGED member
          \/ \E u \in toRemove[a] : member' = [member EXCEPT ![h] = member[h] \ {u}]
          \/ \E u \in toAdd[a] : member' = [member EXCEPT ![h] = member[h] \union {u}]
      BY <2>3 DEF C!CallFails, C!ReturnCreated, C!Sets
    <3> HIDE DEF h
    <3>3. PICK x \in SUBSET Users : member' = [member EXCEPT ![h] = x] \/ UNCHANGED member
      BY <3>1, <3>2
    <3> QED BY <1>0, <3>1, <3>3 DEF CognitoTypeOK
  <2> QED BY <2>2, <2>3 DEF C!CallFails, C!ReturnCreated
<1>5. CognitoTypeOK'
  <2>1. asked' = [b \in Admins |-> asked'[b]] BY <1>F DEF Forgotten
  <2>2. phase' \in [Admins -> {"idle", "groups", "list", "resolve", "change", "done"}]
        /\ result' \in [Admins -> Nat] /\ known' \in [Admins -> SUBSET Groups]
    BY <1>0, <1>2, <1>3 DEF CognitoTypeOK
  <2> QED BY <1>0, <1>2, <1>4, <1>F, <2>1, <2>2 DEF CognitoTypeOK, Forgotten
<1>6. phase'[a] = "done" /\ result'[a] = status /\ OthersKept(a)
  BY <1>0, <1>2, <1>3, <1>F DEF CognitoTypeOK, OthersKept, Forgotten
<1>7. LookupOK(a)' BY <1>6, <1>F DEF LookupOK, Forgotten
<1>8. ASSUME status = 201, sound[a], whole[a], alone[a] PROVE C!Applied(want[a])'
  <2>1. phase[a] = "list" /\ pos[a] > Len(want[a]) /\ UNCHANGED member
    BY <1>1, <1>8 DEF C!ReturnCreated
  <2>2. Len(want[a]) \in Nat /\ DOMAIN want[a] = 1..Len(want[a]) /\ pos[a] \in Nat
    BY <1>0, WantFacts DEF CognitoTypeOK
  <2>3. pos[a] - 1 = Len(want[a]) /\ InEffect(want[a], pos[a] - 1, {})
    BY <1>0, <1>8, <2>1, <2>2 DEF AloneOK
  <2>4. C!Applied(want[a]) BY <2>2, <2>3, AllInEffect
  <2> QED BY <1>2, <2>1, <2>4 DEF C!Applied
<1>9. AloneOK(a)' BY <1>2, <1>6, <1>8 DEF AloneOK
<1> QED BY <1>0, <1>2, <1>5, <1>6, <1>7, <1>9, OwnStep

LEMMA CognitoStep == CognitoAssumption /\ CognitoInv /\ [C!Next]_C!vars => CognitoInv'
<1> SUFFICES ASSUME CognitoAssumption, CognitoInv, [C!Next]_C!vars PROVE CognitoInv'
  OBVIOUS
<1>1. CASE UNCHANGED C!vars
  <2>1. UNCHANGED <<member, want, phase, pos, known, existing, asked, wanted, toRemove, toAdd, result,
                    sound, whole, alone>>
    BY <1>1 DEF C!vars, C!policies, C!history
  <2>2. CognitoTypeOK' /\ AloneOnly' /\ DoneIfCreated'
    BY <2>1 DEF CognitoInv, CognitoTypeOK, AloneOnly, DoneIfCreated
  <2>3. ASSUME NEW a \in Admins PROVE LookupOK(a)' /\ AloneOK(a)'
    <3>1. LookupOK(a) /\ AloneOK(a) BY DEF CognitoInv
    <3>2. LookupOK(a)' BY <2>1, <3>1 DEF LookupOK, C!Policy
    <3>3. AloneOK(a)' BY <2>1, <3>1 DEF AloneOK, InEffect, C!Applied, C!Policy, C!EmailsIn, C!Known
    <3> QED BY <3>2, <3>3
  <2> QED BY <2>2, <2>3 DEF CognitoInv
<1> QED
  BY <1>1, StartStep, LookupStep, ChangeStep, ChangedStep, ReturnStep DEF C!Next, C!Run

\* CognitoProvider.SetPolicyInfo that returns 201, alone, with lookups that
\* worked and listings that fit one page, has made the members of each group
\* those that the last policy for it names, of the emails that the pool knows.
THEOREM GroupsAreSet ==
  ASSUME CognitoAssumption
  PROVE  C!Spec => []C!CreatedMeansApplied
<1>1. CognitoInv => C!CreatedMeansApplied
  BY DEF CognitoInv, AloneOK, C!CreatedMeansApplied
<1> QED BY <1>1, CognitoInit, CognitoStep, PTL DEF C!Spec

\* However runs overlap and calls fail, removeUsersFromGroup and
\* addUsersToGroup take from nobody what the policy at hand gives and give
\* nobody what it does not, if lookups work: ListUsers, Resolve and Compare
\* against every step of the others between them.
THEOREM GroupChangesAreWanted ==
  ASSUME CognitoAssumption
  PROVE  C!Spec => [][C!ChangesAreWanted]_C!vars
<1>1. ASSUME CognitoInv, [C!Next]_C!vars PROVE C!ChangesAreWanted \/ UNCHANGED C!vars
  <2> DEFINE wantedBy(a, g, u) == C!Policy(a).group = g /\ emailOf[u] \in C!Policy(a).emails
  <2> SUFFICES ASSUME NEW g \in Groups, NEW u \in Users
               PROVE /\ u \in member[g] \ member'[g] =>
                          \E a \in Admins :
                            phase[a] = "change"
                            /\ (sound[a] => ~wantedBy(a, g, u)
                                  \/ \E v \in Users \ {u} : emailOf[v] = emailOf[u])
                     /\ u \in member'[g] \ member[g] =>
                          \E a \in Admins : phase[a] = "change" /\ wantedBy(a, g, u)
    BY DEF C!ChangesAreWanted, C!Policy
  <2>1. CASE UNCHANGED member BY <2>1
  <2>2. ASSUME NEW a \in Admins, phase[a] = "change", NEW v \in toRemove[a],
               C!Sets(a, member[C!Policy(a).group] \ {v}), u \in member[g] \ member'[g]
        PROVE  sound[a] => ~wantedBy(a, g, u)
                 \/ \E x \in Users \ {u} : emailOf[x] = emailOf[u]
    <3>1. u = v BY <1>1, <2>2 DEF C!Sets, CognitoInv, CognitoTypeOK
    <3>2. LookupOK(a) /\ wanted[a] \subseteq Users BY <1>1 DEF CognitoInv, CognitoTypeOK
    <3>3. u \notin wanted[a] BY <2>2, <3>1, <3>2 DEF LookupOK
    <3>4. sound[a] /\ emailOf[u] \in C!Policy(a).emails => \E x \in wanted[a] : emailOf[x] = emailOf[u]
      BY <2>2, <3>2 DEF LookupOK
    <3> QED BY <3>2, <3>3, <3>4
  <2>3. ASSUME NEW a \in Admins, phase[a] = "change", NEW v \in toAdd[a],
               C!Sets(a, member[C!Policy(a).group] \union {v}), u \in member'[g] \ member[g]
        PROVE  wantedBy(a, g, u)
    <3>1. u = v /\ g = C!Policy(a).group BY <1>1, <2>3 DEF C!Sets, CognitoInv, CognitoTypeOK
    <3>2. LookupOK(a) BY <1>1 DEF CognitoInv
    <3> QED BY <2>3, <3>1, <3>2 DEF LookupOK
  <2>4. ASSUME NEW a \in Admins, phase[a] = "change", NEW v,
               C!Sets(a, member[C!Policy(a).group] \ {v})
        PROVE  u \notin member'[g] \ member[g]
    BY <1>1, <2>4 DEF C!Sets, CognitoInv, CognitoTypeOK
  <2>5. ASSUME NEW a \in Admins, phase[a] = "change", NEW v,
               C!Sets(a, member[C!Policy(a).group] \union {v})
        PROVE  u \notin member[g] \ member'[g]
    BY <1>1, <2>5 DEF C!Sets, CognitoInv, CognitoTypeOK
  <2> HIDE DEF wantedBy
  <2>6. ASSUME NEW a \in Admins, C!Remove(a) \/ C!Add(a) \/ C!CallFails(a)
        PROVE  \/ UNCHANGED member
               \/ phase[a] = "change" /\ \E v \in toRemove[a] : C!Sets(a, member[C!Policy(a).group] \ {v})
               \/ phase[a] = "change" /\ \E v \in toAdd[a] : C!Sets(a, member[C!Policy(a).group] \union {v})
    BY <2>6 DEF C!Remove, C!Add, C!CallFails
  <2>7. ASSUME NEW a \in Admins,
               C!Start(a) \/ C!GetGroups(a) \/ C!SkipPolicy(a) \/ C!ListUsers(a) \/ C!Resolve(a)
                 \/ C!Compare(a) \/ C!Changed(a) \/ C!ReturnCreated(a)
        PROVE  UNCHANGED member
    BY <2>7 DEF C!Start, C!GetGroups, C!SkipPolicy, C!ListUsers, C!Resolve, C!Compare, C!Changed,
                C!ReturnCreated
  <2>8. CASE UNCHANGED C!vars BY <2>1, <2>8 DEF C!vars
  <2> QED BY <1>1, <2>1, <2>2, <2>3, <2>4, <2>5, <2>6, <2>7, <2>8 DEF C!Next, C!Run
<1> QED BY <1>1, CognitoInit, CognitoStep, PTL DEF C!Spec

-----------------------------------------------------------------------------
(* Azure. *)

\* A list of policies, each with a list of emails.  NoEmail stands for the mail
\* that a user lacks: it is no text that a policy could name.
AzureList(w) ==
  /\ \E S : w \in Seq(S)
  /\ \A j \in DOMAIN w : (\E S : w[j].emails \in Seq(S)) /\ NoEmail \notin A!Range(w[j].emails)

AzureAssumption ==
  /\ \A w \in AzureWants : AzureList(w)
  /\ IsFiniteSet(Groups) /\ IsFiniteSet(Users) /\ AzureMembers \subseteq [Groups -> SUBSET Users]

Halted == {"idle", "done", "panicked"}

AzureTypeOK ==
  /\ member \in [Groups -> SUBSET Users]
  /\ want = [a \in Admins |-> want[a]] /\ \A a \in Admins : AzureList(want[a])
  /\ phase \in [Admins -> Halted \union {"principal", "policy", "resolve", "change"}]
  /\ pos \in [Admins -> Nat \ {0}]
  /\ asked \in [Admins -> Nat] /\ wanted \in [Admins -> Seq(Users)]
  /\ toAdd \in [Admins -> SUBSET Nat] /\ toRemove \in [Admins -> SUBSET Users]
  /\ result \in [Admins -> Nat]
  /\ sound \in [Admins -> BOOLEAN] /\ alone \in [Admins -> BOOLEAN]

AzureAlone ==
  \A a \in Admins : alone[a] => \A b \in Admins \ {a} : phase[b] \in Halted

\* The users wanted have the emails asked for, where lookups work one for each;
\* what is left to add and remove keeps to the two lists.
PrincipalsOK(a) ==
  /\ phase[a] \in {"resolve", "change"} =>
       /\ pos[a] <= Len(want[a]) /\ A!Policy(a).group \in Groups
       /\ asked[a] <= Len(A!Policy(a).emails)
       /\ \A i \in DOMAIN wanted[a] : emailOf[wanted[a][i]] \in A!Range(A!Policy(a).emails)
       /\ sound[a] => \A k \in 1..asked[a] :
            \E i \in DOMAIN wanted[a] : emailOf[wanted[a][i]] = A!Policy(a).emails[k]
  /\ phase[a] = "change" =>
       /\ asked[a] = Len(A!Policy(a).emails) /\ toAdd[a] \subseteq DOMAIN wanted[a]
       /\ toRemove[a] \intersect A!Range(wanted[a]) = {}

\* Of the first n policies of list w the last for each role, but for those in
\* X, is in effect.
Assigned(w, n, X) ==
  \A j \in 1..n :
    w[j].group \in Groups \ X /\ (\A k \in 1..n : w[k].group = w[j].group => k <= j)
      => A!EmailsIn(member[w[j].group]) = A!Range(w[j].emails)

ToAdd(a) == {wanted[a][i] : i \in toAdd[a]}

\* What a run alone has assigned so far, and will have assigned when what is
\* left to add and remove is done.
RunOK(a) ==
  sound[a] /\ alone[a] =>
    /\ phase[a] \in {"policy", "resolve", "change"} => pos[a] <= Len(want[a]) + 1
    /\ phase[a] \in {"policy", "resolve"} => Assigned(want[a], pos[a] - 1, {})
    /\ phase[a] = "change" =>
         LET g == A!Policy(a).group
         IN  /\ Assigned(want[a], pos[a] - 1, {g})
             /\ (member[g] \ toRemove[a]) \union ToAdd(a) = A!Range(wanted[a])
    /\ result[a] = 201 => A!Applied(want[a])

AzureInv ==
  /\ AzureTypeOK /\ AzureAlone /\ DoneIfCreated
  /\ \A a \in Admins : PrincipalsOK(a) /\ RunOK(a)

LEMMA AzureInit == AzureAssumption /\ A!Init => AzureInv
BY DEF AzureAssumption, A!Init, AzureInv, AzureTypeOK, AzureAlone, DoneIfCreated, PrincipalsOK, RunOK,
       Halted

\* A set listed in any order: AzurePolicyMapper ranges over Go maps.
LEMMA SetListed ==
  ASSUME NEW S, IsFiniteSet(S)
  PROVE  /\ A!SetToSeq(S) \in Seq(S) /\ Len(A!SetToSeq(S)) \in Nat
         /\ DOMAIN A!SetToSeq(S) = 1..Len(A!SetToSeq(S))
<1>1. Cardinality(S) \in Nat BY FS_CardinalityType
<1>2. PICK f : f \in Bijection(1..Cardinality(S), S)
  BY FS_NatBijection, FS_CountingElements, FS_CardinalityType, FS_Bijection, FS_Interval
     DEF ExistsBijection
<1>3. f \in [1..Cardinality(S) -> S] /\ A!IsInjective(f)
  BY <1>2 DEF Bijection, Injection, IsInjective, A!IsInjective
<1> DEFINE T == [1..Cardinality(S) -> S]
<1>4. \E g \in T : A!IsInjective(g) BY <1>3
<1> HIDE DEF T
<1>5. (CHOOSE g \in T : A!IsInjective(g)) \in T BY <1>4
<1>6. A!Cardinality(S) = Cardinality(S) BY Zenon DEF A!Cardinality, Cardinality
<1>7. A!SetToSeq(S) \in [1..Cardinality(S) -> S] BY <1>5, <1>6 DEF A!SetToSeq, T
<1> QED BY <1>1, <1>7

\* What GetPolicyInfo reads can be set.
LEMMA ReadIsList ==
  ASSUME AzureAssumption, NEW assigned, NEW lost
  PROVE  AzureList(A!ToIDQL(assigned, lost))
<1> DEFINE roles == A!SetToSeq(Groups)
           w == [i \in 1..Len(roles) |-> [group |-> roles[i], emails |-> A!Emails(roles[i], assigned, lost)]]
<1>1. Len(roles) \in Nat BY SetListed DEF AzureAssumption
<1>2. A!ToIDQL(assigned, lost) = w BY DEF A!ToIDQL
<1>3. ASSUME NEW g
      PROVE  /\ \E S : A!Emails(g, assigned, lost) \in Seq(S)
             /\ NoEmail \notin A!Range(A!Emails(g, assigned, lost))
  <2> DEFINE found == {u \in Users \ lost : <<g, u>> \in assigned /\ emailOf[u] # NoEmail}
             list == A!SetToSeq(found)
             e == [i \in 1..Len(list) |-> emailOf[list[i]]]
  <2>1. A!Emails(g, assigned, lost) = e BY DEF A!Emails
  <2>2. IsFiniteSet(found) BY FS_Subset DEF AzureAssumption
  <2> HIDE DEF found
  <2>3. /\ list \in Seq(found) /\ Len(list) \in Nat /\ DOMAIN list = 1..Len(list)
    BY <2>2, SetListed
  <2>4. \A i \in 1..Len(list) : emailOf[list[i]] # NoEmail
    <3>1. \A i \in 1..Len(list) : list[i] \in found BY <2>3
    <3> QED BY <3>1 DEF found
  <2> HIDE DEF list
  <2>5. e \in Seq({emailOf[list[i]] : i \in 1..Len(list)}) BY <2>3
  <2>6. NoEmail \notin A!Range(e) BY <2>4 DEF A!Range
  <2> QED BY <2>1, <2>5, <2>6
<1> HIDE DEF roles
<1>4. /\ w \in Seq({w[i] : i \in 1..Len(roles)}) /\ DOMAIN w = 1..Len(roles)
      /\ \A i \in 1..Len(roles) : w[i].emails = A!Emails(roles[i], assigned, lost)
  BY <1>1
<1> HIDE DEF w
<1> QED BY <1>2, <1>3, <1>4 DEF AzureList

LEMMA AzureListFacts ==
  ASSUME AzureTypeOK, NEW a \in Admins
  PROVE  /\ Len(want[a]) \in Nat /\ DOMAIN want[a] = 1..Len(want[a])
         /\ \A j \in 1..Len(want[a]) :
              LET emails == want[a][j].emails
              IN  /\ Len(emails) \in Nat /\ DOMAIN emails = 1..Len(emails)
                  /\ NoEmail \notin A!Range(emails) /\ (Len(emails) = 0 => emails = <<>>)
BY ListFacts DEF AzureTypeOK, AzureList

\* When lookups work each email of the policy at hand is one of those found.
LEMMA AllFound ==
  ASSUME AzureInv, NEW a \in Admins, phase[a] = "change", sound[a]
  PROVE  A!Range(A!Policy(a).emails) \subseteq A!EmailsIn(A!Range(wanted[a]))
<1> DEFINE p == A!Policy(a)
<1>1. AzureTypeOK /\ PrincipalsOK(a) /\ pos[a] \in Nat \ {0} BY DEF AzureInv, AzureTypeOK
<1>2. Len(want[a]) \in Nat /\ pos[a] <= Len(want[a])
  BY <1>1, AzureListFacts DEF PrincipalsOK
<1>3. DOMAIN p.emails = 1..Len(p.emails) /\ NoEmail \notin A!Range(p.emails)
  BY <1>1, <1>2, AzureListFacts DEF A!Policy
<1> SUFFICES ASSUME NEW e \in A!Range(p.emails) PROVE e \in A!EmailsIn(A!Range(wanted[a]))
  OBVIOUS
<1>4. PICK k \in 1..Len(p.emails) : e = p.emails[k] BY <1>3 DEF A!Range
<1>5. PICK i \in DOMAIN wanted[a] : emailOf[wanted[a][i]] = e BY <1>1, <1>4 DEF PrincipalsOK
<1>6. wanted[a][i] \in A!Range(wanted[a]) /\ e # NoEmail BY <1>3, <1>5 DEF A!Range
<1> QED BY <1>5, <1>6 DEF A!EmailsIn

\* What the others found stays what they look for.
LEMMA PrincipalsKept ==
  ASSUME NEW a \in Admins, OthersKept(a), NEW b \in Admins \ {a}, PrincipalsOK(b)
  PROVE  PrincipalsOK(b)'
<1>1. /\ phase'[b] = phase[b] /\ pos'[b] = pos[b] /\ want'[b] = want[b] /\ asked'[b] = asked[b]
      /\ wanted'[b] = wanted[b] /\ sound'[b] = sound[b]
      /\ toAdd'[b] = toAdd[b] /\ toRemove'[b] = toRemove[b]
  BY DEF OthersKept
<1>2. A!Policy(b)' = A!Policy(b) BY <1>1 DEF A!Policy
<1> QED BY <1>1, <1>2 DEF PrincipalsOK

LEMMA AzureOwnStep ==
  ASSUME AzureInv, NEW a \in Admins, phase[a] \notin Halted, AzureTypeOK',
         OthersKept(a), UNCHANGED alone, PrincipalsOK(a)', RunOK(a)',
         result'[a] = 201 => phase'[a] = "done"
  PROVE  AzureInv'
<1>1. \A b \in Admins : b # a => ~alone[b] BY DEF AzureInv, AzureAlone
<1>2. AzureAlone' BY <1>1 DEF AzureInv, AzureAlone, OthersKept
<1>3. DoneIfCreated' BY DEF AzureInv, DoneIfCreated, OthersKept
<1>4. ASSUME NEW b \in Admins \ {a} PROVE PrincipalsOK(b)' /\ RunOK(b)'
  <2>1. PrincipalsOK(b) BY DEF AzureInv
  <2>2. PrincipalsOK(b)' BY <2>1, PrincipalsKept
  <2>3. ~alone'[b] BY <1>1
  <2> QED BY <2>2, <2>3 DEF RunOK
<1> QED BY <1>2, <1>3, <1>4 DEF AzureInv

\* Skipped or applied, the policy at hand is the last of its role so far.
LEMMA OneMoreAssigned ==
  ASSUME NEW w, NEW n \in Nat \ {0}, NEW X,
         Assigned(w, n - 1, X), X \subseteq {w[n].group},
         w[n].group \in Groups => A!EmailsIn(member[w[n].group]) = A!Range(w[n].emails)
  PROVE  Assigned(w, n, {})
<1> SUFFICES ASSUME NEW j \in 1..n, w[j].group \in Groups,
                    \A k \in 1..n : w[k].group = w[j].group => k <= j
             PROVE  A!EmailsIn(member[w[j].group]) = A!Range(w[j].emails)
  BY DEF Assigned
<1>1. CASE j = n BY <1>1
<1>2. CASE j # n
  <2>1. j \in 1..(n - 1) /\ n \in 1..n /\ ~(n <= j) BY <1>2
  <2>2. w[n].group # w[j].group BY <2>1
  <2>3. w[j].group \in Groups \ X BY <2>2
  <2>4. \A k \in 1..(n - 1) : w[k].group = w[j].group => k <= j OBVIOUS
  <2> QED BY <2>1, <2>3, <2>4 DEF Assigned
<1> QED BY <1>1, <1>2

\* A step that leaves all of a run alone.
LEMMA RunKept ==
  ASSUME NEW b \in Admins, PrincipalsOK(b), RunOK(b), UNCHANGED member,
         want'[b] = want[b], phase'[b] = phase[b], pos'[b] = pos[b], asked'[b] = asked[b],
         wanted'[b] = wanted[b], toAdd'[b] = toAdd[b], toRemove'[b] = toRemove[b],
         result'[b] = result[b], sound'[b] = sound[b], alone'[b] = alone[b]
  PROVE  PrincipalsOK(b)' /\ RunOK(b)'
<1>1. A!Policy(b)' = A!Policy(b) BY DEF A!Policy
<1>2. PrincipalsOK(b)' BY <1>1 DEF PrincipalsOK
<1>3. ToAdd(b)' = ToAdd(b) BY DEF ToAdd
<1>4. \A w, n, X : Assigned(w, n, X)' <=> Assigned(w, n, X) BY DEF Assigned, A!EmailsIn
<1>5. A!Applied(want[b])' <=> A!Applied(want[b]) BY DEF A!Applied, A!EmailsIn
<1>6. \A g : member'[g] = member[g] OBVIOUS
<1>7. RunOK(b)' BY <1>1, <1>3, <1>4, <1>5, <1>6 DEF RunOK
<1> QED BY <1>2, <1>7

\* The steps outside of SetPolicyInfo and its first two.
LEMMA AzureBeginStep ==
  ASSUME AzureAssumption, AzureInv, NEW a \in Admins,
         A!GetPolicyInfo(a) \/ A!Start(a) \/ A!GetServicePrincipals(a)
  PROVE  AzureInv'
<1> USE DEF A!Goto, A!policies, A!Stopped, Halted
<1>0. AzureTypeOK /\ PrincipalsOK(a) /\ RunOK(a) BY DEF AzureInv
<1>1. CASE A!GetPolicyInfo(a)
  <2>1. /\ UNCHANGED <<member, phase, pos, asked, wanted, toAdd, toRemove, result, sound, alone>>
        /\ phase[a] = "idle"
    BY <1>1 DEF A!GetPolicyInfo
  <2>2. PICK w : want' = [want EXCEPT ![a] = w] /\ AzureList(w)
    BY <1>1, ReadIsList DEF A!GetPolicyInfo
  <2>3. (\A b \in Admins \ {a} : want'[b] = want[b]) /\ want'[a] = w /\ want' = [b \in Admins |-> want'[b]]
    BY <1>0, <2>2 DEF AzureTypeOK
  <2>4. AzureTypeOK' BY <1>0, <2>1, <2>2, <2>3 DEF AzureTypeOK
  <2>5. AzureAlone' /\ DoneIfCreated' BY <2>1 DEF AzureInv, AzureAlone, DoneIfCreated
  <2>6. result[a] # 201 BY <2>1 DEF AzureInv, DoneIfCreated
  <2>7. PrincipalsOK(a)' /\ RunOK(a)' BY <2>1, <2>6 DEF PrincipalsOK, RunOK
  <2>8. ASSUME NEW b \in Admins \ {a} PROVE PrincipalsOK(b)' /\ RunOK(b)'
    <3>1. PrincipalsOK(b) /\ RunOK(b) BY DEF AzureInv
    <3> QED BY <2>1, <2>3, <3>1, RunKept
  <2> QED BY <2>4, <2>5, <2>7, <2>8 DEF AzureInv
<1>2. CASE A!Start(a)
  <2>1. /\ UNCHANGED <<member, want, pos, asked, wanted, toAdd, toRemove>>
        /\ alone' = [b \in Admins |-> b = a /\ \A c \in Admins \ {a} : phase[c] \in Halted]
        /\ phase' = [phase EXCEPT ![a] = "principal"] /\ result' = [result EXCEPT ![a] = 0]
        /\ sound' = [sound EXCEPT ![a] = TRUE]
    BY <1>2 DEF A!Start
  <2>2. AzureTypeOK' BY <1>0, <2>1 DEF AzureTypeOK
  <2>3. AzureAlone' BY <1>0, <2>1 DEF AzureTypeOK, AzureAlone
  <2>4. DoneIfCreated' BY <1>0, <2>1 DEF AzureInv, AzureTypeOK, DoneIfCreated
  <2>5. phase'[a] = "principal" /\ result'[a] = 0 BY <1>0, <2>1 DEF AzureTypeOK
  <2>6. PrincipalsOK(a)' /\ RunOK(a)' BY <2>5 DEF PrincipalsOK, RunOK
  <2>7. ASSUME NEW b \in Admins \ {a} PROVE PrincipalsOK(b)' /\ RunOK(b)'
    <3>1. OthersKept(a) BY <1>0, <2>1 DEF AzureTypeOK, OthersKept
    <3>2. PrincipalsOK(b) BY DEF AzureInv
    <3>3. PrincipalsOK(b)' BY <3>1, <3>2, PrincipalsKept
    <3>4. ~alone'[b] BY <2>1
    <3> QED BY <3>3, <3>4 DEF RunOK
  <2> QED BY <2>2, <2>3, <2>4, <2>6, <2>7 DEF AzureInv
<1>3. CASE A!GetServicePrincipals(a)
  <2>1. /\ UNCHANGED <<member, want, asked, wanted, toAdd, toRemove, result, sound, alone>>
        /\ phase[a] = "principal" /\ pos' = [pos EXCEPT ![a] = 1]
    BY <1>3 DEF A!GetServicePrincipals
  <2>2. PICK next \in {"policy", "panicked"} : phase' = [phase EXCEPT ![a] = next]
    BY <1>3 DEF A!GetServicePrincipals
  <2>3. AzureTypeOK' BY <1>0, <2>1, <2>2 DEF AzureTypeOK
  <2>4. phase'[a] = next /\ pos'[a] = 1 /\ OthersKept(a)
    BY <1>0, <2>1, <2>2 DEF AzureTypeOK, OthersKept
  <2>5. result[a] # 201 BY <2>1 DEF AzureInv, DoneIfCreated
  <2>6. Len(want[a]) \in Nat BY <1>0, AzureListFacts
  <2>7. PrincipalsOK(a)' /\ RunOK(a)' BY <2>1, <2>4, <2>5, <2>6 DEF PrincipalsOK, RunOK, Assigned
  <2> QED BY <2>1, <2>3, <2>4, <2>5, <2>7, AzureOwnStep
<1> QED BY <1>1, <1>2, <1>3

\* The steps that go on to the next policy, without or after a change.
LEMMA AzureNextStep ==
  ASSUME AzureAssumption, AzureInv, NEW a \in Admins,
         A!SkipPolicy(a) \/ A!NobodyFound(a) \/ A!Changed(a)
  PROVE  AzureInv'
<1> DEFINE p == A!Policy(a)
<1>0. /\ AzureTypeOK /\ PrincipalsOK(a) /\ RunOK(a) /\ phase[a] \in {"policy", "resolve", "change"}
      /\ result[a] # 201 /\ phase[a] \notin Halted
  BY DEF AzureInv, DoneIfCreated, Halted, A!SkipPolicy, A!NobodyFound, A!Changed, A!HasPolicy, A!Resolved
<1>1. /\ UNCHANGED <<member, want, asked, wanted, toAdd, toRemove, result, sound, alone>>
      /\ phase' = [phase EXCEPT ![a] = "policy"] /\ pos' = [pos EXCEPT ![a] = @ + 1]
  BY DEF A!SkipPolicy, A!NobodyFound, A!Changed, A!NextPolicy, A!Goto, A!policies
<1>2. /\ Len(want[a]) \in Nat /\ pos[a] \in Nat \ {0} /\ pos[a] <= Len(want[a])
      /\ Len(p.emails) \in Nat /\ DOMAIN p.emails = 1..Len(p.emails)
      /\ NoEmail \notin A!Range(p.emails) /\ (Len(p.emails) = 0 => p.emails = <<>>)
  <2>1. Len(want[a]) \in Nat /\ pos[a] \in Nat \ {0} /\ pos[a] <= Len(want[a])
    BY <1>0, AzureListFacts
    DEF AzureTypeOK, PrincipalsOK, A!SkipPolicy, A!NobodyFound, A!Changed, A!HasPolicy, A!Resolved
  <2> QED BY <1>0, <2>1, AzureListFacts DEF A!Policy
<1>3. AzureTypeOK' BY <1>0, <1>1 DEF AzureTypeOK, Halted
<1>4. phase'[a] = "policy" /\ pos'[a] = pos[a] + 1 /\ OthersKept(a)
  BY <1>0, <1>1 DEF AzureTypeOK, OthersKept
<1>5. PrincipalsOK(a)' BY <1>4 DEF PrincipalsOK
<1>6. ASSUME sound[a], alone[a] PROVE Assigned(want[a], pos[a], {})
  <2>1. CASE A!SkipPolicy(a)
    <3>1. phase[a] = "policy" /\ want[a][pos[a]].group \notin Groups
      BY <2>1 DEF A!SkipPolicy, A!HasPolicy, A!Policy
    <3>2. Assigned(want[a], pos[a] - 1, {}) BY <1>0, <1>6, <3>1 DEF RunOK
    <3> QED BY <1>2, <3>1, <3>2, OneMoreAssigned
  <2>2. CASE A!NobodyFound(a)
    <3>1. phase[a] = "resolve" /\ asked[a] = Len(p.emails) /\ wanted[a] = <<>> /\ p.emails # <<>>
      BY <2>2 DEF A!NobodyFound, A!Resolved, A!HasAssignments
    <3>2. 1 \in 1..asked[a] BY <1>2, <3>1
    <3>3. DOMAIN wanted[a] = {} BY <3>1
    <3> QED BY <1>0, <1>6, <3>1, <3>2, <3>3 DEF PrincipalsOK
  <2>3. CASE A!Changed(a)
    <3>1. phase[a] = "change" /\ toAdd[a] = {} /\ toRemove[a] = {} BY <2>3 DEF A!Changed
    <3>2. Assigned(want[a], pos[a] - 1, {p.group}) /\ member[p.group] = A!Range(wanted[a])
      <4>1. /\ Assigned(want[a], pos[a] - 1, {p.group})
            /\ (member[p.group] \ toRemove[a]) \union ToAdd(a) = A!Range(wanted[a])
        BY <1>0, <1>6, <3>1 DEF RunOK
      <4>2. ToAdd(a) = {} BY <3>1 DEF ToAdd
      <4> QED BY <3>1, <4>1, <4>2
    <3>3. A!EmailsIn(A!Range(wanted[a])) = A!Range(p.emails)
      <4>1. A!EmailsIn(A!Range(wanted[a])) \subseteq A!Range(p.emails)
        BY <1>0, <3>1 DEF PrincipalsOK, A!EmailsIn, A!Range
      <4>2. A!Range(p.emails) \subseteq A!EmailsIn(A!Range(wanted[a])) BY <1>6, <3>1, AllFound
      <4> QED BY <4>1, <4>2
    <3> QED BY <1>2, <3>2, <3>3, OneMoreAssigned DEF A!Policy
  <2> QED BY <2>1, <2>2, <2>3
<1>7. RunOK(a)'
  <2>1. pos'[a] - 1 = pos[a] /\ pos'[a] <= Len(want'[a]) + 1 BY <1>1, <1>2, <1>4
  <2>2. sound'[a] /\ alone'[a] => Assigned(want[a], pos[a], {}) BY <1>1, <1>6
  <2>3. (sound[a] /\ alone[a] => Assigned(want[a], pos[a] - 1, {}))'
    BY <1>1, <2>1, <2>2 DEF Assigned
  <2>4. result'[a] # 201 /\ phase'[a] = "policy" BY <1>0, <1>1, <1>4
  <2> QED BY <2>1, <2>3, <2>4 DEF RunOK
<1> QED BY <1>0, <1>1, <1>3, <1>4, <1>5, <1>7, AzureOwnStep

\* The steps that look up whom the policy names.
LEMMA AzureResolveStep ==
  ASSUME AzureAssumption, AzureInv, NEW a \in Admins, A!StartPolicy(a) \/ A!Resolve(a)
  PROVE  AzureInv'
<1>0. /\ AzureTypeOK /\ PrincipalsOK(a) /\ RunOK(a) /\ result[a] # 201 /\ phase[a] \notin Halted
      /\ UNCHANGED <<member, want, pos, toAdd, toRemove, result, alone>> /\ A!Policy(a)' = A!Policy(a)
  <2>1. AzureTypeOK /\ PrincipalsOK(a) /\ RunOK(a) BY DEF AzureInv
  <2>2. /\ phase[a] \in {"policy", "resolve"}
        /\ UNCHANGED <<member, want, pos, toAdd, toRemove, result, alone>>
    BY DEF A!StartPolicy, A!Resolve, A!HasPolicy
  <2>3. result[a] # 201 /\ phase[a] \notin Halted BY <2>2 DEF AzureInv, DoneIfCreated, Halted
  <2>4. A!Policy(a)' = A!Policy(a) BY <2>2 DEF A!Policy
  <2> QED BY <2>1, <2>2, <2>3, <2>4
<1> DEFINE p == A!Policy(a)
<1>2. /\ Len(want[a]) \in Nat /\ pos[a] \in Nat \ {0} /\ pos[a] <= Len(want[a])
      /\ Len(p.emails) \in Nat /\ DOMAIN p.emails = 1..Len(p.emails)
  <2>1. Len(want[a]) \in Nat /\ pos[a] \in Nat \ {0} /\ pos[a] <= Len(want[a])
    BY <1>0, AzureListFacts DEF AzureTypeOK, PrincipalsOK, A!StartPolicy, A!Resolve, A!HasPolicy
  <2> QED BY <1>0, <2>1, AzureListFacts DEF A!Policy
<1>3. CASE A!StartPolicy(a)
  <2>1. /\ asked' = [asked EXCEPT ![a] = 0] /\ wanted' = [wanted EXCEPT ![a] = <<>>]
        /\ phase' = [phase EXCEPT ![a] = "resolve"] /\ UNCHANGED sound
        /\ phase[a] = "policy" /\ p.group \in Groups
    BY <1>3 DEF A!StartPolicy, A!HasPolicy, A!Goto
  <2>2. AzureTypeOK' BY <1>0, <2>1 DEF AzureTypeOK
  <2>3. asked'[a] = 0 /\ wanted'[a] = <<>> /\ phase'[a] = "resolve" /\ OthersKept(a)
    BY <1>0, <2>1 DEF AzureTypeOK, OthersKept
  <2>4. PrincipalsOK(a)' BY <1>0, <1>2, <2>1, <2>3 DEF PrincipalsOK
  <2>5. \A n : Assigned(want[a], n, {})' <=> Assigned(want[a], n, {})
    BY <1>0 DEF Assigned, A!EmailsIn
  <2>6. RunOK(a)' BY <1>0, <1>2, <2>1, <2>3, <2>5 DEF RunOK
  <2> QED BY <1>0, <2>2, <2>3, <2>4, <2>6, AzureOwnStep
<1>4. CASE A!Resolve(a)
  <2>1. /\ phase[a] = "resolve" /\ asked[a] < Len(p.emails)
        /\ asked' = [asked EXCEPT ![a] = @ + 1]
    BY <1>4 DEF A!Resolve
  <2>2. asked[a] \in Nat /\ wanted[a] \in Seq(Users) /\ asked'[a] = asked[a] + 1
    BY <1>0, <2>1 DEF AzureTypeOK
  <2>3. \/ \E u \in Users : /\ emailOf[u] = p.emails[asked[a] + 1] /\ UNCHANGED <<phase, sound>>
                            /\ wanted' = [wanted EXCEPT ![a] = Append(wanted[a], u)]
        \/ phase' = [phase EXCEPT ![a] = "panicked"] /\ UNCHANGED <<wanted, sound>>
        \/ sound' = [sound EXCEPT ![a] = FALSE] /\ UNCHANGED <<wanted, phase>>
    BY <1>4 DEF A!Resolve, A!Goto
  <2>4. \A n : Assigned(want[a], n, {})' <=> Assigned(want[a], n, {})
    BY <1>0 DEF Assigned, A!EmailsIn
  <2> DEFINE k == asked[a] + 1
  <2>5. k \in 1..Len(p.emails) /\ asked'[a] = k BY <1>2, <2>1, <2>2
  <2>6. CASE phase' = [phase EXCEPT ![a] = "panicked"] /\ UNCHANGED <<wanted, sound>>
    <3>1. AzureTypeOK' BY <1>0, <2>1, <2>6 DEF AzureTypeOK, Halted
    <3>2. phase'[a] = "panicked" /\ OthersKept(a)
      BY <1>0, <2>1, <2>6 DEF AzureTypeOK, OthersKept
    <3>3. PrincipalsOK(a)' /\ RunOK(a)' BY <1>0, <3>2 DEF PrincipalsOK, RunOK
    <3> QED BY <1>0, <3>1, <3>2, <3>3, AzureOwnStep
  <2>7. CASE sound' = [sound EXCEPT ![a] = FALSE] /\ UNCHANGED <<wanted, phase>>
    <3>1. AzureTypeOK' BY <1>0, <2>1, <2>7 DEF AzureTypeOK
    <3>2. ~sound'[a] /\ phase'[a] = "resolve" /\ OthersKept(a)
      BY <1>0, <2>1, <2>7 DEF AzureTypeOK, OthersKept
    <3>3. PrincipalsOK(a)' BY <1>0, <2>1, <2>5, <2>7, <3>2 DEF PrincipalsOK
    <3>4. RunOK(a)' BY <3>2 DEF RunOK
    <3> QED BY <1>0, <3>1, <3>2, <3>3, <3>4, AzureOwnStep
  <2>8. ASSUME NEW u \in Users, emailOf[u] = p.emails[asked[a] + 1], UNCHANGED <<phase, sound>>,
               wanted' = [wanted EXCEPT ![a] = Append(wanted[a], u)]
        PROVE  AzureInv'
    <3>1. AzureTypeOK' BY <1>0, <2>1, <2>2, <2>8 DEF AzureTypeOK
    <3>2. wanted'[a] = Append(wanted[a], u) /\ phase'[a] = "resolve" /\ OthersKept(a)
      BY <1>0, <2>1, <2>8 DEF AzureTypeOK, OthersKept
    <3> DEFINE l == Len(wanted[a]) + 1
    <3>3. /\ DOMAIN wanted'[a] = 1..l /\ DOMAIN wanted[a] = 1..(l - 1) /\ l \in Nat \ {0}
          /\ \A i \in 1..(l - 1) : wanted'[a][i] = wanted[a][i] /\ wanted'[a][l] = u
      BY <2>2, <3>2
    <3>4. wanted'[a][l] = u BY <2>2, <3>2
    <3>5. \A i \in DOMAIN wanted'[a] : emailOf[wanted'[a][i]] \in A!Range(p.emails)
      <4>1. \A i \in DOMAIN wanted[a] : emailOf[wanted[a][i]] \in A!Range(p.emails)
        BY <1>0, <2>1 DEF PrincipalsOK
      <4>2. emailOf[u] \in A!Range(p.emails) BY <1>2, <2>5, <2>8 DEF A!Range
      <4> HIDE DEF l, p
      <4>3. \A i \in 1..l : i \in 1..(l - 1) \/ i = l BY <3>3
      <4> QED BY <3>3, <3>4, <4>1, <4>2, <4>3
    <3>6. ASSUME sound[a], NEW m \in 1..k
          PROVE  \E i \in DOMAIN wanted'[a] : emailOf[wanted'[a][i]] = p.emails[m]
      <4>1. CASE m = k
        <5>1. l \in DOMAIN wanted'[a] BY <3>3
        <5> QED BY <2>8, <3>4, <4>1, <5>1
      <4>2. CASE m # k
        <5>1. m \in 1..asked[a] BY <2>2, <4>2
        <5>2. PICK i \in DOMAIN wanted[a] : emailOf[wanted[a][i]] = p.emails[m]
          BY <1>0, <2>1, <3>6, <5>1 DEF PrincipalsOK
        <5>3. i \in DOMAIN wanted'[a] /\ wanted'[a][i] = wanted[a][i] BY <3>3, <5>2
        <5> QED BY <5>2, <5>3
      <4> QED BY <4>1, <4>2
    <3>7. p.group \in Groups BY <1>0, <2>1 DEF PrincipalsOK
    <3> HIDE DEF p, k
    <3>8. PrincipalsOK(a)'
      <4>1. A!Policy(a)' = p /\ k <= Len(p.emails) BY <1>0, <1>2, <2>5 DEF p
      <4>2. sound'[a] = sound[a] /\ pos'[a] <= Len(want'[a]) BY <1>0, <1>2, <2>8
      <4> QED BY <2>5, <3>2, <3>5, <3>6, <3>7, <4>1, <4>2 DEF PrincipalsOK
    <3>9. RunOK(a)' BY <1>0, <1>2, <2>1, <2>4, <2>8, <3>2 DEF RunOK
    <3> QED BY <1>0, <3>1, <3>2, <3>8, <3>9, AzureOwnStep
  <2> QED BY <2>3, <2>6, <2>7, <2>8
<1> QED BY <1>3, <1>4

\* The comparison: what is left to change leads to the users wanted when the
\* listing had all who hold the role.
LEMMA AzureListStep ==
  ASSUME AzureAssumption, AzureInv, NEW a \in Admins, A!ListAssignments(a)
  PROVE  AzureInv'
<1> DEFINE g == A!Policy(a).group
           users == A!Range(wanted[a])
<1>0. /\ AzureTypeOK /\ PrincipalsOK(a) /\ RunOK(a) /\ result[a] # 201 /\ phase[a] \notin Halted
      /\ UNCHANGED <<member, want, pos, asked, wanted, result, alone>> /\ A!Policy(a)' = A!Policy(a)
      /\ phase[a] = "resolve" /\ asked[a] = Len(A!Policy(a).emails)
      /\ phase' = [phase EXCEPT ![a] = "change"]
      /\ sound' = [sound EXCEPT ![a] = @ /\ A!Listings = {A!Assignments}]
  BY DEF AzureInv, DoneIfCreated, Halted, A!ListAssignments, A!Resolved, A!Policy, A!Goto
<1>1. PICK existed \in A!Listings :
        /\ toAdd' = [toAdd EXCEPT ![a] = A!ShouldAdd(a, existed)]
        /\ toRemove' = [toRemove EXCEPT ![a] = A!ShouldRemove(a, existed)]
  BY DEF A!ListAssignments
<1>2. /\ toAdd'[a] = {i \in DOMAIN wanted[a] : <<g, wanted[a][i]>> \notin existed}
      /\ toRemove'[a] = {u \in Users \ users : <<g, u>> \in existed}
  BY <1>0, <1>1 DEF AzureTypeOK, A!ShouldAdd, A!ShouldRemove
<1>3. sound'[a] => sound[a] /\ A!Listings = {A!Assignments} BY <1>0 DEF AzureTypeOK
<1>4. wanted[a] \in Seq(Users) /\ member[g] \subseteq Users /\ g \in Groups
  BY <1>0 DEF AzureTypeOK, PrincipalsOK
<1>5. /\ DOMAIN wanted[a] \subseteq Nat /\ users \subseteq Users
      /\ \A i \in DOMAIN wanted[a] : wanted[a][i] \in users
  BY <1>4 DEF A!Range
<1>6. phase'[a] = "change" /\ OthersKept(a) BY <1>0, <1>1 DEF AzureTypeOK, OthersKept
<1>7. AzureTypeOK'
  <2>1. toAdd'[a] \in SUBSET Nat /\ toRemove'[a] \in SUBSET Users BY <1>2, <1>5
  <2>2. toAdd' \in [Admins -> SUBSET Nat] /\ toRemove' \in [Admins -> SUBSET Users]
    BY <1>0, <1>1, <2>1 DEF AzureTypeOK
  <2>3. sound' \in [Admins -> BOOLEAN] BY <1>0 DEF AzureTypeOK
  <2> QED BY <1>0, <2>2, <2>3 DEF AzureTypeOK
<1>8. PrincipalsOK(a)'
  <2>1. toAdd'[a] \subseteq DOMAIN wanted[a] /\ toRemove'[a] \intersect users = {} BY <1>2
  <2> QED BY <1>0, <1>3, <1>6, <2>1 DEF PrincipalsOK
<1>9. ASSUME sound'[a], alone[a]
      PROVE  /\ Assigned(want[a], pos[a] - 1, {g})
             /\ (member[g] \ toRemove'[a]) \union {wanted[a][i] : i \in toAdd'[a]} = users
  <2>1. Assigned(want[a], pos[a] - 1, {}) BY <1>0, <1>3, <1>9 DEF RunOK
  <2>2. existed = A!Assignments BY <1>1, <1>3, <1>9
  <2>3. \A u \in Users : <<g, u>> \in existed <=> u \in member[g]
    BY <1>4, <2>2 DEF A!Assignments
  <2>4. (member[g] \ toRemove'[a]) \union {wanted[a][i] : i \in toAdd'[a]} \subseteq users
    BY <1>2, <1>4, <1>5, <2>3
  <2>5. ASSUME NEW u \in users
        PROVE  u \in (member[g] \ toRemove'[a]) \union {wanted[a][i] : i \in toAdd'[a]}
    <3>1. PICK i \in DOMAIN wanted[a] : u = wanted[a][i] BY <2>5 DEF A!Range
    <3>2. u \in member[g] \/ i \in toAdd'[a] BY <1>2, <1>5, <2>3, <3>1
    <3> QED BY <1>2, <2>5, <3>1, <3>2
  <2> QED BY <2>1, <2>4, <2>5 DEF Assigned
<1>10. RunOK(a)'
  <2>1. \A n, X : Assigned(want[a], n, X)' <=> Assigned(want[a], n, X)
    BY <1>0 DEF Assigned, A!EmailsIn
  <2>2. ToAdd(a)' = {wanted[a][i] : i \in toAdd'[a]} BY <1>0 DEF ToAdd
  <2>3. Len(want[a]) \in Nat /\ pos[a] \in Nat /\ pos[a] <= Len(want[a])
    BY <1>0, AzureListFacts DEF AzureTypeOK, PrincipalsOK
  <2> QED BY <1>0, <1>6, <1>9, <2>1, <2>2, <2>3 DEF RunOK
<1> QED BY <1>0, <1>6, <1>7, <1>8, <1>10, AzureOwnStep

\* Giving role g to the users x changes what a run alone keeps only of g.
LEMMA RoleSet ==
  ASSUME AzureTypeOK, NEW g \in Groups, NEW x \in SUBSET Users,
         member' = [member EXCEPT ![g] = x]
  PROVE  /\ member' \in [Groups -> SUBSET Users] /\ member'[g] = x
         /\ \A w, n : Assigned(w, n, {g}) =>
              \A j \in 1..n :
                w[j].group \in Groups \ {g} /\ (\A k \in 1..n : w[k].group = w[j].group => k <= j)
                  => A!EmailsIn(member'[w[j].group]) = A!Range(w[j].emails)
<1>1. \A h \in Groups \ {g} : member'[h] = member[h] BY DEF AzureTypeOK
<1>2. \A w, n : Assigned(w, n, {g}) =>
        \A j \in 1..n :
          w[j].group \in Groups \ {g} /\ (\A k \in 1..n : w[k].group = w[j].group => k <= j)
            => A!EmailsIn(member'[w[j].group]) = A!Range(w[j].emails)
  BY <1>1 DEF Assigned
<1> QED BY <1>2 DEF AzureTypeOK

\* The steps that change a role: one user of the differences gets or loses it.
LEMMA AzureChangeStep ==
  ASSUME AzureAssumption, AzureInv, NEW a \in Admins, NEW x \in SUBSET Users,
         phase[a] = "change", A!Sets(a, x),
         UNCHANGED <<want, phase, pos, asked, wanted, result, sound, alone>>,
         toAdd' \in [Admins -> SUBSET Nat], toRemove' \in [Admins -> SUBSET Users], OthersKept(a),
         toAdd'[a] \subseteq toAdd[a], toRemove'[a] \subseteq toRemove[a],
         (x \ toRemove'[a]) \union {wanted[a][i] : i \in toAdd'[a]}
            = (member[A!Policy(a).group] \ toRemove[a]) \union ToAdd(a)
  PROVE  AzureInv'
<1> DEFINE g == A!Policy(a).group
<1>0. /\ AzureTypeOK /\ PrincipalsOK(a) /\ RunOK(a) /\ result[a] # 201 /\ phase[a] \notin Halted
      /\ A!Policy(a)' = A!Policy(a) /\ g \in Groups
  BY DEF AzureInv, DoneIfCreated, Halted, PrincipalsOK, A!Policy
<1>1. member' = [member EXCEPT ![g] = x] BY DEF A!Sets
<1>2. AzureTypeOK' BY <1>0, <1>1, RoleSet DEF AzureTypeOK
<1>3. PrincipalsOK(a)' BY <1>0 DEF PrincipalsOK
<1>4. RunOK(a)'
  <2> SUFFICES ASSUME sound[a], alone[a]
               PROVE  /\ pos[a] <= Len(want[a]) + 1
                      /\ Assigned(want[a], pos[a] - 1, {g})'
                      /\ (member'[g] \ toRemove'[a]) \union {wanted[a][i] : i \in toAdd'[a]}
                           = A!Range(wanted[a])
    BY <1>0 DEF RunOK, ToAdd
  <2>1. /\ pos[a] <= Len(want[a]) + 1 /\ Assigned(want[a], pos[a] - 1, {g})
        /\ (member[g] \ toRemove[a]) \union ToAdd(a) = A!Range(wanted[a])
    BY <1>0 DEF RunOK
  <2>2. g' = g BY <1>0
  <2> HIDE DEF g
  <2>3. Assigned(want[a], pos[a] - 1, {g})' BY <1>0, <1>1, <2>1, <2>2, RoleSet DEF Assigned, A!EmailsIn
  <2>4. member'[g] = x BY <1>0, <1>1, RoleSet
  <2>5. A!Policy(a).group = g BY DEF g
  <2> QED BY <2>1, <2>3, <2>4, <2>5
<1> QED BY <1>0, <1>2, <1>3, <1>4, AzureOwnStep

LEMMA AddStep ==
  ASSUME AzureAssumption, AzureInv, NEW a \in Admins, A!AddAssignment(a)
  PROVE  AzureInv'
<1> DEFINE g == A!Policy(a).group
<1>0. AzureTypeOK /\ PrincipalsOK(a) /\ phase[a] = "change"
  BY DEF AzureInv, A!AddAssignment
<1>1. UNCHANGED <<want, phase, pos, asked, wanted, toRemove, result, sound, alone>>
  BY DEF A!AddAssignment
<1>2. PICK i \in toAdd[a] : /\ A!Sets(a, member[g] \union {wanted[a][i]})
                            /\ toAdd' = [toAdd EXCEPT ![a] = @ \ {i}]
  BY DEF A!AddAssignment, A!NextToAdd, A!Holders
<1>3. /\ toAdd[a] \in SUBSET Nat /\ toAdd[a] \subseteq DOMAIN wanted[a] /\ wanted[a] \in Seq(Users)
      /\ g \in Groups /\ member[g] \subseteq Users /\ toRemove[a] \intersect A!Range(wanted[a]) = {}
  BY <1>0 DEF AzureTypeOK, PrincipalsOK
<1>4. wanted[a][i] \in Users /\ wanted[a][i] \notin toRemove[a] BY <1>2, <1>3 DEF A!Range
<1>5. toAdd'[a] = toAdd[a] \ {i} /\ toAdd' \in [Admins -> SUBSET Nat] /\ OthersKept(a)
  BY <1>0, <1>1, <1>2, <1>3 DEF AzureTypeOK, OthersKept
<1>6. ((member[g] \union {wanted[a][i]}) \ toRemove'[a]) \union {wanted[a][j] : j \in toAdd'[a]}
        = (member[g] \ toRemove[a]) \union ToAdd(a)
  <2> HIDE DEF g
  <2>1. ToAdd(a) = {wanted[a][i]} \union {wanted[a][j] : j \in toAdd'[a]}
    BY <1>2, <1>5 DEF ToAdd
  <2> QED BY <1>1, <1>4, <2>1
<1>7. toRemove' \in [Admins -> SUBSET Users] /\ member[g] \union {wanted[a][i]} \in SUBSET Users
  BY <1>0, <1>1, <1>3, <1>4 DEF AzureTypeOK
<1> QED BY <1>0, <1>1, <1>2, <1>5, <1>6, <1>7, AzureChangeStep

\* A run that ends.
LEMMA AzureReturnStep ==
  ASSUME AzureAssumption, AzureInv, NEW a \in Admins, NEW status \in {201, 500},
         phase[a] \notin Halted, A!Return(a, status),
         UNCHANGED <<asked, wanted, toAdd, toRemove>>, member' \in [Groups -> SUBSET Users],
         status = 201 => A!ReturnCreated(a)
  PROVE  AzureInv'
<1>0. AzureTypeOK /\ RunOK(a) BY DEF AzureInv
<1>1. UNCHANGED <<want, pos, sound, alone>> BY DEF A!Return
<1>2. phase' = [phase EXCEPT ![a] = "done"] /\ result' = [result EXCEPT ![a] = status]
  BY DEF A!Return, A!Goto
<1>3. AzureTypeOK' BY <1>0, <1>1, <1>2 DEF AzureTypeOK, Halted
<1>4. phase'[a] = "done" /\ result'[a] = status /\ OthersKept(a)
  BY <1>0, <1>1, <1>2 DEF AzureTypeOK, OthersKept
<1>5. PrincipalsOK(a)' BY <1>4 DEF PrincipalsOK
<1>6. ASSUME status = 201, sound[a], alone[a] PROVE A!Applied(want[a])'
  <2>1. phase[a] = "policy" /\ pos[a] > Len(want[a]) /\ UNCHANGED member
    BY <1>6 DEF A!ReturnCreated
  <2>2. Len(want[a]) \in Nat /\ DOMAIN want[a] = 1..Len(want[a]) /\ pos[a] \in Nat
    BY <1>0, AzureListFacts DEF AzureTypeOK
  <2>3. pos[a] - 1 = Len(want[a]) /\ Assigned(want[a], pos[a] - 1, {})
    BY <1>0, <1>6, <2>1, <2>2 DEF RunOK
  <2>4. A!Applied(want[a])
    <3>1. 1..(pos[a] - 1) = DOMAIN want[a] BY <2>2, <2>3
    <3>2. \A j \in DOMAIN want[a] :
            want[a][j].group \in Groups \ {}
              /\ (\A k \in DOMAIN want[a] : want[a][k].group = want[a][j].group => k <= j)
              => A!EmailsIn(member[want[a][j].group]) = A!Range(want[a][j].emails)
      BY <2>3, <3>1 DEF Assigned
    <3>3. \A S : S \in Groups => S \in Groups \ {} OBVIOUS
    <3> QED BY <3>2, <3>3, Zenon DEF A!Applied
  <2>5. want'[a] = want[a] /\ \A S : A!EmailsIn(S)' = A!EmailsIn(S) BY <1>1 DEF A!EmailsIn
  <2>6. A!Applied(want[a])' = A!Applied(want[a]) BY <1>1, <2>1, <2>5 DEF A!Applied
  <2> QED BY <2>4, <2>5, <2>6
<1>7. RunOK(a)' BY <1>1, <1>4, <1>6 DEF RunOK
<1> QED BY <1>0, <1>1, <1>3, <1>4, <1>5, <1>7, AzureOwnStep

LEMMA DeleteStep ==
  ASSUME AzureAssumption, AzureInv, NEW a \in Admins, A!DeleteAssignment(a)
  PROVE  AzureInv'
<1> DEFINE g == A!Policy(a).group
<1>0. AzureTypeOK /\ PrincipalsOK(a) /\ phase[a] = "change" /\ toAdd[a] = {}
  BY DEF AzureInv, A!DeleteAssignment
<1>1. UNCHANGED <<asked, wanted, toAdd>> BY DEF A!DeleteAssignment
<1>2. g \in Groups /\ member[g] \subseteq Users /\ toRemove[a] \subseteq Users
  BY <1>0 DEF AzureTypeOK, PrincipalsOK
<1>3. CASE A!Return(a, 500) /\ UNCHANGED <<member, toRemove>>
  <2>1. phase[a] \notin Halted /\ member' \in [Groups -> SUBSET Users] /\ UNCHANGED toRemove
    BY <1>0, <1>3 DEF AzureTypeOK, Halted
  <2>2. 500 \in {201, 500} /\ 500 # 201 OBVIOUS
  <2> QED BY <1>1, <1>3, <2>1, <2>2, AzureReturnStep
<1>4. ASSUME NEW u \in toRemove[a], A!Sets(a, member[g] \ {u}),
             toRemove' = [toRemove EXCEPT ![a] = @ \ {u}],
             UNCHANGED <<want, phase, pos, result, sound, alone>>
      PROVE  AzureInv'
  <2>1. /\ toRemove'[a] = toRemove[a] \ {u} /\ toRemove' \in [Admins -> SUBSET Users]
        /\ OthersKept(a)
    BY <1>0, <1>1, <1>2, <1>4 DEF AzureTypeOK, OthersKept
  <2>2. /\ ToAdd(a) = {} /\ {wanted[a][i] : i \in toAdd'[a]} = {}
        /\ toAdd' \in [Admins -> SUBSET Nat]
    BY <1>0, <1>1 DEF ToAdd, AzureTypeOK
  <2>3. member[g] \ {u} \in SUBSET Users BY <1>2
  <2>4. ((member[g] \ {u}) \ toRemove'[a]) \union {wanted[a][i] : i \in toAdd'[a]}
           = (member[g] \ toRemove[a]) \union ToAdd(a)
    BY <1>4, <2>1, <2>2
  <2> QED BY <1>0, <1>1, <1>4, <2>1, <2>2, <2>3, <2>4, AzureChangeStep
<1> QED BY <1>3, <1>4 DEF A!DeleteAssignment, A!Holders

LEMMA AzureEndStep ==
  ASSUME AzureAssumption, AzureInv, NEW a \in Admins,
         A!AddRefused(a) \/ A!ReturnCreated(a) \/ A!CallFails(a)
  PROVE  AzureInv'
<1>0. AzureTypeOK /\ PrincipalsOK(a) /\ phase[a] \notin Halted
  BY DEF AzureInv, Halted, A!AddRefused, A!ReturnCreated, A!CallFails, A!Resolved
<1>1. UNCHANGED <<asked, wanted, toAdd, toRemove>>
  BY DEF A!AddRefused, A!ReturnCreated, A!CallFails, A!policies
<1>2. PICK status \in {201, 500} : A!Return(a, status) /\ (status = 201 => A!ReturnCreated(a))
  BY DEF A!AddRefused, A!ReturnCreated, A!CallFails
<1>3. member' \in [Groups -> SUBSET Users]
  <2>1. CASE UNCHANGED member BY <1>0, <2>1 DEF AzureTypeOK
  <2>2. CASE phase[a] = "change"
    <3> DEFINE h == A!Policy(a).group
    <3>1. /\ h \in Groups /\ member[h] \in SUBSET Users /\ toRemove[a] \subseteq Users
          /\ \A i \in toAdd[a] : wanted[a][i] \in Users
      BY <1>0, <2>2 DEF PrincipalsOK, AzureTypeOK
    <3>2. \/ UNCHANGED member
          \/ \E u \in toRemove[a] : member' = [member EXCEPT ![h] = member[h] \ {u}]
          \/ \E i \in toAdd[a] : member' = [member EXCEPT ![h] = member[h] \union {wanted[a][i]}]
      BY <2>2 DEF A!CallFails, A!ReturnCreated, A!AddRefused, A!Sets, A!Holders, A!NextToAdd
    <3> HIDE DEF h
    <3>3. PICK x \in SUBSET Users : member' = [member EXCEPT ![h] = x] \/ UNCHANGED member
      BY <3>1, <3>2
    <3> QED BY <1>0, <3>1, <3>3 DEF AzureTypeOK
  <2> QED BY <2>1, <2>2 DEF A!CallFails, A!ReturnCreated, A!AddRefused
<1> QED BY <1>0, <1>1, <1>2, <1>3, AzureReturnStep

LEMMA AzureStep == AzureAssumption /\ AzureInv /\ [A!Next]_A!vars => AzureInv'
<1> SUFFICES ASSUME AzureAssumption, AzureInv, [A!Next]_A!vars PROVE AzureInv'
  OBVIOUS
<1>1. CASE UNCHANGED A!vars
  <2>1. UNCHANGED <<member, want, phase, pos, asked, wanted, toAdd, toRemove, result, sound, alone>>
    BY <1>1 DEF A!vars, A!policies
  <2>2. AzureTypeOK' /\ AzureAlone' /\ DoneIfCreated'
    BY <2>1 DEF AzureInv, AzureTypeOK, AzureAlone, DoneIfCreated
  <2>3. ASSUME NEW a \in Admins PROVE PrincipalsOK(a)' /\ RunOK(a)'
    <3>1. PrincipalsOK(a) /\ RunOK(a) BY DEF AzureInv
    <3> QED BY <2>1, <3>1, RunKept
  <2> QED BY <2>2, <2>3 DEF AzureInv
<1> QED
  BY <1>1, AzureBeginStep, AzureNextStep, AzureResolveStep, AzureListStep, AddStep, DeleteStep, AzureEndStep
  DEF A!Next, A!Run

\* AzureProvider.SetPolicyInfo that returns 201, alone, with lookups that worked
\* and listings of one page, has assigned each role to those whom the last
\* policy for it names: whatever runs before it left, no assignment that the
\* policy does not give survives it and none that it gives is missing.
THEOREM RolesAreAssigned ==
  ASSUME AzureAssumption
  PROVE  A!Spec => []A!CreatedMeansApplied
<1>1. AzureInv => A!CreatedMeansApplied
  BY DEF AzureInv, RunOK, A!CreatedMeansApplied
<1> QED BY <1>1, AzureInit, AzureStep, PTL DEF A!Spec

\* However runs of SetAppRoleAssignedTo overlap and calls fail, a role is taken
\* only from whom the policy at hand does not name and, by a run alone, once
\* all whom it names have it: additions come before removals.  Nobody gets a
\* role that no policy at hand gives.
THEOREM RoleChangesAreWanted ==
  ASSUME AzureAssumption
  PROVE  A!Spec => [][A!ChangesAreWanted]_A!vars
<1>1. ASSUME AzureInv, [A!Next]_A!vars PROVE A!ChangesAreWanted \/ UNCHANGED A!vars
  <2> DEFINE wantedBy(a, g, u) == A!Policy(a).group = g /\ emailOf[u] \in A!Range(A!Policy(a).emails)
             mayTake(a, g, u) ==
               /\ phase[a] = "change" /\ A!Policy(a).group = g
               /\ sound[a] => ~wantedBy(a, g, u) \/ \E v \in Users \ {u} : emailOf[v] = emailOf[u]
               /\ sound[a] /\ alone[a] => A!Range(A!Policy(a).emails) \subseteq A!EmailsIn(member[g])
  <2> SUFFICES ASSUME NEW g \in Groups, NEW u \in Users
               PROVE /\ u \in member[g] \ member'[g] => \E a \in Admins : mayTake(a, g, u)
                     /\ u \in member'[g] \ member[g] =>
                          \E a \in Admins : phase[a] = "change" /\ wantedBy(a, g, u)
    BY DEF A!ChangesAreWanted, A!Policy
  <2>0. AzureTypeOK BY <1>1 DEF AzureInv
  <2>1. CASE UNCHANGED member BY <2>1
  <2>2. ASSUME NEW a \in Admins, phase[a] = "change", toAdd[a] = {}, NEW v \in toRemove[a],
               A!Sets(a, member[A!Policy(a).group] \ {v}), u \in member[g] \ member'[g]
        PROVE  mayTake(a, g, u)
    <3>1. u = v /\ A!Policy(a).group = g BY <2>0, <2>2 DEF A!Sets, AzureTypeOK
    <3>2. PrincipalsOK(a) /\ RunOK(a) /\ wanted[a] \in Seq(Users)
      BY <1>1, <2>0 DEF AzureInv, AzureTypeOK
    <3>3. u \notin A!Range(wanted[a]) BY <2>2, <3>1, <3>2 DEF PrincipalsOK
    <3>4. sound[a] => A!Range(A!Policy(a).emails) \subseteq A!EmailsIn(A!Range(wanted[a]))
      BY <1>1, <2>2, AllFound
    <3>5. A!Range(wanted[a]) \subseteq Users BY <3>2 DEF A!Range
    <3>6. sound[a] /\ wantedBy(a, g, u) => \E x \in Users \ {u} : emailOf[x] = emailOf[u]
      BY <3>3, <3>4, <3>5 DEF A!EmailsIn
    <3>7. sound[a] /\ alone[a] => A!Range(wanted[a]) \subseteq member[g]
      <4>1. ToAdd(a) = {} BY <2>2 DEF ToAdd
      <4> QED BY <2>2, <3>1, <3>2, <4>1 DEF RunOK
    <3> QED BY <2>2, <3>1, <3>4, <3>6, <3>7 DEF A!EmailsIn
  <2>3. ASSUME NEW a \in Admins, phase[a] = "change", NEW i \in toAdd[a],
               A!Sets(a, member[A!Policy(a).group] \union {wanted[a][i]}), u \in member'[g] \ member[g]
        PROVE  wantedBy(a, g, u)
    <3>1. u = wanted[a][i] /\ A!Policy(a).group = g BY <2>0, <2>3 DEF A!Sets, AzureTypeOK
    <3>2. PrincipalsOK(a) BY <1>1 DEF AzureInv
    <3> QED BY <2>3, <3>1, <3>2 DEF PrincipalsOK
  <2>4. ASSUME NEW a \in Admins, phase[a] = "change", toAdd[a] = {}, NEW v \in toRemove[a],
               A!Sets(a, member[A!Policy(a).group] \ {v})
        PROVE  u \notin member'[g] \ member[g]
    BY <2>0, <2>4 DEF A!Sets, AzureTypeOK
  <2>5. ASSUME NEW a \in Admins, phase[a] = "change", NEW i \in toAdd[a],
               A!Sets(a, member[A!Policy(a).group] \union {wanted[a][i]})
        PROVE  u \notin member[g] \ member'[g]
    BY <2>0, <2>5 DEF A!Sets, AzureTypeOK
  <2>6. ASSUME NEW a \in Admins, A!AddAssignment(a) \/ A!DeleteAssignment(a) \/ A!CallFails(a)
        PROVE  \/ UNCHANGED member
               \/ /\ phase[a] = "change" /\ toAdd[a] = {}
                  /\ \E v \in toRemove[a] : A!Sets(a, member[A!Policy(a).group] \ {v})
               \/ /\ phase[a] = "change"
                  /\ \E i \in toAdd[a] : A!Sets(a, member[A!Policy(a).group] \union {wanted[a][i]})
    BY <2>6 DEF A!AddAssignment, A!DeleteAssignment, A!CallFails, A!NextToAdd, A!Holders
  <2>7. ASSUME NEW a \in Admins,
               \/ A!GetPolicyInfo(a) \/ A!Start(a) \/ A!GetServicePrincipals(a) \/ A!SkipPolicy(a)
               \/ A!StartPolicy(a) \/ A!Resolve(a) \/ A!NobodyFound(a) \/ A!ListAssignments(a)
               \/ A!AddRefused(a) \/ A!Changed(a) \/ A!ReturnCreated(a)
        PROVE  UNCHANGED member
    BY <2>7 DEF A!GetPolicyInfo, A!Start, A!GetServicePrincipals, A!SkipPolicy, A!StartPolicy, A!Resolve,
                A!NobodyFound, A!ListAssignments, A!AddRefused, A!Changed, A!ReturnCreated
  <2>8. CASE UNCHANGED A!vars BY <2>1, <2>8 DEF A!vars
  <2>9. ASSUME NEW a \in Admins, A!Run(a) \/ A!CallFails(a)
        PROVE  /\ u \in member[g] \ member'[g] => \E b \in Admins : mayTake(b, g, u)
               /\ u \in member'[g] \ member[g] =>
                    \E b \in Admins : phase[b] = "change" /\ wantedBy(b, g, u)
    <3> HIDE DEF mayTake, wantedBy
    <3> QED BY <2>1, <2>2, <2>3, <2>4, <2>5, <2>6, <2>7, <2>9 DEF A!Run
  <2> QED BY <1>1, <2>8, <2>9 DEF A!Next
<1> QED BY <1>1, AzureInit, AzureStep, PTL DEF A!Spec

-----------------------------------------------------------------------------
(* ResourceRoles and ApiGateway. *)

IsList(s) == \E S : s \in Seq(S)

\* An item of the table, whose resource and action have a place in the orders
\* by which policies are sorted, if it is about an HTTP method.
IsItem(item) ==
  /\ item = [resource |-> item.resource, action |-> item.action, roles |-> item.roles]
  /\ IsList(item.resource) /\ item.action \in DOMAIN itemMethod
  /\ itemMethod[item.action] # NoMethod =>
       W!Canonical(item.resource) \in W!ToSet(Resources) /\ uriOf[item.action] \in W!ToSet(Uris)

\* DynamoDB has one item for a resource and action.
IsTable(items) ==
  /\ \A item \in items : IsItem(item)
  /\ \A x, y \in items : x.resource = y.resource /\ x.action = y.action => x = y

IsWant(policies) ==
  \A p \in policies :
    /\ p.resource = << >> \/ p.resource \in W!ToSet(Resources)
    /\ p.actions \subseteq W!ToSet(Uris)

\* MethodsAssumption of ResourceRoles; the empty RAR has no resource and its
\* name no method; Resources and Uris list all there are.
GatewayAssumption ==
  /\ NoMethod \notin Methods /\ \A m \in Methods : m \in DOMAIN itemMethod /\ itemMethod[m] = m
  /\ \A x \in DOMAIN itemMethod : itemMethod[x] \in Methods \union {NoMethod}
  /\ \A x \in W!ToSet(Uris) : uriMethod[x] \in Methods \union {NoMethod}
  /\ \A x \in DOMAIN itemMethod : uriMethod[uriOf[x]] = itemMethod[x]
  /\ \A r, x, s : r # << >> => NoRar # [resource |-> r, action |-> x, roles |-> s]
  /\ \A m \in Methods : \A d : NoName # <<m, d>>
  /\ IsList(Resources) /\ IsList(Uris)
  /\ \A r \in W!ToSet(Resources) : IsList(r) /\ W!Canonical(r) \in W!ToSet(Resources)
  /\ \A x \in W!ToSet(Uris) : uriMethod[x] # NoMethod => uriOf[uriMethod[x]] \in W!ToSet(Uris)
  /\ \A items \in Tables : IsTable(items)
  /\ \A policies \in GatewayWants : IsWant(policies)

\* A name in the form that updates use is in that form for good.
LEMMA CanonicalFacts ==
  ASSUME NEW r, IsList(r)
  PROVE  /\ IsList(W!Canonical(r)) /\ W!Canonical(r) # << >>
         /\ W!Canonical(W!Canonical(r)) = W!Canonical(r)
         /\ W!Dashed(W!Canonical(r)) = W!Dashed(r)
<1>1. PICK S : r \in Seq(S) BY DEF IsList
<1> DEFINE s == W!Stripped(r)
<1>2. s \in Seq(S) BY <1>1 DEF W!Stripped
<1>3. W!Canonical(r) = <<"/">> \o s BY DEF W!Canonical
<1> HIDE DEF s
<1> DEFINE c == <<"/">> \o s
<1>4. c \in Seq(S \union {"/"}) /\ c # << >> /\ Head(c) = "/" /\ Tail(c) = s BY <1>2
<1> HIDE DEF c
<1>5. W!Stripped(c) = s BY <1>4 DEF W!Stripped
<1>6. W!Canonical(c) = c BY <1>5 DEF W!Canonical, c
<1>7. W!Dashed(c) = W!Dashed(r) BY <1>5 DEF W!Dashed, s
<1> QED BY <1>3, <1>4, <1>6, <1>7 DEF IsList, c

\* Only an item without a method or resource is no RAR, and the name keeps of
\* the others the method and the name with "/" and "-" alike.
LEMMA RarFacts ==
  ASSUME GatewayAssumption, NEW item, IsItem(item)
  PROVE  LET rar == W!NewRar(item)
             made == itemMethod[item.action] \in Methods /\ item.resource # << >>
         IN  /\ made <=> rar # NoRar
             /\ made => /\ rar = [resource |-> W!Canonical(item.resource), action |-> item.action,
                                  roles |-> item.roles]
                        /\ W!Name(rar) = <<itemMethod[item.action], W!Dashed(item.resource)>>
             /\ made <=> W!Name(rar) # NoName
<1> DEFINE made == itemMethod[item.action] \in Methods /\ item.resource # << >>
           rar == W!NewRar(item)
           c == W!Canonical(item.resource)
           full == [resource |-> c, action |-> item.action, roles |-> item.roles]
<1>1. c # << >> /\ W!Dashed(c) = W!Dashed(item.resource) BY CanonicalFacts DEF IsItem
<1>2. ~made => rar = NoRar BY DEF IsItem, GatewayAssumption, W!NewRar
<1>3. made => rar = [item EXCEPT !.resource = c] BY DEF GatewayAssumption, W!NewRar
<1> HIDE DEF c
<1>4. [item EXCEPT !.resource = c] = full BY DEF IsItem
<1>5. full # NoRar BY <1>1 DEF GatewayAssumption
<1>6. made => W!Name(rar) = <<itemMethod[item.action], W!Dashed(item.resource)>>
  BY <1>1, <1>3, <1>4, <1>5 DEF W!Name
<1>7. made => W!Name(rar) # NoName BY <1>6 DEF GatewayAssumption
<1>8. ~made => W!Name(rar) = NoName BY <1>2 DEF W!Name
<1> QED BY <1>2, <1>3, <1>4, <1>5, <1>6, <1>7, <1>8 DEF c

\* What is written for a policy can be an item, which has the name by which
\* the policy was looked up.
LEMMA UriRarFacts ==
  ASSUME GatewayAssumption, NEW r \in W!ToSet(Resources), r # << >>, NEW x \in W!ToSet(Uris), NEW roles,
         W!NewUriRar(r, x, roles) # NoRar
  PROVE  LET rar == W!NewUriRar(r, x, roles)
         IN  /\ rar = [resource |-> W!Canonical(r), action |-> uriMethod[x], roles |-> roles]
             /\ IsItem(rar) /\ rar.action \in Methods /\ W!NewRar(rar) = rar
             /\ W!Name(rar) = W!KeyForPolicy(r, x)
<1> DEFINE rar == [resource |-> W!Canonical(r), action |-> uriMethod[x], roles |-> roles]
<1>1. uriMethod[x] # NoMethod /\ W!NewUriRar(r, x, roles) = rar BY DEF W!NewUriRar
<1>2. uriMethod[x] \in Methods /\ itemMethod[uriMethod[x]] = uriMethod[x]
      /\ uriMethod[x] \in DOMAIN itemMethod /\ uriOf[uriMethod[x]] \in W!ToSet(Uris)
  BY <1>1 DEF GatewayAssumption
<1>3. /\ IsList(W!Canonical(r)) /\ W!Canonical(r) # << >> /\ W!Canonical(W!Canonical(r)) = W!Canonical(r)
      /\ W!Dashed(W!Canonical(r)) = W!Dashed(r) /\ W!Canonical(r) \in W!ToSet(Resources)
  BY CanonicalFacts DEF GatewayAssumption
<1>4. IsItem(rar) BY <1>2, <1>3 DEF IsItem
<1>5. W!NewRar(rar) = rar /\ W!Name(rar) = <<uriMethod[x], W!Dashed(r)>>
  BY <1>2, <1>3, <1>4, RarFacts
<1>6. W!KeyForPolicy(r, x) = <<uriMethod[x], W!Dashed(r)>> BY <1>1 DEF W!KeyForPolicy
<1> QED BY <1>1, <1>2, <1>4, <1>5, <1>6

Keyed == W!ToSet(Resources) \X W!ToSet(Uris)

\* Keys are sorted by resource, then action, a strict order of them all.
LEMMA BeforeOrders ==
  ASSUME GatewayAssumption
  PROVE  /\ \A k \in Keyed : ~W!Before(k, k)
         /\ \A k, l \in Keyed : W!Before(k, l) \/ W!Before(l, k) \/ k = l
         /\ \A k, l, m \in Keyed : W!Before(k, l) /\ W!Before(l, m) => W!Before(k, m)
<1> DEFINE place(list, x) == CHOOSE i \in DOMAIN list : list[i] = x
           p(k) == place(Resources, k[1])
           q(k) == place(Uris, k[2])
<1>1. ASSUME NEW list, IsList(list), NEW x \in W!ToSet(list)
      PROVE  place(list, x) \in Nat /\ list[place(list, x)] = x
  <2>1. \E i \in DOMAIN list : list[i] = x BY <1>1 DEF W!ToSet
  <2>2. place(list, x) \in DOMAIN list /\ list[place(list, x)] = x BY <2>1
  <2> QED BY <1>1, <2>2 DEF IsList
<1>2. \A k, l : W!Before(k, l) <=> p(k) < p(l) \/ (k[1] = l[1] /\ q(k) < q(l)) BY DEF W!Before
<1>3. \A k \in Keyed : /\ k[1] \in W!ToSet(Resources) /\ k[2] \in W!ToSet(Uris)
                       /\ k = <<k[1], k[2]>>
  BY DEF Keyed
<1> HIDE DEF place
<1>4. \A k \in Keyed : /\ p(k) \in Nat /\ Resources[p(k)] = k[1]
                       /\ q(k) \in Nat /\ Uris[q(k)] = k[2]
  BY <1>1, <1>3 DEF GatewayAssumption
<1> HIDE DEF p, q
<1>5. \A k, l \in Keyed : /\ p(k) = p(l) <=> k[1] = l[1]
                          /\ k[1] = l[1] /\ q(k) = q(l) => k = l
  <2>1. \A k, l \in Keyed : k[1] = l[1] => p(k) = p(l) BY DEF p
  <2> QED BY <1>3, <1>4, <2>1
<1> QED BY <1>2, <1>4, <1>5

\* The order has one list of any finite set of keys, which sortPolicies returns.
LEMMA SortedFacts ==
  ASSUME GatewayAssumption, NEW keys \in SUBSET Keyed, IsFiniteSet(keys)
  PROVE  /\ W!Sorted(keys) \in Seq(keys)
         /\ \A k \in keys : \E i \in DOMAIN W!Sorted(keys) : W!Sorted(keys)[i] = k
<1> DEFINE n == Cardinality(keys)
           below(k) == {l \in keys : W!Before(l, k)}
           rank == [k \in keys |-> Cardinality(below(k)) + 1]
           InOrder(list) == \A i, j \in DOMAIN list : i < j => W!Before(list[i], list[j])
<1>0. /\ \A k \in keys : ~W!Before(k, k)
      /\ \A k, l \in keys : W!Before(k, l) \/ W!Before(l, k) \/ k = l
      /\ \A k, l, m \in keys : W!Before(k, l) /\ W!Before(l, m) => W!Before(k, m)
  BY BeforeOrders
<1>1. n \in Nat BY FS_CardinalityType
<1>2. ASSUME NEW k \in keys PROVE Cardinality(below(k)) \in Nat /\ Cardinality(below(k)) < n
  <2>1. below(k) \in SUBSET keys /\ below(k) # keys BY <1>0
  <2>2. IsFiniteSet(below(k)) BY <2>1, FS_Subset
  <2> HIDE DEF below
  <2> QED BY <1>1, <2>1, <2>2, FS_Subset, FS_CardinalityType
<1>3. ASSUME NEW k \in keys, NEW l \in keys, W!Before(k, l) PROVE rank[k] < rank[l]
  <2>1. below(k) \in SUBSET below(l) /\ below(k) # below(l) BY <1>0, <1>3
  <2>2. IsFiniteSet(below(l)) BY FS_Subset
  <2> HIDE DEF below
  <2>3. Cardinality(below(k)) <= Cardinality(below(l)) /\ Cardinality(below(k)) # Cardinality(below(l))
    BY <2>1, <2>2, FS_Subset
  <2> QED BY <1>2, <2>3
<1>4. rank \in [keys -> 1..n]
  <2> HIDE DEF below
  <2> QED BY <1>1, <1>2
<1>5. IsFiniteSet(1..n) /\ Cardinality(1..n) = n BY <1>1, FS_Interval
<1>6. rank \in Surjection(keys, 1..n)
  <2> HIDE DEF rank, n
  <2>1. \A k, l \in keys : rank[k] = rank[l] => k = l BY <1>0, <1>1, <1>3, <1>4
  <2>2. rank \in Injection(keys, 1..n) BY <1>4, <2>1 DEF Injection, IsInjective
  <2> QED BY <1>5, <2>2, FS_Injection DEF n
<1> HIDE DEF rank
<1>7. \E list \in [1..n -> keys] : InOrder(list)
  <2> DEFINE list == [i \in 1..n |-> CHOOSE k \in keys : rank[k] = i]
  <2>1. \A i \in 1..n : list[i] \in keys /\ rank[list[i]] = i BY <1>6 DEF Surjection
  <2>2. list \in [1..n -> keys] /\ DOMAIN list = 1..n BY <2>1
  <2> HIDE DEF list
  <2>3. ASSUME NEW i \in 1..n, NEW j \in 1..n, i < j PROVE W!Before(list[i], list[j])
    <3>1. list[i] # list[j] BY <2>1, <2>3
    <3>2. W!Before(list[j], list[i]) => j < i BY <1>3, <2>1
    <3> QED BY <1>0, <1>1, <2>1, <2>3, <3>1, <3>2
  <2> QED BY <2>2, <2>3
<1> DEFINE sorted == W!Sorted(keys)
<1>8. W!Cardinality(keys) = n BY Zenon DEF W!Cardinality, Cardinality
<1>9. sorted = CHOOSE list \in [1..n -> keys] : InOrder(list) BY <1>8 DEF W!Sorted
<1> HIDE DEF sorted
<1>10. sorted \in [1..n -> keys] /\ InOrder(sorted) BY <1>7, <1>9
<1>11. sorted \in Surjection(1..n, keys)
  <2> HIDE DEF n
  <2>1. \A i, j \in 1..n : sorted[i] = sorted[j] => i = j BY <1>0, <1>1, <1>10
  <2>2. sorted \in Injection(1..n, keys) BY <1>10, <2>1 DEF Injection, IsInjective
  <2> QED BY <1>5, <2>2, FS_Injection DEF n
<1>12. sorted \in Seq(keys) /\ DOMAIN sorted = 1..n BY <1>1, <1>10
<1> QED BY <1>11, <1>12 DEF Surjection, sorted

KeyOf(k) == W!KeyForPolicy(k[1], k[2])
Flat(policies) == W!FlattenPolicy(policies)
Made(policies, k) == W!NewUriRar(k[1], k[2], Flat(policies)[k])
Differs(found, policies, k) ==
  /\ KeyOf(k) \in DOMAIN found
  /\ W!RolesOf(found[KeyOf(k)]) # Flat(policies)[k]

\* The keys of flattened policies are of a resource and an action.
LEMMA FlatFacts ==
  ASSUME NEW policies, IsWant(policies)
  PROVE  /\ DOMAIN Flat(policies) \subseteq Keyed
         /\ \A k \in DOMAIN Flat(policies) :
              /\ k[1] \in W!ToSet(Resources) /\ k[1] # << >> /\ k[2] \in W!ToSet(Uris)
              /\ \E p \in policies : p.resource = k[1] /\ k[2] \in p.actions
<1> DEFINE named == {p \in policies : p.resource # << >>}
<1>1. DOMAIN Flat(policies) = UNION {{p.resource} \X p.actions : p \in named}
  BY DEF Flat, W!FlattenPolicy
<1>2. ASSUME NEW k \in DOMAIN Flat(policies)
      PROVE  \E p \in policies : p.resource # << >> /\ k = <<p.resource, k[2]>> /\ k[2] \in p.actions
  BY <1>1, <1>2
<1>3. ASSUME NEW k \in DOMAIN Flat(policies)
      PROVE  /\ k \in Keyed /\ k[1] \in W!ToSet(Resources) /\ k[1] # << >> /\ k[2] \in W!ToSet(Uris)
             /\ \E p \in policies : p.resource = k[1] /\ k[2] \in p.actions
  <2>1. PICK p \in policies : p.resource # << >> /\ k = <<p.resource, k[2]>> /\ k[2] \in p.actions
    BY <1>2
  <2>2. p.resource \in W!ToSet(Resources) /\ k[2] \in W!ToSet(Uris) /\ k[1] = p.resource
    BY <2>1 DEF IsWant
  <2>3. k \in Keyed BY <2>1, <2>2 DEF Keyed
  <2> QED BY <2>1, <2>2, <2>3
<1> QED BY <1>3

LEMMA KeyedFinite == GatewayAssumption => IsFiniteSet(Keyed)
<1>1. ASSUME NEW list, IsList(list) PROVE IsFiniteSet(W!ToSet(list))
  <2>1. PICK S : list \in Seq(S) BY <1>1 DEF IsList
  <2>2. DOMAIN list = 1..Len(list) /\ Len(list) \in Nat BY <2>1
  <2>3. IsFiniteSet(DOMAIN list) BY <2>2, FS_Interval
  <2>4. list \in Surjection(DOMAIN list, W!ToSet(list)) BY <2>1 DEF Surjection, W!ToSet
  <2> QED BY <2>3, <2>4, FS_Surjection
<1> QED BY <1>1, FS_Product DEF GatewayAssumption, Keyed

\* CalcResourceActionRolesForUpdate returns one RAR for each key of the policies
\* that the map has with other roles.
LEMMA UpdatesFacts ==
  ASSUME GatewayAssumption, NEW policies, IsWant(policies), NEW found
  PROVE  LET us == W!Updates(found, policies)
         IN  /\ IsList(us)
             /\ \A i \in DOMAIN us :
                  \E k \in DOMAIN Flat(policies) : Differs(found, policies, k) /\ us[i] = Made(policies, k)
             /\ \A k \in DOMAIN Flat(policies) :
                  Differs(found, policies, k) => \E i \in DOMAIN us : us[i] = Made(policies, k)
<1> DEFINE needed == {k \in DOMAIN Flat(policies) : Differs(found, policies, k)}
           keys == W!Sorted(needed)
           us == [i \in DOMAIN keys |-> Made(policies, keys[i])]
<1>1. needed \in SUBSET Keyed BY FlatFacts
<1>2. IsFiniteSet(needed) BY <1>1, KeyedFinite, FS_Subset
<1>3. W!Updates(found, policies) = us
  BY DEF W!Updates, W!HasChanges, Differs, Flat, KeyOf, Made
<1> HIDE DEF needed
<1>4. keys \in Seq(needed) /\ \A k \in needed : \E i \in DOMAIN keys : keys[i] = k
  BY <1>1, <1>2, SortedFacts
<1> HIDE DEF keys
<1>5. us \in Seq({us[i] : i \in DOMAIN keys}) /\ DOMAIN us = DOMAIN keys BY <1>4
<1>6. \A i \in DOMAIN keys : keys[i] \in needed /\ us[i] = Made(policies, keys[i]) BY <1>4
<1> HIDE DEF us
<1> QED BY <1>3, <1>4, <1>5, <1>6 DEF IsList, needed

\* BuildPolicies and CalcResourceActionRolesForUpdate on one table: the policy of
\* an item gives the item back, so that all that could be written is there.
LEMMA ReadBack ==
  ASSUME GatewayAssumption, IsTable(table) PROVE W!ReadBackIsClean
<1> SUFFICES ASSUME \A item \in table :
                      W!NewRar(item) # NoRar =>
                        W!NewRar(item) = item /\ item.action = itemMethod[item.action],
                    NEW read \in SUBSET table, NEW found
             PROVE  \A u \in W!ToSet(W!Updates(found, W!BuildPolicies({W!NewRar(item) : item \in read}))) :
                      u \in table
  BY DEF W!ReadBackIsClean, W!Pages
<1> DEFINE policies == W!BuildPolicies({W!NewRar(item) : item \in read})
<1>1. ASSUME NEW p \in policies, p.resource # << >> \/ p.actions # {}
      PROVE  \E item \in table :
               /\ W!NewRar(item) # NoRar
               /\ p = [resource |-> item.resource, actions |-> {uriOf[item.action]},
                       subjects |-> item.roles]
  <2>1. PICK item \in read : p = W!PolicyOf(W!NewRar(item)) BY DEF W!BuildPolicies
  <2>2. W!NewRar(item) # NoRar BY <1>1, <2>1 DEF W!PolicyOf
  <2> QED BY <2>1, <2>2 DEF W!PolicyOf
<1>2. ASSUME NEW item \in table, W!NewRar(item) # NoRar
      PROVE  /\ item = [resource |-> item.resource, action |-> item.action, roles |-> item.roles]
             /\ item.resource = W!Canonical(item.resource) /\ item.resource \in W!ToSet(Resources)
             /\ uriOf[item.action] \in W!ToSet(Uris) /\ uriMethod[uriOf[item.action]] = item.action
             /\ item.action # NoMethod /\ item.resource # << >>
  <2>1. IsItem(item) /\ W!NewRar(item) = item /\ itemMethod[item.action] = item.action
    BY <1>2 DEF IsTable
  <2>2. /\ itemMethod[item.action] \in Methods /\ item.resource # << >>
        /\ W!NewRar(item) = [resource |-> W!Canonical(item.resource), action |-> item.action,
                             roles |-> item.roles]
    BY <1>2, <2>1, RarFacts
  <2>3. item.resource = W!Canonical(item.resource) BY <2>1, <2>2
  <2> QED BY <2>1, <2>2, <2>3 DEF IsItem, GatewayAssumption
<1>3. IsWant(policies)
  <2> SUFFICES ASSUME NEW p \in policies
               PROVE  /\ p.resource = << >> \/ p.resource \in W!ToSet(Resources)
                      /\ p.actions \subseteq W!ToSet(Uris)
    BY DEF IsWant
  <2> HIDE DEF policies
  <2>1. CASE p.resource # << >> \/ p.actions # {} BY <1>1, <1>2, <2>1
  <2>2. CASE p.resource = << >> /\ p.actions = {} BY <2>2
  <2> QED BY <2>1, <2>2
<1>4. ASSUME NEW k \in DOMAIN Flat(policies) PROVE Made(policies, k) \in table
  <2> DEFINE named == {p \in policies : p.resource # << >>}
             those == {q \in named : q.resource = k[1] /\ k[2] \in q.actions}
  <2> HIDE DEF policies
  <2>1. PICK p \in policies : p.resource = k[1] /\ k[2] \in p.actions /\ k[1] # << >>
    BY <1>3, FlatFacts
  <2>2. PICK item \in table :
          /\ W!NewRar(item) # NoRar
          /\ p = [resource |-> item.resource, actions |-> {uriOf[item.action]}, subjects |-> item.roles]
    BY <1>1, <2>1
  <2>3. k[1] = item.resource /\ k[2] = uriOf[item.action] BY <2>1, <2>2
  <2>4. ASSUME NEW q \in those PROVE q = p
    <3>1. PICK other \in table :
            /\ W!NewRar(other) # NoRar
            /\ q = [resource |-> other.resource, actions |-> {uriOf[other.action]},
                    subjects |-> other.roles]
      BY <1>1
    <3>2. other.resource = item.resource /\ uriOf[other.action] = uriOf[item.action]
      BY <2>3, <3>1
    <3>3. other.action = item.action BY <1>2, <2>2, <3>1, <3>2
    <3>4. other = item BY <3>2, <3>3 DEF IsTable
    <3> QED BY <2>2, <3>1, <3>4
  <2>5. those = {p} BY <2>1, <2>4
  <2>6. Flat(policies)[k] = UNION {q.subjects : q \in those}
    BY DEF Flat, W!FlattenPolicy
  <2> HIDE DEF those
  <2>7. UNION {q.subjects : q \in those} = item.roles BY <2>2, <2>5
  <2>8. Made(policies, k) = item
    BY <1>2, <2>2, <2>3, <2>6, <2>7 DEF Made, W!NewUriRar
  <2> QED BY <2>8
<1> HIDE DEF policies
<1>5. \A i \in DOMAIN W!Updates(found, policies) : W!Updates(found, policies)[i] \in table
  BY <1>3, <1>4, UpdatesFacts
<1> QED BY <1>5 DEF W!ToSet, policies

Names(items) == {W!Name(W!NewRar(item)) : item \in items}
Place(item) == <<item.resource, item.action>>
Places(items, key) == {Place(item) : item \in W!ItemsOf(items, key)}

\* What is made for a key of the policies.
LEMMA MadeFacts ==
  ASSUME GatewayAssumption, NEW policies, IsWant(policies), NEW k \in DOMAIN Flat(policies)
  PROVE  /\ Made(policies, k) # NoRar <=> KeyOf(k) # NoName
         /\ Made(policies, k) # NoRar =>
              LET u == Made(policies, k)
              IN  /\ IsItem(u) /\ W!NewRar(u) = u /\ W!Name(u) = KeyOf(k) /\ KeyOf(k) # NoName
                  /\ Place(u) = <<W!Canonical(k[1]), KeyOf(k)[1]>> /\ u.roles = Flat(policies)[k]
<1> DEFINE u == Made(policies, k)
<1>1. k[1] \in W!ToSet(Resources) /\ k[1] # << >> /\ k[2] \in W!ToSet(Uris) BY FlatFacts
<1>2. ASSUME u # NoRar
      PROVE  /\ IsItem(u) /\ W!NewRar(u) = u /\ W!Name(u) = KeyOf(k) /\ uriMethod[k[2]] \in Methods
             /\ u = [resource |-> W!Canonical(k[1]), action |-> uriMethod[k[2]],
                     roles |-> Flat(policies)[k]]
    BY <1>1, <1>2, UriRarFacts DEF Made, KeyOf
<1>3. u # NoRar => KeyOf(k) = <<uriMethod[k[2]], W!Dashed(k[1])>> /\ KeyOf(k) # NoName
  BY <1>1, <1>2 DEF GatewayAssumption, KeyOf, W!KeyForPolicy
<1>4. KeyOf(k) # NoName => u # NoRar
  <2>1. IsList(k[1]) BY <1>1 DEF GatewayAssumption
  <2>2. W!Canonical(k[1]) # << >> BY <2>1, CanonicalFacts
  <2>3. KeyOf(k) # NoName => uriMethod[k[2]] # NoMethod BY DEF KeyOf, W!KeyForPolicy
  <2> QED BY <2>2, <2>3 DEF Made, W!NewUriRar, GatewayAssumption
<1> HIDE DEF u
<1> QED BY <1>2, <1>3, <1>4 DEF Place, u

\* UpdateItem adds an item or replaces the one of that resource and action,
\* which has the same name.
LEMMA PutFacts ==
  ASSUME GatewayAssumption, IsTable(table), NEW u, IsItem(u), W!NewRar(u) = u, W!Put(u)
  PROVE  /\ IsTable(table') /\ table' \subseteq table \union {u}
         /\ \A key : key # W!Name(u) => W!ItemsOf(table', key) = W!ItemsOf(table, key)
         /\ u \in W!ItemsOf(table', W!Name(u))
         /\ \A item \in W!ItemsOf(table', W!Name(u)) :
              item = u \/ (item \in W!ItemsOf(table, W!Name(u)) /\ Place(item) # Place(u))
         /\ Names(table') = Names(table) \union {W!Name(u)}
         /\ \A key : Places(table', key) =
              Places(table, key) \union (IF key = W!Name(u) THEN {Place(u)} ELSE {})
<1> DEFINE n == W!Name(u)
           name(item) == W!Name(W!NewRar(item))
<1>1. ASSUME NEW item \in table, item.resource = u.resource, item.action = u.action
      PROVE  name(item) = n
  <2>1. IsItem(item) BY DEF IsTable
  <2> QED BY <1>1, <2>1, RarFacts
<1>2. table' = {item \in table : item.resource # u.resource \/ item.action # u.action} \union {u}
  BY DEF W!Put
<1>3. name(u) = n OBVIOUS
<1>4. \A x, y : Place(x) = Place(y) <=> x.resource = y.resource /\ x.action = y.action BY DEF Place
<1> HIDE DEF n, name
<1>5. IsTable(table') /\ table' \subseteq table \union {u} BY <1>2 DEF IsTable
<1>6. \A items, key : W!ItemsOf(items, key) = {item \in items : name(item) = key}
  BY DEF W!ItemsOf, name
<1>7. ASSUME NEW key, key # n PROVE W!ItemsOf(table', key) = W!ItemsOf(table, key)
  BY <1>1, <1>2, <1>3, <1>6, <1>7
<1>8. u \in W!ItemsOf(table', n) BY <1>2, <1>3, <1>6
<1>9. \A item \in W!ItemsOf(table', n) :
        item = u \/ (item \in W!ItemsOf(table, n) /\ Place(item) # Place(u))
  BY <1>2, <1>4, <1>6
<1>10. \A item \in table : \E x \in table' : name(x) = name(item) /\ Place(x) = Place(item)
  BY <1>1, <1>2, <1>3, <1>4
<1>11. Names(table') = Names(table) \union {n}
  <2>1. \A items : Names(items) = {name(item) : item \in items} BY DEF Names, name
  <2> QED BY <1>2, <1>3, <1>10, <2>1
<1>12. ASSUME NEW key
       PROVE  Places(table', key) =
                Places(table, key) \union (IF key = n THEN {Place(u)} ELSE {})
  <2>1. CASE key # n BY <1>7, <2>1 DEF Places
  <2>2. CASE key = n
    <3>1. Places(table', n) \subseteq Places(table, n) \union {Place(u)}
      BY <1>9 DEF Places
    <3>2. Place(u) \in Places(table', n) BY <1>8 DEF Places
    <3>3. Places(table, n) \subseteq Places(table', n)
      <4>1. ASSUME NEW item \in W!ItemsOf(table, n) PROVE Place(item) \in Places(table', n)
        <5>1. item \in table /\ name(item) = n BY <1>6
        <5>2. PICK x \in table' : name(x) = n /\ Place(x) = Place(item) BY <1>10, <5>1
        <5>3. x \in W!ItemsOf(table', n) BY <1>6, <5>2
        <5> QED BY <5>2, <5>3 DEF Places
      <4> QED BY <4>1 DEF Places
    <3> QED BY <2>2, <3>1, <3>2, <3>3
  <2> QED BY <2>1, <2>2
<1> QED BY <1>5, <1>7, <1>8, <1>9, <1>11, <1>12 DEF n

GatewayTypeOK ==
  /\ IsTable(table) /\ want \in [Admins -> GatewayWants]
  /\ phase \in [Admins -> {"idle", "scan", "update", "done"}]
  /\ updates = [a \in Admins |-> updates[a]] /\ \A a \in Admins : IsList(updates[a])
  /\ result \in [Admins -> Nat] /\ alone \in [Admins -> BOOLEAN]
  /\ seen = [a \in Admins |-> seen[a]]

\* What is left to write was made for a key that the table has.
UpdatesOK(a) ==
  \A i \in DOMAIN updates[a] : updates[a][i] # NoRar =>
    \E k \in DOMAIN Flat(want[a]) :
      updates[a][i] = Made(want[a], k) /\ KeyOf(k) \in Names(table)

\* All of a's policies for the key write one item, with one set of roles.
OnePlace(a, key, place) ==
  /\ \E roles : W!RolesFor(want[a], key) = {roles}
  /\ \A k \in DOMAIN Flat(want[a]) : KeyOf(k) = key => <<W!Canonical(k[1]), key[1]>> = place

Roles(key) == {item.roles : item \in W!ItemsOf(table, key)}

Pending(a, key) ==
  \E i \in DOMAIN updates[a] : updates[a][i] # NoRar /\ W!Name(updates[a][i]) = key

\* a, who scanned the whole table, wants something of the key and has nothing
\* left to write for it.
Settled(a, key) ==
  /\ key \in W!Keys(want[a]) /\ seen[a] # {}
  /\ result[a] = 201 \/ (phase[a] = "update" /\ ~Pending(a, key))

Scanned(a) == seen[a] # {} /\ (phase[a] = "update" \/ result[a] = 201)

\* A run alone finds the item it scanned, with the policies' roles once the key
\* is settled.
AppliedOK(a) ==
  alone[a] /\ Scanned(a) =>
    \A key, place :
      OnePlace(a, key, place) /\ Places(seen[a], key) = {place} =>
        /\ Places(table, key) = {place}
        /\ Settled(a, key) => Roles(key) = W!RolesFor(want[a], key)

\* An item that all write in one place has the roles somebody wants once it is
\* settled for anyone.
SettledOK ==
  \A key, place :
    /\ \A a \in Admins : OnePlace(a, key, place)
    /\ Places(table, key) = {place}
    /\ \E a \in Admins : Settled(a, key)
    => \E b \in Admins : Roles(key) = W!RolesFor(want[b], key)

\* The table grew from items: no name came to it, no item went, and what came
\* is where the policies write.
Grown(items) ==
  /\ Names(table) = Names(items)
  /\ \A key : Places(items, key) \subseteq Places(table, key)
  /\ \A key : \A place \in Places(table, key) \ Places(items, key) :
       \E a \in Admins : \E k \in DOMAIN Flat(want[a]) :
         KeyOf(k) = key /\ place = <<W!Canonical(k[1]), key[1]>>
  /\ \A a \in Admins : Scanned(a) =>
       \A key : Places(items, key) \subseteq Places(seen[a], key)
                  /\ Places(seen[a], key) \subseteq Places(table, key)

GatewayInv ==
  /\ GatewayTypeOK /\ AloneOnly /\ DoneIfCreated
  /\ \A a \in Admins : UpdatesOK(a) /\ AppliedOK(a)
  /\ SettledOK
  /\ \E items : Grown(items)

LEMMA GatewayInit == GatewayAssumption /\ W!Init => GatewayInv
<1> SUFFICES ASSUME GatewayAssumption, W!Init PROVE GatewayInv
  OBVIOUS
<1>1. /\ table \in Tables /\ want \in [Admins -> GatewayWants]
      /\ phase = [a \in Admins |-> "idle"] /\ updates = [a \in Admins |-> << >>]
      /\ result = [a \in Admins |-> 0] /\ alone = [a \in Admins |-> FALSE]
      /\ seen = [a \in Admins |-> {}]
  BY DEF W!Init
<1>2. GatewayTypeOK BY <1>1 DEF GatewayTypeOK, GatewayAssumption, IsList
<1>3. AloneOnly /\ DoneIfCreated BY <1>1 DEF AloneOnly, DoneIfCreated
<1>4. \A a \in Admins : UpdatesOK(a) /\ AppliedOK(a) BY <1>1 DEF UpdatesOK, AppliedOK
<1>5. \A a \in Admins : ~Scanned(a) BY <1>1 DEF Scanned
<1>6. SettledOK BY <1>1 DEF SettledOK, Settled
<1>7. Grown(table) BY <1>5 DEF Grown
<1> QED BY <1>2, <1>3, <1>4, <1>6, <1>7 DEF GatewayInv

\* Keys of policies and of the flattened list are the same.
LEMMA KeysFacts ==
  ASSUME NEW policies, NEW key
  PROVE  /\ key \in W!Keys(policies) <=>
              key # NoName /\ \E k \in DOMAIN Flat(policies) : KeyOf(k) = key
         /\ W!RolesFor(policies, key) =
              {Flat(policies)[k] : k \in {l \in DOMAIN Flat(policies) : KeyOf(l) = key}}
<1>1. W!Keys(policies) = {KeyOf(k) : k \in DOMAIN Flat(policies)} \ {NoName}
  BY DEF W!Keys, Flat, KeyOf
<1>2. W!RolesFor(policies, key) =
        {Flat(policies)[k] : k \in {l \in DOMAIN Flat(policies) : KeyOf(l) = key}}
  BY DEF W!RolesFor, Flat, KeyOf
<1> QED BY <1>1, <1>2

LEMMA OneItem ==
  ASSUME NEW items, IsTable(items), NEW key, NEW place, Places(items, key) = {place}
  PROVE  \E x : W!ItemsOf(items, key) = {x} /\ Place(x) = place
<1>1. PICK x \in W!ItemsOf(items, key) : Place(x) = place BY DEF Places
<1>2. \A y \in W!ItemsOf(items, key) : Place(y) = place BY DEF Places
<1>3. \A y \in W!ItemsOf(items, key) : y \in items BY DEF W!ItemsOf
<1>4. \A y \in W!ItemsOf(items, key) : y = x BY <1>1, <1>2, <1>3 DEF IsTable, Place
<1> QED BY <1>1, <1>4

\* The next of the updates.
LEMMA HeadFacts ==
  ASSUME GatewayAssumption, GatewayInv, NEW a \in Admins, updates[a] # << >>, Head(updates[a]) # NoRar
  PROVE  LET u == Head(updates[a])
         IN  /\ IsItem(u) /\ W!NewRar(u) = u /\ W!Name(u) \in Names(table)
             /\ \E k \in DOMAIN Flat(want[a]) :
                  /\ W!Name(u) = KeyOf(k) /\ Place(u) = <<W!Canonical(k[1]), KeyOf(k)[1]>>
                  /\ u.roles = Flat(want[a])[k]
             /\ Pending(a, W!Name(u))
<1> DEFINE u == Head(updates[a])
<1>1. IsList(updates[a]) /\ IsWant(want[a]) /\ UpdatesOK(a)
  BY DEF GatewayInv, GatewayTypeOK, GatewayAssumption
<1>2. 1 \in DOMAIN updates[a] /\ updates[a][1] = u BY <1>1 DEF IsList
<1> HIDE DEF u
<1>3. PICK k \in DOMAIN Flat(want[a]) : u = Made(want[a], k) /\ KeyOf(k) \in Names(table)
  BY <1>1, <1>2 DEF UpdatesOK, u
<1>4. /\ IsItem(u) /\ W!NewRar(u) = u /\ W!Name(u) = KeyOf(k)
      /\ Place(u) = <<W!Canonical(k[1]), KeyOf(k)[1]>> /\ u.roles = Flat(want[a])[k]
  BY <1>1, <1>3, MadeFacts DEF u
<1> QED BY <1>2, <1>3, <1>4 DEF u, Pending

LEMMA PutWanted ==
  ASSUME GatewayAssumption, GatewayInv, NEW a \in Admins, updates[a] # << >>,
         Head(updates[a]) # NoRar, W!Put(Head(updates[a]))
  PROVE  LET n == W!Name(Head(updates[a]))
         IN  /\ IsTable(table') /\ Names(table') = Names(table)
             /\ \A key : Places(table, key) \subseteq Places(table', key)
             /\ \A key : \A place \in Places(table', key) \ Places(table, key) :
                  \E k \in DOMAIN Flat(want[a]) :
                    KeyOf(k) = key /\ place = <<W!Canonical(k[1]), key[1]>>
             /\ \A key : key # n =>
                  Places(table', key) = Places(table, key) /\ Roles(key)' = Roles(key)
             /\ \A key, place : key = n /\ OnePlace(a, key, place) =>
                  /\ Places(table, key) = {place} => Places(table', key) = {place}
                  /\ Places(table', key) = {place} => Roles(key)' = W!RolesFor(want[a], key)
<1> DEFINE u == Head(updates[a])
           n == W!Name(u)
<1>1. PICK k \in DOMAIN Flat(want[a]) :
        /\ n = KeyOf(k) /\ Place(u) = <<W!Canonical(k[1]), KeyOf(k)[1]>>
        /\ u.roles = Flat(want[a])[k]
  BY HeadFacts
<1>2. IsItem(u) /\ W!NewRar(u) = u /\ n \in Names(table) BY HeadFacts
<1>3. IsTable(table) BY DEF GatewayInv, GatewayTypeOK
<1> HIDE DEF u
<1>4. W!Put(u) BY DEF u
<1>5. /\ IsTable(table') /\ Names(table') = Names(table) \union {n}
      /\ \A key : key # n => W!ItemsOf(table', key) = W!ItemsOf(table, key)
      /\ u \in W!ItemsOf(table', n)
      /\ \A key : Places(table', key) =
           Places(table, key) \union (IF key = n THEN {Place(u)} ELSE {})
  <2>1. IsItem(u) /\ W!NewRar(u) = u BY <1>2
  <2> QED BY <1>3, <1>4, <2>1, PutFacts
<1> HIDE DEF n
<1>6. \A key : key # n => Places(table', key) = Places(table, key) /\ Roles(key)' = Roles(key)
  BY <1>5 DEF Places, Roles
<1>7. ASSUME NEW key, NEW place, key = n, OnePlace(a, key, place)
      PROVE  /\ Places(table, key) = {place} => Places(table', key) = {place}
             /\ Places(table', key) = {place} => Roles(key)' = W!RolesFor(want[a], key)
  <2>1. Place(u) = place BY <1>1, <1>7 DEF OnePlace
  <2>2. ASSUME Places(table', key) = {place} PROVE Roles(key)' = W!RolesFor(want[a], key)
    <3>0. IsTable(table') BY <1>5
    <3>1. PICK x : W!ItemsOf(table', key) = {x} BY <2>2, <3>0, OneItem
    <3>2. W!ItemsOf(table', key) = {u} BY <1>5, <1>7, <3>1
    <3>3. Roles(key)' = {u.roles} BY <3>2 DEF Roles
    <3>4. Flat(want[a])[k] \in W!RolesFor(want[a], key) BY <1>1, <1>7, KeysFacts
    <3> QED BY <1>1, <1>7, <3>3, <3>4 DEF OnePlace
  <2> QED BY <1>5, <1>7, <2>1, <2>2
<1>8. \A key : \A place \in Places(table', key) \ Places(table, key) :
        KeyOf(k) = key /\ place = <<W!Canonical(k[1]), key[1]>>
  BY <1>1, <1>5
<1> QED BY <1>2, <1>5, <1>6, <1>7, <1>8 DEF n, u

\* What an update, even one whose call fails, keeps.
LEMMA AfterPut ==
  ASSUME GatewayAssumption, GatewayInv, NEW a \in Admins, updates[a] # << >>, phase[a] = "update",
         Head(updates[a]) # NoRar, W!Put(Head(updates[a])), UNCHANGED <<want, seen, alone>>,
         \A b \in Admins \ {a} :
           phase'[b] = phase[b] /\ result'[b] = result[b] /\ updates'[b] = updates[b],
         Scanned(a)' => Scanned(a),
         \A key : Settled(a, key)' => Settled(a, key) \/ key = W!Name(Head(updates[a]))
  PROVE  /\ IsTable(table') /\ \A b \in Admins \ {a} : UpdatesOK(b)'
         /\ \A b \in Admins : AppliedOK(b)'
         /\ SettledOK' /\ \E items : Grown(items)'
<1> DEFINE n == W!Name(Head(updates[a]))
<1>0. /\ IsTable(table') /\ Names(table') = Names(table)
      /\ \A key : Places(table, key) \subseteq Places(table', key)
      /\ \A key : \A place \in Places(table', key) \ Places(table, key) :
           \E k \in DOMAIN Flat(want[a]) :
             KeyOf(k) = key /\ place = <<W!Canonical(k[1]), key[1]>>
      /\ \A key : key # n =>
           Places(table', key) = Places(table, key) /\ Roles(key)' = Roles(key)
      /\ \A key, place : key = n /\ OnePlace(a, key, place) =>
           /\ Places(table, key) = {place} => Places(table', key) = {place}
           /\ Places(table', key) = {place} => Roles(key)' = W!RolesFor(want[a], key)
  BY PutWanted
<1>1. \A key : Settled(a, key)' => Settled(a, key) \/ key = n OBVIOUS
<1> HIDE DEF n
<1>2. \A b \in Admins : \A key, place : OnePlace(b, key, place)' <=> OnePlace(b, key, place)
  BY DEF OnePlace
<1>3. ASSUME NEW b \in Admins \ {a} PROVE UpdatesOK(b)'
  <2>1. UpdatesOK(b) BY DEF GatewayInv
  <2> QED BY <1>0, <2>1 DEF UpdatesOK
<1>4. ASSUME NEW b \in Admins \ {a}
      PROVE (Scanned(b)' <=> Scanned(b)) /\ \A key : Settled(b, key)' <=> Settled(b, key)
  BY DEF Scanned, Settled, Pending
<1>5. ASSUME NEW b \in Admins PROVE AppliedOK(b)'
  <2>1. CASE b = a
    <3> SUFFICES ASSUME alone[a], Scanned(a), NEW key, NEW place,
                        OnePlace(a, key, place), Places(seen[a], key) = {place}
                 PROVE  /\ Places(table', key) = {place}
                        /\ Settled(a, key)' => Roles(key)' = W!RolesFor(want[a], key)
      BY <1>2, <2>1 DEF AppliedOK
    <3>1. /\ Places(table, key) = {place}
          /\ Settled(a, key) => Roles(key) = W!RolesFor(want[a], key)
      BY DEF GatewayInv, AppliedOK
    <3> QED BY <1>0, <1>1, <3>1
  <2>2. CASE b # a
    <3>1. ~alone[b] BY <2>2 DEF GatewayInv, AloneOnly, Resting
    <3> QED BY <3>1 DEF AppliedOK
  <2> QED BY <2>1, <2>2
<1>6. SettledOK'
  <2> SUFFICES ASSUME NEW key, NEW place, \A b \in Admins : OnePlace(b, key, place),
                      Places(table', key) = {place}, NEW b \in Admins, Settled(b, key)'
               PROVE  \E c \in Admins : Roles(key)' = W!RolesFor(want[c], key)
    BY <1>2 DEF SettledOK
  <2>1. CASE key = n BY <1>0, <2>1
  <2>2. CASE key # n
    <3>1. Settled(b, key) BY <1>1, <1>4, <2>2
    <3>2. Places(table, key) = {place} /\ Roles(key)' = Roles(key) BY <1>0, <2>2
    <3> QED BY <3>1, <3>2 DEF GatewayInv, SettledOK
  <2> QED BY <2>1, <2>2
<1>7. \E items : Grown(items)'
  <2>1. PICK items : Grown(items) BY DEF GatewayInv
  <2>2. Names(table') = Names(items) /\ \A key : Places(items, key) \subseteq Places(table', key)
    BY <1>0, <2>1 DEF Grown
  <2>3. ASSUME NEW key, NEW place \in Places(table', key) \ Places(items, key)
        PROVE  \E b \in Admins : \E k \in DOMAIN Flat(want[b]) :
                 KeyOf(k) = key /\ place = <<W!Canonical(k[1]), key[1]>>
    <3>1. CASE place \in Places(table, key) BY <2>1, <2>3, <3>1 DEF Grown
    <3>2. CASE place \notin Places(table, key) BY <1>0, <2>3, <3>2
    <3> QED BY <3>1, <3>2
  <2>4. ASSUME NEW b \in Admins, Scanned(b)', NEW key
        PROVE  /\ Places(items, key) \subseteq Places(seen[b], key)
               /\ Places(seen[b], key) \subseteq Places(table', key)
    <3>1. Scanned(b) BY <1>4, <2>4
    <3> QED BY <1>0, <2>1, <3>1 DEF Grown
  <2>5. Grown(items)' BY <2>2, <2>3, <2>4 DEF Grown
  <2> QED BY <2>5
<1> QED BY <1>0, <1>3, <1>5, <1>6, <1>7

\* A step of a that leaves the table as it is.
LEMMA TableKept ==
  ASSUME GatewayInv, NEW a \in Admins, UNCHANGED <<table, want>>,
         GatewayTypeOK', AloneOnly', DoneIfCreated', UpdatesOK(a)', AppliedOK(a)',
         \A b \in Admins \ {a} :
           /\ phase'[b] = phase[b] /\ result'[b] = result[b] /\ updates'[b] = updates[b]
           /\ seen'[b] = seen[b] /\ (alone'[b] => alone[b]),
         Scanned(a)' => (Scanned(a) /\ seen'[a] = seen[a]) \/ seen'[a] = table,
         \A key : Settled(a, key)' =>
           \/ Settled(a, key)
           \/ \A place : OnePlace(a, key, place) /\ Places(table, key) = {place} =>
                Roles(key) = W!RolesFor(want[a], key)
  PROVE  GatewayInv'
<1>1. \A b \in Admins : \A key, place : OnePlace(b, key, place)' <=> OnePlace(b, key, place)
  BY DEF OnePlace
<1>2. \A key : Roles(key)' = Roles(key) BY DEF Roles
<1>3. ASSUME NEW b \in Admins \ {a}
      PROVE (Scanned(b)' <=> Scanned(b)) /\ \A key : Settled(b, key)' <=> Settled(b, key)
  BY DEF Scanned, Settled, Pending
<1>4. ASSUME NEW b \in Admins \ {a} PROVE UpdatesOK(b)' /\ AppliedOK(b)'
  <2>1. UpdatesOK(b) /\ AppliedOK(b) BY DEF GatewayInv
  <2>2. UpdatesOK(b)' BY <2>1 DEF UpdatesOK
  <2>3. AppliedOK(b)' BY <1>1, <1>2, <1>3, <2>1 DEF AppliedOK
  <2> QED BY <2>2, <2>3
<1>5. SettledOK'
  <2> SUFFICES ASSUME NEW key, NEW place, \A b \in Admins : OnePlace(b, key, place),
                      Places(table, key) = {place}, NEW b \in Admins, Settled(b, key)'
               PROVE  \E c \in Admins : Roles(key) = W!RolesFor(want[c], key)
    BY <1>1, <1>2 DEF SettledOK
  <2>1. CASE \E c \in Admins : Settled(c, key) BY <2>1 DEF GatewayInv, SettledOK
  <2>2. CASE \A c \in Admins : ~Settled(c, key)
    <3>1. b = a BY <1>3, <2>2
    <3> QED BY <2>2, <3>1
  <2> QED BY <2>1, <2>2
<1>6. \E items : Grown(items)'
  <2>1. PICK items : Grown(items) BY DEF GatewayInv
  <2>2. ASSUME NEW b \in Admins, Scanned(b)', NEW key
        PROVE  /\ Places(items, key) \subseteq Places(seen'[b], key)
               /\ Places(seen'[b], key) \subseteq Places(table, key)
    <3>1. (Scanned(b) /\ seen'[b] = seen[b]) \/ seen'[b] = table BY <1>3, <2>2
    <3> QED BY <2>1, <3>1 DEF Grown
  <2>3. Grown(items)' BY <2>1, <2>2 DEF Grown
  <2> QED BY <2>3
<1> QED BY <1>4, <1>5, <1>6 DEF GatewayInv

\* A scan of the whole table that leaves nothing to write for an item found it as
\* wanted.
LEMMA ScanSettles ==
  ASSUME GatewayAssumption, GatewayInv, NEW a \in Admins, W!Scan(a), NEW key, NEW place,
         OnePlace(a, key, place), Places(table, key) = {place}, Settled(a, key)'
  PROVE  Roles(key) = W!RolesFor(want[a], key)
<1> DEFINE rars == {W!NewRar(item) : item \in table}
<1>1. /\ GatewayTypeOK /\ IsTable(table) /\ IsWant(want[a]) /\ phase[a] = "scan" /\ result[a] # 201
      /\ UNCHANGED <<want, result>>
  BY DEF GatewayInv, GatewayTypeOK, GatewayAssumption, DoneIfCreated, W!Scan
<1>2. PICK found \in W!RarMaps(rars) :
        updates' = [updates EXCEPT ![a] = W!Updates(found, want[a])]
  <2>1. PICK page \in W!Pages :
          /\ \E e \in W!RarMaps({W!NewRar(item) : item \in page}) :
               updates' = [updates EXCEPT ![a] = W!Updates(e, want[a])]
          /\ seen' = [seen EXCEPT ![a] = IF page = table THEN table ELSE {}]
    BY DEF W!Scan
  <2>2. page = table BY <1>1, <2>1 DEF GatewayTypeOK, Settled
  <2> QED BY <2>1, <2>2
<1>3. updates'[a] = W!Updates(found, want[a]) BY <1>1, <1>2 DEF GatewayTypeOK
<1>4. key \in W!Keys(want[a]) /\ ~Pending(a, key)' BY <1>1 DEF Settled
<1>5. PICK k \in DOMAIN Flat(want[a]) : KeyOf(k) = key /\ key # NoName BY <1>4, KeysFacts
<1>6. Made(want[a], k) # NoRar /\ W!Name(Made(want[a], k)) = key BY <1>1, <1>5, MadeFacts
<1>7. PICK x : W!ItemsOf(table, key) = {x} BY <1>1, OneItem
<1>8. x \in table /\ W!Name(W!NewRar(x)) = key
      /\ \A y \in table : W!Name(W!NewRar(y)) = key => y = x
  BY <1>7 DEF W!ItemsOf
<1>9. /\ DOMAIN found = {W!Name(r) : r \in rars}
      /\ \A n \in DOMAIN found : found[n] \in rars /\ W!Name(found[n]) = n
  BY DEF W!RarMaps
<1>10. key \in DOMAIN found /\ found[key] = W!NewRar(x)
  <2>1. key \in DOMAIN found BY <1>8, <1>9
  <2> QED BY <1>8, <1>9, <2>1
<1>11. W!RolesOf(found[key]) = x.roles
  <2>1. IsItem(x) BY <1>1, <1>8 DEF IsTable
  <2>2. W!NewRar(x) # NoRar /\ W!NewRar(x).roles = x.roles BY <1>5, <1>8, <2>1, RarFacts
  <2> QED BY <1>10, <2>2 DEF W!RolesOf
<1>12. ~Differs(found, want[a], k)
  <2> SUFFICES ASSUME Differs(found, want[a], k) PROVE Pending(a, key)'
    BY <1>4
  <2>1. PICK i \in DOMAIN W!Updates(found, want[a]) : W!Updates(found, want[a])[i] = Made(want[a], k)
    BY <1>1, UpdatesFacts
  <2> QED BY <1>3, <1>6, <2>1 DEF Pending
<1>13. x.roles = Flat(want[a])[k] BY <1>5, <1>10, <1>11, <1>12 DEF Differs
<1>14. Flat(want[a])[k] \in W!RolesFor(want[a], key) BY <1>5, KeysFacts
<1>15. Roles(key) = {x.roles} BY <1>7 DEF Roles
<1> QED BY <1>13, <1>14, <1>15 DEF OnePlace

LEMMA GatewayStartStep ==
  ASSUME GatewayAssumption, GatewayInv, NEW a \in Admins, W!Start(a) PROVE GatewayInv'
<1>0. GatewayTypeOK BY DEF GatewayInv
<1>1. /\ phase' = [phase EXCEPT ![a] = "scan"] /\ updates' = [updates EXCEPT ![a] = << >>]
      /\ result' = [result EXCEPT ![a] = 0] /\ UNCHANGED <<table, want, seen>>
      /\ alone' = [b \in Admins |->
                     b = a /\ \A c \in Admins \ {a} : phase[c] \in {"idle", "done"}]
  BY DEF W!Start
<1>2. /\ phase'[a] = "scan" /\ updates'[a] = << >> /\ result'[a] = 0
      /\ \A b \in Admins \ {a} :
           /\ phase'[b] = phase[b] /\ result'[b] = result[b] /\ updates'[b] = updates[b]
           /\ seen'[b] = seen[b] /\ ~alone'[b]
  BY <1>0, <1>1 DEF GatewayTypeOK
<1>3. GatewayTypeOK'
  <2>1. \A b \in Admins : IsList(updates'[b])
    <3>1. IsList(<< >>) BY DEF IsList
    <3> QED BY <1>0, <1>2, <3>1 DEF GatewayTypeOK
  <2> QED BY <1>0, <1>1, <2>1 DEF GatewayTypeOK
<1>4. AloneOnly' BY <1>0, <1>1 DEF GatewayTypeOK, AloneOnly, Resting
<1>5. DoneIfCreated' BY <1>2 DEF GatewayInv, DoneIfCreated
<1>6. UpdatesOK(a)' BY <1>2 DEF UpdatesOK
<1>7. ~Scanned(a)' /\ \A key : ~Settled(a, key)' BY <1>2 DEF Scanned, Settled
<1>8. AppliedOK(a)' BY <1>7 DEF AppliedOK
<1> QED BY <1>1, <1>2, <1>3, <1>4, <1>5, <1>6, <1>7, <1>8, TableKept

LEMMA GatewayScanStep ==
  ASSUME GatewayAssumption, GatewayInv, NEW a \in Admins, W!Scan(a) PROVE GatewayInv'
<1>0. GatewayTypeOK /\ IsWant(want[a])
  BY DEF GatewayInv, GatewayTypeOK, GatewayAssumption
<1>P. PICK page \in SUBSET table :
        /\ \E e \in W!RarMaps({W!NewRar(item) : item \in page}) :
             updates' = [updates EXCEPT ![a] = W!Updates(e, want[a])]
        /\ seen' = [seen EXCEPT ![a] = IF page = table THEN table ELSE {}]
  BY DEF W!Scan, W!Pages
<1>1. PICK found \in W!RarMaps({W!NewRar(item) : item \in page}) :
        updates' = [updates EXCEPT ![a] = W!Updates(found, want[a])]
  BY <1>P
<1>2. /\ phase[a] = "scan" /\ phase' = [phase EXCEPT ![a] = "update"]
      /\ UNCHANGED <<table, want, result, alone>>
  BY DEF W!Scan
<1>3. DOMAIN found \subseteq Names(table) BY DEF W!RarMaps, Names
<1>4. /\ IsList(W!Updates(found, want[a]))
      /\ \A i \in DOMAIN W!Updates(found, want[a]) :
           \E k \in DOMAIN Flat(want[a]) :
             Differs(found, want[a], k) /\ W!Updates(found, want[a])[i] = Made(want[a], k)
  BY <1>0, UpdatesFacts
<1>5. /\ phase'[a] = "update" /\ updates'[a] = W!Updates(found, want[a])
      /\ seen'[a] \in {table, {}}
      /\ \A b \in Admins \ {a} :
           /\ phase'[b] = phase[b] /\ result'[b] = result[b] /\ updates'[b] = updates[b]
           /\ seen'[b] = seen[b]
  BY <1>0, <1>1, <1>2, <1>P DEF GatewayTypeOK
<1>6. GatewayTypeOK'
  <2>1. \A b \in Admins : IsList(updates'[b]) BY <1>0, <1>4, <1>5 DEF GatewayTypeOK
  <2> QED BY <1>0, <1>1, <1>2, <1>P, <2>1 DEF GatewayTypeOK
<1>7. \A b \in Admins : b # a => ~alone[b] BY <1>2 DEF GatewayInv, AloneOnly, Resting
<1>8. AloneOnly' BY <1>2, <1>5, <1>7 DEF GatewayInv, AloneOnly
<1>9. DoneIfCreated' BY <1>2, <1>5 DEF GatewayInv, DoneIfCreated
<1>10. UpdatesOK(a)' BY <1>2, <1>3, <1>4, <1>5 DEF UpdatesOK, Differs
<1>11. \A key, place : OnePlace(a, key, place)' <=> OnePlace(a, key, place)
  BY <1>2 DEF OnePlace
<1>12. \A key : Roles(key)' = Roles(key) BY <1>2 DEF Roles
<1>13. \A key, place : OnePlace(a, key, place) /\ Places(table, key) = {place} /\ Settled(a, key)' =>
         Roles(key) = W!RolesFor(want[a], key)
  BY ScanSettles
<1>14. Scanned(a)' => seen'[a] = table BY <1>5 DEF Scanned
<1>15. AppliedOK(a)' BY <1>2, <1>11, <1>12, <1>13, <1>14 DEF AppliedOK
<1> QED BY <1>2, <1>5, <1>6, <1>8, <1>9, <1>10, <1>13, <1>14, <1>15, TableKept

LEMMA GatewayUpdateStep ==
  ASSUME GatewayAssumption, GatewayInv, NEW a \in Admins, W!Update(a) PROVE GatewayInv'
<1> DEFINE s == updates[a]
           t == updates'[a]
           n == W!Name(Head(updates[a]))
<1>0. GatewayTypeOK /\ UpdatesOK(a) /\ IsList(s) BY DEF GatewayInv, GatewayTypeOK
<1>1. /\ phase[a] = "update" /\ s # << >> /\ Head(s) # NoRar /\ W!Put(Head(s))
      /\ updates' = [updates EXCEPT ![a] = Tail(@)]
      /\ UNCHANGED <<want, phase, result, alone, seen>>
  BY DEF W!Update, W!history
<1>2. t = Tail(s) /\ \A b \in Admins \ {a} : updates'[b] = updates[b]
  BY <1>0, <1>1 DEF GatewayTypeOK
<1>3. /\ IsList(t) /\ \A i \in DOMAIN t : i + 1 \in DOMAIN s /\ t[i] = s[i + 1]
      /\ \A i \in DOMAIN s : i = 1 \/ (i - 1 \in DOMAIN t /\ t[i - 1] = s[i])
      /\ s[1] = Head(s)
  <2>1. PICK S : s \in Seq(S) BY <1>0 DEF IsList
  <2> HIDE DEF s, t
  <2> QED BY <1>1, <1>2, <2>1 DEF IsList
<1>4. Names(table') = Names(table) BY <1>1, PutWanted
<1>5. UpdatesOK(a)'
  <2>1. ASSUME NEW i \in DOMAIN t, t[i] # NoRar
        PROVE  \E k \in DOMAIN Flat(want[a]) : t[i] = Made(want[a], k) /\ KeyOf(k) \in Names(table)
    <3>1. i + 1 \in DOMAIN s /\ t[i] = s[i + 1] BY <1>3
    <3> QED BY <1>0, <2>1, <3>1 DEF UpdatesOK
  <2> QED BY <1>1, <1>4, <2>1 DEF UpdatesOK
<1>6. ASSUME NEW key, Settled(a, key)', key # n PROVE Settled(a, key)
  <2>1. ASSUME Pending(a, key) PROVE Pending(a, key)'
    <3>1. PICK i \in DOMAIN s : s[i] # NoRar /\ W!Name(s[i]) = key BY <2>1 DEF Pending
    <3>2. i # 1 BY <1>3, <1>6, <3>1
    <3>3. i - 1 \in DOMAIN t /\ t[i - 1] = s[i] BY <1>3, <3>1, <3>2
    <3> QED BY <3>1, <3>3 DEF Pending
  <2> QED BY <1>1, <1>6, <2>1 DEF Settled
<1>7. Scanned(a)' => Scanned(a) BY <1>1 DEF Scanned
<1>8. /\ IsTable(table') /\ \A b \in Admins \ {a} : UpdatesOK(b)'
      /\ \A b \in Admins : AppliedOK(b)'
      /\ SettledOK' /\ \E items : Grown(items)'
  <2>1. \A b \in Admins \ {a} :
          phase'[b] = phase[b] /\ result'[b] = result[b] /\ updates'[b] = updates[b]
    BY <1>1, <1>2
  <2>2. \A key : Settled(a, key)' => Settled(a, key) \/ key = n BY <1>6
  <2> QED BY <1>1, <1>7, <2>1, <2>2, AfterPut
<1>9. GatewayTypeOK'
  <2>1. \A b \in Admins : IsList(updates'[b]) BY <1>0, <1>2, <1>3 DEF GatewayTypeOK
  <2> QED BY <1>0, <1>1, <1>8, <2>1 DEF GatewayTypeOK
<1>10. AloneOnly' /\ DoneIfCreated' BY <1>1 DEF GatewayInv, AloneOnly, DoneIfCreated
<1> QED BY <1>5, <1>8, <1>9, <1>10 DEF GatewayInv

\* A run that ends, the call that failed having written or not.
LEMMA GatewayEndStep ==
  ASSUME GatewayAssumption, GatewayInv, NEW a \in Admins,
         W!ScanEmpty(a) \/ W!UpdateRefused(a) \/ W!Return(a) \/ W!CallFails(a)
  PROVE  GatewayInv'
<1>0. GatewayTypeOK /\ UpdatesOK(a) /\ AppliedOK(a) /\ phase[a] \in {"scan", "update"}
  BY DEF GatewayInv, W!ScanEmpty, W!UpdateRefused, W!Return, W!CallFails
<1>1. PICK status \in {201, 502} : W!Finish(a, status) /\ (status = 201 => W!Return(a))
  BY DEF W!ScanEmpty, W!UpdateRefused, W!Return, W!CallFails
<1>2. /\ phase' = [phase EXCEPT ![a] = "done"] /\ result' = [result EXCEPT ![a] = status]
      /\ UNCHANGED <<want, updates, alone, seen>>
  BY <1>1 DEF W!Finish, W!history
<1>3. /\ phase'[a] = "done" /\ result'[a] = status
      /\ \A b \in Admins \ {a} :
           /\ phase'[b] = phase[b] /\ result'[b] = result[b] /\ updates'[b] = updates[b]
           /\ seen'[b] = seen[b] /\ (alone'[b] => alone[b])
  BY <1>0, <1>2 DEF GatewayTypeOK
<1>4. IsTable(table') => GatewayTypeOK' BY <1>0, <1>2 DEF GatewayTypeOK
<1>5. AloneOnly' /\ DoneIfCreated'
  BY <1>2, <1>3 DEF GatewayInv, AloneOnly, DoneIfCreated, Resting
<1>6. CASE UNCHANGED table
  <2>1. UpdatesOK(a)' BY <1>0, <1>2, <1>6 DEF UpdatesOK
  <2>2. ASSUME Scanned(a)' PROVE phase[a] = "update" /\ updates[a] = << >> /\ Scanned(a)
    <3>1. status = 201 BY <1>3, <2>2 DEF Scanned
    <3> QED BY <1>1, <1>2, <2>2, <3>1 DEF W!Return, Scanned
  <2>3. ASSUME NEW key, Settled(a, key)' PROVE Settled(a, key)
    <3>1. Scanned(a)' /\ key \in W!Keys(want[a]) BY <1>2, <2>3 DEF Settled, Scanned
    <3>2. phase[a] = "update" /\ updates[a] = << >> BY <2>2, <3>1
    <3> QED BY <2>2, <3>1, <3>2 DEF Settled, Scanned, Pending
  <2>4. \A key, place : OnePlace(a, key, place)' <=> OnePlace(a, key, place)
    BY <1>2 DEF OnePlace
  <2>5. \A key : Roles(key)' = Roles(key) BY <1>6 DEF Roles
  <2>6. AppliedOK(a)' BY <1>0, <1>2, <1>6, <2>2, <2>3, <2>4, <2>5 DEF AppliedOK
  <2>7. GatewayTypeOK' BY <1>0, <1>4, <1>6 DEF GatewayTypeOK
  <2> QED BY <1>2, <1>3, <1>5, <1>6, <2>1, <2>2, <2>3, <2>6, <2>7, TableKept
<1>7. CASE status = 502 /\ phase[a] = "update" /\ updates[a] # << >> /\ Head(updates[a]) # NoRar
             /\ W!Put(Head(updates[a]))
  <2>1. Names(table') = Names(table) BY <1>7, PutWanted
  <2>2. UpdatesOK(a)' BY <1>0, <1>2, <2>1 DEF UpdatesOK
  <2>3. ~Scanned(a)' /\ \A key : ~Settled(a, key)' BY <1>3, <1>7 DEF Scanned, Settled
  <2>4. /\ IsTable(table') /\ \A b \in Admins \ {a} : UpdatesOK(b)'
        /\ \A b \in Admins : AppliedOK(b)'
        /\ SettledOK' /\ \E items : Grown(items)'
    BY <1>2, <1>3, <1>7, <2>3, AfterPut
  <2> QED BY <1>4, <1>5, <2>2, <2>4 DEF GatewayInv
<1>8. UNCHANGED table \/ W!CallFails(a) BY DEF W!ScanEmpty, W!UpdateRefused, W!Return
<1>9. W!CallFails(a) => status = 502
  BY <1>1 DEF W!CallFails, W!Finish, GatewayInv, GatewayTypeOK
<1> QED BY <1>6, <1>7, <1>8, <1>9 DEF W!CallFails

LEMMA GatewayStep == GatewayAssumption /\ GatewayInv /\ [W!Next]_W!vars => GatewayInv'
<1> SUFFICES ASSUME GatewayAssumption, GatewayInv, [W!Next]_W!vars PROVE GatewayInv'
  OBVIOUS
<1>1. CASE UNCHANGED W!vars
  <2>1. UNCHANGED <<table, want, phase, updates, result, alone, seen>>
    BY <1>1 DEF W!vars, W!history
  <2>2. GatewayTypeOK' /\ AloneOnly' /\ DoneIfCreated'
    BY <2>1 DEF GatewayInv, GatewayTypeOK, AloneOnly, DoneIfCreated
  <2>3. \A key : Roles(key)' = Roles(key) BY <2>1 DEF Roles
  <2>4. ASSUME NEW a \in Admins
        PROVE  /\ UpdatesOK(a)' /\ (Scanned(a)' <=> Scanned(a))
               /\ \A key : Settled(a, key)' <=> Settled(a, key)
               /\ \A key, place : OnePlace(a, key, place)' <=> OnePlace(a, key, place)
    <3>1. UpdatesOK(a) BY DEF GatewayInv
    <3>2. UpdatesOK(a)' BY <2>1, <3>1 DEF UpdatesOK
    <3> QED BY <2>1, <3>2 DEF Scanned, Settled, Pending, OnePlace
  <2>5. ASSUME NEW a \in Admins PROVE AppliedOK(a)'
    <3>1. AppliedOK(a) BY DEF GatewayInv
    <3> QED BY <2>1, <2>3, <2>4, <3>1 DEF AppliedOK
  <2>6. SettledOK' BY <2>1, <2>3, <2>4 DEF GatewayInv, SettledOK
  <2>7. \E items : Grown(items)'
    <3>1. PICK items : Grown(items) BY DEF GatewayInv
    <3>2. Grown(items)' BY <2>1, <2>4, <3>1 DEF Grown
    <3> QED BY <3>2
  <2> QED BY <2>2, <2>4, <2>5, <2>6, <2>7 DEF GatewayInv
<1> QED
  BY <1>1, GatewayStartStep, GatewayScanStep, GatewayUpdateStep, GatewayEndStep DEF W!Next, W!Run

\* An item with a name of its own is one place in which all policies write.
LEMMA PlainFacts ==
  ASSUME GatewayAssumption, GatewayInv, NEW a \in Admins, NEW key, W!Plain(seen[a], want[a], key)
  PROVE  /\ \E place : OnePlace(a, key, place) /\ Places(seen[a], key) = {place}
         /\ seen[a] # {}
<1> DEFINE flat == Flat(want[a])
           those == {k \in DOMAIN flat : KeyOf(k) = key}
           roles == W!RolesFor(want[a], key)
<1>1. IsWant(want[a]) BY DEF GatewayInv, GatewayTypeOK, GatewayAssumption
<1>2. those \in SUBSET Keyed BY <1>1, FlatFacts
<1>3. IsFiniteSet(those) BY <1>2, KeyedFinite, FS_Subset
<1>4. roles = {flat[k] : k \in those} BY KeysFacts
<1> HIDE DEF those, flat, roles
<1>5. IsFiniteSet(roles)
  <2> DEFINE f == [k \in those |-> flat[k]]
  <2>1. f \in Surjection(those, roles) BY <1>4 DEF Surjection
  <2> HIDE DEF f
  <2> QED BY <1>3, <2>1, FS_Surjection
<1>6. \E r : roles = {r}
  <2>1. W!Cardinality(roles) = 1 BY DEF W!Plain, roles
  <2>2. W!Cardinality(roles) = Cardinality(roles) BY Zenon DEF W!Cardinality, Cardinality
  <2> QED BY <1>5, <2>1, <2>2, FS_Singleton
<1>7. PICK item \in seen[a] :
        /\ W!ItemsOf(seen[a], key) = {item} /\ item.action = key[1]
        /\ \A k \in DOMAIN flat : KeyOf(k) = key => W!Canonical(k[1]) = item.resource
  BY DEF W!Plain, flat, Flat, KeyOf
<1>8. Places(seen[a], key) = {Place(item)} BY <1>7 DEF Places
<1>9. OnePlace(a, key, Place(item)) BY <1>6, <1>7 DEF OnePlace, Place, roles, flat
<1> QED BY <1>8, <1>9

\* SetPolicyInfo of the API gateway that returns 201, alone and with a scan of
\* the whole table, has given the item of each key the roles that the policies
\* name, if the table and the policies write the key in one way: whatever
\* updates earlier runs left half done.
THEOREM ItemsAreSet ==
  ASSUME GatewayAssumption
  PROVE  W!Spec => []W!CreatedMeansApplied
<1>1. ASSUME GatewayInv PROVE W!CreatedMeansApplied
  <2> SUFFICES ASSUME NEW a \in Admins, alone[a], result[a] = 201, NEW key \in W!Keys(want[a]),
                      W!Plain(seen[a], want[a], key)
               PROVE  Roles(key) = W!RolesFor(want[a], key)
    BY DEF W!CreatedMeansApplied, Roles
  <2>1. PICK place : OnePlace(a, key, place) /\ Places(seen[a], key) = {place} /\ seen[a] # {}
    BY <1>1, PlainFacts
  <2>2. Scanned(a) /\ Settled(a, key) BY <2>1 DEF Scanned, Settled
  <2> QED BY <1>1, <2>1, <2>2 DEF GatewayInv, AppliedOK
<1> QED BY <1>1, GatewayInit, GatewayStep, PTL DEF W!Spec

\* When all administrators' runs, each with a scan of the whole table, returned
\* 201, overlapping as they may, an item that all of them want something of has
\* the roles that one of them named.
THEOREM ItemsSettle ==
  ASSUME GatewayAssumption
  PROVE  W!Spec => []W!SettledOnSuccess
<1>1. ASSUME GatewayInv PROVE W!SettledOnSuccess
  <2> SUFFICES ASSUME \A a \in Admins : result[a] = 201,
                      NEW b \in Admins, NEW key \in W!Keys(want[b]),
                      \A a \in Admins : W!Plain(seen[a], want[a], key)
               PROVE  \E a \in Admins : Roles(key) = W!RolesFor(want[a], key)
    BY DEF W!SettledOnSuccess, Roles
  <2>1. \A a \in Admins : /\ \E place : OnePlace(a, key, place) /\ Places(seen[a], key) = {place}
                          /\ seen[a] # {}
    BY <1>1, PlainFacts
  <2>2. PICK items : Grown(items) BY <1>1 DEF GatewayInv
  <2>3. \A a \in Admins : /\ Places(items, key) \subseteq Places(seen[a], key)
                          /\ Places(seen[a], key) \subseteq Places(table, key)
    BY <2>1, <2>2 DEF Grown, Scanned
  <2>4. PICK place : OnePlace(b, key, place) /\ Places(seen[b], key) = {place} BY <2>1
  <2>5. Places(items, key) = {place}
    <3>1. place \in Places(table, key) BY <2>3, <2>4
    <3>2. key \in Names(table)
      <4>1. PICK item \in W!ItemsOf(table, key) : Place(item) = place BY <3>1 DEF Places
      <4> QED BY <4>1 DEF W!ItemsOf, Names
    <3>3. key \in Names(items) BY <2>2, <3>2 DEF Grown
    <3>4. Places(items, key) # {}
      <4>1. PICK item \in items : W!Name(W!NewRar(item)) = key BY <3>3 DEF Names
      <4>2. item \in W!ItemsOf(items, key) BY <4>1 DEF W!ItemsOf
      <4> QED BY <4>2 DEF Places
    <3> QED BY <2>3, <2>4, <3>4
  <2>6. \A a \in Admins : OnePlace(a, key, place)
    <3> SUFFICES ASSUME NEW a \in Admins PROVE OnePlace(a, key, place)
      OBVIOUS
    <3>1. PICK p : OnePlace(a, key, p) /\ Places(seen[a], key) = {p} BY <2>1
    <3> QED BY <2>3, <2>5, <3>1
  <2>7. Places(table, key) = {place}
    <3>1. \A p \in Places(table, key) : p \in Places(items, key) \/ p = place
      BY <2>2, <2>6 DEF Grown, OnePlace
    <3> QED BY <2>3, <2>4, <2>5, <3>1
  <2>8. Settled(b, key) BY <2>1 DEF Settled
  <2> QED BY <1>1, <2>6, <2>7, <2>8 DEF GatewayInv, SettledOK
<1> QED BY <1>1, GatewayInit, GatewayStep, PTL DEF W!Spec

\* Policies that were read from the table and are set again update only items
\* to what they are, in every table that runs, failures and overlaps lead to:
\* names that differ in "/" and "-" share a key, but no two items a place.
THEOREM ReadBackUpdatesNothing ==
  ASSUME GatewayAssumption
  PROVE  W!Spec => []W!ReadBackIsClean
<1>1. GatewayInv => IsTable(table) BY DEF GatewayInv, GatewayTypeOK
<1> QED BY <1>1, ReadBack, GatewayInit, GatewayStep, PTL DEF W!Spec

\* UpdateItem, which makes an item when there is none, makes one only beside
\* an item of its name, also when the table changed after the scan.
THEOREM NewItemsAreTwins ==
  ASSUME GatewayAssumption
  PROVE  W!Spec => [][W!Twins]_W!vars
<1>1. ASSUME GatewayInv, [W!Next]_W!vars PROVE W!Twins \/ UNCHANGED W!vars
  <2>1. CASE UNCHANGED table BY <2>1 DEF W!Twins
  <2>2. ASSUME NEW a \in Admins, updates[a] # << >>, Head(updates[a]) # NoRar, W!Put(Head(updates[a]))
        PROVE  W!Twins
    <3> DEFINE u == Head(updates[a])
    <3>1. table' \subseteq table \union {u} BY <2>2 DEF W!Put
    <3>2. W!NewRar(u) = u /\ W!Name(u) \in Names(table) BY <1>1, <2>2, HeadFacts
    <3> HIDE DEF u
    <3>3. \E old \in table : W!Name(W!NewRar(old)) = W!Name(W!NewRar(u)) BY <3>2 DEF Names
    <3> QED BY <3>1, <3>3 DEF W!Twins
  <2>3. ASSUME NEW a \in Admins, W!Run(a) \/ W!CallFails(a)
        PROVE  \/ UNCHANGED table
               \/ updates[a] # << >> /\ Head(updates[a]) # NoRar /\ W!Put(Head(updates[a]))
    BY <2>3 DEF W!Run, W!Start, W!Scan, W!ScanEmpty, W!Update, W!UpdateRefused, W!Return, W!CallFails
  <2>4. CASE UNCHANGED W!vars BY <2>4
  <2> QED BY <1>1, <2>1, <2>2, <2>3, <2>4 DEF W!Next
<1> QED BY <1>1, GatewayInit, GatewayStep, PTL DEF W!Spec

-----------------------------------------------------------------------------
(* All platforms: a behaviour of Platforms is one of the modules'. *)

OnCognito == platform = "cognito"
OnAzure == platform = "azure"
OnIap == platform = "iap"
OnGateway == platform = "gateway"

LEMMA OnlyIap == PSpec => (OnIap => G!Spec /\ []OnIap) /\ (~OnIap => []~OnIap)
<1>1. PInit /\ OnIap => G!Init BY DEF PInit, OnIap
<1>2. OnIap /\ [PNext]_all => [G!Next]_G!vars /\ OnIap'
  BY DEF PNext, OnIap, G!vars, all, sets, gateway, members
<1>3. ~OnIap /\ [PNext]_all => ~OnIap' BY DEF PNext, OnIap, all
<1> QED BY <1>1, <1>2, <1>3, PTL DEF PSpec, G!Spec

LEMMA OnlyCognito == PSpec => (OnCognito => C!Spec /\ []OnCognito) /\ (~OnCognito => []~OnCognito)
<1>1. PInit /\ OnCognito => C!Init BY DEF PInit, OnCognito
<1>2. OnCognito /\ [PNext]_all => [C!Next]_C!vars /\ OnCognito'
  BY DEF PNext, OnCognito, C!vars, C!policies, C!history, all, sets, gateway, members, cognito
<1>3. ~OnCognito /\ [PNext]_all => ~OnCognito' BY DEF PNext, OnCognito, all
<1> QED BY <1>1, <1>2, <1>3, PTL DEF PSpec, C!Spec

LEMMA OnlyAzure == PSpec => (OnAzure => A!Spec /\ []OnAzure) /\ (~OnAzure => []~OnAzure)
<1>1. PInit /\ OnAzure => A!Init BY DEF PInit, OnAzure
<1>2. OnAzure /\ [PNext]_all => [A!Next]_A!vars /\ OnAzure'
  BY DEF PNext, OnAzure, A!vars, A!policies, all, sets, gateway, members
<1>3. ~OnAzure /\ [PNext]_all => ~OnAzure' BY DEF PNext, OnAzure, all
<1> QED BY <1>1, <1>2, <1>3, PTL DEF PSpec, A!Spec

LEMMA OnlyGateway == PSpec => (OnGateway => W!Spec /\ []OnGateway) /\ (~OnGateway => []~OnGateway)
<1>1. PInit /\ OnGateway => W!Init BY DEF PInit, OnGateway
<1>2. OnGateway /\ [PNext]_all => [W!Next]_W!vars /\ OnGateway'
  BY DEF PNext, OnGateway, W!vars, W!history, all, sets, gateway, members
<1>3. ~OnGateway /\ [PNext]_all => ~OnGateway' BY DEF PNext, OnGateway, all
<1> QED BY <1>1, <1>2, <1>3, PTL DEF PSpec, W!Spec

PlatformsAssumption ==
  IapAssumption /\ CognitoAssumption /\ AzureAssumption /\ GatewayAssumption

\* SetPolicyInfo of each provider that returns 201, alone, with calls that worked
\* and with whole listings, has done what it was asked: GroupsAreSet, RolesAreAssigned,
\* LastPolicyRemains and ItemsAreSet say what that is on each platform.
THEOREM CreatedMeansAppliedCorrect ==
  ASSUME PlatformsAssumption
  PROVE  PSpec => []CreatedMeansApplied
<1>0. IapAssumption /\ CognitoAssumption /\ AzureAssumption /\ GatewayAssumption
  BY DEF PlatformsAssumption
<1>1. /\ OnCognito /\ C!CreatedMeansApplied => CreatedMeansApplied
      /\ OnAzure /\ A!CreatedMeansApplied => CreatedMeansApplied
      /\ OnIap /\ G!CreatedMeansLast => CreatedMeansApplied
      /\ OnGateway /\ W!CreatedMeansApplied => CreatedMeansApplied
      /\ ~OnCognito /\ ~OnAzure /\ ~OnIap /\ ~OnGateway => CreatedMeansApplied
  BY DEF CreatedMeansApplied, OnCognito, OnAzure, OnIap, OnGateway
<1>2. C!Spec => []C!CreatedMeansApplied BY <1>0, GroupsAreSet
<1>3. A!Spec => []A!CreatedMeansApplied BY <1>0, RolesAreAssigned
<1>4. G!Spec => []G!CreatedMeansLast BY <1>0, LastPolicyRemains
<1>5. W!Spec => []W!CreatedMeansApplied BY <1>0, ItemsAreSet
<1> QED
  BY <1>1, <1>2, <1>3, <1>4, <1>5, OnlyCognito, OnlyAzure, OnlyIap, OnlyGateway, PTL

\* A step of Cognito's or Azure's SetPolicyInfo, whoever's run it overlaps and
\* whatever failed, takes from nobody what the policy at hand gives, and gives
\* nobody what it does not.
THEOREM ChangesAreWantedCorrect ==
  ASSUME PlatformsAssumption
  PROVE  PSpec => ChangesAreWanted
<1>0. CognitoAssumption /\ AzureAssumption BY DEF PlatformsAssumption
<1> DEFINE changesAreWanted == /\ platform = "cognito" => C!ChangesAreWanted
                               /\ platform = "azure" => A!ChangesAreWanted
<1>1. /\ OnCognito /\ [PNext]_all /\ [C!ChangesAreWanted]_C!vars => [changesAreWanted]_all
      /\ OnAzure /\ [PNext]_all /\ [A!ChangesAreWanted]_A!vars => [changesAreWanted]_all
      /\ ~OnCognito /\ ~OnAzure => [changesAreWanted]_all
  BY DEF OnCognito, OnAzure, PNext, all, sets, gateway, members,
         cognito, C!vars, C!policies, C!history, A!vars, A!policies
<1>2. C!Spec => [][C!ChangesAreWanted]_C!vars BY <1>0, GroupChangesAreWanted
<1>3. A!Spec => [][A!ChangesAreWanted]_A!vars BY <1>0, RoleChangesAreWanted
<1>4. PSpec => [][PNext]_all BY PTL DEF PSpec
<1>5. PSpec => [][changesAreWanted]_all BY <1>1, <1>2, <1>3, <1>4, OnlyCognito, OnlyAzure, PTL
<1> QED BY <1>5 DEF ChangesAreWanted

\* When all runs of the API gateway's SetPolicyInfo returned 201, an item that
\* all of them want something of has what one of them named.
THEOREM SettledOnSuccessCorrect ==
  ASSUME PlatformsAssumption
  PROVE  PSpec => []SettledOnSuccess
<1>1. (OnGateway => W!SettledOnSuccess) => SettledOnSuccess BY DEF SettledOnSuccess, OnGateway
<1>2. W!Spec => []W!SettledOnSuccess BY ItemsSettle DEF PlatformsAssumption
<1> QED BY <1>1, <1>2, OnlyGateway, PTL

\* The policies that GetPolicyInfo made of the API gateway's table are set back
\* without changing an item.
THEOREM ReadBackIsCleanCorrect ==
  ASSUME PlatformsAssumption
  PROVE  PSpec => []ReadBackIsClean
<1>1. (OnGateway => W!ReadBackIsClean) => ReadBackIsClean BY DEF ReadBackIsClean, OnGateway
<1>2. W!Spec => []W!ReadBackIsClean BY ReadBackUpdatesNothing DEF PlatformsAssumption
<1> QED BY <1>1, <1>2, OnlyGateway, PTL

\* An UpdateItem of the API gateway's table makes an item only beside one of its
\* name.
THEOREM NewItemsHaveTwinsCorrect ==
  ASSUME PlatformsAssumption
  PROVE  PSpec => NewItemsHaveTwins
<1>1. /\ OnGateway /\ [PNext]_all /\ [W!Twins]_W!vars => [platform = "gateway" => W!Twins]_all
      /\ ~OnGateway => [platform = "gateway" => W!Twins]_all
  BY DEF OnGateway, PNext, all, sets, gateway, members, W!vars, W!history
<1>2. W!Spec => [][W!Twins]_W!vars BY NewItemsAreTwins DEF PlatformsAssumption
<1>3. PSpec => [][PNext]_all BY PTL DEF PSpec
<1>4. PSpec => [][platform = "gateway" => W!Twins]_all BY <1>1, <1>2, <1>3, OnlyGateway, PTL
<1> QED BY <1>4 DEF NewItemsHaveTwins
=============================================================================
