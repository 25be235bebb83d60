------------------------- MODULE AvpProviderProofs -------------------------
(***************************************************************************)
(* Proofs about AvpProvider, for any number of administrators, policies,   *)
(* runs and failing calls.                                                 *)
(***************************************************************************)
EXTENDS AvpProvider, FiniteSetTheorems, WellFoundedInduction, TLAPS

Contents == Bodies \union {Stored(b) : b \in Bodies}
Entries == [template : Templates \union {NoTemplate}, body : Contents]
StoreEntries == [template : Templates \union {NoTemplate}, body : Contents, described : BOOLEAN]
Items == [id : 1..issued, template : Templates \union {NoTemplate}]

StoreTypeOK ==
  /\ store \in [DOMAIN store -> StoreEntries]
  /\ issued \in Nat /\ DOMAIN store \subseteq 1..issued

RunTypeOK ==
  /\ want \in [Admins -> Wants]
  /\ phase \in [Admins -> {"idle", "list", "get", "apply", "create", "done"}]
  /\ unread \in [Admins -> SUBSET Items]
  /\ snap = [a \in Admins |-> snap[a]]
  /\ \A a \in Admins : snap[a] \in [DOMAIN snap[a] -> Entries]
  /\ pos \in [Admins -> Nat \ {0}] /\ left = [a \in Admins |-> left[a]]
  /\ result \in [Admins -> Int] /\ runs \in [Admins -> Nat]
  /\ faults \in Nat /\ alone \in [Admins -> BOOLEAN] /\ before \in [Admins -> Nat]

\* Where a run is in its list.
PlaceOK ==
  \A a \in Admins :
    /\ phase[a] \in {"apply", "create"} =>
         pos[a] <= Len(want[a]) + 1 /\ left[a] \subseteq Deleted(want[a], snap[a])
    /\ phase[a] = "create" =>
         pos[a] \in DOMAIN want[a] /\ Change(want[a], snap[a], pos[a]) = "UPDATE"
    /\ before[a] <= faults
    /\ result[a] = 200 => phase[a] = "done"

\* What a run has read is of the kind and the scopes that AVP still has.
SnapOK ==
  \A a \in Admins :
    /\ \A x \in DOMAIN snap[a] :
         /\ IF snap[a][x].template = NoTemplate THEN x \in 1..issued
            ELSE x = snap[a][x].template
         /\ x \in DOMAIN store =>
              /\ store[x].template = NoTemplate
              /\ SameScopes(snap[a][x].body, store[x].body)
    /\ \A item \in unread[a] :
         item.id \in DOMAIN store => store[item.id].template = item.template

SharedInv == StoreTypeOK /\ RunTypeOK /\ PlaceOK /\ SnapOK

-----------------------------------------------------------------------------
(* A run that nobody else's overlaps. *)

Reading(a) == phase[a] \in {"list", "get"}
Writing(a) == phase[a] \in {"apply", "create"}

\* It reads the store as it is,
ReadsAll(a) ==
  /\ \A x \in DOMAIN snap[a] :
       snap[a][x].template = NoTemplate => x \in DOMAIN store /\ store[x].body = snap[a][x].body
  /\ \A item \in unread[a] : item.id \in DOMAIN store
  /\ phase[a] = "get" =>
       \A x \in DOMAIN store :
         Listed(x) \in unread[a] \/ MetaId(Listed(x)) \in DOMAIN snap[a]

\* of which the templates' policies stay there all the time.
TemplatesStay(a) ==
  \A x \in DOMAIN snap[a] :
    snap[a][x].template # NoTemplate => \E y \in DOMAIN store : store[y].template = x

\* The wanted policies that it has written,
Passed(a) == {j \in DOMAIN want[a] : j < pos[a] /\ ~want[a][j].template}

\* and the policies that it has read and not come to yet.
Ahead(a) ==
  {j \in DOMAIN want[a] :
     /\ Change(want[a], snap[a], j) \in {"MATCHED", "UPDATE"}
     /\ IF phase[a] = "create" THEN j > pos[a] ELSE j >= pos[a]}
ToCome(a) ==
  {want[a][j].id : j \in Ahead(a)} \union {x \in left[a] : snap[a][x].template = NoTemplate}

Same(b, x) == \E c \in {b, Stored(b)} : CompareEqual(c, store[x].body)

\* Each of the store's static policies is one written or one to come.
WrittenAs(a, f) ==
  /\ f \in [Passed(a) -> StaticIds]
  /\ \A j, k \in Passed(a) : f[j] = f[k] => j = k
  /\ \A j \in Passed(a) : Same(want[a][j].body, f[j]) /\ f[j] \notin ToCome(a)
  /\ StaticIds = ToCome(a) \union {f[j] : j \in Passed(a)}

WritesAll(a) ==
  /\ \A x \in ToCome(a) : store[x].body = snap[a][x].body
  /\ \E f \in [Passed(a) -> StaticIds] : WrittenAs(a, f)

\* Why a run ended without success, though no call failed.
CannotSucceed(a) ==
  \/ \E x \in DOMAIN store : ~Readable(Listed(x))
  \/ \E j \in DOMAIN want[a] :
       /\ ~want[a][j].template
       /\ \/ ~Mappable(want[a][j].body)
          \/ /\ Change(want[a], snap[a], j) = "UPDATE" /\ ~Replaces(want[a], snap[a], j)
             /\ ~SameScopes(Stored(want[a][j].body), snap[a][want[a][j].id].body)
  \/ \E x \in DOMAIN store \ StaticIds :
       \A j \in DOMAIN want[a] : ~(want[a][j].avp /\ want[a][j].id = store[x].template)

Kept(a) ==
  \A x \in MatchedIds(want[a], snap[a]) :
    x \in DOMAIN store /\ store[x].body = snap[a][x].body

AloneOK(a) ==
  /\ \A b \in Admins \ {a} : phase[b] \in {"idle", "done"}
  /\ Reading(a) => ReadsAll(a)
  /\ TemplatesStay(a) /\ Kept(a)
  /\ Writing(a) => WritesAll(a)
  /\ phase[a] = "done" =>
       IF result[a] = 200 THEN Holds(want[a]) ELSE faults = before[a] => CannotSucceed(a)

AloneInv == \A a \in Admins : alone[a] => AloneOK(a)

-----------------------------------------------------------------------------
(* Lists and the store. *)

LEMMA WantedList ==
  ASSUME RunTypeOK, NEW a \in Admins
  PROVE  /\ want[a] \in Wants /\ DOMAIN want[a] = 1..Len(want[a]) /\ Len(want[a]) \in Nat
         /\ \A j \in DOMAIN want[a] :
              want[a][j].body \in Bodies /\ want[a][j].template \in BOOLEAN /\ j \in Nat
<1>1. want[a] \in Wants BY DEF RunTypeOK
<1> DEFINE E == [id : Nat \union Templates \union {NoId}, avp : BOOLEAN,
                 template : BOOLEAN, body : Bodies]
<1>2. want[a] \in Seq(E) BY <1>1, WantsAssumption
<1>3. \A e \in E : e.body \in Bodies /\ e.template \in BOOLEAN OBVIOUS
<1> HIDE DEF E
<1>4. DOMAIN want[a] = 1..Len(want[a]) /\ Len(want[a]) \in Nat BY <1>2
<1>5. \A j \in DOMAIN want[a] : want[a][j] \in E /\ j \in Nat BY <1>2, <1>4
<1> QED BY <1>1, <1>3, <1>4, <1>5

\* Every action leaves the store alone or makes one call that changes it.
Call ==
  \/ \E b \in Bodies : Creates(b)
  \/ \E id : Deletes(id)
  \/ \E b \in Bodies, id \in DOMAIN store :
       SameScopes(Stored(b), store[id].body) /\ Updates(id, b)
  \/ UNCHANGED service

\* AVP issues no id twice, and a policy keeps its kind and its scopes.
ServiceGrows ==
  /\ StoreTypeOK' /\ issued <= issued'
  /\ \A x \in DOMAIN store' : x \in 1..issued =>
       /\ x \in DOMAIN store /\ store'[x].template = store[x].template
       /\ SameScopes(store[x].body, store'[x].body)

LEMMA CallGrows == ASSUME StoreTypeOK, Call PROVE ServiceGrows
<1> USE DEF StoreTypeOK, ServiceGrows, SameScopes
<1>1. ASSUME NEW b \in Bodies, Creates(b) PROVE ServiceGrows
  <2> DEFINE entry == [template |-> NoTemplate, body |-> Stored(b), described |-> TRUE]
  <2>1. entry \in StoreEntries BY DEF StoreEntries, Contents
  <2>2. DOMAIN store' = DOMAIN store \union {issued + 1} /\ issued' = issued + 1
    BY <1>1 DEF Creates
  <2>3. \A x \in DOMAIN store' :
          store'[x] = IF x = issued + 1 THEN entry ELSE store[x]
    BY <1>1 DEF Creates
  <2> HIDE DEF entry
  <2>4. store' \in [DOMAIN store' -> StoreEntries] BY <1>1, <2>1, <2>2, <2>3 DEF Creates
  <2> QED BY <2>2, <2>3, <2>4
<1>2. ASSUME NEW id, Deletes(id) PROVE ServiceGrows
  BY <1>2 DEF Deletes
<1>3. ASSUME NEW b \in Bodies, NEW id \in DOMAIN store, SameScopes(Stored(b), store[id].body),
             Updates(id, b)
      PROVE  ServiceGrows
  <2>1. DOMAIN store' = DOMAIN store /\ issued' = issued BY <1>3 DEF Updates
  <2>2. store'[id].template = store[id].template /\ store'[id].body = Stored(b)
    BY <1>3 DEF Updates, StoreEntries
  <2>3. store'[id] \in StoreEntries
    BY <1>3 DEF Updates, StoreEntries, Contents
  <2>4. \A x \in DOMAIN store : x # id => store'[x] = store[x] BY <1>3 DEF Updates
  <2>5. store' \in [DOMAIN store' -> StoreEntries] BY <1>3, <2>1, <2>3, <2>4 DEF Updates
  <2> QED BY <1>3, <2>1, <2>2, <2>4, <2>5
<1>4. CASE UNCHANGED service BY <1>4 DEF service
<1> QED BY <1>1, <1>2, <1>3, <1>4 DEF Call

LEMMA EveryStepCalls == ASSUME SharedInv, [Next]_vars PROVE Call
<1> USE DEF Call
<1>1. ASSUME NEW a \in Admins, Creating(a) \/ Updating(a) PROVE Wanted(a).body \in Bodies
  BY <1>1, WantedList DEF Creating, Updating, Applying, Wanted, SharedInv, PlaceOK
<1>2. ASSUME NEW a \in Admins, Run(a) PROVE Call
  <2>1. CASE Create(a) BY <1>1, <2>1 DEF Create
  <2>2. CASE DeleteReplaced(a) BY <2>2 DEF DeleteReplaced
  <2>3. CASE Update(a) BY <1>1, <2>3 DEF Update
  <2>4. CASE Delete(a) BY <2>4 DEF Delete
  <2> QED
    BY <1>2, <2>1, <2>2, <2>3, <2>4
    DEF Run, Start, List, Get, GetMissing, GetPanics, Plan, Skip, UpdateMissing, UpdateRefused, MapFails,
        DeleteTemplate, Return
<1>3. ASSUME NEW a \in Admins, WriteFails(a) PROVE Call
  BY <1>1, <1>3 DEF WriteFails, Fails
<1>4. ASSUME NEW a \in Admins, ReadFails(a) PROVE Call
  BY <1>4 DEF ReadFails, Fails
<1>5. CASE UNCHANGED vars BY <1>5 DEF vars, service
<1> QED BY <1>2, <1>3, <1>4, <1>5 DEF Next

-----------------------------------------------------------------------------
(* What holds whoever else runs. *)

LEMMA RunTypeStep == ASSUME SharedInv, [Next]_vars PROVE RunTypeOK'
<1> USE DEF SharedInv, RunTypeOK
<1>1. issued \in Nat /\ issued' \in Nat /\ issued <= issued' /\ Items \subseteq Items'
  BY EveryStepCalls, CallGrows DEF ServiceGrows, StoreTypeOK, Items
<1>2. unread \in [Admins -> SUBSET Items'] BY <1>1
<1> HIDE DEF Items
<1>3. ASSUME NEW a \in Admins, Start(a) PROVE RunTypeOK'
  <2>1. << >> \in [DOMAIN << >> -> Entries] OBVIOUS
  <2>2. snap' = [snap EXCEPT ![a] = << >>] /\ left' = [left EXCEPT ![a] = {}] BY <1>3 DEF Start
  <2>3. snap' = [b \in Admins |-> snap'[b]] /\ left' = [b \in Admins |-> left'[b]] BY <2>2
  <2>4. \A b \in Admins : snap'[b] \in [DOMAIN snap'[b] -> Entries] BY <2>1, <2>2
  <2> QED BY <1>2, <1>3, <2>3, <2>4 DEF Start
<1>4. ASSUME NEW a \in Admins, NEW status \in Int, Finish(a, status),
             faults' \in Nat
      PROVE  RunTypeOK'
  BY <1>2, <1>4 DEF Finish, history
<1>5. ASSUME NEW a \in Admins, List(a) PROVE RunTypeOK'
  <2>1. {Listed(x) : x \in DOMAIN store} \subseteq Items
    BY DEF Listed, Items, StoreTypeOK, StoreEntries
  <2> QED BY <1>1, <1>5, <2>1 DEF List, history
<1>6. ASSUME NEW a \in Admins, Get(a) PROVE RunTypeOK'
  <2>1. PICK item \in unread[a] :
          /\ item.template = NoTemplate => item.id \in DOMAIN store
          /\ snap' = [snap EXCEPT ![a] =
               [x \in DOMAIN @ \union {MetaId(item)} |->
                  IF x = MetaId(item)
                  THEN [template |-> item.template,
                        body |-> IF item.template = NoTemplate THEN store[item.id].body
                                 ELSE templateBody[item.template]]
                  ELSE @[x]]]
          /\ unread' = [unread EXCEPT ![a] = @ \ {item}]
    BY <1>6 DEF Get
  <2> DEFINE body == IF item.template = NoTemplate THEN store[item.id].body
                     ELSE templateBody[item.template]
             entry == [template |-> item.template, body |-> body]
  <2>2. item \in Items BY DEF Items
  <2>3. body \in Contents
    BY <2>1, <2>2, StoresAssumption DEF Items, StoreTypeOK, StoreEntries, Contents
  <2>4. entry \in Entries BY <2>2, <2>3 DEF Items, Entries
  <2> HIDE DEF entry
  <2>5. snap' = [snap EXCEPT ![a] = [x \in DOMAIN @ \union {MetaId(item)} |->
                                       IF x = MetaId(item) THEN entry ELSE @[x]]]
    BY <2>1 DEF entry
  <2>6. snap'[a] \in [DOMAIN snap'[a] -> Entries] BY <2>4, <2>5
  <2>7. snap' = [b \in Admins |-> snap'[b]] /\ \A b \in Admins : b # a => snap'[b] = snap[b] BY <2>5
  <2>8. \A b \in Admins : snap'[b] \in [DOMAIN snap'[b] -> Entries] BY <2>6, <2>7
  <2>9. unread' \in [Admins -> SUBSET Items'] BY <1>2, <2>1
  <2>10. UNCHANGED <<phase, want, pos, left, result, runs, faults, alone, before>>
    BY <1>6 DEF Get, history
  <2> HIDE DEF body
  <2> QED BY <2>7, <2>8, <2>9, <2>10
<1>7. ASSUME NEW a \in Admins, Plan(a) PROVE RunTypeOK'
  <2>1. left' = [b \in Admins |-> left'[b]] BY <1>7 DEF Plan
  <2>2. phase' \in [Admins -> {"idle", "list", "get", "apply", "create", "done"}] BY <1>7 DEF Plan
  <2>3. pos' \in [Admins -> Nat \ {0}] BY <1>7 DEF Plan
  <2>4. UNCHANGED <<want, unread, snap, result, runs, faults, alone, before>>
    BY <1>7 DEF Plan, history
  <2> QED BY <1>2, <2>1, <2>2, <2>3, <2>4
<1>8. ASSUME NEW a \in Admins, NextDif(a), UNCHANGED faults PROVE RunTypeOK'
  BY <1>2, <1>8 DEF NextDif, history
<1>9. ASSUME NEW a \in Admins, DeleteReplaced(a) PROVE RunTypeOK'
  BY <1>2, <1>9 DEF DeleteReplaced, history
<1>10. ASSUME NEW a \in Admins, Delete(a) PROVE RunTypeOK'
  BY <1>2, <1>10 DEF Delete, history
<1>11. CASE UNCHANGED vars BY <1>2, <1>11 DEF vars, history
<1>12. ASSUME NEW a \in Admins, Run(a) PROVE RunTypeOK'
  <2>1. faults \in Nat /\ Panic \in Int BY DEF Panic
  <2> HIDE DEF SharedInv, RunTypeOK
  <2> QED
    BY <1>3, <1>4, <1>5, <1>6, <1>7, <1>8, <1>9, <1>10, <1>12, <2>1
    DEF Run, GetMissing, GetPanics, Skip, Create, Update, UpdateMissing, UpdateRefused, MapFails,
        DeleteTemplate, Return, NextDif
<1>13. ASSUME NEW a \in Admins, ReadFails(a) \/ WriteFails(a) PROVE RunTypeOK'
  BY <1>4, <1>13 DEF ReadFails, WriteFails, Fails
<1> QED BY <1>11, <1>12, <1>13 DEF Next

\* A step of a run is nobody else's.
OwnStep(a) ==
  /\ want' = want
  /\ \A b \in Admins \ {a} :
       /\ phase'[b] = phase[b] /\ unread'[b] = unread[b] /\ snap'[b] = snap[b]
       /\ pos'[b] = pos[b] /\ left'[b] = left[b] /\ result'[b] = result[b]
       /\ before'[b] = before[b]

Step(a) == Run(a) \/ ReadFails(a) \/ WriteFails(a)

LEMMA StepsAreOwn == ASSUME RunTypeOK, NEW a \in Admins, Step(a) PROVE OwnStep(a)
<1> USE DEF RunTypeOK, OwnStep, history
<1>1. ASSUME NEW status, Finish(a, status) PROVE OwnStep(a) BY <1>1 DEF Finish
<1>2. CASE NextDif(a) BY <1>2 DEF NextDif
<1>3. CASE Start(a) BY <1>3 DEF Start
<1>4. CASE List(a) BY <1>4 DEF List
<1>5. CASE Get(a)
  <2>1. \A b \in Admins \ {a} : snap'[b] = snap[b] /\ unread'[b] = unread[b] BY <1>5 DEF Get
  <2> QED BY <1>5, <2>1 DEF Get
<1>6. CASE Plan(a)
  <2>1. \A b \in Admins \ {a} : phase'[b] = phase[b] /\ pos'[b] = pos[b] /\ left'[b] = left[b]
    BY <1>6 DEF Plan
  <2> QED BY <1>6, <2>1 DEF Plan
<1>7. CASE DeleteReplaced(a) BY <1>7 DEF DeleteReplaced
<1>8. CASE Delete(a) BY <1>8 DEF Delete
<1> HIDE DEF RunTypeOK, OwnStep
<1> QED
  BY <1>1, <1>2, <1>3, <1>4, <1>5, <1>6, <1>7, <1>8
  DEF Step, Run, GetMissing, GetPanics, Skip, Create, Update, UpdateMissing, UpdateRefused, MapFails,
      DeleteTemplate, Return, ReadFails, WriteFails, Fails

\* What a run has to do hangs on its list, its reading and its place alone.
LEMMA PlanKept ==
  ASSUME NEW a, want'[a] = want[a], snap'[a] = snap[a], pos'[a] = pos[a]
  PROVE  /\ Deleted(want[a], snap[a])' = Deleted(want[a], snap[a])
         /\ Change(want[a], snap[a], pos[a])' = Change(want[a], snap[a], pos[a])
<1>1. Deleted(want[a], snap[a])' = Deleted(want[a], snap[a]) BY DEF Deleted, Claimed
<1>2. Found(want[a], snap[a], pos[a])' = Found(want[a], snap[a], pos[a]) BY DEF Found
<1>3. DifsOf(want[a], snap[a], pos[a])' = DifsOf(want[a], snap[a], pos[a]) BY DEF DifsOf
<1>4. Change(want[a], snap[a], pos[a])' = Change(want[a], snap[a], pos[a])
  BY <1>2, <1>3 DEF Change
<1> QED BY <1>1, <1>4

LEMMA PlaceStep == ASSUME SharedInv, [Next]_vars PROVE PlaceOK'
<1> USE DEF SharedInv, PlaceOK
<1>1. ASSUME NEW a \in Admins, Step(a) PROVE PlaceOK'
  <2> DEFINE P(b) ==
        /\ phase[b] \in {"apply", "create"} =>
             pos[b] <= Len(want[b]) + 1 /\ left[b] \subseteq Deleted(want[b], snap[b])
        /\ phase[b] = "create" =>
             pos[b] \in DOMAIN want[b] /\ Change(want[b], snap[b], pos[b]) = "UPDATE"
        /\ before[b] <= faults
        /\ result[b] = 200 => phase[b] = "done"
  <2>1. faults \in Nat /\ faults' \in Nat /\ faults <= faults'
    <3>1. faults \in Nat BY DEF RunTypeOK
    <3>2. faults' \in {faults, faults + 1}
      <4>1. CASE Run(a)
        <5>1. CASE Start(a) \/ List(a) \/ Get(a) \/ GetMissing(a) \/ GetPanics(a) \/ Plan(a)
          BY <5>1 DEF Start, List, Get, GetMissing, GetPanics, Plan, Finish
        <5>2. CASE UpdateMissing(a) \/ UpdateRefused(a) \/ MapFails(a) \/ Return(a)
          BY <5>2 DEF UpdateMissing, UpdateRefused, MapFails, Return, Finish
        <5>3. CASE Skip(a) \/ Create(a) \/ DeleteReplaced(a) \/ Update(a) \/ Delete(a) \/ DeleteTemplate(a)
          BY <5>3 DEF Skip, Create, DeleteReplaced, Update, Delete, DeleteTemplate, NextDif
        <5> QED BY <4>1, <5>1, <5>2, <5>3 DEF Run
      <4>2. CASE ReadFails(a) BY <4>2 DEF ReadFails, Fails, Finish
      <4>3. CASE WriteFails(a) BY <4>3 DEF WriteFails, Fails, Finish
      <4> QED BY <1>1, <4>1, <4>2, <4>3 DEF Step
    <3> QED BY <3>1, <3>2
  <2>2. \A b \in Admins : before[b] \in Nat /\ before[b] <= faults' BY <2>1 DEF RunTypeOK
  <2>3. OwnStep(a) BY <1>1, StepsAreOwn
  <2>4. ASSUME NEW b \in Admins \ {a} PROVE P(b)'
    <3>1. /\ want' = want /\ phase'[b] = phase[b] /\ snap'[b] = snap[b] /\ pos'[b] = pos[b]
          /\ left'[b] = left[b] /\ result'[b] = result[b] /\ before'[b] = before[b]
      BY <2>3 DEF OwnStep
    <3>2. P(b) OBVIOUS
    <3>3. before[b] <= faults' BY <2>2
    <3>4. /\ Deleted(want[b], snap[b])' = Deleted(want[b], snap[b])
          /\ Change(want[b], snap[b], pos[b])' = Change(want[b], snap[b], pos[b])
      BY <3>1, PlanKept
    <3> HIDE DEF SharedInv, PlaceOK
    <3> QED BY <3>1, <3>2, <3>3, <3>4
  <2>5. P(a)'
    <3>0. \A n \in DOMAIN want[a] : n + 1 <= Len(want[a]) + 1 BY WantedList
    <3>1. ASSUME NEW status, Finish(a, status) PROVE P(a)'
      BY <2>2, <3>1 DEF Finish, RunTypeOK, history
    <3>2. ASSUME NextDif(a), UNCHANGED faults, pos[a] \in DOMAIN want[a], Writing(a) PROVE P(a)'
      <4>1. pos'[a] = pos[a] + 1 /\ phase'[a] = "apply"
        BY <3>2 DEF NextDif, RunTypeOK
      <4>2. UNCHANGED <<want, snap, left, result, before, faults>> BY <3>2 DEF NextDif, history
      <4>3. pos'[a] <= Len(want[a]) + 1 BY <3>0, <3>2, <4>1
      <4> QED BY <3>2, <4>1, <4>2, <4>3 DEF Writing, Deleted, Claimed
    <3>3. CASE Start(a) BY <3>3 DEF Start, RunTypeOK
    <3>4. CASE List(a) BY <2>2, <3>4 DEF List, RunTypeOK, history
    <3>5. CASE Get(a) BY <2>2, <3>5 DEF Get, RunTypeOK, history
    <3>6. CASE Plan(a)
      <4>1. pos'[a] = 1 /\ left'[a] = Deleted(want[a], snap[a]) /\ phase'[a] = "apply"
        BY <3>6 DEF Plan, RunTypeOK
      <4>2. UNCHANGED <<want, snap, result, before, faults>> BY <3>6 DEF Plan, history
      <4> QED BY <2>2, <3>6, <4>1, <4>2, WantedList DEF Plan, Deleted, Claimed
    <3>7. CASE DeleteReplaced(a)
      <4>1. pos[a] \in DOMAIN want[a] /\ Change(want[a], snap[a], pos[a]) = "UPDATE" /\ phase[a] = "apply"
        BY <3>7 DEF DeleteReplaced, Replacing, Applying
      <4>2. phase'[a] = "create" /\ UNCHANGED <<want, snap, pos, left, result, before, faults>>
        BY <3>7 DEF DeleteReplaced, RunTypeOK, history
      <4>3. /\ Deleted(want[a], snap[a])' = Deleted(want[a], snap[a])
            /\ Change(want[a], snap[a], pos[a])' = Change(want[a], snap[a], pos[a])
        BY <4>2, PlanKept
      <4>4. pos[a] <= Len(want[a]) + 1 /\ left[a] \subseteq Deleted(want[a], snap[a])
            /\ before[a] <= faults /\ result[a] # 200
        BY <4>1
      <4> HIDE DEF SharedInv, PlaceOK
      <4> QED BY <4>1, <4>2, <4>3, <4>4
    <3>8. CASE Delete(a)
      <4>1. left'[a] \subseteq left[a] BY <3>8 DEF Delete, RunTypeOK
      <4>2. phase[a] = "apply" /\ UNCHANGED <<phase, want, snap, pos, result, before, faults>>
        BY <3>8 DEF Delete, Deleting, history
      <4> QED BY <4>1, <4>2 DEF Deleted, Claimed
    <3>9. Creating(a) \/ Updating(a) \/ Applying(a, "MATCHED") \/ Applying(a, "IGNORE")
          => pos[a] \in DOMAIN want[a] /\ Writing(a)
      BY DEF Creating, Updating, Applying, Writing
    <3> HIDE DEF SharedInv, PlaceOK, P
    <3> QED
      BY <1>1, <3>1, <3>2, <3>3, <3>4, <3>5, <3>6, <3>7, <3>8, <3>9
      DEF Step, Run, GetMissing, GetPanics, Skip, Create, Update, UpdateMissing, UpdateRefused, MapFails,
          DeleteTemplate, Return, ReadFails, WriteFails, Fails, NextDif
  <2> QED BY <2>4, <2>5
<1>2. CASE UNCHANGED vars
  <2>1. UNCHANGED <<want, phase, snap, pos, left, result, before, faults>>
    BY <1>2 DEF vars, history
  <2>2. \A a \in Admins :
          /\ Deleted(want[a], snap[a])' = Deleted(want[a], snap[a])
          /\ Change(want[a], snap[a], pos[a])' = Change(want[a], snap[a], pos[a])
    BY <2>1, PlanKept
  <2> QED BY <2>1, <2>2 DEF PlaceOK
<1> QED BY <1>1, <1>2 DEF Next, Step

LEMMA SnapStep == ASSUME SharedInv, [Next]_vars PROVE SnapOK'
<1> DEFINE Filed(sn, x) ==
             /\ IF sn[x].template = NoTemplate THEN x \in 1..issued ELSE x = sn[x].template
             /\ x \in DOMAIN store =>
                  store[x].template = NoTemplate /\ SameScopes(sn[x].body, store[x].body)
           Kind(item) == item.id \in DOMAIN store => store[item.id].template = item.template
<1>1. ServiceGrows BY EveryStepCalls, CallGrows DEF SharedInv
<1>2. issued \in Nat /\ issued' \in Nat /\ issued <= issued' BY <1>1 DEF ServiceGrows, SharedInv, StoreTypeOK
<1>3. \A a \in Admins : \A x \in DOMAIN snap[a] : x \in DOMAIN store' => x \in DOMAIN store
  <2> SUFFICES ASSUME NEW a \in Admins, NEW x \in DOMAIN snap[a], x \in DOMAIN store'
               PROVE  x \in DOMAIN store
    OBVIOUS
  <2>1. snap[a][x].template = NoTemplate \/ x = snap[a][x].template BY DEF SharedInv, SnapOK
  <2>2. x \in Nat BY <1>1 DEF ServiceGrows, StoreTypeOK
  <2>3. snap[a][x].template \in Templates \union {NoTemplate} BY DEF SharedInv, RunTypeOK, Entries
  <2>4. x \in 1..issued BY <2>1, <2>2, <2>3, TemplatesAssumption DEF SharedInv, SnapOK
  <2> QED BY <1>1, <2>4 DEF ServiceGrows
<1>4. \A a \in Admins : \A x \in DOMAIN snap[a] :
        /\ IF snap[a][x].template = NoTemplate THEN x \in 1..issued' ELSE x = snap[a][x].template
        /\ x \in DOMAIN store' =>
             store'[x].template = NoTemplate /\ SameScopes(snap[a][x].body, store'[x].body)
  <2> SUFFICES ASSUME NEW a \in Admins, NEW x \in DOMAIN snap[a]
               PROVE  /\ IF snap[a][x].template = NoTemplate THEN x \in 1..issued'
                         ELSE x = snap[a][x].template
                      /\ x \in DOMAIN store' =>
                           /\ store'[x].template = NoTemplate
                           /\ SameScopes(snap[a][x].body, store'[x].body)
    OBVIOUS
  <2>1. Filed(snap[a], x) BY DEF SharedInv, SnapOK
  <2>2. x \in DOMAIN store' => x \in DOMAIN store BY <1>3
  <2>3. x \in DOMAIN store => x \in 1..issued BY DEF SharedInv, StoreTypeOK
  <2> QED BY <1>1, <1>2, <2>1, <2>2, <2>3 DEF ServiceGrows, SameScopes
<1>5. \A a \in Admins : \A item \in unread[a] :
        item.id \in DOMAIN store' => store'[item.id].template = item.template
  <2> SUFFICES ASSUME NEW a \in Admins, NEW item \in unread[a], item.id \in DOMAIN store'
               PROVE  store'[item.id].template = item.template
    OBVIOUS
  <2>1. item.id \in 1..issued BY DEF SharedInv, RunTypeOK, Items
  <2> QED BY <1>1, <2>1 DEF ServiceGrows, SharedInv, SnapOK
<1>6. ASSUME NEW a \in Admins, OwnStep(a), \A x \in DOMAIN snap'[a] : Filed(snap[a], x)',
             \A item \in unread'[a] : Kind(item)'
      PROVE  SnapOK'
  BY <1>4, <1>5, <1>6 DEF OwnStep, SnapOK
<1>7. ASSUME NEW a \in Admins, OwnStep(a), snap'[a] = snap[a], unread'[a] \subseteq unread[a]
      PROVE  SnapOK'
  BY <1>4, <1>5, <1>6, <1>7
<1>8. ASSUME NEW a \in Admins, Step(a) PROVE SnapOK'
  <2>1. OwnStep(a) BY <1>8, StepsAreOwn DEF SharedInv
  <2>2. CASE Start(a)
    <3>1. snap'[a] = << >> /\ unread'[a] = {} BY <2>2 DEF Start, SharedInv, RunTypeOK
    <3> QED BY <1>6, <2>1, <3>1
  <2>3. CASE List(a)
    <3>1. unread'[a] = {[id |-> x, template |-> store[x].template] : x \in DOMAIN store}
      BY <2>3 DEF List, Listed, SharedInv, RunTypeOK
    <3>2. UNCHANGED <<store, issued, snap>> BY <2>3 DEF List, service
    <3>3. \A item \in unread'[a] : Kind(item)' BY <3>1, <3>2
    <3>4. \A x \in DOMAIN snap'[a] : Filed(snap[a], x)' BY <3>2 DEF SharedInv, SnapOK
    <3> QED BY <1>6, <2>1, <3>3, <3>4
  <2>4. CASE Get(a)
    <3>1. PICK item \in unread[a] :
            /\ item.template = NoTemplate => item.id \in DOMAIN store
            /\ snap'[a] =
                 [x \in DOMAIN snap[a] \union {MetaId(item)} |->
                    IF x = MetaId(item)
                    THEN [template |-> item.template,
                          body |-> IF item.template = NoTemplate THEN store[item.id].body
                                   ELSE templateBody[item.template]]
                    ELSE snap[a][x]]
            /\ unread'[a] = unread[a] \ {item}
      BY <2>4 DEF Get, SharedInv, RunTypeOK
    <3>2. UNCHANGED <<store, issued>> BY <2>4 DEF Get, service
    <3>3. item.id \in 1..issued /\ item.template \in Templates \union {NoTemplate} /\ Kind(item)
      BY DEF SharedInv, RunTypeOK, Items, SnapOK
    <3>4. Filed(snap[a], MetaId(item))'
      <4>1. CASE item.template = NoTemplate
        BY <3>1, <3>2, <3>3, <4>1 DEF MetaId, SameScopes
      <4>2. CASE item.template # NoTemplate
        <5>1. MetaId(item) \notin Nat BY <3>3, <4>2, TemplatesAssumption DEF MetaId
        <5>2. MetaId(item) \notin DOMAIN store' BY <3>2, <5>1 DEF SharedInv, StoreTypeOK
        <5>3. snap'[a][MetaId(item)].template = item.template BY <3>1
        <5> QED BY <4>2, <5>2, <5>3 DEF MetaId
      <4> QED BY <4>1, <4>2
    <3>5. \A x \in DOMAIN snap'[a] : Filed(snap[a], x)'
      <4> SUFFICES ASSUME NEW x \in DOMAIN snap'[a], x # MetaId(item) PROVE Filed(snap[a], x)'
        BY <3>4
      <4>1. x \in DOMAIN snap[a] /\ snap'[a][x] = snap[a][x] BY <3>1
      <4> QED BY <3>2, <4>1 DEF SharedInv, SnapOK
    <3>6. \A i \in unread'[a] : Kind(i)' BY <1>5, <3>1
    <3> QED BY <1>6, <2>1, <3>5, <3>6
  <2>5. CASE ~Start(a) /\ ~List(a) /\ ~Get(a)
    <3>1. UNCHANGED <<snap, unread>>
      BY <1>8, <2>5
      DEF Step, Run, GetMissing, GetPanics, Plan, Skip, Create, DeleteReplaced, Update, UpdateMissing,
          UpdateRefused, MapFails, Delete, DeleteTemplate, Return, ReadFails, WriteFails, Fails, NextDif, Finish
    <3> QED BY <1>7, <2>1, <3>1
  <2> QED BY <2>2, <2>3, <2>4, <2>5
<1>9. CASE UNCHANGED vars BY <1>9 DEF vars, SharedInv, SnapOK
<1> QED BY <1>8, <1>9 DEF Next, Step

LEMMA SharedInit == Init => SharedInv
<1> SUFFICES ASSUME Init PROVE SharedInv
  OBVIOUS
<1> DEFINE S == [template : Templates \union {NoTemplate}, body : Bodies, described : BOOLEAN]
<1>1. store \in Seq(S) BY StoresAssumption DEF Init
<1>2. S \subseteq StoreEntries BY DEF StoreEntries, Contents
<1> HIDE DEF S
<1>3. Len(store) \in Nat /\ DOMAIN store = 1..Len(store) /\ store \in [DOMAIN store -> StoreEntries]
  BY <1>1, <1>2
<1>4. Cardinality(1..Len(store)) = Len(store) BY <1>3, FS_Interval
<1>5. StoreTypeOK BY <1>3, <1>4 DEF Init, StoreTypeOK
<1>6. RunTypeOK
  <2>1. << >> \in [DOMAIN << >> -> Entries] OBVIOUS
  <2> QED BY <2>1 DEF Init, RunTypeOK
<1>7. PlaceOK /\ SnapOK BY DEF Init, PlaceOK, SnapOK
<1> QED BY <1>5, <1>6, <1>7 DEF SharedInv

LEMMA SharedStep == SharedInv /\ [Next]_vars => SharedInv'
BY EveryStepCalls, CallGrows, RunTypeStep, PlaceStep, SnapStep DEF SharedInv, ServiceGrows

LEMMA SharedAlways == Spec => []SharedInv
BY SharedInit, SharedStep, PTL DEF Spec

\* The policy that SetPolicyInfo updates has the wanted subject and object when
\* AVP gets the call, however many others ran since Reconcile compared it.
THEOREM UpdatesInPlace == Spec => []InPlace
<1>1. SharedInv => InPlace
  <2> SUFFICES ASSUME SharedInv, NEW a \in Admins, Updating(a), Wanted(a).id \in DOMAIN store
               PROVE  /\ SubjectsEqual(Wanted(a).body, store[Wanted(a).id].body)
                      /\ ObjectsEqual(Wanted(a).body, store[Wanted(a).id].body)
    BY DEF InPlace
  <2> DEFINE id == Wanted(a).id
             read == snap[a][id].body
  <2>1. /\ id \in DOMAIN snap[a] /\ Difs(Wanted(a).body, read) # {}
        /\ Difs(Wanted(a).body, read) \intersect {"SUBJECT", "OBJECT"} = {}
    BY DEF Updating, Applying, Change, Found, DifsOf, Replaces, Wanted
  <2>2. SubjectsEqual(Wanted(a).body, read) /\ ObjectsEqual(Wanted(a).body, read)
    <3> HIDE DEF read, id
    <3> QED BY <2>1 DEF Difs
  <2>3. SameScopes(read, store[id].body) BY <2>1 DEF SharedInv, SnapOK
  <2> QED BY <2>2, <2>3 DEF SameScopes, SubjectsEqual, ObjectsEqual
<1> QED BY <1>1, SharedAlways, PTL

-----------------------------------------------------------------------------
(* The list against what was read. *)

Changes == {"MATCHED", "UPDATE"}

\* A policy to be kept or updated is a static one that was read.
LEMMA ChangeFinds ==
  ASSUME SharedInv, NEW a \in Admins, NEW j \in DOMAIN want[a],
         Change(want[a], snap[a], j) \in Changes
  PROVE  /\ want[a][j].avp /\ ~want[a][j].template /\ want[a][j].id \in DOMAIN snap[a]
         /\ snap[a][want[a][j].id].template = NoTemplate /\ want[a][j].id \in 1..issued
         /\ \A m \in DOMAIN want[a] : m < j /\ want[a][m].avp => want[a][m].id # want[a][j].id
<1> DEFINE w == want[a]
<1>1. Found(w, snap[a], j) /\ ~w[j].template BY DEF Change, Changes
<1>2. w \in Wants BY WantedList DEF SharedInv
<1>3. w[j].id \notin Templates BY <1>1, <1>2, WantsAssumption DEF Found
<1>4. snap[a][w[j].id].template \in Templates \union {NoTemplate}
  BY <1>1 DEF Found, SharedInv, RunTypeOK, Entries
<1>5. snap[a][w[j].id].template = NoTemplate /\ w[j].id \in 1..issued
  BY <1>1, <1>3, <1>4 DEF Found, SharedInv, SnapOK
<1> QED BY <1>1, <1>5 DEF Found

\* No two of them are the same.
LEMMA ChangeOnce ==
  ASSUME SharedInv, NEW a \in Admins, NEW j \in DOMAIN want[a], NEW k \in DOMAIN want[a],
         Change(want[a], snap[a], j) \in Changes, Change(want[a], snap[a], k) \in Changes,
         want[a][j].id = want[a][k].id
  PROVE  j = k
<1>1. j \in Nat /\ k \in Nat BY WantedList DEF SharedInv
<1>2. ~(j < k) /\ ~(k < j) BY ChangeFinds
<1> QED BY <1>1, <1>2

\* The first entry of a list that claims a static policy keeps or updates it.
LEMMA FirstClaim ==
  ASSUME SharedInv, NEW a \in Admins, NEW x \in DOMAIN snap[a], x \in Claimed(want[a]),
         x \notin Templates
  PROVE  \E j \in DOMAIN want[a] :
           Change(want[a], snap[a], j) \in Changes /\ want[a][j].id = x
<1> DEFINE T == {m \in DOMAIN want[a] : want[a][m].avp /\ want[a][m].id = x}
           R == OpToRel(<, Nat)
<1>1. T # {} BY DEF Claimed
<1>2. T \subseteq Nat BY WantedList DEF SharedInv
<1>3. IsWellFoundedOn(R, Nat) BY NatLessThanWellFounded
<1>4. PICK j \in T : \A m \in T : ~(<<m, j>> \in R)
  <2> HIDE DEF T, R
  <2> QED BY <1>1, <1>2, <1>3, WFMin
<1>5. \A m \in T : ~(m < j) BY <1>2, <1>4 DEF OpToRel
<1>6. want[a] \in Wants /\ want[a][j].template \in BOOLEAN BY WantedList DEF SharedInv
<1>7. ~want[a][j].template BY <1>6, WantsAssumption
<1>8. Found(want[a], snap[a], j) BY <1>2, <1>5 DEF Found
<1> QED BY <1>7, <1>8 DEF Change, Changes

\* The deletes that Reconcile implies are of what no entry claims.
LEMMA LeftUnclaimed ==
  ASSUME SharedInv, NEW a \in Admins, Writing(a), NEW x \in left[a]
  PROVE  x \in DOMAIN snap[a] /\ \A j \in DOMAIN want[a] : want[a][j].avp => want[a][j].id # x
BY DEF SharedInv, PlaceOK, Writing, Deleted, Claimed

-----------------------------------------------------------------------------
(* What the steps of all the runs together do to the store. *)

\* The policies a's run means to delete, and the list entries it means to
\* update and to create, the second half of a replacement among the latter.
ToDelete(a) ==
  Deleted(want[a], snap[a]) \union
  {want[a][j].id : j \in {n \in DOMAIN want[a] :
     Change(want[a], snap[a], n) = "UPDATE" /\ Replaces(want[a], snap[a], n)}}
ToUpdate(a) ==
  {j \in DOMAIN want[a] :
     Change(want[a], snap[a], j) = "UPDATE" /\ ~Replaces(want[a], snap[a], j)}
ToCreate(a) ==
  {j \in DOMAIN want[a] : Change(want[a], snap[a], j) \in {"NEW", "UPDATE"}}

\* Entry j of a's list as AVP stores it.
StoredEntry(a, j) ==
  [template |-> NoTemplate, body |-> Stored(want[a][j].body), described |-> TRUE]

\* What a's step changes is a static policy that a has read, as a's list asks.
AskedBy(a) ==
  /\ \A x \in DOMAIN store \ DOMAIN store' :
       x \in DOMAIN snap[a] /\ x \in ToDelete(a) /\ store[x].template = NoTemplate
  /\ \A x \in DOMAIN store \intersect DOMAIN store' : store'[x] # store[x] =>
       /\ x \in DOMAIN snap[a] /\ store[x].template = NoTemplate
       /\ \E j \in ToUpdate(a) : want[a][j].id = x /\ store'[x] = [store[x] EXCEPT !.body = Stored(want[a][j].body)]
  /\ \A x \in DOMAIN store' \ DOMAIN store :
       x \notin 1..issued /\ \E j \in ToCreate(a) : store'[x] = StoredEntry(a, j)

OnlyAsked == store' = store \/ \E a \in Admins : AskedBy(a)

LEMMA StepAsked ==
  ASSUME SharedInv, NEW a \in Admins, Step(a)
  PROVE  store' = store \/ AskedBy(a)
<1> DEFINE j == pos[a]
<1>1. ASSUME Creating(a), Creates(Wanted(a).body) PROVE AskedBy(a)
  <2>1. j \in DOMAIN want[a] /\ Change(want[a], snap[a], j) \in {"NEW", "UPDATE"}
    BY <1>1 DEF Creating, Applying, SharedInv, PlaceOK
  <2>2. DOMAIN store' = DOMAIN store \union {issued + 1} /\ store'[issued + 1] = StoredEntry(a, j)
    BY <1>1 DEF Creates, StoredEntry, Wanted
  <2>3. \A x \in DOMAIN store : store'[x] = store[x]
    BY <1>1 DEF Creates, SharedInv, StoreTypeOK
  <2>4. issued + 1 \notin 1..issued BY DEF SharedInv, StoreTypeOK
  <2> QED BY <2>1, <2>2, <2>3, <2>4 DEF AskedBy, ToCreate
<1>2. ASSUME NEW id, Deletes(id), id \in ToDelete(a), id \in DOMAIN snap[a],
             snap[a][id].template = NoTemplate
      PROVE  AskedBy(a)
  <2>1. DOMAIN store' = DOMAIN store \ {id} /\ \A x \in DOMAIN store' : store'[x] = store[x]
    BY <1>2 DEF Deletes
  <2>2. id \in DOMAIN store => store[id].template = NoTemplate
    BY <1>2 DEF SharedInv, SnapOK
  <2> QED BY <1>2, <2>1, <2>2 DEF AskedBy
<1>3. ASSUME Updating(a), Wanted(a).id \in DOMAIN store, Updates(Wanted(a).id, Wanted(a).body)
      PROVE  AskedBy(a)
  <2> DEFINE id == Wanted(a).id
  <2>1. j \in ToUpdate(a) /\ want[a][j].id = id
    BY <1>3 DEF Updating, Applying, ToUpdate, Wanted
  <2>2. id \in DOMAIN snap[a]
    BY <2>1, ChangeFinds DEF ToUpdate, Changes
  <2>3. store[id].template = NoTemplate BY <1>3, <2>2 DEF SharedInv, SnapOK
  <2>4. DOMAIN store' = DOMAIN store /\ \A x \in DOMAIN store : x # id => store'[x] = store[x]
    BY <1>3 DEF Updates
  <2>5. store'[id] = [store[id] EXCEPT !.body = Stored(want[a][j].body)]
    BY <1>3 DEF Updates, Wanted
  <2> HIDE DEF id, j
  <2> QED BY <2>1, <2>2, <2>3, <2>4, <2>5 DEF AskedBy
<1>4. ASSUME Replacing(a), Deletes(Wanted(a).id) PROVE AskedBy(a)
  <2>1. /\ j \in DOMAIN want[a] /\ Change(want[a], snap[a], j) = "UPDATE"
        /\ Replaces(want[a], snap[a], j) /\ want[a][j].id = Wanted(a).id
    BY <1>4 DEF Replacing, Applying, Wanted
  <2>2. Wanted(a).id \in ToDelete(a) BY <2>1 DEF ToDelete
  <2>3. Wanted(a).id \in DOMAIN snap[a] /\ snap[a][Wanted(a).id].template = NoTemplate
    BY <2>1, ChangeFinds DEF Changes
  <2> QED BY <1>2, <1>4, <2>2, <2>3
<1>5. ASSUME NEW id \in left[a], Deleting(a), snap[a][id].template = NoTemplate, Deletes(id)
      PROVE  AskedBy(a)
  <2>1. id \in Deleted(want[a], snap[a]) BY <1>5 DEF Deleting, SharedInv, PlaceOK
  <2>2. id \in ToDelete(a) /\ id \in DOMAIN snap[a] BY <2>1 DEF ToDelete, Deleted
  <2> QED BY <1>2, <1>5, <2>2
<1>6. CASE Create(a) BY <1>1, <1>6 DEF Create
<1>7. CASE DeleteReplaced(a) BY <1>4, <1>7 DEF DeleteReplaced
<1>8. CASE Update(a) BY <1>3, <1>8 DEF Update
<1>9. CASE Delete(a) BY <1>5, <1>9 DEF Delete
<1>10. CASE ReadFails(a) BY <1>10 DEF ReadFails, Fails, service
<1>11. CASE WriteFails(a) BY <1>1, <1>3, <1>4, <1>5, <1>11 DEF WriteFails, Fails, service
<1> QED
  BY <1>6, <1>7, <1>8, <1>9, <1>10, <1>11
  DEF Step, Run, Start, List, Get, GetMissing, GetPanics, Plan, Skip, UpdateMissing, UpdateRefused,
      MapFails, DeleteTemplate, Return, service

\* Whoever else runs SetPolicyInfo at the time, and whichever calls fail, a
\* policy is deleted or rewritten only by a run that has read it and whose list
\* leaves it out or differs from it, and to what the list has; one linked to a
\* template never is, nor one that no run has read.
THEOREM OnlyAskedCorrect == Spec => [][OnlyAsked]_vars
<1>1. SharedInv /\ [Next]_vars => [OnlyAsked]_vars
  BY StepAsked DEF Next, Step, OnlyAsked, vars
<1> QED BY <1>1, SharedAlways, PTL DEF Spec

-----------------------------------------------------------------------------
(* The steps of a run that nobody else's overlaps. *)

\* Whoever starts ends the others' being alone.
LEMMA AloneSteps ==
  ASSUME SharedInv, AloneInv, NEW a \in Admins, NEW b \in Admins, Step(b), alone'[a]
  PROVE  /\ a = b
         /\ Start(a) \/ (alone[a] /\ UNCHANGED <<alone, before>>)
<1>1. CASE Start(b)
  <2>1. alone'[a] => a = b BY <1>1 DEF Start
  <2> QED BY <1>1, <2>1
<1>2. CASE ~Start(b)
  <2>1. UNCHANGED <<alone, before>> /\ phase[b] \notin {"idle", "done"}
    <3> USE DEF NextDif, Finish, history, Creating, Updating, Replacing, Deleting, Applying
    <3>1. CASE Run(b)
      <4>1. CASE List(b) \/ Get(b) \/ GetMissing(b) \/ GetPanics(b) \/ Plan(b)
        BY <4>1 DEF List, Get, GetMissing, GetPanics, Plan
      <4>2. CASE ~(List(b) \/ Get(b) \/ GetMissing(b) \/ GetPanics(b) \/ Plan(b))
        BY <1>2, <3>1, <4>2
        DEF Run, Skip, Create, DeleteReplaced, Update, UpdateMissing, UpdateRefused, MapFails,
            Delete, DeleteTemplate, Return
      <4> QED BY <4>1, <4>2
    <3>2. CASE ReadFails(b) BY <3>2 DEF ReadFails, Fails
    <3>3. CASE WriteFails(b) BY <3>3 DEF WriteFails, Fails
    <3> QED BY <3>1, <3>2, <3>3 DEF Step
  <2> QED BY <2>1 DEF AloneInv, AloneOK
<1> QED BY <1>1, <1>2

LEMMA AloneStarts ==
  ASSUME SharedInv, NEW a \in Admins, Start(a), alone'[a]
  PROVE  AloneOK(a)'
<1>1. /\ phase'[a] = "list" /\ snap'[a] = << >> /\ unread'[a] = {}
      /\ \A b \in Admins \ {a} : phase'[b] = phase[b] /\ phase[b] \in {"idle", "done"}
  <2>1. RunTypeOK BY DEF SharedInv
  <2>2. phase'[a] = "list" /\ \A b \in Admins \ {a} : phase'[b] = phase[b]
    BY <2>1 DEF Start, RunTypeOK
  <2>3. \A b \in Admins \ {a} : phase[b] \in {"idle", "done"} BY DEF Start
  <2>4. snap'[a] = << >> /\ unread'[a] = {} BY <2>1 DEF Start, RunTypeOK
  <2> QED BY <2>2, <2>3, <2>4
<1>2. DOMAIN snap'[a] = {} BY <1>1
<1>3. MatchedIds(want[a], snap[a])' = {} BY <1>2 DEF MatchedIds, Change, Found
<1> QED BY <1>1, <1>2, <1>3 DEF AloneOK, Reading, ReadsAll, TemplatesStay, Kept, Writing

\* What a run has read and wants stays as it is while it writes.
Writes(a) ==
  \/ Creating(a) /\ Creates(Wanted(a).body)
  \/ Replacing(a) /\ Deletes(Wanted(a).id)
  \/ Updating(a) /\ Wanted(a).id \in DOMAIN store /\ Updates(Wanted(a).id, Wanted(a).body)
  \/ \E id \in left[a] : Deleting(a) /\ snap[a][id].template = NoTemplate /\ Deletes(id)
  \/ UNCHANGED service

LEMMA WritesKeep ==
  ASSUME SharedInv, NEW a \in Admins, TemplatesStay(a), Kept(a), Writes(a), UNCHANGED <<want, snap>>
  PROVE  TemplatesStay(a)' /\ Kept(a)'
<1> DEFINE matched == MatchedIds(want[a], snap[a])
<1>1. UNCHANGED matched BY DEF MatchedIds, Change, Found, DifsOf
\* A policy that is to be updated, or deleted, is neither matched nor a template's.
<1>2. ASSUME NEW id, id \notin matched, id \in DOMAIN snap[a], snap[a][id].template = NoTemplate,
             Deletes(id) \/ (id \in DOMAIN store /\ Updates(id, Wanted(a).body))
      PROVE  TemplatesStay(a)' /\ Kept(a)'
  <2>1. \A x \in DOMAIN store : x # id => x \in DOMAIN store' /\ store'[x] = store[x]
    BY <1>2 DEF Deletes, Updates
  <2>2. id \in DOMAIN store => store[id].template = NoTemplate BY <1>2 DEF SharedInv, SnapOK
  <2>3. Kept(a)' BY <1>1, <1>2, <2>1 DEF Kept
  <2>4. \A x \in DOMAIN snap[a] : snap[a][x].template # NoTemplate => x # NoTemplate
    BY DEF SharedInv, SnapOK
  <2>5. TemplatesStay(a)' BY <2>1, <2>2, <2>4 DEF TemplatesStay
  <2> QED BY <2>3, <2>5
<1>3. ASSUME Replacing(a) \/ Updating(a)
      PROVE  /\ Wanted(a).id \notin matched /\ Wanted(a).id \in DOMAIN snap[a]
             /\ snap[a][Wanted(a).id].template = NoTemplate
  <2>1. pos[a] \in DOMAIN want[a] /\ Change(want[a], snap[a], pos[a]) = "UPDATE"
    BY <1>3 DEF Replacing, Updating, Applying
  <2>2. \A j \in DOMAIN want[a] : Change(want[a], snap[a], j) = "MATCHED" => want[a][j].id # Wanted(a).id
    BY <2>1, ChangeOnce DEF Changes, Wanted
  <2> QED BY <2>1, <2>2, ChangeFinds DEF Changes, Wanted, MatchedIds
<1>4. CASE Creating(a) /\ Creates(Wanted(a).body)
  <2>1. \A x \in DOMAIN store : x \in DOMAIN store' /\ store'[x] = store[x]
    BY <1>4 DEF Creates, SharedInv, StoreTypeOK
  <2> QED BY <1>1, <2>1 DEF Kept, TemplatesStay
<1>5. CASE Replacing(a) /\ Deletes(Wanted(a).id) BY <1>2, <1>3, <1>5
<1>6. CASE Updating(a) /\ Wanted(a).id \in DOMAIN store /\ Updates(Wanted(a).id, Wanted(a).body)
  BY <1>2, <1>3, <1>6
<1>7. ASSUME NEW id \in left[a], Deleting(a), snap[a][id].template = NoTemplate, Deletes(id)
      PROVE  TemplatesStay(a)' /\ Kept(a)'
  <2>1. id \in DOMAIN snap[a] /\ \A j \in DOMAIN want[a] : want[a][j].avp => want[a][j].id # id
    BY <1>7, LeftUnclaimed DEF Deleting, Writing
  <2>2. id \notin matched BY <2>1, ChangeFinds DEF MatchedIds, Changes
  <2> QED BY <1>2, <1>7, <2>1, <2>2
<1>8. CASE UNCHANGED service BY <1>1, <1>8 DEF service, Kept, TemplatesStay
<1> QED BY <1>4, <1>5, <1>6, <1>7, <1>8 DEF Writes

\* A run that ends without success, in a call that failed or for a reason.
LEMMA AloneFails ==
  ASSUME SharedInv, NEW a \in Admins, AloneOK(a), NEW status \in Int, status # 200,
         Finish(a, status), Writes(a),
         faults' # before[a] \/ (UNCHANGED service /\ CannotSucceed(a))
  PROVE  AloneOK(a)'
<1>1. /\ phase'[a] = "done" /\ result'[a] = status /\ before'[a] = before[a]
      /\ UNCHANGED <<want, snap>>
      /\ \A b \in Admins \ {a} : phase'[b] = phase[b]
  BY DEF Finish, history, SharedInv, RunTypeOK
<1>2. TemplatesStay(a)' /\ Kept(a)' BY <1>1, WritesKeep DEF AloneOK
<1>3. UNCHANGED service /\ CannotSucceed(a) => CannotSucceed(a)'
  <2> SUFFICES ASSUME UNCHANGED store, CannotSucceed(a) PROVE CannotSucceed(a)'
    BY DEF service
  <2>1. UNCHANGED StaticIds BY DEF StaticIds
  <2>2. want' = want /\ snap' = snap BY <1>1
  <2>3. \A x \in DOMAIN store : Readable(Listed(x))' <=> Readable(Listed(x)) BY DEF Readable, Listed
  <2> QED BY <2>1, <2>2, <2>3 DEF CannotSucceed
<1> QED BY <1>1, <1>2, <1>3 DEF AloneOK, Reading, Writing

LEMMA MatchedIsRead ==
  ASSUME NEW w \in Wants, NEW s, \A x \in DOMAIN s : s[x].template # NoTemplate => x \in Templates
  PROVE  \A x \in MatchedIds(w, s) : x \in DOMAIN s /\ s[x].template = NoTemplate
<1> SUFFICES ASSUME NEW j \in DOMAIN w, Change(w, s, j) = "MATCHED"
             PROVE  w[j].id \in DOMAIN s /\ s[w[j].id].template = NoTemplate
  BY DEF MatchedIds
<1> QED BY WantsAssumption DEF Change, Found

LEMMA TemplatesFiled ==
  ASSUME RunTypeOK, SnapOK, NEW a \in Admins, NEW x \in DOMAIN snap[a], snap[a][x].template # NoTemplate
  PROVE  x \in Templates /\ x = snap[a][x].template
BY DEF RunTypeOK, SnapOK, Entries

LEMMA AloneLists ==
  ASSUME SharedInv, NEW a \in Admins, AloneOK(a), List(a)
  PROVE  AloneOK(a)'
<1>1. /\ phase[a] = "list" /\ phase'[a] = "get"
      /\ unread'[a] = {Listed(x) : x \in DOMAIN store}
      /\ UNCHANGED <<store, want, snap>> /\ \A b \in Admins \ {a} : phase'[b] = phase[b]
  BY DEF List, service, SharedInv, RunTypeOK
<1>2. ReadsAll(a)' BY <1>1 DEF AloneOK, Reading, ReadsAll, Listed
<1>3. Kept(a)' /\ TemplatesStay(a)' BY <1>1 DEF AloneOK, Kept, TemplatesStay
<1> QED BY <1>1, <1>2, <1>3 DEF AloneOK, Reading, Writing

LEMMA AloneGets ==
  ASSUME SharedInv, SharedInv', NEW a \in Admins, AloneOK(a), Get(a)
  PROVE  AloneOK(a)'
<1>1. phase[a] = "get" /\ UNCHANGED <<store, want, phase>> BY DEF Get, service
<1>2. PICK item \in unread[a] :
        /\ item.template = NoTemplate => item.id \in DOMAIN store
        /\ snap'[a] =
             [x \in DOMAIN snap[a] \union {MetaId(item)} |->
                IF x = MetaId(item)
                THEN [template |-> item.template,
                      body |-> IF item.template = NoTemplate THEN store[item.id].body
                               ELSE templateBody[item.template]]
                ELSE snap[a][x]]
        /\ unread'[a] = unread[a] \ {item}
  BY DEF Get, SharedInv, RunTypeOK
<1>3. ReadsAll(a) BY <1>1 DEF AloneOK, Reading
<1>4. /\ DOMAIN snap'[a] = DOMAIN snap[a] \union {MetaId(item)}
      /\ snap'[a][MetaId(item)].template = item.template
      /\ item.template = NoTemplate => snap'[a][MetaId(item)].body = store[item.id].body
      /\ \A x \in DOMAIN snap[a] : x # MetaId(item) => snap'[a][x] = snap[a][x]
  BY <1>2
<1>5. \A x \in DOMAIN snap'[a] :
        snap'[a][x].template = NoTemplate => x \in DOMAIN store /\ store[x].body = snap'[a][x].body
  BY <1>2, <1>3, <1>4 DEF ReadsAll, MetaId
<1>6. \A x \in DOMAIN store :
        Listed(x) \in unread'[a] \/ MetaId(Listed(x)) \in DOMAIN snap'[a]
  BY <1>1, <1>2, <1>3, <1>4 DEF ReadsAll
<1>7. ReadsAll(a)' BY <1>1, <1>2, <1>3, <1>5, <1>6 DEF ReadsAll, Listed
<1>8. TemplatesStay(a)'
  <2>1. item.id \in DOMAIN store /\ store[item.id].template = item.template
    BY <1>3 DEF ReadsAll, SharedInv, SnapOK
  <2> QED BY <1>1, <1>4, <2>1 DEF AloneOK, TemplatesStay, MetaId
<1>9. Kept(a)'
  <2>1. \A x \in DOMAIN snap'[a] : snap'[a][x].template # NoTemplate => x \in Templates
    <3> SUFFICES ASSUME NEW x \in DOMAIN snap'[a], snap'[a][x].template # NoTemplate
                 PROVE  x \in Templates
      OBVIOUS
    <3>1. snap'[a][x] \in Entries BY DEF SharedInv, RunTypeOK
    <3>2. x = snap'[a][x].template BY DEF SharedInv, SnapOK
    <3> QED BY <3>1, <3>2 DEF Entries
  <2>2. want'[a] \in Wants BY DEF SharedInv, RunTypeOK
  <2>3. \A x \in MatchedIds(want'[a], snap'[a]) :
          x \in DOMAIN snap'[a] /\ snap'[a][x].template = NoTemplate
    BY <2>1, <2>2, MatchedIsRead
  <2> QED BY <1>1, <1>5, <2>3 DEF Kept
<1> QED BY <1>1, <1>7, <1>8, <1>9 DEF AloneOK, Reading, Writing

LEMMA AlonePlans ==
  ASSUME SharedInv, NEW a \in Admins, AloneOK(a), Plan(a)
  PROVE  AloneOK(a)'
<1>1. /\ phase[a] = "get" /\ phase'[a] = "apply" /\ unread[a] = {} /\ pos'[a] = 1
      /\ left'[a] = Deleted(want[a], snap[a]) /\ UNCHANGED <<store, want, snap>>
      /\ \A b \in Admins \ {a} : phase'[b] = phase[b]
  BY DEF Plan, service, SharedInv, RunTypeOK
<1>2. ReadsAll(a) BY <1>1 DEF AloneOK, Reading
<1>3. Passed(a)' = {}
  <2>1. \A j \in DOMAIN want[a] : ~(j < 1) BY WantedList DEF SharedInv
  <2> QED BY <1>1, <2>1 DEF Passed
<1> DEFINE ours == {j \in DOMAIN want[a] : Change(want[a], snap[a], j) \in Changes}
           kept == {want[a][j].id : j \in ours}
           gone == {x \in Deleted(want[a], snap[a]) : snap[a][x].template = NoTemplate}
<1>4. ToCome(a)' = kept \union gone
  <2>1. \A j \in DOMAIN want[a] : j >= 1 BY WantedList DEF SharedInv
  <2>2. Ahead(a)' = ours BY <1>1, <2>1 DEF Ahead, Changes
  <2> QED BY <1>1, <2>2 DEF ToCome
<1>5. ASSUME NEW x \in DOMAIN snap[a], snap[a][x].template = NoTemplate
      PROVE  x \in StaticIds /\ store[x].body = snap[a][x].body
  BY <1>2, <1>5 DEF ReadsAll, StaticIds, SharedInv, SnapOK
<1>6. \A x \in kept \union gone : x \in DOMAIN snap[a] /\ snap[a][x].template = NoTemplate
  BY ChangeFinds DEF Deleted
<1>7. \A x \in StaticIds : x \in kept \union gone
  <2> SUFFICES ASSUME NEW x \in StaticIds, x \notin gone PROVE x \in kept
    OBVIOUS
  <2>1. x \in DOMAIN snap[a] BY <1>1, <1>2 DEF ReadsAll, StaticIds, MetaId, Listed
  <2>2. x \in Nat BY DEF StaticIds, SharedInv, StoreTypeOK
  <2>3. x \notin Templates BY <2>2, TemplatesAssumption
  <2>4. snap[a][x].template = NoTemplate BY <2>1, <2>3, TemplatesFiled DEF SharedInv
  <2>5. x \in Claimed(want[a]) BY <2>1, <2>4 DEF Deleted
  <2> QED BY <2>1, <2>3, <2>5, FirstClaim
<1>8. StaticIds = kept \union gone BY <1>5, <1>6, <1>7
<1>9. WritesAll(a)'
  <2> DEFINE f == [j \in {} |-> 0]
  <2>1. UNCHANGED StaticIds BY <1>1 DEF StaticIds
  <2>2. f \in [Passed(a)' -> StaticIds'] BY <1>3
  <2>3. WrittenAs(a, f)' BY <1>3, <1>4, <1>8, <2>1, <2>2 DEF WrittenAs
  <2>4. \A x \in ToCome(a)' : store'[x].body = snap'[a][x].body BY <1>1, <1>4, <1>5, <1>6
  <2> HIDE DEF f
  <2> QED BY <2>2, <2>3, <2>4 DEF WritesAll
<1>10. Kept(a)' /\ TemplatesStay(a)' BY <1>1 DEF AloneOK, Kept, TemplatesStay
<1> QED BY <1>1, <1>9, <1>10 DEF AloneOK, Reading, Writing

-----------------------------------------------------------------------------
(* How a run that is alone gets from what it read to what is wanted. *)

LEMMA StoredIsEqual == \A b : CompareEqual(Stored(b), Stored(b))
<1> SUFFICES ASSUME NEW b PROVE PolicyEquals(Stored(b), Stored(b))
  BY DEF CompareEqual, Difs
<1> QED BY DEF PolicyEquals

\* The place in the list after a difference that was applied or skipped.
LEMMA NextPlace ==
  ASSUME SharedInv, NEW a \in Admins, Writing(a), pos[a] \in DOMAIN want[a], NextDif(a)
  PROVE  /\ phase'[a] = "apply" /\ UNCHANGED <<want, snap, left>>
         /\ \A b \in Admins \ {a} : phase'[b] = phase[b]
         /\ Passed(a)' = Passed(a) \union (IF Wanted(a).template THEN {} ELSE {pos[a]})
         /\ pos[a] \notin Passed(a) /\ Ahead(a)' = Ahead(a) \ {pos[a]}
<1>1. /\ phase'[a] = "apply" /\ pos'[a] = pos[a] + 1 /\ UNCHANGED <<want, snap, left>>
      /\ \A b \in Admins \ {a} : phase'[b] = phase[b]
  BY DEF NextDif, SharedInv, RunTypeOK
<1>2. pos[a] \in Nat /\ \A j \in DOMAIN want[a] : j \in Nat BY WantedList DEF SharedInv, RunTypeOK
<1>3. Passed(a)' = Passed(a) \union (IF Wanted(a).template THEN {} ELSE {pos[a]})
  BY <1>1, <1>2 DEF Passed, Wanted
<1>4. pos[a] \notin Passed(a) BY <1>2 DEF Passed
<1>5. Ahead(a)' = Ahead(a) \ {pos[a]} BY <1>1, <1>2 DEF Ahead
<1> QED BY <1>1, <1>3, <1>4, <1>5

\* What is to come loses the policy that it was the turn of.
LEMMA NextToCome ==
  ASSUME SharedInv, NEW a \in Admins, Writing(a), pos[a] \in DOMAIN want[a],
         UNCHANGED <<want, snap, left>>, Ahead(a)' = Ahead(a) \ {pos[a]}
  PROVE  ToCome(a)' = ToCome(a) \ (IF pos[a] \in Ahead(a) THEN {Wanted(a).id} ELSE {})
<1>1. CASE pos[a] \notin Ahead(a) BY <1>1 DEF ToCome
<1>2. CASE pos[a] \in Ahead(a)
  <2>1. \A j \in Ahead(a) : want[a][j].id = Wanted(a).id => j = pos[a]
    BY <1>2, ChangeOnce DEF Ahead, Changes, Wanted
  <2>2. \A x \in left[a] : x # Wanted(a).id
    BY <1>2, LeftUnclaimed, ChangeFinds DEF Ahead, Changes, Wanted
  <2> QED BY <1>2, <2>1, <2>2 DEF ToCome, Wanted
<1> QED BY <1>1, <1>2

\* The policy whose turn it was is now the store's policy n.
LEMMA NextWritten ==
  ASSUME NEW a \in Admins, UNCHANGED want, NEW f, WrittenAs(a, f), NEW n, NEW body,
         Passed(a)' = Passed(a) \union {pos[a]}, pos[a] \notin Passed(a),
         ToCome(a)' \subseteq ToCome(a), n \notin ToCome(a)',
         \A j \in Passed(a) : f[j] # n /\ store'[f[j]] = store[f[j]],
         body = Wanted(a).body, Same(body, n)',
         StaticIds' = ToCome(a)' \union {f[j] : j \in Passed(a)} \union {n},
         \A x \in ToCome(a)' : store'[x].body = snap'[a][x].body
  PROVE  WritesAll(a)'
<1>1. PICK g \in [Passed(a)' -> StaticIds'] :
        g[pos[a]] = n /\ \A j \in Passed(a) : g[j] = f[j]
  <2> DEFINE h == [j \in Passed(a)' |-> IF j = pos[a] THEN n ELSE f[j]]
  <2>1. \A j \in Passed(a)' : h[j] \in StaticIds' OBVIOUS
  <2>2. h \in [Passed(a)' -> StaticIds'] BY <2>1
  <2>3. h[pos[a]] = n /\ \A j \in Passed(a) : h[j] = f[j] OBVIOUS
  <2> QED BY <2>2, <2>3
<1>2. \A j, k \in Passed(a)' : g[j] = g[k] => j = k BY <1>1 DEF WrittenAs
<1>3. \A j \in Passed(a) : Same(want[a][j].body, f[j])' BY DEF WrittenAs, Same
<1>4. \A j \in Passed(a)' : Same(want[a][j].body, g[j])' /\ g[j] \notin ToCome(a)'
  <2> SUFFICES ASSUME NEW j \in Passed(a)'
               PROVE  Same(want[a][j].body, g[j])' /\ g[j] \notin ToCome(a)'
    OBVIOUS
  <2>1. CASE j = pos[a] BY <1>1, <2>1 DEF Wanted, Same
  <2>2. CASE j \in Passed(a) BY <1>1, <1>3, <2>2 DEF WrittenAs
  <2> QED BY <2>1, <2>2
<1>5. StaticIds' = ToCome(a)' \union {g[j] : j \in Passed(a)'} BY <1>1
<1>6. WrittenAs(a, g)' BY <1>2, <1>4, <1>5 DEF WrittenAs
<1> QED BY <1>6 DEF WritesAll

LEMMA AloneGoesOn ==
  ASSUME SharedInv, NEW a \in Admins, AloneOK(a), Writes(a), UNCHANGED <<want, snap>>,
         phase'[a] \in {"apply", "create"}, \A b \in Admins \ {a} : phase'[b] = phase[b], WritesAll(a)'
  PROVE  AloneOK(a)'
BY WritesKeep DEF AloneOK, Reading, Writing

LEMMA AloneSkips ==
  ASSUME SharedInv, NEW a \in Admins, AloneOK(a), Skip(a)
  PROVE  AloneOK(a)'
<1>1. /\ phase[a] = "apply" /\ pos[a] \in DOMAIN want[a] /\ NextDif(a) /\ UNCHANGED service
      /\ Change(want[a], snap[a], pos[a]) \in {"MATCHED", "IGNORE"}
  BY DEF Skip, Applying
<1>2. /\ phase'[a] = "apply" /\ UNCHANGED <<want, snap, left>>
      /\ \A b \in Admins \ {a} : phase'[b] = phase[b]
      /\ Passed(a)' = Passed(a) \union (IF Wanted(a).template THEN {} ELSE {pos[a]})
      /\ pos[a] \notin Passed(a) /\ Ahead(a)' = Ahead(a) \ {pos[a]}
  BY <1>1, NextPlace DEF Writing
<1>3. ToCome(a)' = ToCome(a) \ (IF pos[a] \in Ahead(a) THEN {Wanted(a).id} ELSE {})
  BY <1>1, <1>2, NextToCome DEF Writing
<1>4. UNCHANGED <<store, StaticIds>> BY <1>1 DEF service, StaticIds
<1>5. \A x \in ToCome(a) : store[x].body = snap[a][x].body BY <1>1 DEF AloneOK, Writing, WritesAll
<1>6. PICK f \in [Passed(a) -> StaticIds] : WrittenAs(a, f) BY <1>1 DEF AloneOK, Writing, WritesAll
<1>7. CASE Change(want[a], snap[a], pos[a]) = "IGNORE"
  <2>1. pos[a] \notin Ahead(a) BY <1>7 DEF Ahead
  <2>2. Wanted(a).template BY <1>1, <1>7 DEF Change, Wanted
  <2>3. WrittenAs(a, f)' BY <1>2, <1>3, <1>4, <1>6, <2>1, <2>2 DEF WrittenAs, Same
  <2>4. WritesAll(a)' BY <1>2, <1>3, <1>4, <1>5, <2>1, <2>2, <2>3 DEF WritesAll, WrittenAs
  <2> QED BY <1>1, <1>2, <2>4, AloneGoesOn DEF Writes
<1>8. CASE Change(want[a], snap[a], pos[a]) = "MATCHED"
  <2> DEFINE n == Wanted(a).id
             body == Wanted(a).body
  <2>1. pos[a] \in Ahead(a) BY <1>1, <1>8 DEF Ahead, SharedInv, RunTypeOK
  <2>2. n \in ToCome(a) /\ ~Wanted(a).template /\ CompareEqual(body, snap[a][n].body)
    <3>1. n \in ToCome(a) BY <2>1 DEF ToCome, Wanted
    <3>2. ~Wanted(a).template /\ DifsOf(want[a], snap[a], pos[a]) = {} BY <1>8 DEF Change, Wanted
    <3> QED BY <3>1, <3>2 DEF DifsOf, CompareEqual, Wanted
  <2>3. CompareEqual(body, store[n].body) BY <1>5, <2>2
  <2> HIDE DEF n, body
  <2>4. \E c \in {body, Stored(body)} : CompareEqual(c, store[n].body) BY <2>3
  <2>5. ToCome(a)' = ToCome(a) \ {n} /\ Passed(a)' = Passed(a) \union {pos[a]}
    BY <1>2, <1>3, <2>1, <2>2 DEF n
  <2>6. \A j \in Passed(a) : f[j] # n BY <1>6, <2>2 DEF WrittenAs
  <2>7. StaticIds' = ToCome(a)' \union {f[j] : j \in Passed(a)} \union {n}
    BY <1>4, <1>6, <2>2, <2>5 DEF WrittenAs
  <2>8. WritesAll(a)'
    <3>1. \A x \in ToCome(a)' : store'[x].body = snap'[a][x].body BY <1>2, <1>4, <1>5, <2>5
    <3>2. \A j \in Passed(a) : f[j] # n /\ store'[f[j]] = store[f[j]] BY <1>4, <2>6
    <3>3. \E c \in {body, Stored(body)} : CompareEqual(c, store'[n].body) BY <1>4, <2>4
    <3>4. body = Wanted(a).body BY DEF body
    <3>5. ToCome(a)' \subseteq ToCome(a) /\ n \notin ToCome(a)' BY <2>5
    <3> QED BY <1>2, <1>6, <2>5, <2>7, <3>1, <3>2, <3>3, <3>4, <3>5, NextWritten DEF Same
  <2> QED BY <1>1, <1>2, <2>8, AloneGoesOn DEF Writes
<1> QED BY <1>1, <1>7, <1>8

LEMMA AloneCreates ==
  ASSUME SharedInv, NEW a \in Admins, AloneOK(a), Create(a)
  PROVE  AloneOK(a)'
<1> DEFINE n == issued + 1
           body == Wanted(a).body
<1>1. Creating(a) /\ Creates(body) /\ NextDif(a) BY DEF Create
<1>2. /\ Writing(a) /\ pos[a] \in DOMAIN want[a] /\ ~Wanted(a).template /\ pos[a] \notin Ahead(a)
  <2>1. CASE Applying(a, "NEW")
    BY <2>1 DEF Applying, Writing, Change, Wanted, Ahead, SharedInv, RunTypeOK
  <2>2. CASE phase[a] = "create"
    <3>1. pos[a] \in DOMAIN want[a] /\ Change(want[a], snap[a], pos[a]) = "UPDATE"
      BY <2>2 DEF SharedInv, PlaceOK
    <3> QED BY <2>2, <3>1 DEF Writing, Change, Wanted, Ahead, SharedInv, RunTypeOK
  <2> QED BY <1>1, <2>1, <2>2 DEF Creating
<1>3. /\ phase'[a] = "apply" /\ UNCHANGED <<want, snap, left>>
      /\ \A b \in Admins \ {a} : phase'[b] = phase[b]
      /\ Passed(a)' = Passed(a) \union {pos[a]}
      /\ pos[a] \notin Passed(a) /\ Ahead(a)' = Ahead(a) \ {pos[a]}
  BY <1>1, <1>2, NextPlace
<1>4. ToCome(a)' = ToCome(a) BY <1>2, <1>3, NextToCome
<1>5. \A x \in ToCome(a) : store[x].body = snap[a][x].body BY <1>2 DEF AloneOK, WritesAll
<1>6. PICK f \in [Passed(a) -> StaticIds] : WrittenAs(a, f) BY <1>2 DEF AloneOK, WritesAll
<1>7. /\ n \notin DOMAIN store /\ DOMAIN store' = DOMAIN store \union {n}
      /\ store'[n].template = NoTemplate /\ store'[n].body = Stored(body)
      /\ \A x \in DOMAIN store : store'[x] = store[x]
  BY <1>1 DEF Creates, SharedInv, StoreTypeOK
<1> HIDE DEF n, body
<1>8. StaticIds' = StaticIds \union {n} /\ n \notin StaticIds /\ StaticIds \subseteq DOMAIN store
  BY <1>7 DEF StaticIds
<1>9. WritesAll(a)'
  <2>1. n \notin ToCome(a)' BY <1>4, <1>6, <1>8 DEF WrittenAs
  <2>2. \A j \in Passed(a) : f[j] # n /\ store'[f[j]] = store[f[j]] BY <1>6, <1>7, <1>8
  <2>3. \E c \in {body, Stored(body)} : CompareEqual(c, store'[n].body) BY <1>7, StoredIsEqual
  <2>4. StaticIds' = ToCome(a)' \union {f[j] : j \in Passed(a)} \union {n}
    BY <1>4, <1>6, <1>8 DEF WrittenAs
  <2>5. \A x \in ToCome(a)' : store'[x].body = snap'[a][x].body
    BY <1>3, <1>4, <1>5, <1>6, <1>7, <1>8 DEF WrittenAs
  <2>6. body = Wanted(a).body BY DEF body
  <2> QED BY <1>3, <1>4, <1>6, <2>1, <2>2, <2>3, <2>4, <2>5, <2>6, NextWritten DEF Same
<1>10. Writes(a) BY <1>1 DEF Writes, body
<1> QED BY <1>3, <1>9, <1>10, AloneGoesOn

LEMMA AloneReplaces ==
  ASSUME SharedInv, NEW a \in Admins, AloneOK(a), DeleteReplaced(a)
  PROVE  AloneOK(a)'
<1> DEFINE id == Wanted(a).id
<1>1. Replacing(a) /\ Deletes(id) BY DEF DeleteReplaced
<1>2. /\ phase[a] = "apply" /\ pos[a] \in DOMAIN want[a]
      /\ Change(want[a], snap[a], pos[a]) = "UPDATE"
  BY <1>1 DEF Replacing, Applying
<1>3. /\ phase'[a] = "create" /\ UNCHANGED <<want, snap, left, pos>>
      /\ \A b \in Admins \ {a} : phase'[b] = phase[b]
  BY DEF DeleteReplaced, SharedInv, RunTypeOK
<1>4. pos[a] \in Ahead(a) /\ Ahead(a)' = Ahead(a) \ {pos[a]} /\ Passed(a)' = Passed(a)
  <2>1. pos[a] \in Nat /\ \A j \in DOMAIN want[a] : j \in Nat BY WantedList DEF SharedInv, RunTypeOK
  <2> QED BY <1>2, <1>3, <2>1 DEF Ahead, Passed
<1>5. ToCome(a)' = ToCome(a) \ {id} BY <1>2, <1>3, <1>4, NextToCome DEF Writing
<1>6. \A x \in ToCome(a) : store[x].body = snap[a][x].body BY <1>2 DEF AloneOK, WritesAll, Writing
<1>7. PICK f \in [Passed(a) -> StaticIds] : WrittenAs(a, f) BY <1>2 DEF AloneOK, WritesAll, Writing
<1>8. id \in ToCome(a) BY <1>4 DEF ToCome, Wanted
<1>9. StaticIds' = StaticIds \ {id} /\ \A x \in StaticIds' : store'[x] = store[x]
  BY <1>1 DEF Deletes, StaticIds
<1> HIDE DEF id
<1>10. \A j \in Passed(a) : f[j] \in StaticIds' BY <1>7, <1>8, <1>9 DEF WrittenAs
<1>11. f \in [Passed(a)' -> StaticIds'] BY <1>4, <1>10
<1>12. WrittenAs(a, f)'
  <2>1. \A j \in Passed(a)' : Same(want[a][j].body, f[j])' /\ f[j] \notin ToCome(a)'
    BY <1>3, <1>4, <1>5, <1>7, <1>9, <1>10 DEF WrittenAs, Same
  <2>2. StaticIds' = ToCome(a)' \union {f[j] : j \in Passed(a)'}
    BY <1>4, <1>5, <1>7, <1>8, <1>9, <1>10 DEF WrittenAs
  <2> QED BY <1>4, <1>7, <1>11, <2>1, <2>2 DEF WrittenAs
<1>13. \A x \in ToCome(a)' : store'[x].body = snap'[a][x].body
  BY <1>3, <1>5, <1>6, <1>7, <1>9 DEF WrittenAs
<1>14. Writes(a) BY <1>1 DEF Writes, id
<1> QED BY <1>3, <1>11, <1>12, <1>13, <1>14, AloneGoesOn DEF WritesAll

LEMMA AloneUpdates ==
  ASSUME SharedInv, NEW a \in Admins, AloneOK(a), Update(a)
  PROVE  AloneOK(a)'
<1> DEFINE n == Wanted(a).id
           body == Wanted(a).body
<1>1. Updating(a) /\ n \in DOMAIN store /\ Updates(n, body) /\ NextDif(a) BY DEF Update
<1>2. /\ phase[a] = "apply" /\ pos[a] \in DOMAIN want[a]
      /\ Change(want[a], snap[a], pos[a]) = "UPDATE"
  BY <1>1 DEF Updating, Applying
<1>3. pos[a] \in Ahead(a) BY <1>2 DEF Ahead, SharedInv, RunTypeOK
<1>4. ~Wanted(a).template BY <1>2 DEF Change, Wanted
<1>5. /\ phase'[a] = "apply" /\ UNCHANGED <<want, snap, left>>
      /\ \A b \in Admins \ {a} : phase'[b] = phase[b]
      /\ Passed(a)' = Passed(a) \union {pos[a]}
      /\ pos[a] \notin Passed(a) /\ Ahead(a)' = Ahead(a) \ {pos[a]}
  BY <1>1, <1>2, <1>4, NextPlace DEF Writing
<1>6. ToCome(a)' = ToCome(a) \ {n} BY <1>2, <1>3, <1>5, NextToCome DEF Writing
<1>7. \A x \in ToCome(a) : store[x].body = snap[a][x].body BY <1>2 DEF AloneOK, WritesAll, Writing
<1>8. PICK f \in [Passed(a) -> StaticIds] : WrittenAs(a, f) BY <1>2 DEF AloneOK, WritesAll, Writing
<1>9. n \in ToCome(a) BY <1>3 DEF ToCome, Wanted
<1>10. /\ DOMAIN store' = DOMAIN store /\ \A x \in DOMAIN store : x # n => store'[x] = store[x]
       /\ store'[n].template = store[n].template /\ store'[n].body = Stored(body)
  BY <1>1 DEF Updates, SharedInv, StoreTypeOK, StoreEntries
<1> HIDE DEF n, body
<1>11. StaticIds' = StaticIds BY <1>10 DEF StaticIds
<1>12. \A j \in Passed(a) : f[j] # n BY <1>8, <1>9 DEF WrittenAs
<1>13. WritesAll(a)'
  <2>1. n \notin ToCome(a)' /\ ToCome(a)' \subseteq ToCome(a) BY <1>6
  <2>2. \A j \in Passed(a) : f[j] # n /\ store'[f[j]] = store[f[j]]
    BY <1>8, <1>10, <1>12 DEF StaticIds
  <2>3. \E c \in {body, Stored(body)} : CompareEqual(c, store'[n].body) BY <1>10, StoredIsEqual
  <2>4. StaticIds' = ToCome(a)' \union {f[j] : j \in Passed(a)} \union {n}
    BY <1>6, <1>8, <1>9, <1>11 DEF WrittenAs
  <2>5. \A x \in ToCome(a)' : store'[x].body = snap'[a][x].body
    BY <1>5, <1>6, <1>7, <1>8, <1>10 DEF WrittenAs, StaticIds
  <2>6. body = Wanted(a).body BY DEF body
  <2> QED BY <1>5, <1>8, <2>1, <2>2, <2>3, <2>4, <2>5, <2>6, NextWritten DEF Same
<1>14. Writes(a) BY <1>1 DEF Writes, n, body
<1> QED BY <1>5, <1>13, <1>14, AloneGoesOn

LEMMA AloneDeletes ==
  ASSUME SharedInv, NEW a \in Admins, AloneOK(a), Delete(a)
  PROVE  AloneOK(a)'
<1>1. PICK id \in left[a] :
        /\ snap[a][id].template = NoTemplate /\ Deletes(id) /\ left' = [left EXCEPT ![a] = @ \ {id}]
  BY DEF Delete
<1>2. phase[a] = "apply" /\ Deleting(a) /\ UNCHANGED <<phase, want, snap, pos>> BY DEF Delete, Deleting
<1>3. left'[a] = left[a] \ {id} BY <1>1 DEF SharedInv, RunTypeOK
<1>4. Ahead(a)' = Ahead(a) /\ Passed(a)' = Passed(a) BY <1>2 DEF Ahead, Passed
<1>5. \A j \in Ahead(a) : want[a][j].id # id
  BY <1>2, LeftUnclaimed, ChangeFinds DEF Ahead, Changes, Writing
<1>6. ToCome(a)' = ToCome(a) \ {id} BY <1>2, <1>3, <1>4, <1>5 DEF ToCome
<1>7. \A x \in ToCome(a) : store[x].body = snap[a][x].body BY <1>2 DEF AloneOK, WritesAll, Writing
<1>8. PICK f \in [Passed(a) -> StaticIds] : WrittenAs(a, f) BY <1>2 DEF AloneOK, WritesAll, Writing
<1>9. id \in ToCome(a) BY <1>1 DEF ToCome
<1>10. StaticIds' = StaticIds \ {id} /\ \A x \in StaticIds' : store'[x] = store[x]
  BY <1>1 DEF Deletes, StaticIds
<1>11. \A j \in Passed(a) : f[j] \in StaticIds' BY <1>8, <1>9, <1>10 DEF WrittenAs
<1>12. f \in [Passed(a)' -> StaticIds'] BY <1>4, <1>11
<1>13. WrittenAs(a, f)'
  <2>1. \A j \in Passed(a)' : Same(want[a][j].body, f[j])' /\ f[j] \notin ToCome(a)'
    BY <1>2, <1>4, <1>6, <1>8, <1>10, <1>11 DEF WrittenAs, Same
  <2>2. StaticIds' = ToCome(a)' \union {f[j] : j \in Passed(a)'}
    BY <1>4, <1>6, <1>8, <1>9, <1>10, <1>11 DEF WrittenAs
  <2> QED BY <1>4, <1>8, <1>12, <2>1, <2>2 DEF WrittenAs
<1>14. \A x \in ToCome(a)' : store'[x].body = snap'[a][x].body
  BY <1>2, <1>6, <1>7, <1>8, <1>10 DEF WrittenAs
<1>15. Writes(a) BY <1>1, <1>2 DEF Writes
<1> QED BY <1>2, <1>12, <1>13, <1>14, <1>15, AloneGoesOn DEF WritesAll

\* At the end of its list a run that is alone has written it all.
LEMMA AloneReturns ==
  ASSUME SharedInv, NEW a \in Admins, AloneOK(a), Return(a)
  PROVE  AloneOK(a)'
<1> DEFINE ours == {j \in DOMAIN want[a] : ~want[a][j].template}
<1>1. /\ phase[a] = "apply" /\ pos[a] \notin DOMAIN want[a] /\ left[a] = {}
      /\ phase'[a] = "done" /\ result'[a] = 200 /\ UNCHANGED <<store, want, snap>>
      /\ \A b \in Admins \ {a} : phase'[b] = phase[b]
  BY DEF Return, Deleting, Finish, service, SharedInv, RunTypeOK
<1>2. \A j \in DOMAIN want[a] : j < pos[a]
  <2>1. /\ DOMAIN want[a] = 1..Len(want[a]) /\ Len(want[a]) \in Nat
        /\ pos[a] \in Nat \ {0} /\ pos[a] <= Len(want[a]) + 1
    BY <1>1, WantedList DEF SharedInv, RunTypeOK, PlaceOK
  <2> QED BY <1>1, <2>1
<1>3. Passed(a) = ours BY <1>2 DEF Passed
<1>4. ToCome(a) = {}
  <2>1. \A j \in DOMAIN want[a] : j \in Nat BY WantedList DEF SharedInv
  <2>2. pos[a] \in Nat BY DEF SharedInv, RunTypeOK
  <2>3. Ahead(a) = {} BY <1>1, <1>2, <2>1, <2>2 DEF Ahead
  <2> QED BY <1>1, <2>3 DEF ToCome
<1>5. PICK f \in [ours -> StaticIds] :
        /\ \A j, k \in ours : f[j] = f[k] => j = k
        /\ \A j \in ours : Same(want[a][j].body, f[j])
        /\ StaticIds = {f[j] : j \in ours}
  <2>1. PICK f \in [Passed(a) -> StaticIds] : WrittenAs(a, f) BY <1>1 DEF AloneOK, Writing, WritesAll
  <2> HIDE DEF ours
  <2> QED BY <1>3, <1>4, <2>1 DEF WrittenAs
<1>6. Cardinality(ours) = Cardinality(StaticIds)
  <2>1. IsFiniteSet(DOMAIN want[a])
    <3>1. DOMAIN want[a] = 1..Len(want[a]) /\ Len(want[a]) \in Int /\ 1 \in Int
      BY WantedList DEF SharedInv
    <3> QED BY <3>1, FS_Interval
  <2>2. IsFiniteSet(ours) BY <2>1, FS_Subset
  <2> HIDE DEF ours
  <2>3. f \in Bijection(ours, StaticIds)
    BY <1>5 DEF Bijection, Injection, Surjection, IsInjective
  <2> QED BY <2>2, <2>3, FS_Bijection DEF ExistsBijection
<1>7. Holds(want[a]) BY <1>5, <1>6 DEF Holds, Same
<1>8. Holds(want[a])'
  <2>1. UNCHANGED <<StaticIds, ours>> BY <1>1 DEF StaticIds
  <2> QED BY <1>1, <1>7, <2>1 DEF Holds
<1>9. Kept(a)' /\ TemplatesStay(a)' BY <1>1 DEF AloneOK, Kept, TemplatesStay
<1> QED BY <1>1, <1>8, <1>9 DEF AloneOK, Reading, Writing

-----------------------------------------------------------------------------
(* Why a run that is alone fails. *)

\* What it listed and read is still there.
LEMMA AloneFindsAll ==
  ASSUME SharedInv, NEW a \in Admins, AloneOK(a)
  PROVE  /\ ~GetMissing(a) /\ ~UpdateMissing(a)
         /\ Updating(a) => /\ Wanted(a).id \in DOMAIN store
                           /\ SameScopes(snap[a][Wanted(a).id].body, store[Wanted(a).id].body)
<1>1. ~GetMissing(a) BY DEF GetMissing, AloneOK, Reading, ReadsAll
<1>2. ASSUME Updating(a)
      PROVE  /\ Wanted(a).id \in DOMAIN store
             /\ SameScopes(snap[a][Wanted(a).id].body, store[Wanted(a).id].body)
  <2>1. /\ phase[a] = "apply" /\ pos[a] \in DOMAIN want[a]
        /\ Change(want[a], snap[a], pos[a]) = "UPDATE"
    BY <1>2 DEF Updating, Applying
  <2>2. pos[a] \in Ahead(a) BY <2>1 DEF Ahead, SharedInv, RunTypeOK
  <2>3. Wanted(a).id \in ToCome(a) BY <2>2 DEF ToCome, Wanted
  <2>4. Wanted(a).id \in StaticIds BY <2>1, <2>3 DEF AloneOK, Writing, WritesAll, WrittenAs
  <2>5. Wanted(a).id \in DOMAIN snap[a] BY <2>1, ChangeFinds DEF Changes, Wanted
  <2> QED BY <2>4, <2>5 DEF StaticIds, SharedInv, SnapOK
<1> QED BY <1>1, <1>2 DEF UpdateMissing

LEMMA AloneEnds ==
  ASSUME SharedInv, NEW a \in Admins, AloneOK(a),
         GetPanics(a) \/ MapFails(a) \/ UpdateRefused(a) \/ DeleteTemplate(a)
  PROVE  CannotSucceed(a)
<1>1. CASE GetPanics(a)
  <2>1. PICK item \in unread[a] : ~Readable(item) BY <1>1 DEF GetPanics
  <2>2. item.id \in DOMAIN store /\ item.template = store[item.id].template
    BY <1>1 DEF GetPanics, AloneOK, Reading, ReadsAll, SharedInv, SnapOK
  <2>3. ~Readable(Listed(item.id)) BY <2>1, <2>2 DEF Readable, Listed
  <2> QED BY <2>2, <2>3 DEF CannotSucceed
<1>2. ASSUME Updating(a) \/ Creating(a)
      PROVE  pos[a] \in DOMAIN want[a] /\ ~Wanted(a).template
  <2>1. CASE phase[a] = "create"
    <3>1. pos[a] \in DOMAIN want[a] /\ Change(want[a], snap[a], pos[a]) = "UPDATE"
      BY <2>1 DEF SharedInv, PlaceOK
    <3> QED BY <3>1 DEF Change, Wanted
  <2>2. CASE phase[a] # "create"
    BY <1>2, <2>2 DEF Updating, Creating, Applying, Change, Wanted
  <2> QED BY <2>1, <2>2
<1>3. CASE MapFails(a) BY <1>2, <1>3 DEF MapFails, CannotSucceed, Wanted
<1>4. CASE UpdateRefused(a)
  <2>1. Updating(a) /\ ~SameScopes(Stored(Wanted(a).body), store[Wanted(a).id].body)
    BY <1>4 DEF UpdateRefused
  <2>2. ~SameScopes(Stored(Wanted(a).body), snap[a][Wanted(a).id].body)
    BY <2>1, AloneFindsAll DEF SameScopes
  <2>3. Change(want[a], snap[a], pos[a]) = "UPDATE" /\ ~Replaces(want[a], snap[a], pos[a])
    BY <2>1 DEF Updating, Applying
  <2> QED BY <1>2, <2>1, <2>2, <2>3 DEF CannotSucceed, Wanted
<1>5. CASE DeleteTemplate(a)
  <2>1. PICK id \in left[a] : snap[a][id].template # NoTemplate BY <1>5 DEF DeleteTemplate
  <2>2. id \in DOMAIN snap[a] /\ \A j \in DOMAIN want[a] : want[a][j].avp => want[a][j].id # id
    BY <1>5, LeftUnclaimed DEF DeleteTemplate, Deleting, Writing
  <2>3. PICK y \in DOMAIN store : store[y].template = id
    BY <2>1, <2>2 DEF AloneOK, TemplatesStay
  <2>4. id # NoTemplate BY <2>1, <2>2 DEF SharedInv, SnapOK
  <2>5. y \in DOMAIN store \ StaticIds BY <2>3, <2>4 DEF StaticIds
  <2> QED BY <2>2, <2>3, <2>5 DEF CannotSucceed
<1> QED BY <1>1, <1>3, <1>4, <1>5

LEMMA AloneStep ==
  ASSUME SharedInv, SharedInv', AloneInv, [Next]_vars
  PROVE  AloneInv'
<1> SUFFICES ASSUME NEW a \in Admins, alone'[a] PROVE AloneOK(a)'
  BY DEF AloneInv
<1>1. CASE UNCHANGED vars
  <2>1. AloneOK(a) BY <1>1 DEF vars, history, AloneInv
  <2>2. UNCHANGED <<StaticIds, Passed(a), Ahead(a), MatchedIds(want[a], snap[a])>>
    BY <1>1 DEF vars, service, StaticIds, Passed, Ahead, MatchedIds, Change, Found, DifsOf
  <2>3. UNCHANGED ToCome(a) BY <1>1, <2>2 DEF vars, ToCome
  <2>4. UNCHANGED <<store, phase, want, unread, snap, pos, left, result, faults, before>>
    BY <1>1 DEF vars, service, history
  <2>5. (Reading(a) => ReadsAll(a))' BY <2>1, <2>4 DEF AloneOK, Reading, ReadsAll, Listed
  <2>6. TemplatesStay(a)' /\ Kept(a)' BY <2>1, <2>2, <2>4 DEF AloneOK, TemplatesStay, Kept
  <2>7. (Writing(a) => WritesAll(a))'
    BY <2>1, <2>2, <2>3, <2>4 DEF AloneOK, Writing, WritesAll, WrittenAs, Same
  <2>8. Holds(want[a]) => Holds(want[a])' BY <2>2, <2>4 DEF Holds
  <2>9. CannotSucceed(a) => CannotSucceed(a)'
    <3>1. \A x \in DOMAIN store : Readable(Listed(x))' <=> Readable(Listed(x))
      BY <2>4 DEF Readable, Listed
    <3> QED BY <2>2, <2>4, <3>1 DEF CannotSucceed, Change, Found, DifsOf, Replaces
  <2> QED BY <2>1, <2>4, <2>5, <2>6, <2>7, <2>8, <2>9 DEF AloneOK
<1>2. ASSUME NEW b \in Admins, Step(b) PROVE AloneOK(a)'
  <2>1. Step(a) /\ (Start(a) \/ alone[a]) BY <1>2, AloneSteps
  <2>2. CASE Start(a) BY <2>2, AloneStarts
  <2>3. CASE alone[a]
    <3>1. AloneOK(a) BY <2>3 DEF AloneInv
    <3>2. ASSUME GetPanics(a) \/ MapFails(a) \/ UpdateRefused(a) \/ DeleteTemplate(a)
          PROVE  AloneOK(a)'
      <4>1. CannotSucceed(a) BY <3>1, <3>2, AloneEnds
      <4>2. UNCHANGED service /\ (Finish(a, Panic) \/ Finish(a, 400))
        BY <3>2 DEF GetPanics, MapFails, UpdateRefused, DeleteTemplate
      <4>3. Panic \in Int /\ Panic # 200 BY DEF Panic
      <4> QED BY <3>1, <4>1, <4>2, <4>3, AloneFails DEF Writes
    <3>3. ASSUME ReadFails(a) \/ WriteFails(a) PROVE AloneOK(a)'
      <4>1. faults' = faults + 1 BY <3>3 DEF ReadFails, WriteFails, Fails
      <4>2. faults' # before[a] BY <4>1 DEF SharedInv, RunTypeOK, PlaceOK
      <4>3. Writes(a) /\ (Finish(a, 400) \/ Finish(a, 500))
        BY <3>3 DEF ReadFails, WriteFails, Fails, Writes
      <4> QED BY <3>1, <4>2, <4>3, AloneFails
    <3> QED
      BY <2>1, <2>2, <3>1, <3>2, <3>3, AloneFindsAll, AloneLists, AloneGets, AlonePlans, AloneSkips,
         AloneCreates, AloneReplaces, AloneUpdates, AloneDeletes, AloneReturns
      DEF Step, Run
  <2> QED BY <2>1, <2>2, <2>3
<1> QED BY <1>1, <1>2 DEF Next, Step

LEMMA AloneAlways == Spec => [](SharedInv /\ AloneInv)
<1>1. Init => AloneInv BY DEF Init, AloneInv
<1>2. SharedInv /\ SharedInv' /\ AloneInv /\ [Next]_vars => AloneInv' BY AloneStep
<1> QED BY <1>1, <1>2, SharedAlways, PTL DEF Spec

-----------------------------------------------------------------------------

\* When SetPolicyInfo returns 200 and nobody else ran meanwhile, AVP has the
\* wanted policies one for one and no other, from whatever store earlier runs,
\* lost answers and other administrators had left.
THEOREM SuccessApplies == Spec => []SuccessMeansApplied
<1>1. SharedInv /\ AloneInv => SuccessMeansApplied
  BY DEF SharedInv, PlaceOK, AloneInv, AloneOK, SuccessMeansApplied
<1> QED BY <1>1, AloneAlways, PTL

\* No call of a run, even one that fails half way, deletes or rewrites a
\* policy that Reconcile found to be as wanted.
THEOREM MatchedAreKept == Spec => []KeepsMatched
<1>1. AloneInv => KeepsMatched BY DEF AloneInv, AloneOK, Kept, KeepsMatched
<1> QED BY <1>1, AloneAlways, PTL

\* A run that nobody else's and no failing call disturbs ends with 200, unless
\* Cedar cannot express a wanted policy, IDQL one of the store or a template of
\* one, a static policy has no description, AVP refuses the names an update
\* rewrites, or a template's policy is not in the list.
THEOREM RepeatSucceeds == Spec => []UndisturbedSucceeds
<1>1. ASSUME AloneInv PROVE UndisturbedSucceeds
  BY <1>1 DEF AloneInv, AloneOK, CannotSucceed, UndisturbedSucceeds
<1> QED BY <1>1, AloneAlways, PTL
=============================================================================
