---------------------------- MODULE AvpProvider ----------------------------
(***************************************************************************)
(* AmazonAvpProvider.SetPolicyInfo of providers/aws/avpProvider: reads the *)
(* policies of an Amazon Verified Permissions (AVP) store, reconciles them *)
(* with the wanted list and applies the differences one call at a time,    *)
(* returning at the first call that fails. Several administrators may run  *)
(* it on one store, a call may fail before or after it took effect, and an *)
(* administrator whose run failed repeats it with the same policy file.    *)
(*                                                                         *)
(* AVP policies are identified by the numbers AVP issues, its templates by *)
(* numbers of their own. AVP's side (Amazon's service) is modelled from    *)
(* the calls avpClient makes; a call stands for all the attempts that the  *)
(* SDK makes of it.                                                        *)
(***************************************************************************)
EXTENDS HexaPolicy, Integers, FiniteSets

CONSTANTS
  Admins,        \* those who run SetPolicyInfo on the store
  Bodies,        \* policies' subjects, actions, object, condition and scope
  Unmappable,    \* the bodies CedarMapper cannot express in Cedar
  Unreadable,    \* the bodies, of policies and templates, it cannot map to IDQL
  rewritten,     \* rewritten[n]: how a name reads once it was written as Cedar
  Templates,     \* the ids of the policy templates of the store
  templateBody,  \* the body each template's statement maps to
  NoTemplate,    \* the policy is a static one
  Stores,        \* the contents the store may start with
  Wants,         \* the policy lists an administrator may set
  MaxFaults,     \* bound: calls that fail
  MaxRuns        \* bound: runs of one administrator

ASSUME TemplatesAssumption == Templates \subseteq Int \ Nat /\ NoTemplate \notin Templates
ASSUME SingleSubject == \A b \in Bodies : Len(b.subjects) = 1
ASSUME StoresAssumption ==
  /\ Stores \subseteq Seq([template : Templates \union {NoTemplate}, body : Bodies,
                          described : BOOLEAN])
  /\ templateBody \in [Templates -> Bodies]
\* An entry that was read from AVP has its id, a template's if it is a template's.
ASSUME WantsAssumption ==
  /\ Wants \subseteq Seq([id : Nat \union Templates \union {NoId}, avp : BOOLEAN,
                         template : BOOLEAN, body : Bodies])
  /\ \A w \in Wants : \A j \in DOMAIN w :
       w[j].avp => w[j].id # NoId /\ (w[j].template <=> w[j].id \in Templates)

VARIABLES
  store,   \* AVP: the policies it holds, by the id it issued
  issued,  \* AVP: ids 1..issued have been issued
  phase,   \* phase[a]: "idle" | "list" | "get" | "apply" | "create" | "done"
  want,    \* want[a]: the argument hexaPolicies
  unread,  \* unread[a]: listed policies not got yet
  snap,    \* snap[a]: avpMap as built from the policies got
  pos,     \* pos[a]: the wanted policy whose difference comes next
  left,    \* left[a]: the DELETE differences to come
  result,  \* result[a]: the HTTP status returned, 0 while running
  runs,    \* runs[a]: how often a has started
  faults,  \* how many calls have failed
  alone,   \* history, alone[a]: nobody else ran since a's latest run started
  before   \* history, before[a]: how many calls had failed by then

service == <<store, issued>>
history == <<alone, before>>
vars == <<store, issued, phase, want, unread, snap, pos, left, result, runs,
          faults, history>>

----------------------------------------------------------------------------
\* An entry of a wanted list is [id, avp, template, body]: avp tells that
\* ProviderType is "avp", template that isTemplate holds.
\* The store's policies are [template, body, described]: described tells that a
\* static policy has a description, which AVP does not require.

\* A policy as ListPolicies returns it.
Listed(x) == [id |-> x, template |-> store[x].template]

\* The id in the Meta of a policy read from AVP: a static policy's own, or for
\* a policy linked to a template the template's.
MetaId(item) == IF item.template = NoTemplate THEN item.id ELSE item.template

\* mapAvpPolicyToHexa can read the policy, or the template's statement, that
\* GetPolicy or GetTemplatePolicy returns.
Readable(item) ==
  IF item.template = NoTemplate
  THEN store[item.id].described /\ store[item.id].body \notin Unreadable
  ELSE templateBody[item.template] \notin Unreadable

\* What reading a policy back from AVP gives after body b was written as a
\* Cedar statement: no scope, an empty list for nil actions, and names whose
\* ids have been put into quotation marks, those read from AVP once more.
Stored(b) ==
  [b EXCEPT !.scope = NoScope,
            !.subjects = [i \in DOMAIN @ |-> rewritten[@[i]]],
            !.actions = IF @ = NilActions THEN << >> ELSE [i \in DOMAIN @ |-> rewritten[@[i]]],
            !.object = rewritten[@]]

\* AVP updates a static policy only to one of the same principal and resource.
SameScopes(b, c) == b.subjects = c.subjects /\ b.object = c.object

\* Mutant: a template policy is passed over before it leaves avpMap.
Claimed_Static(w) ==
  {w[m].id : m \in {n \in DOMAIN w : w[n].avp /\ ~w[n].template}}

\* The entries that Reconcile takes an id out of avpMap for.
Claimed(w) == {w[m].id : m \in {n \in DOMAIN w : w[n].avp}}

\* The j-th wanted policy finds its id in avpMap: the id was listed and no
\* earlier entry has taken it.
Found(w, s, j) ==
  /\ w[j].avp /\ w[j].id \in DOMAIN s
  /\ \A m \in DOMAIN w : m < j /\ w[m].avp => w[m].id # w[j].id

DifsOf(w, s, j) == Difs(w[j].body, s[w[j].id].body)

\* The difference Reconcile makes of the j-th wanted policy, from avpMap s as
\* first built; template policies are UNSUPPORTED or skipped.
Change(w, s, j) ==
  IF w[j].template THEN "IGNORE"
  ELSE IF ~Found(w, s, j) THEN "NEW"
  ELSE IF DifsOf(w, s, j) = {} THEN "MATCHED" ELSE "UPDATE"

\* Mutant: a policy that matches stays in avpMap.
Deleted_Matched(w, s) ==
  DOMAIN s \ {w[m].id : m \in {n \in DOMAIN w : w[n].avp /\ Change(w, s, n) # "MATCHED"}}

\* The closing loop of Reconcile: the implied deletes.
Deleted(w, s) == DOMAIN s \ Claimed(w)

\* Mutant: a new subject is left to UpdatePolicy.
Replaces_ObjectOnly(w, s, j) == "OBJECT" \in DifsOf(w, s, j)

\* SetPolicyInfo replaces a policy of which AVP cannot update the difference.
Replaces(w, s, j) == DifsOf(w, s, j) \intersect {"SUBJECT", "OBJECT"} # {}

----------------------------------------------------------------------------
Init ==
  /\ store \in Stores
  /\ issued = Cardinality(DOMAIN store)
  /\ want \in [Admins -> Wants]
  /\ phase = [a \in Admins |-> "idle"]
  /\ unread = [a \in Admins |-> {}]
  /\ snap = [a \in Admins |-> << >>]
  /\ pos = [a \in Admins |-> 1]
  /\ left = [a \in Admins |-> {}]
  /\ result = [a \in Admins |-> 0]
  /\ runs = [a \in Admins |-> 0]
  /\ faults = 0
  /\ alone = [a \in Admins |-> FALSE]
  /\ before = [a \in Admins |-> 0]

\* SetPolicyInfo is called, first or again after it failed.
Start(a) ==
  /\ phase[a] = "idle" \/ (phase[a] = "done" /\ result[a] # 200)
  /\ runs[a] < MaxRuns
  /\ phase' = [phase EXCEPT ![a] = "list"]
  /\ result' = [result EXCEPT ![a] = 0]
  /\ runs' = [runs EXCEPT ![a] = @ + 1]
  /\ alone' = [b \in Admins |->
                 b = a /\ \A c \in Admins \ {a} : phase[c] \in {"idle", "done"}]
  /\ before' = [before EXCEPT ![a] = faults]
  /\ snap' = [snap EXCEPT ![a] = << >>]
  /\ left' = [left EXCEPT ![a] = {}]
  /\ pos' = [pos EXCEPT ![a] = 1]
  /\ unread' = [unread EXCEPT ![a] = {}]
  /\ UNCHANGED <<service, want, faults>>

Finish(a, status) ==
  /\ phase' = [phase EXCEPT ![a] = "done"]
  /\ result' = [result EXCEPT ![a] = status]
  /\ UNCHANGED <<want, unread, snap, pos, left, runs, history>>

List(a) ==
  /\ phase[a] = "list"
  /\ unread' = [unread EXCEPT ![a] = {Listed(x) : x \in DOMAIN store}]
  /\ phase' = [phase EXCEPT ![a] = "get"]
  /\ UNCHANGED <<service, want, snap, pos, left, result, runs, faults, history>>

\* GetPolicyInfo reads the next listed policy and Reconcile files it in avpMap.
Get(a) ==
  /\ phase[a] = "get"
  /\ \E item \in unread[a] :
       /\ item.template = NoTemplate => item.id \in DOMAIN store
       /\ Readable(item)
       /\ LET body == IF item.template = NoTemplate THEN store[item.id].body
                      ELSE templateBody[item.template]
              entry == [template |-> item.template, body |-> body]
          IN  snap' = [snap EXCEPT ![a] =
                         [x \in DOMAIN @ \union {MetaId(item)} |->
                            IF x = MetaId(item) THEN entry ELSE @[x]]]
       /\ unread' = [unread EXCEPT ![a] = @ \ {item}]
  /\ UNCHANGED <<service, phase, want, pos, left, result, runs, faults, history>>

\* A policy that somebody deleted after it was listed: GetPolicy's error ends
\* the run before anything is applied.
GetMissing(a) ==
  /\ phase[a] = "get"
  /\ \E item \in unread[a] : item.template = NoTemplate /\ item.id \notin DOMAIN store
  /\ Finish(a, 500)
  /\ UNCHANGED <<service, faults>>

\* A statement with a condition IDQL does not have, a policy's or a template's,
\* maps to no policy at all, and without an error: taking the first one panics,
\* as does taking the description of a static policy without one.
Panic == -1
GetPanics(a) ==
  /\ phase[a] = "get"
  /\ \E item \in unread[a] :
       /\ item.template = NoTemplate => item.id \in DOMAIN store
       /\ ~Readable(item)
  /\ Finish(a, Panic)
  /\ UNCHANGED <<service, faults>>

\* Reconcile works out the differences; SetPolicyInfo starts to apply them.
Plan(a) ==
  /\ phase[a] = "get" /\ unread[a] = {}
  /\ phase' = [phase EXCEPT ![a] = "apply"]
  /\ pos' = [pos EXCEPT ![a] = 1]
  /\ left' = [left EXCEPT ![a] = Deleted(want[a], snap[a])]
  /\ UNCHANGED <<service, want, unread, snap, result, runs, faults, history>>

----------------------------------------------------------------------------
\* The effects of the calls on the store. AVP deletes a policy that is not
\* there without an error.
Creates(b) ==
  /\ issued' = issued + 1
  /\ store' = [x \in DOMAIN store \union {issued + 1} |->
                 IF x = issued + 1
                 THEN [template |-> NoTemplate, body |-> Stored(b), described |-> TRUE]
                 ELSE store[x]]

Deletes(id) ==
  /\ store' = [x \in DOMAIN store \ {id} |-> store[x]]
  /\ UNCHANGED issued

\* A policy that is updated was read: it has a description.
Updates(id, b) ==
  /\ store' = [store EXCEPT ![id].body = Stored(b)]
  /\ UNCHANGED issued

\* A call that fails, with or without its effect on the store.
Fails(a, status, effect) ==
  /\ faults < MaxFaults
  /\ faults' = faults + 1
  /\ effect \/ UNCHANGED service
  /\ Finish(a, status)

Applying(a, change) ==
  /\ phase[a] = "apply" /\ pos[a] \in DOMAIN want[a]
  /\ Change(want[a], snap[a], pos[a]) = change

Wanted(a) == want[a][pos[a]]
Mappable(b) == b \notin Unmappable

NextDif(a) ==
  /\ pos' = [pos EXCEPT ![a] = @ + 1]
  /\ phase' = [phase EXCEPT ![a] = "apply"]
  /\ UNCHANGED <<want, unread, snap, left, result, runs, faults, history>>

\* Nothing to do for a policy that matches or is a template.
Skip(a) ==
  /\ Applying(a, "MATCHED") \/ Applying(a, "IGNORE")
  /\ NextDif(a)
  /\ UNCHANGED service

\* CreatePolicy for a NEW policy, and as the second half of a replacement.
Creating(a) ==
  Applying(a, "NEW") \/ phase[a] = "create"

Create(a) ==
  /\ Creating(a) /\ Mappable(Wanted(a).body)
  /\ Creates(Wanted(a).body)
  /\ NextDif(a)

\* The first half: DeletePolicy for the policy to be replaced.
Replacing(a) ==
  Applying(a, "UPDATE") /\ Replaces(want[a], snap[a], pos[a])

\* Mutant: the second half of the replacement is forgotten.
DeleteReplaced_NoCreate(a) ==
  /\ Replacing(a)
  /\ Deletes(Wanted(a).id)
  /\ NextDif(a)

DeleteReplaced(a) ==
  /\ Replacing(a)
  /\ Deletes(Wanted(a).id)
  /\ phase' = [phase EXCEPT ![a] = "create"]
  /\ UNCHANGED <<want, unread, snap, pos, left, result, runs, faults, history>>

Updating(a) ==
  Applying(a, "UPDATE") /\ ~Replaces(want[a], snap[a], pos[a])

Update(a) ==
  /\ Updating(a) /\ Mappable(Wanted(a).body)
  /\ Wanted(a).id \in DOMAIN store
  /\ SameScopes(Stored(Wanted(a).body), store[Wanted(a).id].body)
  /\ Updates(Wanted(a).id, Wanted(a).body)
  /\ NextDif(a)

\* The id of the subject or object, quoted once more, makes it another one.
UpdateRefused(a) ==
  /\ Updating(a) /\ Mappable(Wanted(a).body)
  /\ Wanted(a).id \in DOMAIN store
  /\ ~SameScopes(Stored(Wanted(a).body), store[Wanted(a).id].body)
  /\ Finish(a, 400)
  /\ UNCHANGED <<service, faults>>

\* AVP has no such policy any more: somebody deleted it since it was read.
UpdateMissing(a) ==
  /\ Updating(a) /\ Mappable(Wanted(a).body)
  /\ Wanted(a).id \notin DOMAIN store
  /\ Finish(a, 400)
  /\ UNCHANGED <<service, faults>>

\* The policy cannot be written in Cedar: prepareCreatePolicy and
\* preparePolicyUpdate return an error, which ends the run, or panic.
MapFails(a) ==
  /\ Creating(a) \/ Updating(a)
  /\ ~Mappable(Wanted(a).body)
  /\ \E status \in {400, Panic} : Finish(a, status)
  /\ UNCHANGED <<service, faults>>

\* The implied deletes, in the random order of the map.
Deleting(a) == phase[a] = "apply" /\ pos[a] \notin DOMAIN want[a]

Delete(a) ==
  /\ Deleting(a)
  /\ \E id \in left[a] :
       /\ snap[a][id].template = NoTemplate
       /\ Deletes(id)
       /\ left' = [left EXCEPT ![a] = @ \ {id}]
  /\ UNCHANGED <<phase, want, unread, snap, pos, result, runs, faults, history>>

\* prepareDelete has no input for a policy linked to a template; DeletePolicy
\* refuses the missing input, which ends the run.
DeleteTemplate(a) ==
  /\ Deleting(a)
  /\ \E id \in left[a] : snap[a][id].template # NoTemplate
  /\ Finish(a, 400)
  /\ UNCHANGED <<service, faults>>

Return(a) ==
  /\ Deleting(a) /\ left[a] = {}
  /\ Finish(a, 200)
  /\ UNCHANGED <<service, faults>>

\* A call fails, by itself or because its answer is lost.
ReadFails(a) ==
  /\ phase[a] = "list" \/ (phase[a] = "get" /\ unread[a] # {})
  /\ Fails(a, 500, FALSE)

WriteFails(a) ==
  \/ /\ Creating(a) /\ Mappable(Wanted(a).body)
     /\ Fails(a, 400, Creates(Wanted(a).body))
  \/ /\ Replacing(a)
     /\ Fails(a, 400, Deletes(Wanted(a).id))
  \/ /\ Updating(a) /\ Mappable(Wanted(a).body) /\ Wanted(a).id \in DOMAIN store
     /\ SameScopes(Stored(Wanted(a).body), store[Wanted(a).id].body)
     /\ Fails(a, 400, Updates(Wanted(a).id, Wanted(a).body))
  \/ /\ Deleting(a)
     /\ \E id \in left[a] : /\ snap[a][id].template = NoTemplate
                            /\ Fails(a, 400, Deletes(id))

\* What an administrator's run does when no call fails.
Run(a) ==
  \/ Start(a) \/ List(a) \/ Get(a) \/ GetMissing(a) \/ GetPanics(a) \/ Plan(a)
  \/ Skip(a) \/ Create(a) \/ DeleteReplaced(a) \/ Update(a) \/ UpdateMissing(a)
  \/ UpdateRefused(a) \/ MapFails(a) \/ Delete(a) \/ DeleteTemplate(a) \/ Return(a)

Next == \E a \in Admins : Run(a) \/ ReadFails(a) \/ WriteFails(a)

Spec == Init /\ [][Next]_vars

----------------------------------------------------------------------------
StaticIds == {x \in DOMAIN store : store[x].template = NoTemplate}
\* The store's static policies are list w's, one for one, up to what Compare
\* tells apart, each as it is in the list or as writing it leaves it.
Holds(w) ==
  LET ours == {j \in DOMAIN w : ~w[j].template}
      Same(j, x) == \E b \in {w[j].body, Stored(w[j].body)} : CompareEqual(b, store[x].body)
  IN  /\ \A j \in ours : \E x \in StaticIds : Same(j, x)
      /\ \A x \in StaticIds : \E j \in ours : Same(j, x)
      /\ Cardinality(ours) = Cardinality(StaticIds)

\* When SetPolicyInfo returns 200 and nobody else ran meanwhile, the store has
\* the wanted policies and no other: whatever earlier runs that failed half
\* way, calls whose answer was lost or runs of two administrators at once left.
SuccessMeansApplied ==
  \A a \in Admins : alone[a] /\ result[a] = 200 => Holds(want[a])

\* The ids of wanted policies that are already as they should be.
MatchedIds(w, s) ==
  {w[j].id : j \in {n \in DOMAIN w : Change(w, s, n) = "MATCHED"}}

\* A run, even one that fails half way, leaves alone the policies that were
\* as wanted when it began: no call deletes or rewrites them.
KeepsMatched ==
  \A a \in Admins :
    alone[a] =>
      \A x \in MatchedIds(want[a], snap[a]) :
        x \in DOMAIN store /\ store[x].body = snap[a][x].body

\* SetPolicyInfo asks AVP for an update only where the policy has the wanted
\* subject and object when the call is made, whatever others did to the store
\* since the difference was computed.
InPlace ==
  \A a \in Admins : Updating(a) /\ Wanted(a).id \in DOMAIN store =>
    /\ SubjectsEqual(Wanted(a).body, store[Wanted(a).id].body)
    /\ ObjectsEqual(Wanted(a).body, store[Wanted(a).id].body)

\* Once nobody else and no failing call disturbs it a set succeeds, whatever
\* failed runs left in the store: if Cedar can express the policies and IDQL
\* the store's, templates included, the store's static policies all have a
\* description, no update is of a policy whose names change when written, and
\* the list has the store's template policies, which cannot be deleted.
UndisturbedSucceeds ==
  \A a \in Admins :
    LET w == want[a]
        s == snap[a]
    IN  /\ phase[a] = "done" /\ alone[a] /\ faults = before[a]
        /\ \A x \in DOMAIN store : Readable(Listed(x))
        /\ \A j \in DOMAIN w : ~w[j].template =>
             /\ Mappable(w[j].body)
             /\ Change(w, s, j) = "UPDATE" /\ ~Replaces(w, s, j) =>
                  SameScopes(Stored(w[j].body), s[w[j].id].body)
        /\ \A x \in DOMAIN store \ StaticIds :
             \E j \in DOMAIN w : w[j].avp /\ w[j].id = store[x].template
        => result[a] = 200
=============================================================================
