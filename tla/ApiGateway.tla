---------------------------- MODULE ApiGateway ----------------------------
(***************************************************************************)
(* SetPolicyInfo of the AWS API gateway provider: scans the DynamoDB table *)
(* of resource policies, computes from it and the wanted policies which    *)
(* items to update and updates them one call at a time, returning at the   *)
(* first call that fails. The scan is one call, which lists a large table  *)
(* in part only. Several administrators may run it on one table, and       *)
(* repeat a run that failed with the same policies.                        *)
(***************************************************************************)
EXTENDS ResourceRoles

CONSTANTS
  Admins,
  Tables,     \* the sets of items the table may start with
  Wants,      \* the sets of policies that may be set
  PageSizes,  \* how many items a scan may hold that leaves some out
  MaxFaults,  \* bound: calls that fail
  MaxRuns     \* bound: runs of one administrator

VARIABLES
  table,    \* DynamoDB: the items, one for a resource and action
  want,     \* want[a]: the argument policyInfos
  phase,    \* phase[a]: "idle" | "scan" | "update" | "done"
  updates,  \* updates[a]: what is left of rarUpdateList
  result,   \* result[a]: the HTTP status returned, 0 while running
  runs, faults,
  alone,    \* history, alone[a]: nobody else ran since a's run started
  seen      \* history, seen[a]: the table a scanned last, {} if in part only

history == <<alone, seen>>
vars == <<table, want, phase, updates, result, runs, faults, history>>

Init ==
  /\ table \in Tables
  /\ want \in [Admins -> Wants]
  /\ phase = [a \in Admins |-> "idle"]
  /\ updates = [a \in Admins |-> << >>]
  /\ result = [a \in Admins |-> 0]
  /\ runs = [a \in Admins |-> 0]
  /\ faults = 0
  /\ alone = [a \in Admins |-> FALSE]
  /\ seen = [a \in Admins |-> {}]

Start(a) ==
  /\ phase[a] = "idle" \/ (phase[a] = "done" /\ result[a] # 201)
  /\ runs[a] < MaxRuns
  /\ runs' = [runs EXCEPT ![a] = @ + 1]
  /\ phase' = [phase EXCEPT ![a] = "scan"]
  /\ updates' = [updates EXCEPT ![a] = << >>]
  /\ result' = [result EXCEPT ![a] = 0]
  /\ alone' = [b \in Admins |->
                 b = a /\ \A c \in Admins \ {a} : phase[c] \in {"idle", "done"}]
  /\ UNCHANGED <<table, want, faults, seen>>

Finish(a, status) ==
  /\ phase' = [phase EXCEPT ![a] = "done"]
  /\ result' = [result EXCEPT ![a] = status]
  /\ UNCHANGED <<want, updates, runs, history>>

\* What one Scan may list: LastEvaluatedKey, where to go on, is not read.
Pages == {page \in SUBSET table : page = table \/ Cardinality(page) \in PageSizes}

\* GetResourceRoles, and what it and the policies make to update.
Scan(a) ==
  /\ phase[a] = "scan"
  /\ \E page \in Pages \ {{}} :
       /\ \E existing \in RarMaps({NewRar(item) : item \in page}) :
            updates' = [updates EXCEPT ![a] = Updates(existing, want[a])]
       /\ seen' = [seen EXCEPT ![a] = IF page = table THEN table ELSE {}]
  /\ phase' = [phase EXCEPT ![a] = "update"]
  /\ UNCHANGED <<table, want, result, runs, faults, alone>>

ScanEmpty(a) ==
  /\ phase[a] = "scan" /\ {} \in Pages
  /\ Finish(a, 502)
  /\ UNCHANGED <<table, faults>>

\* Mutant: the item is looked up by its resource only.
Put_ByResource(rar) ==
  table' = {item \in table : item.resource # rar.resource} \union {rar}

\* UpdateItem, which makes the item when it is not there.
Put(rar) ==
  table' = {item \in table : item.resource # rar.resource \/ item.action # rar.action}
             \union {rar}

Update(a) ==
  /\ phase[a] = "update" /\ updates[a] # << >> /\ Head(updates[a]) # NoRar
  /\ Put(Head(updates[a]))
  /\ updates' = [updates EXCEPT ![a] = Tail(@)]
  /\ UNCHANGED <<want, phase, result, runs, faults, history>>

\* updateItemInput refuses a RAR without resource or action.
UpdateRefused(a) ==
  /\ phase[a] = "update" /\ updates[a] # << >> /\ Head(updates[a]) = NoRar
  /\ Finish(a, 502)
  /\ UNCHANGED <<table, faults>>

Return(a) ==
  /\ phase[a] = "update" /\ updates[a] = << >>
  /\ Finish(a, 201)
  /\ UNCHANGED <<table, faults>>

\* The scan fails, or an update does, with or without effect.
CallFails(a) ==
  /\ faults < MaxFaults /\ faults' = faults + 1
  /\ \/ phase[a] = "scan" /\ UNCHANGED table
     \/ /\ phase[a] = "update" /\ updates[a] # << >> /\ Head(updates[a]) # NoRar
        /\ UNCHANGED table \/ Put(Head(updates[a]))
  /\ Finish(a, 502)

Run(a) ==
  \/ Start(a) \/ Scan(a) \/ ScanEmpty(a) \/ Update(a) \/ UpdateRefused(a)
  \/ Return(a)

Next == \E a \in Admins : Run(a) \/ CallFails(a)

Spec == Init /\ [][Next]_vars
----------------------------------------------------------------------------
Keys(policies) ==
  {KeyForPolicy(k[1], k[2]) : k \in DOMAIN FlattenPolicy(policies)} \ {NoName}

\* The roles that policies name for a key, through each way to write it.
RolesFor(policies, key) ==
  LET flat == FlattenPolicy(policies)
  IN  {flat[k] : k \in {l \in DOMAIN flat : KeyForPolicy(l[1], l[2]) = key}}

ItemsOf(items, key) == {item \in items : Name(NewRar(item)) = key}

\* A key's item has its resource and action in the form updates use, and no
\* other item or policy of the list writes the key in another way.
Plain(items, policies, key) ==
  /\ Cardinality(RolesFor(policies, key)) = 1
  /\ \E item \in items :
       /\ ItemsOf(items, key) = {item}
       /\ item.resource = Canonical(item.resource) /\ item.action = key[1]
       /\ \A k \in DOMAIN FlattenPolicy(policies) :
            KeyForPolicy(k[1], k[2]) = key => Canonical(k[1]) = item.resource

\* A run that had the table to itself, scanned all of it and returned 201 has
\* given the items the policies' roles, whatever runs that failed half way left
\* before.
CreatedMeansApplied ==
  \A a \in Admins : alone[a] /\ result[a] = 201 =>
    \A key \in Keys(want[a]) :
      Plain(seen[a], want[a], key) =>
        {item.roles : item \in ItemsOf(table, key)} = RolesFor(want[a], key)

\* Once all administrators, each of whom scanned the whole table, succeeded,
\* items that they all want something of have what one of them wants.
SettledOnSuccess ==
  (\A a \in Admins : result[a] = 201) =>
    \A key \in UNION {Keys(want[a]) : a \in Admins} :
      (\A a \in Admins : Plain(seen[a], want[a], key)) =>
        \E a \in Admins :
          {item.roles : item \in ItemsOf(table, key)} = RolesFor(want[a], key)

\* Setting the policies that GetPolicyInfo returned changes nothing: all it
\* would update are items in the form updates use, with the roles they have.
\* This includes resources whose names differ only in "/" and "-", and a table
\* of which the two scans listed different parts.
ReadBackIsClean ==
  (\A item \in table :
     NewRar(item) # NoRar =>
       NewRar(item) = item /\ item.action = itemMethod[item.action]) =>
    LET rars(page) == {NewRar(item) : item \in page}
    IN  \A read, page \in Pages : \A existing \in RarMaps(rars(page)) :
          \A u \in ToSet(Updates(existing, BuildPolicies(rars(read)))) : u \in table

\* An update only makes a new item beside one for the same method whose name
\* differs in the case of the action, a missing "/" or a "-" for a "/".
Twins ==
  \A new \in table' \ table :
    \E old \in table : Name(NewRar(old)) = Name(NewRar(new))
=============================================================================
