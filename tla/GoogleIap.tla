------------------------------ MODULE GoogleIap ------------------------------
(***************************************************************************)
(* GoogleProvider.SetPolicyInfo of providers/googlecloud/iapProvider and   *)
(* the bindings of models/formats/gcpBind: each policy becomes a binding   *)
(* of its first action's role, and setIamPolicy replaces all bindings of   *)
(* the application by that one.  The status of its answer is not looked    *)
(* at: a refusal counts as success.  What becomes of a condition on its    *)
(* way to a CEL expression and back is that of module CelConditions: here  *)
(* two functions, which need not be each other's inverse.  Two             *)
(* administrators may set one application.                                 *)
(***************************************************************************)
EXTENDS Naturals, Sequences

CONSTANTS
  Admins,
  Bindings,    \* the sets of bindings the application may start with
  Policies,    \* the lists of policies, each [actions, subjects, condition], to set
  NoCondition,
  celOf,       \* celOf[c]: the CEL expression of a policy's condition
  idqlOf,      \* idqlOf[x]: the condition, with action allow, read from expression x
  Unmappable,  \* what celOf and idqlOf have for what cannot be mapped
  Object,      \* the application
  MaxFaults,   \* bound: calls that fail
  MaxRuns      \* bound: MaxRuns[a] runs of administrator a

VARIABLES
  bindings,  \* the application's bindings, at Google
  want,      \* want[a]: the argument policyInfos
  phase,     \* phase[a]: "idle" | "set" | "done"
  pos,       \* pos[a]: the policy at hand
  result,    \* result[a]: the status returned, 0 while running
  runs, faults,
  sound,     \* history, sound[a]: no call was refused in a's run
  alone      \* history, alone[a]: nobody else ran since a's run started

vars == <<bindings, want, phase, pos, result, runs, faults, sound, alone>>

Init ==
  /\ bindings \in Bindings
  /\ want \in [Admins -> Policies]
  /\ phase = [a \in Admins |-> "idle"]
  /\ pos = [a \in Admins |-> 1]
  /\ result = [a \in Admins |-> 0]
  /\ runs = [a \in Admins |-> 0]
  /\ faults = 0
  /\ sound = [a \in Admins |-> TRUE]
  /\ alone = [a \in Admins |-> FALSE]

Action(isGcp, role) == [gcp |-> isGcp, role |-> role]
NoRole == ""

\* The role of the first action, with or without its prefix gcp:.
ConvertActionToRole(actions) == IF actions = <<>> THEN NoRole ELSE Head(actions).role
ConvertRoleToAction(role) == IF role = NoRole THEN <<>> ELSE <<Action(TRUE, role)>>

\* A policy without a condition becomes a binding without one.
ConvertPolicyCondition(c) == IF c = NoCondition THEN NoCondition ELSE celOf[c]
ConvertCelToCondition(x) == IF x = NoCondition THEN NoCondition ELSE idqlOf[x]

MapPolicyToBinding(p) ==
  [role |-> ConvertActionToRole(p.actions), members |-> p.subjects,
   condition |-> ConvertPolicyCondition(p.condition)]

MapBindingToPolicy(object, b) ==
  [actions |-> ConvertRoleToAction(b.role), subjects |-> b.members,
   condition |-> ConvertCelToCondition(b.condition), object |-> object]

\* What GetPolicyInfo returns: nothing, with an error, when one of the
\* bindings has an expression that cannot be read.
GetPolicyInfo ==
  IF \E b \in bindings : ConvertCelToCondition(b.condition) = Unmappable THEN {}
  ELSE {MapBindingToPolicy(Object, b) : b \in bindings}

Fault == faults < MaxFaults /\ faults' = faults + 1
Goto(a, next) == phase' = [phase EXCEPT ![a] = next]
Policy(a) == want[a][pos[a]]
Stopped(a) == phase[a] \in {"idle", "done"}

Start(a) ==
  /\ Stopped(a) /\ result[a] # 201 /\ runs[a] < MaxRuns[a]
  /\ runs' = [runs EXCEPT ![a] = @ + 1]
  /\ pos' = [pos EXCEPT ![a] = 1]
  /\ result' = [result EXCEPT ![a] = 0]
  /\ sound' = [sound EXCEPT ![a] = TRUE]
  /\ alone' = [b \in Admins |-> b = a /\ \A c \in Admins \ {a} : Stopped(c)]
  /\ Goto(a, "set")
  /\ UNCHANGED <<bindings, want, faults>>

Return(a, status) ==
  /\ Goto(a, "done")
  /\ result' = [result EXCEPT ![a] = status]
  /\ UNCHANGED <<want, pos, runs, alone>>

HasPolicy(a) == phase[a] = "set" /\ pos[a] <= Len(want[a])
Maps(p) == ConvertPolicyCondition(p.condition) # Unmappable

\* SetBackendPolicy sends the one binding as the whole policy.
Replaced(p) == {MapPolicyToBinding(p)}

SetBackendPolicy(a) ==
  /\ HasPolicy(a) /\ Maps(Policy(a))
  /\ \/ bindings' = Replaced(Policy(a)) /\ UNCHANGED <<faults, sound>>
     \/ Fault /\ sound' = [sound EXCEPT ![a] = FALSE] /\ UNCHANGED bindings
  /\ pos' = [pos EXCEPT ![a] = @ + 1]
  /\ UNCHANGED <<want, phase, result, runs, alone>>

\* The policies before one that cannot be mapped stay set.
MappingFails(a) ==
  /\ HasPolicy(a) /\ ~Maps(Policy(a))
  /\ Return(a, 500)
  /\ UNCHANGED <<bindings, faults, sound>>

\* No answer, with or without effect.
CallFails(a) ==
  /\ HasPolicy(a) /\ Maps(Policy(a)) /\ Fault
  /\ bindings' = Replaced(Policy(a)) \/ UNCHANGED bindings
  /\ Return(a, 500)
  /\ UNCHANGED sound

ReturnCreated(a) ==
  /\ phase[a] = "set" /\ pos[a] > Len(want[a])
  /\ Return(a, 201)
  /\ UNCHANGED <<bindings, faults, sound>>

Next ==
  \E a \in Admins :
    Start(a) \/ SetBackendPolicy(a) \/ MappingFails(a) \/ CallFails(a) \/ ReturnCreated(a)

Spec == Init /\ [][Next]_vars
-----------------------------------------------------------------------------
\* A run that had the application to itself, none of whose calls was refused
\* and that returned 201 leaves the last of its policies, and that one only:
\* what is read back has its subjects, its first role and what is left of its
\* condition in the expression, and no policy that was there or was set before
\* it.  Only an expression that cannot be read back hides it.
CreatedMeansLast ==
  \A a \in Admins : sound[a] /\ alone[a] /\ result[a] = 201 /\ want[a] # <<>> =>
    LET last == want[a][Len(want[a])]
        left == ConvertCelToCondition(ConvertPolicyCondition(last.condition))
    IN /\ left # Unmappable => GetPolicyInfo # {}
       /\ \A p \in GetPolicyInfo :
            /\ p.subjects = last.subjects /\ p.condition = left
            /\ ConvertActionToRole(p.actions) = ConvertActionToRole(last.actions)
=============================================================================
