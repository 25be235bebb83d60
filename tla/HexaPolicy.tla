----------------------------- MODULE HexaPolicy -----------------------------
(***************************************************************************)
(* The comparisons of pkg/hexapolicy/hexa_policy.go: what the etag of an   *)
(* IDQL policy covers, when two policies are Equals, and which differences *)
(* Compare reports.                                                        *)
(*                                                                         *)
(* A policy is a record [id, subjects, actions, object, condition, scope]. *)
(* subjects is a sequence of names, actions a sequence of names or         *)
(* NilActions (a policy whose JSON has no "actions"), object a name.       *)
(* Names, conditions and scopes are abstract: the code tells names apart   *)
(* by strings.EqualFold, conditions by ConditionInfo.Equals and scopes by  *)
(* ScopeInfo.Equals, so each kind comes with the function to the class     *)
(* those operators compare.                                                *)
(***************************************************************************)
EXTENDS Naturals, Sequences

CONSTANTS
  fold,         \* fold[n]: name n with its letters' case folded
  condClass,    \* condClass[c]: the class ConditionInfo.Equals puts c in
  scopeClass,   \* scopeClass[s]: the class ScopeInfo.Equals puts s in
  NoId,         \* Meta.PolicyId is nil
  NilActions,   \* Actions is nil, which is not the empty list
  NoCondition,  \* Condition is nil
  NoScope       \* Scope is nil

EqualFold(a, b) == fold[a] = fold[b]

\* The list comparison of SubjectInfo.Equals and ActionsEqual: as long, and
\* each member of s occurs in t. It is not symmetric: <<a, a>> against <<a, b>>.
SameMembers(s, t) ==
  /\ Len(s) = Len(t)
  /\ \A i \in DOMAIN s : \E j \in DOMAIN t : EqualFold(s[i], t[j])

SubjectsEqual(p, q) == SameMembers(p.subjects, q.subjects)

\* Only the argument is tested for nil; a nil receiver has length 0.
ActionsEqual(p, q) ==
  /\ q.actions # NilActions
  /\ IF p.actions = NilActions THEN q.actions = << >>
                               ELSE SameMembers(p.actions, q.actions)

ObjectsEqual(p, q) == EqualFold(p.object, q.object)

ConditionInfoEquals(c, d) == condClass[c] = condClass[d]

ConditionsEqual(p, q) ==
  IF p.condition = NoCondition \/ q.condition = NoCondition
  THEN p.condition = q.condition
  ELSE ConditionInfoEquals(p.condition, q.condition)

ScopeInfoEquals(s, t) == scopeClass[s] = scopeClass[t]

ScopesEqual(p, q) ==
  IF p.scope = NoScope \/ q.scope = NoScope
  THEN p.scope = q.scope
  ELSE ScopeInfoEquals(p.scope, q.scope)

\* CalculateEtag hashes the marshalled members. The scope's bytes are the
\* condition's marshalled once more, so only the scope's presence is hashed.
Etag(p) ==
  [subjects |-> p.subjects, actions |-> p.actions, object |-> p.object,
   condition |-> p.condition, scoped |-> p.scope # NoScope]

\* Mutant: Equals without its first test, that the etags are the same.
PolicyEquals_NoEtag(p, q) ==
  /\ SubjectsEqual(p, q)
  /\ ActionsEqual(p, q)
  /\ ObjectsEqual(p, q)
  /\ ConditionsEqual(p, q)
  /\ ScopesEqual(p, q)

PolicyEquals(p, q) ==
  \/ Etag(p) = Etag(q)
  \/ /\ SubjectsEqual(p, q)
     /\ ActionsEqual(p, q)
     /\ ObjectsEqual(p, q)
     /\ ConditionsEqual(p, q)
     /\ ScopesEqual(p, q)

\* Compare's condition test. Its second disjunct is
\* p.Condition == nil && p.Condition != nil, which never holds: a nil
\* p.Condition never counts as a difference.
ConditionDif(p, q) ==
  /\ p.condition # NoCondition
  /\ \/ q.condition = NoCondition
     \/ ~ConditionInfoEquals(p.condition, q.condition)

\* The differences Compare lists; {} stands for its [CompareEqual].
Difs(p, q) ==
  IF PolicyEquals(p, q) THEN {}
  ELSE {d \in {"SUBJECT", "ACTION", "OBJECT", "CONDITION"} :
          \/ d = "SUBJECT"   /\ ~SubjectsEqual(p, q)
          \/ d = "ACTION"    /\ ~ActionsEqual(p, q)
          \/ d = "OBJECT"    /\ ~ObjectsEqual(p, q)
          \/ d = "CONDITION" /\ ConditionDif(p, q)}

CompareEqual(p, q) == Difs(p, q) = {}
=============================================================================
