---------------------------- MODULE MCReconcile ----------------------------
(* Instances of Reconcile: the lists of up to MaxLen of fifteen policies     *)
(* and of up to MaxLen + 1 of four: ids and etags repeat in and across them. *)
EXTENDS Reconcile, SequencesExt

CONSTANTS MaxLen, Ids

\* Two names are the same word in another case.
MCfold == [n \in {"ann", "Ann", "bob", "read", "file"} |->
             IF n = "Ann" THEN "ann" ELSE n]
MCcondClass == [c \in {"c1", "C1", "c2"} |-> IF c = "C1" THEN "c1" ELSE c]
MCscopeClass == [s \in {"s1", "s2"} |-> s]

Body(subjects, actions, condition, scope) ==
  [subjects |-> subjects, actions |-> actions, object |-> "file",
   condition |-> condition, scope |-> scope]

\* Two spellings of one policy, a different subject, and variants of the
\* first that have a condition, a scope or no actions.
Bodies ==
  { Body(<<"ann", "bob">>, <<"read">>, NoCondition, NoScope),
    Body(<<"bob", "Ann">>, <<"read">>, NoCondition, NoScope),
    Body(<<"bob", "bob">>, <<"read">>, NoCondition, "s1"),
    Body(<<"ann", "bob">>, <<"read">>, "c1", NoScope),
    Body(<<"ann", "bob">>, NilActions, "C1", "s2") }

WithId(id, b) ==
  [id |-> id, subjects |-> b.subjects, actions |-> b.actions,
   object |-> b.object, condition |-> b.condition, scope |-> b.scope]

\* Policies that differ in having a condition only.
FewBodies ==
  { Body(<<"ann", "bob">>, <<"read">>, NoCondition, NoScope),
    Body(<<"ann", "bob">>, <<"read">>, "c1", NoScope) }
FewPolicies == {WithId(id, b) : id \in {"p1", NoId}, b \in FewBodies}

MCPolicies == {WithId(id, b) : id \in Ids \union {NoId}, b \in Bodies}
MCLists == BoundedSeq(MCPolicies, MaxLen) \union BoundedSeq(FewPolicies, MaxLen + 1)
ConditionLists == {<<p>> : p \in FewPolicies}
=============================================================================
