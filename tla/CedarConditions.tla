-------------------------- MODULE CedarConditions ---------------------------
(***************************************************************************)
(* The mapping of a condition to the when and unless clauses of a Cedar    *)
(* policy and back: models/conditionLangs/cedarConditions.  A clause body  *)
(* is written with the tokens of a rule, its operators being &&, || and !. *)
(***************************************************************************)
EXTENDS IdqlFilter

When(text) == [kind |-> "when", text |-> text]
Unless(text) == [kind |-> "unless", text |-> text]
CedarClause(isUnless, text) == IF isUnless THEN Unless(text) ELSE When(text)

\* The mapping panics: an index of -1, a failed type assertion.
Panic == [kind |-> "panic", text |-> <<>>]

\* An expression flattened: the operands of nested logic of one operator.
Many(op, es) == [k |-> "many", op |-> op, es |-> es]

RECURSIVE Operands(_, _)
Flattened(e) == IF IsLogical(e) THEN Many(e.k, Operands(e.l, e.k) \o Operands(e.r, e.k)) ELSE e
Operands(e, op) ==
  IF IsLogical(e) /\ e.k = op THEN Operands(e.l, op) \o Operands(e.r, op)
  ELSE <<Flattened(e)>>

\* mapFilterExpression: `!` always brackets, a group brackets only logic.
RECURSIVE CedarOf(_, _)
CedarOf(e, isChild) ==
  LET isDouble == IsLogical(e.l) /\ e.l.k = e.k
      text == CedarOf(e.l, ~isDouble) \o <<Word(e.k)>> \o CedarOf(e.r, ~isDouble)
  IN CASE IsLogical(e) -> IF isChild /\ e.k = "or" THEN InBrackets(text) ELSE text
       [] e.k = "not" -> <<Word("not")>> \o InBrackets(CedarOf(e.e, FALSE))
       [] e.k = "group" ->
            IF IsLogical(e.e) THEN InBrackets(CedarOf(e.e, FALSE)) ELSE CedarOf(e.e, FALSE)
       [] OTHER -> <<e>>

\* Texts with a logic word between them.
RECURSIVE Joined(_, _)
Joined(texts, word) ==
  IF Len(texts) = 1 THEN texts[1]
  ELSE texts[1] \o <<Word(word)>> \o Joined(Tail(texts), word)

\* Mutant: a negation within a clause does not turn when into unless.
ToConditionClause_KeepsKind(e, isUnless) ==
  CedarClause(isUnless, CedarOf(IF e.k = "not" THEN e.e ELSE Stripped(e), FALSE))

\* mapToConditionClause: one clause, a negation at its top turning its kind.
ToConditionClause(e, isUnless) ==
  IF e.k = "not" THEN CedarClause(~isUnless, CedarOf(e.e, FALSE))
  ELSE CedarClause(isUnless, CedarOf(Stripped(e), FALSE))

\* An operand of a flattened `or`; those of a nested `and` must not be
\* flattened themselves: they are asserted to be expressions.
Alternative(e) ==
  IF e.k = "many" THEN InBrackets(Joined([i \in DOMAIN e.es |-> CedarOf(e.es[i], TRUE)], "and"))
  ELSE CedarOf(e, TRUE)

\* mapFlattenedClause: an `and` becomes a clause for each operand, all of the
\* same kind, an `or` one clause.
RECURSIVE FlattenedClauses(_, _)
FlattenedClauses(e, isUnless) ==
  LET All[i \in 0..Len(e.es)] ==
        IF i = 0 THEN <<>> ELSE All[i - 1] \o FlattenedClauses(e.es[i], isUnless)
      nested == \E i \in DOMAIN e.es : e.es[i].k = "many" /\ \E j \in DOMAIN e.es[i].es :
                  e.es[i].es[j].k = "many"
  IN CASE e.k = "many" /\ e.op = "and" -> All[Len(e.es)]
       [] e.k = "many" /\ e.op = "or" /\ nested -> <<Panic>>
       [] e.k = "many" /\ e.op = "or" /\ ~nested ->
            <<CedarClause(isUnless, Joined([i \in DOMAIN e.es |-> Alternative(e.es[i])], "or"))>>
       [] OTHER -> <<ToConditionClause(e, isUnless)>>

\* MapConditionToCedar: no clauses for a rule that is not understood or has a
\* value path; a negation at the top turns every clause.
MapConditionToCedar(e, isDeny) ==
  IF e = Error \/ \E leaf \in Leaves(e) : leaf.k = "path" THEN <<>>
  ELSE IF \E leaf \in Leaves(e) : leaf.c \in Dotless THEN <<Panic>>
  ELSE IF e.k = "not" THEN FlattenedClauses(Flattened(e.e), ~isDeny)
  ELSE FlattenedClauses(Flattened(Stripped(e)), isDeny)

-----------------------------------------------------------------------------
(* From Cedar.  A body is parsed into binary nodes, || binding less than   *)
(* && and both to the left.                                                *)

\* Mutant: an `or` below an `and` gets no group.
OrNode_Flat(l, r, isNested) == Logical("or", l, r)

\* mapCedarOr: a group around an `or` below another operator.
OrNode(l, r, isNested) ==
  IF isNested THEN Group(Logical("or", l, r)) ELSE Logical("or", l, r)

\* mapCedarNode: Error where a test has no IDQL form.
RECURSIVE CedarNode(_, _)
CedarNode(text, isNested) ==
  LET ors == TopLevel(text, "or")
      ands == TopLevel(text, "and")
      Left(i, nested) == CedarNode(SubSeq(text, 1, i - 1), nested)
      Right(i, nested) == CedarNode(From(text, i + 1), nested)
      Of(l, r, e) == IF Error \in {l, r} THEN Error ELSE e
  IN CASE Len(text) = 1 -> IF text[1].c \in Unmappable THEN Error ELSE text[1]
       [] ors # {} ->
            LET l == Left(Last(ors), isNested) r == Right(Last(ors), isNested)
            IN Of(l, r, OrNode(l, r, isNested))
       [] ors = {} /\ ands # {} ->
            LET l == Left(Last(ands), TRUE) r == Right(Last(ands), TRUE)
            IN Of(l, r, Logical("and", l, r))
       [] ors = {} /\ ands = {} /\ text[1].k = "not" ->
            LET e == CedarNode(Tail(text), isNested) IN Of(e, e, Not(e))
       [] OTHER -> CedarNode(SubSeq(text, 2, Len(text) - 1), isNested)

\* mapConditionClause: the text of one of several clauses, empty on an error.
ClauseText(clause) ==
  LET e == CedarNode(clause.text, TRUE)
  IN IF e = Error THEN <<>> ELSE String(IF clause.kind = "unless" THEN Not(e) ELSE e)

\* MapCedarConditionToHexa: the rule, its action, whether an error is returned
\* and whether it panics.  Of several clauses only the error of the last is
\* returned; one in an unless is printed all the same, which panics.
MapCedarConditionToHexa(clauses) ==
  LET n == Len(clauses)
      single == CedarNode(clauses[1].text, FALSE)
      fails == {i \in 1..n : CedarNode(clauses[i].text, TRUE) = Error}
  IN IF n = 1
     THEN [rule |-> IF single = Error THEN <<>> ELSE String(single),
           deny |-> clauses[1].kind = "unless", fails |-> single = Error, panics |-> FALSE]
     ELSE [rule |-> Joined([i \in 1..n |-> ClauseText(clauses[i])], "and"),
           deny |-> FALSE, fails |-> n \in fails,
           panics |-> \E i \in fails : clauses[i].kind = "unless"]
=============================================================================
