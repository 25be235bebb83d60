--------------------------- MODULE CelConditions ----------------------------
(***************************************************************************)
(* The mapping of a rule to Google's Common Expression Language and back:  *)
(* models/conditionLangs/gcpcel.  A CEL text is written with the tokens of *)
(* a rule: `and`, `or` and `not` stand for &&, || and !, which need no     *)
(* bracket after them.  A comparison token stands for its CEL form, an     *)
(* operator, a function or the macro has(), whichever the operator maps to;*)
(* its attribute has at most one parent.  The action of a condition has no *)
(* CEL form and is dropped.                                                *)
(***************************************************************************)
EXTENDS IdqlFilter

\* checkCompatibility: value paths have no CEL form.
RECURSIVE CelCompatible(_)
CelCompatible(e) ==
  CASE IsLogical(e) -> CelCompatible(e.l) /\ CelCompatible(e.r)
    [] e.k \in {"not", "group"} -> CelCompatible(e.e)
    [] OTHER -> e.k # "path"

\* Mutant: an `or` within an `and` gets no brackets.
CelLogical_Flat(left, e, right, isChild) == left \o <<Word(e.k)>> \o right

\* The two mapped operands, in brackets when they make an `or` that is a child.
CelLogical(left, e, right, isChild) ==
  LET text == left \o <<Word(e.k)>> \o right
  IN IF isChild /\ e.k = "or" THEN InBrackets(text) ELSE text

RECURSIVE CelOf(_, _)
\* An operand in the brackets that `!` and a group write around logic only.
CelWithin(e) == IF IsLogical(e) THEN InBrackets(CelOf(e, FALSE)) ELSE CelOf(e, FALSE)
CelOf(e, isChild) ==
  LET isDouble == IsLogical(e.l) /\ e.l.k = e.k
  IN CASE IsLogical(e) ->
            CelLogical(CelOf(e.l, ~isDouble), e, CelOf(e.r, ~isDouble), isChild)
       [] e.k = "not" -> <<Word("not")>> \o CelWithin(e.e)
       [] e.k = "group" -> CelWithin(e.e)
       [] OTHER -> <<e>>

MapFilter(e) == IF e # Error /\ CelCompatible(e) THEN CelOf(e, FALSE) ELSE <<Error>>

-----------------------------------------------------------------------------
(* What cel-go parses: || binds least, then &&, then !.  The mapper reads  *)
(* `!a == b` as not (a eq b): it takes the negation off the left operand.  *)

\* mapCelExpr of the parsed text: pairs of operands, with no groups kept; Error
\* where a test has no IDQL form.  Two negations in a row cancel in cel-go.
RECURSIVE FromCel(_)
FromCel(text) ==
  LET ors == TopLevel(text, "or")
      ands == TopLevel(text, "and")
      Pair(op, l, r) == IF Error \in {l, r} THEN Error ELSE Logical(op, l, r)
      Split(op, i) == Pair(op, FromCel(SubSeq(text, 1, i - 1)), FromCel(From(text, i + 1)))
  IN CASE Len(text) = 1 -> IF text[1].c \in Unmappable THEN Error ELSE text[1]
       [] ors # {} -> Split("or", First(ors))
       [] ors = {} /\ ands # {} -> Split("and", First(ands))
       [] ors = {} /\ ands = {} /\ text[1].k = "not" ->
            IF text[2].k = "not" THEN FromCel(From(text, 3)) ELSE Not(FromCel(Tail(text)))
       [] OTHER -> FromCel(SubSeq(text, 2, Len(text) - 1))

\* An expression without an operand: that of a negation whose error mapCelNot
\* drops, the value of a comparison with a list.  Printing one panics.
Unprintable(e) == \E leaf \in Leaves(e) : leaf = Error \/ leaf.c \in Lists

\* MapProviderToCondition: an error, a panic, or a condition, which is always
\* to allow.  has() of a name without a parent is refused by cel-go.
MapProviderToCondition(text) ==
  LET e == FromCel(text)
      refused == \E i \in 1..Len(text) : IsLeaf(text[i]) /\ text[i].c \in Dotless
  IN CASE refused \/ e = Error -> [outcome |-> "error"]
       [] ~refused /\ e # Error /\ Unprintable(e) -> [outcome |-> "panic"]
       [] OTHER -> [outcome |-> "ok", rule |-> SerializeExpression(e), deny |-> FALSE]
=============================================================================
