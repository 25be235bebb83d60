----------------------------- MODULE Conditions -----------------------------
(***************************************************************************)
(* Conditions as they are written: texts that grow token by token, read as *)
(* an IDQL rule and as the when and unless clauses of a Cedar policy.      *)
(* What a text means is defined here once more, by the grammar of RFC 7644 *)
(* (which CEL and Cedar share): brackets bind most, then not, then and,    *)
(* then or.                                                                *)
(***************************************************************************)
EXTENDS CelConditions, CedarConditions

CONSTANTS
  Plain,        \* a sequence of comparisons, used in this order
  Special,      \* other leaves: at most one is used, which counts as two
  MaxLeaves, MaxGroups, MaxClauses

VARIABLE clauses

\* The text being written.
text == clauses[Len(clauses)].text

Depth(t) == IF t = <<>> THEN 0 ELSE LET d == Depths(t, 0) IN d[Len(t)]
ExpectsOperand(t) == IF t = <<>> THEN TRUE ELSE t[Len(t)].k \in {"(", "and", "or"}
Complete(t) == ~ExpectsOperand(t) /\ Depth(t) = 0

LeafPlaces(t) == {i \in 1..Len(t) : IsLeaf(t[i])}

\* The number of places in all clauses that a set of each text's places has.
Count(Places(_)) == LET Sum[i \in 0..Len(clauses)] ==
                          IF i = 0 THEN 0 ELSE Sum[i - 1] + Cardinality(Places(clauses[i].text))
                    IN Sum[Len(clauses)]
LeafCount == Count(LeafPlaces)
HasSpecial == Count(LAMBDA t : {i \in LeafPlaces(t) : t[i] \in Special}) > 0
Room == LeafCount + (IF HasSpecial THEN 1 ELSE 0) < MaxLeaves
GroupCount == Count(LAMBDA t : {i \in 1..Len(t) : t[i].k = "("})

Init == clauses \in {<<When(<<>>)>>, <<Unless(<<>>)>>}

Write(tokens) == clauses' = [clauses EXCEPT ![Len(clauses)].text = @ \o tokens]

WritePlain ==
  /\ ExpectsOperand(text) /\ Room
  /\ Write(<<Clause(Plain[LeafCount + 1])>>)

WriteSpecial(leaf) ==
  /\ ExpectsOperand(text) /\ LeafCount + 1 < MaxLeaves /\ ~HasSpecial
  /\ leaf.c \in Wide => Depth(text) = 0
  /\ Write(<<leaf>>)

Open(tokens) ==
  /\ ExpectsOperand(text) /\ GroupCount < MaxGroups /\ Room
  /\ Write(tokens)

WriteLogic(op) ==
  /\ ~ExpectsOperand(text) /\ Room
  /\ text[Len(text)].k = "clause" => text[Len(text)].c \notin Wide
  /\ Write(<<Word(op)>>)

Close == Depth(text) > 0 /\ ~ExpectsOperand(text) /\ Write(<<Word(")")>>)

NextClause(kind) ==
  /\ Complete(text) /\ Len(clauses) < MaxClauses /\ Room
  /\ clauses' = Append(clauses, [kind |-> kind, text |-> <<>>])

Next ==
  \/ WritePlain
  \/ \E leaf \in Special : WriteSpecial(leaf)
  \/ Open(<<Word("(")>>)
  \/ Open(<<Word("not"), Word("(")>>)
  \/ \E op \in {"and", "or"} : WriteLogic(op)
  \/ Close
  \/ \E kind \in {"when", "unless"} : NextClause(kind)

Spec == Init /\ [][Next]_clauses

-----------------------------------------------------------------------------
(* What a text and an expression mean: the cases, out of U, in which it    *)
(* holds.  A case is the set of the leaves that hold.                      *)

RECURSIVE Holds(_, _)
Holds(t, U) ==
  LET ors == TopLevel(t, "or")
      ands == TopLevel(t, "and")
      Before(i) == Holds(SubSeq(t, 1, i - 1), U)
      After(i) == Holds(From(t, i + 1), U)
  IN CASE Len(t) = 1 -> {V \in U : t[1] \in V}
       [] ors # {} -> Before(First(ors)) \cup After(First(ors))
       [] ors = {} /\ ands # {} -> Before(First(ands)) \cap After(First(ands))
       [] ors = {} /\ ands = {} /\ t[1].k = "not" -> U \ Holds(Tail(t), U)
       [] OTHER -> Holds(SubSeq(t, 2, Len(t) - 1), U)

RECURSIVE Sat(_, _)
Sat(e, U) ==
  CASE e.k = "and" -> Sat(e.l, U) \cap Sat(e.r, U)
    [] e.k = "or" -> Sat(e.l, U) \cup Sat(e.r, U)
    [] e.k = "not" -> U \ Sat(e.e, U)
    [] e.k = "group" -> Sat(e.e, U)
    [] OTHER -> {V \in U : e \in V}

LeavesOf(t) == {t[i] : i \in LeafPlaces(t)}

\* The cases that a condition allows which holds in those of S.
Allowed(S, isDeny, U) == IF isDeny THEN U \ S ELSE S

\* The cases in which all clauses of a policy permit.
Permits(cs, U) ==
  LET each == [i \in 1..Len(cs) |-> Allowed(Holds(cs[i].text, U), cs[i].kind = "unless", U)]
  IN {V \in U : \A i \in 1..Len(cs) : V \in each[i]}

\* Two places of one text between the same brackets.
Together(t, i, j) ==
  LET d == Depths(t, 0)
      Level(k) == IF t[k].k = "(" THEN d[k] - 1 ELSE d[k]
      level == Level(i)
  IN level = Level(j) /\ \A k \in i..j : d[k] >= level

\* A list is the last word of its group.
ListsEnd(t) ==
  \A i \in LeafPlaces(t) : t[i].c \in Lists => i = Len(t) \/ t[i + 1].k = ")"

\* A word or leaf at place i on account of which the one at j is read otherwise.
ChangesReading(t, i, j) ==
  \/ t[i].k = "or" /\ t[j].k = "and"
  \/ /\ t[i].k = "not" \/ (IsLeaf(t[i]) /\ t[i].c \in Negating)
     /\ t[j].k = "(" /\ t[j - 1].k # "not"
  \/ t[i].k = "path" /\ t[i].c = Present /\ t[j].k = "clause"

\* What the parser reads otherwise than RFC 7644: an `and` after an `or`, a
\* group after a `not` that was for another or was part of a name, a clause
\* after a value path tested for presence, a bare value path, a wide value, a
\* name that begins with "not", a value path compared with a list.  What it
\* refuses: a list that is followed by a word.
Straight(t) ==
  /\ \A i \in 1..Len(t) : \A j \in (i + 1)..Len(t) : ~(ChangesReading(t, i, j) /\ Together(t, i, j))
  /\ \A i \in LeafPlaces(t) :
       /\ t[i].c # Bare /\ t[i].c \notin Wide \cup DOMAIN Beheaded
       /\ t[i].k = "path" => t[i].c \notin Lists
  /\ ListsEnd(t)

\* The rule that the text under construction is, and what the parser makes of it.
Rule == clauses[1].text
IsRule == Len(clauses) = 1 /\ Complete(Rule)
Ast == Parse(Rule)

-----------------------------------------------------------------------------
(* Properties. *)

\* ParseFilter accepts a finished rule and reads it by RFC 7644, whatever its
\* nesting, when none of the forms that Straight names occurs in it; it rejects
\* a rule that breaks off after a bracket or a word, where no value path is left
\* without an operator.
ReadsAsWritten ==
  Len(clauses) = 1 =>
    LET e == Ast
    IN IF Complete(Rule)
       THEN Straight(Rule) =>
              LET U == SUBSET LeavesOf(Rule) IN e # Error /\ Sat(e, U) = Holds(Rule, U)
       ELSE (\A i \in LeafPlaces(Rule) : Rule[i].c # Bare) => e = Error

\* What the parser made of any text it prints and reads back as the same
\* expression, although it reads from left to right and never resets isNot;
\* lists that a word follows are left out.
PrintsBack ==
  LET e == Ast IN IsRule /\ e # Error /\ ListsEnd(Rule) => Parse(String(e)) = e

NoPaths(e) == \A leaf \in Leaves(e) : leaf.k # "path"
OnlyClauses(t) == \A i \in LeafPlaces(t) : t[i].k = "clause"

\* A CEL expression is read as a condition that allows in the same cases.  It is
\* refused only for a presence test without a parent or a test with no IDQL
\* form, and the mapper panics only on a list or on such a test when negated.
IsReadFromCel(cel) ==
  LET back == MapProviderToCondition(cel)
      U == SUBSET LeavesOf(cel)
      Has(S) == \E leaf \in LeavesOf(cel) : leaf.c \in S
  IN CASE back.outcome = "ok" -> Allowed(Holds(back.rule, U), back.deny, U) = Holds(cel, U)
       [] back.outcome = "error" -> Has(Dotless \cup Unmappable)
       [] back.outcome = "panic" ->
            Has(Lists) \/ (Has(Unmappable) /\ \E i \in DOMAIN cel : cel[i].k = "not")

\* A rule mapped to CEL means the same, and so does what is read of any CEL
\* expression, one that a rule was mapped to or one of GCP's own.
CelKeepsMeaning ==
  LET e == Ast
      cel == MapFilter(e)
      U == SUBSET Leaves(e)
  IN IsRule =>
       /\ cel # <<Error>> => Holds(cel, U) = Sat(e, U) /\ IsReadFromCel(cel)
       /\ OnlyClauses(Rule) => IsReadFromCel(Rule)

\* A condition whose `and` would be split into several unless clauses, each of
\* which forbids on its own.
SplitsDenial(e, isDeny) ==
  LET body == IF e.k = "not" THEN e.e ELSE Stripped(e)
  IN body.k = "and" /\ (isDeny # (e.k = "not"))

\* A rule, allowed or denied, mapped to Cedar clauses and back permits in the
\* same cases, unless it is the denial of an `and`; the mapping does not panic
\* on straight rules whose attributes have a parent.
CedarKeepsMeaning ==
  LET e == Ast
      isDeny == clauses[1].kind = "unless"
      cedar == MapConditionToCedar(e, isDeny)
      back == MapCedarConditionToHexa(cedar)
      U == SUBSET Leaves(e)
  IN IsRule /\ e # Error =>
       IF Panic \in {cedar[i] : i \in 1..Len(cedar)}
       THEN ~Straight(Rule) \/ \E leaf \in Leaves(e) : leaf.c \in Dotless
       ELSE cedar # <<>> /\ ~SplitsDenial(e, isDeny)
                         /\ (\A leaf \in Leaves(e) : leaf.c \notin Unmappable) =>
              LET allowed == Allowed(Sat(e, U), isDeny, U)
              IN Permits(cedar, U) = allowed /\ Allowed(Holds(back.rule, U), back.deny, U) = allowed

\* The when and unless clauses of a Cedar policy become one rule that holds in
\* the cases in which all of them permit.  A test with no IDQL form makes the
\* mapping panic in an unless clause of several, is an error in another clause
\* that is the last, and else is dropped with its clause.
ClausesKeepMeaning ==
  (\A i \in 1..Len(clauses) : Complete(clauses[i].text) /\ OnlyClauses(clauses[i].text)) =>
    LET back == MapCedarConditionToHexa(clauses)
        U == SUBSET UNION {LeavesOf(clauses[i].text) : i \in 1..Len(clauses)}
        unmappable == {i \in 1..Len(clauses) :
                         \E leaf \in LeavesOf(clauses[i].text) : leaf.c \in Unmappable}
    IN /\ back.panics = (Len(clauses) > 1 /\ \E i \in unmappable : clauses[i].kind = "unless")
       /\ ~back.panics => back.fails = (Len(clauses) \in unmappable)
       /\ unmappable = {} =>
            Allowed(Holds(back.rule, U), back.deny, U) = Permits(clauses, U)

=============================================================================
