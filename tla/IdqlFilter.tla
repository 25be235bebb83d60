----------------------------- MODULE IdqlFilter -----------------------------
(***************************************************************************)
(* The rule of a policy's condition: pkg/hexapolicy/conditions and its     *)
(* parser.  A rule is a sequence of tokens: the words and, or, not,        *)
(* brackets, and leaves.  A leaf stands for all the words of one           *)
(* comparison, or of one value path such as `emails[type eq "work"] pr`.   *)
(* What the lexer does letter by letter is kept where it changes what is   *)
(* read: "not" inside an attribute's name or at its start, a value that is *)
(* a list or has characters longer than a byte, a value path that has no   *)
(* operator.  No other value has a bracket or an escaped quotation mark,   *)
(* no name of a value path has "not" in it, and rules are balanced.        *)
(***************************************************************************)
EXTENDS Naturals, Sequences, FiniteSets

CONSTANTS
  Presences,   \* clauses `attribute pr`; the others have an operator and value
  Negating,    \* clauses whose attribute has "not" inside its name
  Beheaded,    \* for each clause that begins with "not", as notBefore does,
               \* the clause that is left without it
  Lists,       \* comparisons whose value is a list
  Wide,        \* comparisons whose value has a character of several bytes,
               \* which here only ever ends a rule
  Dotless,     \* presence clauses whose attribute has no parent, as in `sub pr`
  Unmappable,  \* tests of CEL and Cedar that have no IDQL form: if-then-else
  FilterOf     \* the clause between the brackets of each value path

Word(w) == [k |-> w]
Clause(c) == [k |-> "clause", c |-> c]

\* A value path p: tested for presence, compared by an operator and a value
\* of its own, by those of clause c (if a list, c is in Lists and is the
\* comparison of p without its filter), or standing bare.
Path(p, c) == [k |-> "path", p |-> p, c |-> c]
Present == "pr"
Own == "own"
Bare == "bare"

IsLeaf(t) == t.k \in {"clause", "path"}
IsWord(t) == t.k \in {"and", "or", "not"}

Not(e) == [k |-> "not", e |-> e]
Group(e) == [k |-> "group", e |-> e]
Logical(op, l, r) == [k |-> op, l |-> l, r |-> r]
IsLogical(e) == e.k \in {"and", "or"}

Error == [k |-> "error"]

RECURSIVE Leaves(_)
Leaves(e) ==
  CASE IsLogical(e) -> Leaves(e.l) \cup Leaves(e.r)
    [] e.k \in {"not", "group"} -> Leaves(e.e)
    [] OTHER -> {e}

-----------------------------------------------------------------------------
(* The parser. *)

\* What parseFilterSub knows between two tokens: the clauses, the logic word
\* seen and not yet used, isNot, the value path in vpe, whether there is an
\* attribute that waits for an operator, and whether a list has just been read,
\* which leaves wordIndex at the space behind it.
Fresh == [clauses |-> <<>>, logic |-> "none", not |-> FALSE,
          vpe |-> "none", waits |-> FALSE, inWord |-> FALSE]

Failed == [Fresh EXCEPT !.clauses = <<Error>>, !.logic = "failed"]

\* Mutant: the two clauses are joined the other way round.
Combined_Swapped(s) ==
  IF s.logic \in {"and", "or"} /\ Len(s.clauses) = 2
  THEN [s EXCEPT !.logic = "none",
          !.clauses = <<Logical(s.logic, s.clauses[2], s.clauses[1])>>]
  ELSE s

\* Two clauses are joined by the last logic word seen as soon as there are two.
Combined(s) ==
  IF s.logic \in {"and", "or"} /\ Len(s.clauses) = 2
  THEN [s EXCEPT !.logic = "none",
          !.clauses = <<Logical(s.logic, s.clauses[1], s.clauses[2])>>]
  ELSE s

Appended(s, e) == Combined([s EXCEPT !.clauses = Append(@, e)])

\* A bracketed expression is negated by any `not` read before it: isNot is
\* never reset.
AfterGroup(s, e) ==
  IF e = Error THEN Failed
  ELSE Appended(s, IF s.not THEN Not(e) ELSE Group(e))

IsPresence(t) == t.c = Present \/ t.c \in Presences

\* A "not" that a name begins with is read as the word; one inside the name
\* counts as it too, but stays.
Negates(t) == t.c \in Negating \cup DOMAIN Beheaded
LeftOf(t) == IF t.c \in DOMAIN Beheaded THEN Clause(Beheaded[t.c]) ELSE t

\* A clause takes the path in vpe for its attribute, unless its value is a list;
\* only another value clears it.
AfterClause(s, t) ==
  LET e == CASE s.vpe = "none" \/ t.c \in Lists -> LeftOf(t)
             [] s.vpe # "none" /\ IsPresence(t) -> Path(s.vpe, Present)
             [] OTHER -> Path(s.vpe, t.c)
      seen == [s EXCEPT !.not = @ \/ Negates(t), !.inWord = t.c \in Lists]
  IN IF s.waits THEN Failed
     ELSE Appended([seen EXCEPT !.vpe = IF IsPresence(t) \/ t.c \in Lists THEN @ ELSE "none"], e)

\* A path compared with a list is forgotten, though it stays in vpe.
AfterPath(s, t) ==
  LET seen == [s EXCEPT !.vpe = t.p, !.waits = FALSE]
  IN CASE t.c = Bare -> [seen EXCEPT !.waits = TRUE]
       [] t.c = Present -> Appended(seen, t)
       [] t.c \in Lists -> Appended([seen EXCEPT !.inWord = TRUE], Clause(t.c))
       [] OTHER -> Appended([seen EXCEPT !.vpe = "none"], t)

\* Behind a list the word is read with the space before it: as an attribute.
AfterWord(s, t) ==
  CASE s.inWord -> [s EXCEPT !.inWord = FALSE, !.waits = TRUE]
    [] ~s.inWord /\ t.k = "not" -> [s EXCEPT !.not = TRUE]
    [] OTHER -> Combined([s EXCEPT !.logic = t.k])

\* The last word of a rule is read as a clause of its own, whatever it is.
AtLastWord(s) ==
  IF s.waits THEN Appended([s EXCEPT !.waits = FALSE], Path(s.vpe, Present))
  ELSE Failed

RECURSIVE Depths(_, _)
Depths(text, d) ==
  IF text = <<>> THEN <<>>
  ELSE LET e == CASE Head(text).k = "(" -> d + 1
                  [] Head(text).k = ")" -> d - 1
                  [] OTHER -> d
       IN <<e>> \o Depths(Tail(text), e)

\* The first and the last of some places.
First(S) == CHOOSE i \in S : \A j \in S : i <= j
Last(S) == CHOOSE i \in S : \A j \in S : j <= i

\* Mutant: a group ends at the last bracket, not at its own.
Closing_Last(text) ==
  LET ends == {i \in 2..Len(text) : text[i].k = ")"}
  IN IF ends = {} THEN 0 ELSE Last(ends)

\* The place of the bracket that closes the one the text starts with, or 0.
Closing(text) ==
  LET depth == Depths(text, 0)
      ends == {i \in 2..Len(text) : depth[i] = 0}
  IN IF ends = {} THEN 0 ELSE First(ends)

From(text, i) == SubSeq(text, i, Len(text))

\* The places of a word outside all brackets.
TopLevel(text, word) ==
  LET depth == Depths(text, 0) IN {i \in 1..Len(text) : text[i].k = word /\ depth[i] = 0}


\* ParseFilter: the expression of a rule, or Error.  The length of a rule is
\* counted in bytes where its characters are counted elsewhere, so that after
\* a wide value the last clause is never completed.
RECURSIVE Parse(_), Read(_, _)
Read(s, text) ==
  IF text = <<>> \/ s = Failed THEN s
  ELSE LET t == Head(text)
           close == Closing(text)
       IN CASE t.k = "(" ->
                 IF close = 0 THEN Failed
                 ELSE Read(AfterGroup(s, Parse(SubSeq(text, 2, close - 1))),
                           From(text, close + 1))
            [] t.k = ")" -> Failed
            [] IsWord(t) /\ Len(text) = 1 -> AtLastWord(s)
            [] IsWord(t) /\ Len(text) > 1 -> Read(AfterWord(s, t), Tail(text))
            [] t.k = "path" -> Read(AfterPath(s, t), Tail(text))
            [] t.k = "clause" /\ t.c \in Wide /\ ~s.waits -> s
            [] OTHER -> Read(AfterClause(s, t), Tail(text))

Parse(text) ==
  LET end == Read(Fresh, text)
  IN IF Len(end.clauses) = 1 THEN end.clauses[1] ELSE Error

-----------------------------------------------------------------------------
(* Back to text. *)

InBrackets(text) == <<Word("(")>> \o text \o <<Word(")")>>

\* Expression.String().
RECURSIVE String(_)
String(e) ==
  CASE IsLogical(e) -> String(e.l) \o <<Word(e.k)>> \o String(e.r)
    [] e.k = "not" -> <<Word("not")>> \o InBrackets(String(e.e))
    [] e.k = "group" -> InBrackets(String(e.e))
    [] OTHER -> <<e>>

\* An operand without its group, whose brackets walk adds where needed.
Stripped(e) == IF e.k = "group" THEN e.e ELSE e

\* SerializeExpression: brackets only around an `or` within an `and`.
RECURSIVE Walk(_, _)
Nested(e, op) == LET f == Stripped(e) IN Walk(f, ~(IsLogical(f) /\ f.k = op))
Walk(e, isChild) ==
  CASE IsLogical(e) ->
         LET text == Nested(e.l, e.k) \o <<Word(e.k)>> \o Nested(e.r, e.k)
         IN IF isChild /\ e.k = "or" THEN InBrackets(text) ELSE text
    [] e.k = "not" -> <<Word("not")>> \o InBrackets(Walk(e.e, FALSE))
    [] e.k = "group" -> InBrackets(Walk(e.e, FALSE))
    [] e.k = "path" -> <<Clause(FilterOf[e.p])>>
    [] OTHER -> <<e>>

SerializeExpression(e) == Walk(e, FALSE)
=============================================================================
