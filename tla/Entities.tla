------------------------------ MODULE Entities ------------------------------
(***************************************************************************)
(* The texts that name subjects, actions and objects in a policy, and the  *)
(* entities they are read as: pkg/hexapolicy/types/entity.go.  A text is a *)
(* sequence of the separators below, quotation marks and names; a name     *)
(* stands for a run of any other characters, so that a part of a path may  *)
(* consist of several tokens.                                              *)
(***************************************************************************)
EXTENDS Naturals, Sequences, FiniteSets

Separators == {":", "[", "]", ","}

\* A quotation mark, escaped as often as its text was quoted again.
Marks == <<"'", "^'", "^^'", "^^^'">>
IsMark(t) == \E i \in DOMAIN Marks : t = Marks[i]

\* strconv.Quote.
Quote(text) ==
  LET Escaped(t) == IF IsMark(t) THEN Marks[1 + CHOOSE i \in DOMAIN Marks : t = Marks[i]] ELSE t
  IN <<"'">> \o [i \in DOMAIN text |-> Escaped(text[i])] \o <<"'">>

\* What the escapes and the outer marks of a quoted text stand for.
Unquoted(text) ==
  IF text # <<>> /\ text[1] = "'"
  THEN LET inner == SubSeq(text, 2, Len(text) - 1)
           Unescaped(t) == IF IsMark(t) /\ t # "'"
                       THEN Marks[(CHOOSE i \in DOMAIN Marks : t = Marks[i]) - 1] ELSE t
       IN [i \in DOMAIN inner |-> Unescaped(inner[i])]
  ELSE text

\* strings.Split.
RECURSIVE SplitAt(_, _)
SplitAt(text, mark) ==
  LET at == {i \in DOMAIN text : text[i] = mark}
      i == CHOOSE i \in at : \A j \in at : i <= j
  IN IF at = {} THEN <<text>>
     ELSE <<SubSeq(text, 1, i - 1)>> \o SplitAt(SubSeq(text, i + 1, Len(text)), mark)

\* strings.Join.
RECURSIVE JoinWith(_, _)
JoinWith(parts, mark) ==
  CASE parts = <<>> -> <<>>
    [] Len(parts) = 1 -> parts[1]
    [] OTHER -> parts[1] \o mark \o JoinWith(Tail(parts), mark)

\* Every entity has all the fields; <<>> stands for an id, a set or types that
\* are nil, or empty, which no reader distinguishes.
Entity(type, types, id, in) == [type |-> type, types |-> types, id |-> id, in |-> in]
AnyEntity == Entity("any", <<>>, <<>>, <<>>)
AnyAuthenticatedEntity == Entity("anyAuthenticated", <<>>, <<>>, <<>>)
EmptyEntity == Entity("nil", <<>>, <<>>, <<>>)

\* What has been read of a text: the parts of its path, the part being read
\* (sb), the members of its sets and the text of a set being read (setb).
AtStart == [types |-> <<>>, sb |-> <<>>, sets |-> <<>>, setb |-> <<>>, isSet |-> FALSE]

RECURSIVE ParseEntity(_)

\* Mutant: a type before a set is not saved.
OpenSet_Forgets(s) == [s EXCEPT !.isSet = TRUE]

\* A bracket opens a set, also within one, and ends a part of the path.
OpenSet(s) ==
  [s EXCEPT !.isSet = TRUE,
            !.types = IF s.sb = <<>> THEN @ ELSE Append(@, s.sb),
            !.sb = <<>>]

\* The text between the brackets is read as entities, one for each comma more.
CloseSet(s) ==
  LET members == SplitAt(s.setb, ",")
  IN [s EXCEPT !.isSet = FALSE, !.setb = <<>>,
               !.sets = @ \o [i \in DOMAIN members |-> ParseEntity(members[i])]]

ReadMark(s, t) ==
  CASE t = ":" /\ ~s.isSet -> [s EXCEPT !.types = Append(@, s.sb), !.sb = <<>>]
    [] t = "[" -> OpenSet(s)
    [] t = "]" -> CloseSet(s)
    [] OTHER -> IF s.isSet THEN [s EXCEPT !.setb = Append(@, t)]
                           ELSE [s EXCEPT !.sb = Append(@, t)]

\* The last part of the path is the id.  An id any makes the whole entity any
\* subject; next to a set an id is dropped; so is a set left open.
EntityRead(s) ==
  CASE s.sb = <<"any">> -> AnyEntity
    [] s.sb = <<"anyAuthenticated">> -> AnyAuthenticatedEntity
    [] OTHER ->
         IF s.sets # <<>>
         THEN Entity(IF s.types = <<>> THEN "in" ELSE "isIn", s.types, <<>>, s.sets)
         ELSE Entity(IF s.sb = <<>> THEN "is" ELSE "eq", s.types, s.sb, <<>>)

\* ParseEntity.
ParseEntity(text) ==
  LET Reading[i \in 0..Len(text)] ==
        IF i = 0 THEN AtStart ELSE ReadMark(Reading[i - 1], text[i])
  IN IF text = <<>> THEN EmptyEntity ELSE EntityRead(Reading[Len(text)])

\* IsPath: the id is not quoted; it panics without an id.
IsQuoted(e) == e.id[1] = "'"

\* GetId.
GetId(e) == Unquoted(e.id)

\* GetType: the last type.
GetType(e) ==
  IF e.type \in {"any", "anyAuthenticated"} THEN <<e.type>>
  ELSE IF e.types = <<>> THEN <<>> ELSE e.types[Len(e.types)]

\* GetNamespace: the first of several types.
GetNamespace(e, default) == IF Len(e.types) > 1 THEN e.types[1] ELSE default

RECURSIVE EntityString(_)

\* The members of a set, with commas between them.
MembersString(members) == JoinWith([i \in DOMAIN members |-> EntityString(members[i])], <<",">>)

\* String.
EntityString(e) ==
  LET path == JoinWith(e.types, <<":">>)
      set == <<"[">> \o MembersString(e.in) \o <<"]">>
  IN CASE e.type = "eq" -> IF e.types = <<>> THEN e.id ELSE path \o <<":">> \o e.id
       [] e.type = "is" -> path \o <<":">>
       [] e.type = "isIn" -> path \o set
       [] e.type = "in" -> set
       [] e.type = "nil" -> <<>>
       [] OTHER -> <<e.type>>
=============================================================================
