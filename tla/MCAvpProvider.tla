--------------------------- MODULE MCAvpProvider ---------------------------
(* Instances of AvpProvider: stores of up to two static policies and one     *)
(* that is linked to a template, and lists of up to two wanted policies.     *)
EXTENDS AvpProvider, TLC

\* Users is a type, which reads as it was written; the others are ids as they
\* were read from AVP, in quotation marks, and as they are once written back.
Ids == {"'ann'", "'bob'", "'read'", "'write'", "'file'"}
Twice(n) == "'" \o n \o "'"
Names == {"Users"} \union Ids \union {Twice(n) : n \in Ids}
MCrewritten == [n \in {"Users"} \union Ids |-> IF n \in Ids THEN Twice(n) ELSE n]
MCfold == [n \in Names |-> n]
MCcondClass == [c \in {"c1", "c2"} |-> c]
MCscopeClass == [s \in {"s1"} |-> s]

Body(subject, action, object) ==
  [subjects |-> <<subject>>, actions |-> <<action>>, object |-> object,
   condition |-> NoCondition, scope |-> NoScope]

\* A policy, the same for another subject, with another action, and with a
\* condition that has no Cedar form; one with a Cedar condition IDQL has not.
Ann == Body("'ann'", "'read'", "'file'")
Bob == Body("'bob'", "'read'", "'file'")
AnnWrites == Body("'ann'", "'write'", "'file'")
BobIf == [Bob EXCEPT !.condition = "c1"]
Odd == [Ann EXCEPT !.condition = "c2"]
All == Body("Users", "'read'", "Users")
AllWrite == [Body("Users", "'write'", "Users") EXCEPT !.scope = "s1"]

MCBodies == {Ann, Bob, AnnWrites, BobIf, Odd, All, AllWrite}
MCUnmappable == {BobIf}
MCUnreadable == {Odd}
\* The statement of the second template has a condition IDQL has not.
MCTemplates == {-1, -2}
MCtemplateBody == [t \in MCTemplates |-> IF t = -1 THEN All ELSE Odd]

Static(b) == [template |-> NoTemplate, body |-> b, described |-> TRUE]
Bare(b) == [Static(b) EXCEPT !.described = FALSE]
Linked(t) == [template |-> t, body |-> templateBody[t], described |-> FALSE]

MCStores ==
  { <<Static(Ann), Static(All)>>,
    <<Static(Ann), Linked(-1)>>,
    <<Static(Odd)>>, <<Bare(Ann)>>, <<Linked(-2)>> }

\* Entries of a list: a policy read from AVP before, with what it was edited
\* to, the template policy read from it, and a policy from elsewhere.
Read(id, b) == [id |-> id, avp |-> TRUE, template |-> FALSE, body |-> b]
TemplateEntry == [Read(-1, All) EXCEPT !.template = TRUE]
New(b) == [id |-> NoId, avp |-> FALSE, template |-> FALSE, body |-> b]

\* Nothing is wanted; a new subject, also where Cedar cannot express the rest;
\* one policy from elsewhere; a new action beside the template policy, and
\* beside a policy that stays as it was read.
MCWants ==
  { << >>, <<Read(1, Bob)>>, <<Read(1, BobIf)>>, <<New(AllWrite)>>,
    <<Read(1, AnnWrites), TemplateEntry>>,
    <<Read(1, Ann), Read(2, AllWrite)>> }

\* The administrators are interchangeable.
AdminSymmetry == Permutations(Admins)
=============================================================================
