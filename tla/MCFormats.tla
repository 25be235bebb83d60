----------------------------- MODULE MCFormats ------------------------------
(* Values for Formats. *)
EXTENDS MCConditions, Formats

Alice == [type |-> <<"User">>, id |-> <<"alice">>]
Admins == [type |-> <<"Group">>, id |-> <<"admins">>]
Sun == [type |-> <<"App", "Photo">>, id |-> <<"sun">>]
View == [type |-> <<"Action">>, id |-> <<"view">>]
Edit == [type |-> <<"Action">>, id |-> <<"edit">>]
CedarClauses ==
  {<<>>, <<When(<<Clause("a")>>)>>, <<Unless(<<Clause("a")>>), When(<<Clause("b")>>)>>,
   <<Unless(<<Clause("if")>>)>>, <<When(<<Clause("a")>>), Unless(<<Clause("if")>>)>>}

\* Cedar policies.
MCCedarSamples ==
  [effect : {"permit", "forbid"},
   principal : {Everything, Equal(Alice), Is(<<"User">>), Is(<<"App", "User">>),
                IsIn(<<"User">>, Admins), In(Admins)},
   action : {Everything, Equal(View), In(View), InList(<<View, Edit>>)},
   resource : {Everything, Equal(Sun), Is(<<"Photo">>), In(Sun),
               Equal(Uid(<<"Photo">>, <<"http", ":", "sun">>))},
   clauses : CedarClauses]

\* The entities requests are about, with those they are in.
Member(type, id, in) == [type |-> type, id |-> id, in |-> in]
InMarks(name) == <<"'", name, "'">>
MCPrincipals == {Member(<<"User">>, <<"alice">>, {Admins}), Member(<<"User">>, <<"bob">>, {}),
                 Member(<<"User">>, InMarks("alice"), {}), Member(<<"Pump">>, <<"alice">>, {Admins})}
MCResources == {Member(<<"App", "Photo">>, <<"sun">>, {Admins}), Member(<<"Photo">>, <<"sun">>, {})}
MCActions == {Member(<<"Action">>, <<id>>, {}) : id \in {"view", "edit", "drop"}}

\* IDQL texts with the entities each of them names.
Users == {e \in MCPrincipals : e.type = <<"User">>}
InAdmins == {e \in MCPrincipals : Admins \in e.in}
MCSubjectTexts ==
  {[text |-> <<"any">>, names |-> MCPrincipals],
   [text |-> <<"anyAuthenticated">>, names |-> Users],
   [text |-> <<"User", ":">>, names |-> Users],
   [text |-> <<"User", ":", "alice">>, names |-> {e \in Users : e.id = <<"alice">>}],
   [text |-> <<"Pump", ":", "bob">>, names |-> {}],
   [text |-> <<"User", "[", "Group", ":", "admins", "]">>, names |-> Users \cap InAdmins],
   [text |-> <<"[", "Group", ":", "admins", "]">>, names |-> InAdmins],
   [text |-> <<"User", ":">> \o InMarks("alice"), names |-> {e \in Users : e.id = <<"alice">>}],
   [text |-> <<"[", "Group", ":", "admins", ",", "Group", ":", "staff", "]">>, names |-> InAdmins],
   [text |-> <<"User", "[", "Group", ":", "admins">>, names |-> Users \cap InAdmins]}
MCActionTexts ==
  {[text |-> <<"Action", ":">> \o id, names |-> {a \in MCActions : a.id = <<"view">>}] :
     id \in {<<"view">>, InMarks("view")}}
    \cup {[text |-> <<"Action", ":", "edit">>, names |-> {a \in MCActions : a.id = <<"edit">>}]}
MCObjectTexts ==
  {[text |-> <<>>, names |-> MCResources],
   [text |-> <<"App", ":", "Photo", ":">>, names |-> {e \in MCResources : Len(e.type) = 2}],
   [text |-> <<"Photo", ":", "sun">>, names |-> {e \in MCResources : Len(e.type) = 1}],
   [text |-> <<"[", "Group", ":", "admins", "]">>, names |-> {e \in MCResources : e.in # {}}],
   [text |-> <<"Photo", ":">> \o InMarks("sun"), names |-> {e \in MCResources : Len(e.type) = 1}]}
UpTo2(S) == {<<>>} \cup {<<x>> : x \in S} \cup (S \X S)
MCIdqlSamples ==
  [subjects : UpTo2(MCSubjectTexts), actions : UpTo2(MCActionTexts), object : MCObjectTexts,
   condition : {NoCondition, [rule |-> <<Clause("a")>>, deny |-> TRUE]}]

\* A model of two namespaces, where an attribute is that of a common type; a
\* clerk has two that are called name.
Attr(type) == [type |-> type, element |-> <<>>, attributes |-> <<>>]
Name(n) == <<n>>
One(n, a) == [x \in {Name(n)} |-> a]
MCNamespaces ==
  [n \in {Name("App"), Name("Hr")} |->
     IF n = Name("App")
     THEN [entityTypes |->
             [t \in {Name("User"), Name("Photo"), Name("Clerk")} |->
                IF t = Name("Photo") THEN One("size", Attr("Long"))
                ELSE IF t = Name("Clerk")
                THEN [a \in {Name("name"), Name("person")} |->
                        IF a = Name("name") THEN Attr("String") ELSE Attr("Person")]
                ELSE [a \in {Name("id"), Name("mails"), Name("person")} |->
                        IF a = Name("id") THEN Attr("String")
                        ELSE IF a = Name("person") THEN Attr("Person")
                        ELSE [type |-> "Set", attributes |-> <<>>,
                              element |-> One("work", Attr("Bool"))]]],
           actions |-> [a \in {Name("view"), Name("list")} |->
                          IF a = Name("list") THEN <<>>
                          ELSE [principalTypes |-> {<<Name("User")>>, <<Name("Hr"), Name("Staff")>>},
                                resourceTypes |-> {<<Name("Photo")>>}]],
           commonTypes |-> [t \in {"Person"} |->
                              [element |-> <<>>,
                               attributes |-> One("name", [type |-> "Record", element |-> <<>>,
                                                           attributes |-> One("last", Attr("String"))])]]]
     ELSE [entityTypes |-> [t \in {Name("Staff"), Name("User")} |-> <<>>],
           actions |-> <<>>, commonTypes |-> <<>>]]
MCDefNamespace == Name("App")

Ent(t) == [kind |-> "entity", text |-> t]
Lit(kind) == [kind |-> kind, text |-> <<>>]
MCOperands == {Ent(<<"User", ":", "id">>), Ent(<<"User", ":", "name", ".", "last">>),
               Ent(<<"User", ":", "mails", ".", "work">>), Ent(<<"Photo", ":", "name">>),
               Ent(<<"principal">>), Ent(<<"Hr", ":", "User", ":", "'", "ann", "'">>), Ent(<<"User", ":">>),
               Ent(<<"Clerk", ":", "name">>), Ent(<<"Clerk", ":", "name", ".", "last">>),
               Lit("String"), Lit("Bool"), Lit("Long"), Lit("Array")}
MCExpressions == [op : {"eq", "sw", "in", "pr", "path"}, left : MCOperands, right : MCOperands]
MCPimSamples ==
  [subjects : UpTo2({<<"any">>, <<>>, <<"User", ":", "al">>, <<"Hr", ":", "Staff", ":">>,
                     <<"Hr", ":", "User", ":", "al">>, <<"[", "User", ":", "al", "]">>}),
   actions : UpTo2({<<"Action", ":", "view">>, <<"list">>, <<"Hr", ":", "Action", ":", "list">>}),
   object : {<<>>, <<"App">>, <<"Photo", ":">>, <<"sun">>, <<"Hr", ":", "Photo", ":", "sun">>,
             <<"User", ":", "al">>, <<"[", "Photo", ":", "sun", "]">>},
   expressions : {{}}, parses : {TRUE}]
    \cup [subjects : {<< <<"any">> >>}, actions : {<<>>}, object : {<<>>},
          expressions : {{exp} : exp \in MCExpressions}, parses : BOOLEAN]

=============================================================================
