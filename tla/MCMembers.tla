------------------------------ MODULE MCMembers ------------------------------
(***************************************************************************)
(* Small instances of Platforms: groups, users, tables and the lists that  *)
(* the administrators set.                                                 *)
(***************************************************************************)
EXTENDS Platforms, TLC

-----------------------------------------------------------------------------
(* Two groups or roles and four users, two of whom share an email and one  *)
(* of whom has none.                                                       *)

MCGroups == {"readers", "writers"}
MCUsers == {"ann", "bob", "bob2", "svc"}
MCemailOf == [u \in MCUsers |-> CASE u = "ann" -> "ann@" [] u = "svc" -> NoEmail
                                  [] OTHER -> "bob@"]
Starting(readers) ==
  {[g \in MCGroups |-> IF g = "readers" THEN r ELSE {"bob"}] : r \in readers}
MCMembers == Starting({{"bob", "bob2", "svc"}})

To(g, emails) == [group |-> g, emails |-> emails]
MCWants ==
  { <<To("others", {"ann@"}), To("readers", {"bob@", "new@"})>>,
    <<To("readers", {}), To("writers", {"ann@"})>>,
    <<To("readers", {"bob@"}), To("readers", {"ann@"})>> }
MCAzureMembers == Starting({{"ann", "bob", "svc"}, {"bob", "bob2"}})
MCAzureWants ==
  { <<To("readers", <<"bob@", "new@">>)>>,
    <<To("others", <<"ann@">>), To("readers", <<"ann@", "bob@">>)>>,
    <<To("readers", <<>>), To("writers", <<"ann@", "ann@">>)>>,
    <<To("readers", <<"bob@">>), To("readers", <<"ann@">>)>> }

(* A condition that denies has the expression of the one that allows; one  *)
(* with brackets is read back without them, one that tests a name without  *)
(* a dot not at all, and a value path cannot be mapped; "macro" is an      *)
(* expression that another tool has set.                                   *)

MCcelOf ==
  "atWork" :> "x.work" @@ "notAtWork" :> "x.work" @@ "(a)" :> "x.a"
    @@ "dotless" :> "has(x)" @@ "path" :> Unmappable
MCidqlOf ==
  "x.work" :> "atWork" @@ "x.a" :> "a" @@ "has(x)" :> Unmappable @@ "macro" :> Unmappable

AnActions == {<<>>, <<[gcp |-> TRUE, role |-> "viewer"]>>,
              <<[gcp |-> FALSE, role |-> "viewer"], [gcp |-> TRUE, role |-> "editor"]>>}
APolicy(actions, who, condition) ==
  [actions |-> actions, subjects |-> who, condition |-> condition]
MCPolicies ==
  {<<>>} \union {<<APolicy(x, {"ann@"}, c)>> : x \in AnActions, c \in {NoCondition, "path"}}
    \union {<<APolicy(x, {"ann@"}, NoCondition), APolicy(x, {"bob@"}, c)>> :
              x \in AnActions, c \in {NoCondition} \union DOMAIN MCcelOf}
MCBindings ==
  {{}} \union
    {{[role |-> r, members |-> {"svc"}, condition |-> x] : r \in {"viewer", "editor"}} :
       x \in {NoCondition, "macro"}}

(* Tables with resources that differ only in "/" and "-", an item for no   *)
(* HTTP method, and items written in another form.                         *)

MCMethods == {"GET", "POST"}
MCitemMethod ==
  "GET" :> "GET" @@ "get" :> "GET" @@ "POST" :> "POST" @@ "FOO" :> NoMethod
MCuriOf ==
  "GET" :> "http:GET" @@ "get" :> "http:get" @@ "POST" :> "http:POST"
    @@ "FOO" :> "http:FOO"
MCUris == <<"http:FOO", "http:GET", "http:POST", "http:get">>
MCuriMethod ==
  "http:FOO" :> NoMethod @@ "http:GET" :> "GET" @@ "http:POST" :> "POST"
    @@ "http:get" :> "GET"

HrDashUs == <<"/", "hr", "-", "us">>
HrSlashUs == <<"/", "hr", "/", "us">>
HrSlashUsBare == <<"hr", "/", "us">>
Other == <<"/", "it">>
MCResources == <<HrDashUs, HrSlashUs, Other, HrSlashUsBare>>

Item(r, x, roles) == [resource |-> r, action |-> x, roles |-> roles]
MCTables ==
  { {},
    {Item(HrSlashUs, "GET", {"r1"}), Item(HrSlashUs, "POST", {"r1", "r2"})},
    {Item(HrSlashUs, "GET", {"r1"}), Item(HrDashUs, "GET", {"r2"})},
    {Item(HrSlashUs, "GET", {"r1"}), Item(Other, "FOO", {"r1"})},
    {Item(HrSlashUsBare, "get", {"r1"}), Item(Other, "POST", {"r2"})} }

Policy(r, uris, roles) == [resource |-> r, actions |-> uris, subjects |-> roles]
MCGatewayWants ==
  { {Policy(HrSlashUs, {"http:GET", "http:POST"}, {"r2"})},
    {Policy(HrSlashUs, {"http:GET"}, {"r1"}), Policy(HrSlashUs, {"http:GET"}, {"r2"}),
     Policy(Other, {"http:POST"}, {})},
    {Policy(HrDashUs, {"http:GET"}, {"r1"}), Policy(<< >>, {"http:GET"}, {"r2"})},
    {Policy(HrSlashUsBare, {"http:get"}, {"r2"}), Policy(Other, {"http:FOO"}, {"r1"})} }

\* One administrator may try again.
MCMaxRuns == LET again == CHOOSE a \in Admins : TRUE IN [a \in Admins |-> IF a = again THEN 2 ELSE 1]
=============================================================================
