--------------------------- MODULE CedarPolicies ----------------------------
(***************************************************************************)
(* Whole policies mapped to and from Cedar: models/formats/cedar.  A Cedar *)
(* policy has an effect, a scope for its principal, action and resource,   *)
(* and clauses; its type names are sequences of names, as in App::User.    *)
(* An IDQL policy has texts for its subjects, actions and object and a     *)
(* condition; it may lack the list of subjects.  Annotations are left out. *)
(***************************************************************************)
EXTENDS Entities, CedarConditions

\* An entity in Cedar, and the scopes: any, == e, is t, is t in e, in e, in [es].
Uid(type, id) == [type |-> type, id |-> id]
Scope(op, type, of, isList) == [op |-> op, type |-> type, of |-> of, isList |-> isList]
Everything == Scope("All", <<>>, <<>>, FALSE)
Equal(e) == Scope("==", <<>>, <<e>>, FALSE)
Is(type) == Scope("is", type, <<>>, FALSE)
IsIn(type, e) == Scope("is", type, <<e>>, FALSE)
In(e) == Scope("in", <<>>, <<e>>, FALSE)
InList(es) == Scope("in", <<>>, es, TRUE)

NoCondition == [rule |-> <<>>, deny |-> FALSE]

-----------------------------------------------------------------------------
(* From Cedar. *)

\* A type's names as the parts of a path, and as one part, "::" and all.
Parts(type) == [i \in DOMAIN type |-> <<type[i]>>]
OnePart(type) == <<JoinWith(Parts(type), <<":", ":">>)>>

\* Mutant: the type is not split at its "::".
EqualPath_Whole(e) == Entity("eq", OnePart(e.type), Quote(e.id), <<>>)

\* The path of the entity in a scope `== e`.
EqualPath(e) == Entity("eq", Parts(e.type), Quote(e.id), <<>>)

\* The entity of a scope `in e`: its type is not split.
MemberPath(e) == Entity("eq", OnePart(e.type), Quote(e.id), <<>>)

\* mapCedarScope.
MapCedarScope(verb, scope) ==
  LET text == OnePart(scope.of[1].type)[1] \o <<":">> \o Quote(scope.of[1].id)
      members == [i \in DOMAIN scope.of |-> MemberPath(scope.of[i])]
  IN CASE scope.op = "All" -> IF verb = "principal" THEN << <<"any">> >> ELSE <<>>
       [] scope.op = "==" -> <<EntityString(EqualPath(scope.of[1]))>>
       [] scope.op = "is" ->
            IF scope.of # <<>>
            THEN <<EntityString(Entity("isIn", OnePart(scope.type), <<>>, <<ParseEntity(text)>>))>>
            ELSE <<EntityString(Entity("is", OnePart(scope.type), <<>>, <<>>))>>
       [] scope.op = "in" ->
            IF scope.isList /\ verb = "action"
            THEN [i \in DOMAIN members |-> EntityString(members[i])]
            ELSE <<EntityString(Entity("in", <<>>, <<>>, members))>>

\* MapCedarPolicy: the effect is not looked at.  Whether it fails or panics
\* depends on the condition alone.
MapCedarPolicy(p) ==
  LET object == MapCedarScope("resource", p.resource)
      condition == MapCedarConditionToHexa(p.clauses)
  IN [fails |-> p.clauses # <<>> /\ condition.fails,
      panics |-> p.clauses # <<>> /\ condition.panics,
      policy |-> [subjects |-> MapCedarScope("principal", p.principal),
                  actions |-> MapCedarScope("action", p.action),
                  object |-> IF object = <<>> THEN <<>> ELSE object[1],
                  condition |-> IF p.clauses = <<>> THEN NoCondition
                                ELSE [rule |-> condition.rule, deny |-> condition.deny]]]

\* MapCedarPolicyBytes: the policies before the first that fails, without an
\* error, since that of the loop is another variable than the one returned.
BeforeFailure(mapped) ==
  LET failed == {i \in DOMAIN mapped : mapped[i].fails \/ mapped[i].panics}
      end == IF failed = {} THEN Len(mapped) ELSE First(failed) - 1
  IN [panics |-> failed # {} /\ mapped[First(failed)].panics,
      policies |-> [i \in 1..end |-> mapped[i].policy]]
MapCedarPolicies(ps) == BeforeFailure([i \in DOMAIN ps |-> MapCedarPolicy(ps[i])])

-----------------------------------------------------------------------------
(* To Cedar.  Malformed stands for text that Cedar cannot read as a scope. *)

Malformed == Scope("malformed", <<>>, <<>>, FALSE)

\* An entity whose types and id are written as type::"id"; the id is quoted as
\* it stands, with the quotation marks it may have already.
IsCedarType(parts) ==
  parts # <<>> /\ \A i \in DOMAIN parts : Len(parts[i]) = 1 /\ parts[i][1] # ","
                                          /\ ~IsMark(parts[i][1])
TypeOf(parts) == [i \in DOMAIN parts |-> parts[i][1]]
IsCedarUid(e) == IsCedarType(e.types) /\ e.id # <<>>
UidOf(e) == Uid(TypeOf(e.types), e.id)

\* Mutant: the set an entity is in is left out.
MemberScope_NoSet(path, member) == IF path.type = "isIn" THEN Is(TypeOf(path.types)) ELSE In(UidOf(member))

\* A scope whose entity must be in another.
MemberScope(path, member) ==
  IF path.type = "isIn" THEN IsIn(TypeOf(path.types), UidOf(member)) ELSE In(UidOf(member))

\* The scope whose entity is at this path.
PathScope(path) ==
  CASE path.type = "eq" /\ IsCedarUid(path) -> Equal(UidOf(path))
    [] path.type = "is" /\ IsCedarType(path.types) -> Is(TypeOf(path.types))
    [] /\ path.type \in {"in", "isIn"} /\ Len(path.in) = 1 /\ IsCedarUid(path.in[1])
       /\ path.type = "isIn" => IsCedarType(path.types)
         -> MemberScope(path, path.in[1])
    [] OTHER -> Malformed

\* mapHexaValue for a principal or a resource.
MapHexaValue(verb, member) ==
  CASE verb = "principal" /\ member = <<"any">> -> Everything
    [] verb = "principal" /\ member = <<"anyAuthenticated">> -> Is(<<"User">>)
    [] member = <<>> -> Everything
    [] OTHER -> PathScope(ParseEntity(member))

\* The scope of the actions at these paths.
ActionScope(paths) ==
  LET uids == [i \in DOMAIN paths |-> UidOf(paths[i])]
  IN CASE \E i \in DOMAIN paths : paths[i].type # "eq" \/ ~IsCedarUid(paths[i]) -> Malformed
       [] OTHER -> IF Len(uids) = 1 THEN Equal(uids[1]) ELSE InList(uids)

\* mapHexaAction: what is written after `action ==` and between brackets has
\* to be an entity with a type.
MapHexaAction(actions) ==
  LET paths == [i \in DOMAIN actions |-> ParseEntity(actions[i])]
  IN IF actions = <<>> THEN Everything ELSE ActionScope(paths)

\* mapHexaSubjects: a scope for each subject, one if the first is any or there
\* is none, and no scope, hence no policy, if the list itself is missing.
MapHexaSubjects(p) ==
  IF "subjects" \notin DOMAIN p THEN <<>>
  ELSE IF p.subjects = <<>> \/ p.subjects[1] = <<"any">> THEN <<Everything>>
  ELSE [i \in DOMAIN p.subjects |-> MapHexaValue("principal", p.subjects[i])]

\* MapHexaPolicy: a permit for each subject; the condition may be an error.
MapHexaPolicy(p) ==
  LET scopes == MapHexaSubjects(p)
      clauses == IF p.condition = NoCondition THEN <<>>
                 ELSE MapConditionToCedar(Parse(p.condition.rule), p.condition.deny)
  IN [fails |-> p.condition # NoCondition /\ clauses = <<>>,
      policies |-> [i \in DOMAIN scopes |->
                      [effect |-> "permit", principal |-> scopes[i],
                       action |-> MapHexaAction(p.actions),
                       resource |-> MapHexaValue("resource", p.object), clauses |-> clauses]]]

\* MapHexaPolicies: the texts of all policies, none if one fails.
AllMapped(mapped) ==
  LET Written[i \in 0..Len(mapped)] ==
        IF i = 0 THEN <<>> ELSE Written[i - 1] \o mapped[i].policies
  IN IF \E i \in DOMAIN mapped : mapped[i].fails THEN <<>> ELSE Written[Len(mapped)]
MapHexaPolicies(ps) == AllMapped([i \in DOMAIN ps |-> MapHexaPolicy(ps[i])])
=============================================================================
