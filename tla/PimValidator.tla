---------------------------- MODULE PimValidator ----------------------------
(***************************************************************************)
(* The check of a policy against an application's policy information       *)
(* model: pkg/hexapolicy/pimValidate and models/policyInfoModel.  A result *)
(* is "valid", "invalid" (one error or more) or "panic"; an operator that  *)
(* looks attributes up has the set of results that the order in which Go   *)
(* visits a map allows.  Names that differ in their case are different.    *)
(***************************************************************************)
EXTENDS Entities

CONSTANTS
  Namespaces,    \* the schema of each namespace: its entityTypes (each with its
                 \* attributes), actions (with what they apply to), commonTypes
  DefNamespace   \* the namespace of a path that names none

\* An attribute has a type and, as a record or a set, attributes of its own or
\* of its elements.
BasicTypes == {"String", "Bool", "Date", "Numeric", "Long", "Extension", "Record", "Set"}
Nowhere == "nil"

\* The rest of a path after its first name.
Below(path) == Tail(path)

RECURSIVE FindWithin(_, _, _)

\* doFindAttr: an attribute that has the path's first name, or one of a common
\* type, in which the whole path is looked up.
FindAttr(attributes, path, common) ==
  LET Named(a) == IF a # path[1] THEN {Nowhere}
                  ELSE IF Len(path) = 1 THEN {attributes[a].type}
                  ELSE FindWithin(attributes[a], Below(path), common)
      Custom(a) == IF attributes[a].type \in DOMAIN common \ BasicTypes
                   THEN FindWithin(common[attributes[a].type], path, common) ELSE {Nowhere}
      Found(a) == (Named(a) \ {Nowhere}) \cup (IF Nowhere \in Named(a) THEN Custom(a) ELSE {})
  IN (UNION {Found(a) : a \in DOMAIN attributes} \ {Nowhere})
       \cup (IF \A a \in DOMAIN attributes : Nowhere \in Found(a) THEN {Nowhere} ELSE {})

\* AttrType.FindAttrTypes.
FindWithin(attribute, path, common) ==
  IF path[1] \in DOMAIN attribute.element
  THEN IF Len(path) = 1 THEN {attribute.element[path[1]].type}
       ELSE FindWithin(attribute.element[path[1]], Below(path), common)
  ELSE FindAttr(attribute.attributes, path, common)

\* FindAttrType, of an entity that has a path for its id.
FindAttrType(schema, e) ==
  FindAttr(schema.entityTypes[GetType(e)], SplitAt(GetId(e), "."), schema.commonTypes)

\* checkSubject.
CheckSubject(e) ==
  LET namespace == GetNamespace(e, DefNamespace)
  IN IF e.type \in {"any", "anyAuthenticated"} THEN "valid"
     ELSE IF namespace \notin DOMAIN Namespaces THEN "invalid"
     ELSE IF GetType(e) \notin DOMAIN Namespaces[namespace].entityTypes THEN "invalid"
     ELSE "valid"

\* checkObject: naming the missing type dereferences the id, which a set lacks.
CheckObject(text) ==
  LET e == ParseEntity(text)
      namespace == GetNamespace(e, DefNamespace)
  IN IF text = <<>> \/ text = DefNamespace THEN "valid"
     ELSE IF namespace \notin DOMAIN Namespaces THEN "invalid"
     ELSE IF GetType(e) = <<>> THEN (IF e.id = <<>> THEN "panic" ELSE "invalid")
     ELSE IF GetType(e) \notin DOMAIN Namespaces[namespace].entityTypes THEN "invalid"
     ELSE "valid"

\* Mutant: a type listed without a namespace matches in every namespace.
IsOf_AnyNamespace(e, type, actionNamespace) == GetType(e) = type[Len(type)]

\* A type as listed by an action: in a namespace, or in that of the action.
IsOf(e, type, actionNamespace) ==
  LET namespace == GetNamespace(e, DefNamespace)
  IN IF Len(type) > 1 THEN type = <<namespace, GetType(e)>>
     ELSE actionNamespace = namespace /\ type = <<GetType(e)>>

\* checkAppliesTo: an action without a list applies to everything.
CheckAppliesTo(actionNamespace, appliesTo, p) ==
  LET Skipped == {"any", "anyAuthenticated", "nil"}
      Listed(e, types) == \E type \in types : IsOf(e, type, actionNamespace)
      object == ParseEntity(p.object)
  IN /\ "principalTypes" \in DOMAIN appliesTo =>
          \A i \in DOMAIN p.subjects :
            LET e == ParseEntity(p.subjects[i])
            IN e.type \in Skipped \/ Listed(e, appliesTo.principalTypes)
     /\ "resourceTypes" \in DOMAIN appliesTo =>
          object.type = "nil" \/ Listed(object, appliesTo.resourceTypes)

\* checkAction.
CheckAction(text, p) ==
  LET e == ParseEntity(text)
      namespace == GetNamespace(e, DefNamespace)
  IN IF namespace \notin DOMAIN Namespaces THEN "invalid"
     ELSE IF GetId(e) \notin DOMAIN Namespaces[namespace].actions THEN "invalid"
     ELSE IF CheckAppliesTo(namespace, Namespaces[namespace].actions[GetId(e)], p) THEN "valid"
     ELSE "invalid"

\* checkOperand: the type of a literal or of what an entity's path leads to.  A
\* list or an object is an invalid operand.
SpecialEntities == {<<"subject">>, <<"action">>, <<"resource">>, <<"principal">>}
Literals == {"String", "Bool", "Date", "Long"}
CheckOperand(o) ==
  LET e == ParseEntity(o.text)
      namespace == GetNamespace(e, DefNamespace)
  IN IF o.kind # "entity" THEN {IF o.kind \in Literals THEN o.kind ELSE "error"}
     ELSE IF namespace \notin DOMAIN Namespaces THEN {"error"}
     ELSE IF e.id = <<>> THEN {"panic"}
     ELSE IF e.id \in SpecialEntities THEN {"Record"}
     ELSE IF GetType(e) \notin DOMAIN Namespaces[namespace].entityTypes THEN {"error"}
     ELSE IF IsQuoted(e) THEN {"Record"}
     ELSE {IF t = Nowhere THEN "error" ELSE t : t \in FindAttrType(Namespaces[namespace], e)}

\* The two conditions on co and in.
Contains(l, r) == (l = "Record" \/ r = "String") /\ (r = "Record" \/ l = "String")

\* checkExpression, of types that are no errors.
Suits(op, l, r) ==
  CASE op = "pr" -> TRUE
    [] op \in {"eq", "ne", "gt", "ge", "lt", "le"} -> l = r
    [] op \in {"sw", "ew"} -> l = "String" /\ r = "String"
    [] op \in {"co", "in"} -> Contains(l, r)
    [] OTHER -> TRUE

\* checkExpression: a value path is refused.
CheckExpression(exp) ==
  LET rights == IF exp.op = "pr" THEN {"na"} ELSE CheckOperand(exp.right)
      Result(l, r) == IF "panic" \in {l, r} THEN "panic"
                      ELSE IF "error" \notin {l, r} /\ Suits(exp.op, l, r) THEN "valid"
                      ELSE "invalid"
  IN IF exp.op = "path" THEN {"invalid"}
     ELSE {Result(l, r) : l \in CheckOperand(exp.left), r \in rights}

\* The expressions of a rule that have an entity.
FindEntityUses(exps) ==
  {exp \in exps : \/ exp.op = "path" \/ exp.left.kind = "entity"
                  \/ exp.op # "pr" /\ exp.right.kind = "entity"}

\* checkConditions: the results for those expressions; a rule that cannot be
\* parsed is an error.
CheckConditions(p) ==
  IF ~p.parses THEN {{"invalid"}}
  ELSE LET uses == FindEntityUses(p.expressions)
           Choices == {f \in [uses -> {"valid", "invalid", "panic"}] :
                         \A exp \in uses : f[exp] \in CheckExpression(exp)}
       IN {{f[exp] : exp \in uses} : f \in Choices}

\* ValidatePolicy.
ValidatePolicy(p) ==
  LET fixed == {CheckSubject(ParseEntity(p.subjects[i])) : i \in DOMAIN p.subjects}
                 \cup {CheckObject(p.object)}
                 \cup {CheckAction(p.actions[i], p) : i \in DOMAIN p.actions}
      Worst(S) == IF "panic" \in S THEN "panic" ELSE IF "invalid" \in S THEN "invalid" ELSE "valid"
  IN {Worst(fixed \cup conditions) : conditions \in CheckConditions(p)}
=============================================================================
