------------------------------ MODULE Formats -------------------------------
(***************************************************************************)
(* The texts of policies: conditions that grow token by token, the paths   *)
(* of entities that do, and whole policies, in Cedar, in IDQL and as the   *)
(* validator reads them.  Each state is about one of these.                *)
(***************************************************************************)
EXTENDS Conditions, CedarPolicies, PimValidator, Functions

CONSTANTS
  MaxPath,                            \* tokens of a path
  CedarSamples, IdqlSamples, PimSamples,  \* policies
  Principals, Actions, Resources      \* what requests are about: a type, an id
                                      \* and the entities it is in

\* What a state is about, with a Cedar policy mapped to IDQL and then back, or
\* an IDQL policy mapped to Cedar, the policies it was mapped to in output.
VARIABLES part, path, policy, output
vars == <<part, path, policy, output, clauses>>

None == <<>>

FormatsInit ==
  /\ part \in {"condition", "path", "cedar", "idql", "pim"}
  /\ path = <<>>
  /\ output = <<>>
  /\ clauses \in IF part = "condition" THEN {<<When(<<>>)>>, <<Unless(<<>>)>>} ELSE {<<When(<<>>)>>}
  /\ policy \in CASE part = "cedar" -> CedarSamples
                  [] part = "idql" -> IdqlSamples
                  [] part = "pim" -> PimSamples
                  [] OTHER -> {None}

WriteCondition == part = "condition" /\ Next /\ UNCHANGED <<part, path, policy, output>>

WritePath(t) ==
  /\ part = "path" /\ Len(path) < MaxPath
  /\ path' = Append(path, t)
  /\ UNCHANGED <<part, policy, output, clauses>>

\* The texts of an IDQL sample, which has the entities each names beside it.
Texts(p) ==
  [p EXCEPT !.subjects = [i \in DOMAIN @ |-> @[i].text],
            !.actions = [i \in DOMAIN @ |-> @[i].text], !.object = @.text]

FromCedar ==
  LET read == MapCedarPolicies(<<policy>>)
  IN /\ part = "cedar" /\ part' = IF read.panics THEN "cedar panicked" ELSE "cedar as idql"
     /\ output' = read.policies
     /\ UNCHANGED <<path, policy, clauses>>

ToCedar ==
  /\ \/ part = "cedar as idql" /\ part' = "cedar read back"
     \/ part = "idql" /\ part' = "idql as cedar"
  /\ output' = MapHexaPolicies(IF part = "idql" THEN <<Texts(policy)>> ELSE output)
  /\ UNCHANGED <<path, policy, clauses>>

FormatsNext ==
  \/ WriteCondition \/ FromCedar \/ ToCedar
  \/ \E t \in Separators \cup {"a", "any"} : WritePath(t)

FormatsSpec == FormatsInit /\ [][FormatsNext]_vars

-----------------------------------------------------------------------------
(* Properties. *)

\* A path as the tests write it: names with colons between them, the last of
\* which may be missing; a set may follow, or stand for, its types.
IsName(t) == t \notin Separators \cup {"any"}
IsPathText(t) ==
  t = <<"any">> \/ (t # <<>> /\ \A i \in DOMAIN t : IF i % 2 = 1 THEN IsName(t[i]) ELSE t[i] = ":")
IsCanonical(t) ==
  IsPathText(t) \/
  \E i \in DOMAIN t :
    /\ t[i] = "[" /\ t[Len(t)] = "]"
    /\ i = 1 \/ (i % 2 = 0 /\ IsPathText(SubSeq(t, 1, i - 1)) /\ t # <<"any">>)
    /\ LET members == SplitAt(SubSeq(t, i + 1, Len(t) - 1), ",")
       IN \A j \in DOMAIN members : IsPathText(members[j])
NamesTypes(t) == \A i \in DOMAIN t : t[i] = ":" => i > 1 /\ t[i - 1] \in {"a", "any"}

\* ParseEntity and String agree: a path as the tests write it is printed as it
\* was, and any other, whatever was dropped of it, as a path of the same entity.
PathsReadBack ==
  LET e == ParseEntity(path)
  IN part = "path" => /\ IsCanonical(path) => EntityString(e) = path
                      /\ NamesTypes(path) /\ (e.type = "is" => e.types # <<>>) =>
                           ParseEntity(EntityString(e)) = e

\* The Cedar policies that the texts between can carry: no effect but permit,
\* types with a namespace only in `==`, ids without separators, no action `in` a
\* single entity, no test without an IDQL form.
IsPlain(scope) ==
  /\ scope.op # "==" => Len(scope.type) <= 1 /\ \A i \in DOMAIN scope.of : Len(scope.of[i].type) = 1
  /\ \A i \in DOMAIN scope.of : Len(scope.of[i].id) = 1
IsMapped(clause) == \A leaf \in LeavesOf(clause.text) : leaf.c \notin Unmappable
IsCarried(p) ==
  /\ p.effect = "permit"
  /\ IsPlain(p.principal) /\ IsPlain(p.action) /\ IsPlain(p.resource)
  /\ p.action.op = "in" => p.action.isList
  /\ \A i \in DOMAIN p.clauses : IsMapped(p.clauses[i])

Bared(scope) == [scope EXCEPT !.of = [i \in DOMAIN @ |-> Uid(@[i].type, Unquoted(@[i].id))]]

\* A Cedar policy mapped to IDQL and back permits the same, but that the ids
\* of its scopes have come to be quoted twice.  The mapping panics only on an
\* unless clause of several that has a test without an IDQL form.
CedarReadsBack ==
  /\ part = "cedar panicked" =>
       /\ Len(policy.clauses) > 1
       /\ \E i \in DOMAIN policy.clauses :
            policy.clauses[i].kind = "unless" /\ ~IsMapped(policy.clauses[i])
  /\ part = "cedar read back" /\ IsCarried(policy) =>
       /\ Len(output) = 1
       /\ output[1].effect = policy.effect
       /\ Bared(output[1].principal) = policy.principal
       /\ Bared(output[1].action) = policy.action
       /\ Bared(output[1].resource) = policy.resource
       /\ LET U == SUBSET {Clause("a"), Clause("b")}
          IN Permits(output[1].clauses, U) = Permits(policy.clauses, U)

\* docs/EntityValueFormat.md says that the subject User:"alice" is the principal
\* == User::"alice" of Cedar: the text a principal is read as is that of the
\* same principal.
DocumentedIds ==
  part = "cedar read back" /\ policy.principal.op = "==" =>
    \A i \in DOMAIN output : output[i].principal = policy.principal

\* What a scope holds of, in Cedar.
Covers(scope, e) ==
  LET self == Uid(e.type, e.id)
      within == \E i \in DOMAIN scope.of : scope.of[i] \in e.in \cup {self}
  IN CASE scope.op = "All" -> TRUE
       [] scope.op = "==" -> scope.of[1] = self
       [] scope.op = "is" -> scope.type = e.type /\ (scope.of = <<>> \/ within)
       [] scope.op = "in" -> within
       [] OTHER -> FALSE

\* Texts that Cedar is given as they were meant: sets that are closed and have
\* one member, ids without quotation marks.
IsClosed(t) == "[" \in Range(t) => t[Len(t)] = "]"
IsWritten(t) == IsClosed(t) /\ "," \notin Range(t) /\ \A i \in DOMAIN t : ~IsMark(t[i])

\* The Cedar policies written for an IDQL policy permit a request if and only if
\* one of its subjects, one of its actions and its object name the request's;
\* a policy that lists no subjects or no actions is about all.  That is so when
\* all its texts are written as above.  A quoted id gets a second pair of marks
\* and a set of several is no scope of Cedar, so that with these less is
\* permitted than is named, unless the request's own id is in marks; a set left
\* open is dropped and then more may be.
GrantsTheSame ==
  LET NamedIn(list, e) == list = <<>> \/ \E i \in DOMAIN list : e \in list[i].names
      Named(e, a, r) == /\ NamedIn(policy.subjects, e) /\ NamedIn(policy.actions, a)
                        /\ r \in policy.object.names
      Granted(e, a, r) == \E i \in DOMAIN output : /\ Covers(output[i].principal, e)
                                                  /\ Covers(output[i].action, a)
                                                  /\ Covers(output[i].resource, r)
      texts == {policy.object.text} \cup {policy.subjects[i].text : i \in DOMAIN policy.subjects}
                 \cup {policy.actions[i].text : i \in DOMAIN policy.actions}
      IsBare(e) == ~IsMark(e.id[1])
  IN part = "idql as cedar" =>
       \A e \in Principals, a \in Actions, r \in Resources :
         /\ (\A t \in texts : IsWritten(t)) => Granted(e, a, r) = Named(e, a, r)
         /\ (\A t \in texts : IsClosed(t)) /\ IsBare(e) /\ IsBare(a) /\ IsBare(r) =>
              (Granted(e, a, r) => Named(e, a, r))

-----------------------------------------------------------------------------
(* What it is for a policy to conform to a policy information model. *)

Qualified(name) ==
  LET e == ParseEntity(name) IN <<GetNamespace(e, DefNamespace), GetType(e)>>
DeclaredTypes == UNION {{<<n, t>> : t \in DOMAIN Namespaces[n].entityTypes} : n \in DOMAIN Namespaces}

\* The paths that lead to an attribute, each with the attribute's type.
RECURSIVE PathsTo(_, _)
PathsTo(attributes, common) ==
  LET Of(holder) == PathsTo(holder.element, common) \cup PathsTo(holder.attributes, common)
  IN UNION {{<< <<a>>, attributes[a].type>>}
              \cup {<< <<a>> \o q[1], q[2]>> : q \in Of(attributes[a])}
              \cup (IF attributes[a].type \in DOMAIN common THEN Of(common[attributes[a].type]) ELSE {})
            : a \in DOMAIN attributes}

\* The types of an operand: none if it does not conform, several if attributes
\* of one name are in its reach.
Typed(o) ==
  LET e == ParseEntity(o.text)
      schema == Namespaces[GetNamespace(e, DefNamespace)]
  IN CASE o.kind # "entity" -> {o.kind} \cap Literals
       [] o.kind = "entity" /\ o.text \in SpecialEntities -> {"Record"}
       [] o.kind = "entity" /\ o.text \notin SpecialEntities ->
            IF Qualified(o.text) \notin DeclaredTypes THEN {}
            ELSE IF IsQuoted(e) THEN {"Record"}
            ELSE {q[2] : q \in {q \in PathsTo(schema.entityTypes[GetType(e)], schema.commonTypes) :
                                  q[1] = SplitAt(e.id, ".")}}

\* The operands that are looked at.
Compared(exp) == CASE exp.op = "path" -> {}
                   [] exp.op = "pr" -> {exp.left}
                   [] OTHER -> {exp.left, exp.right}

\* Operands, an entity among them, can be of one type which suits the operator.
Compares(exp) ==
  LET Suited(type) == CASE exp.op = "sw" -> type = "String"
                        [] exp.op = "in" -> type \in {"Record", "String"}
                        [] OTHER -> TRUE
  IN /\ exp.op # "path"
     /\ (\E o \in Compared(exp) : o.kind = "entity") =>
          \E type \in Typed(exp.left) : Suited(type) /\ \A o \in Compared(exp) : type \in Typed(o)

\* Among the types an action lists, those without a namespace are of its own.
Applies(name, types, namespace) ==
  \E type \in types : Qualified(name) = IF Len(type) > 1 THEN type ELSE <<namespace, type[1]>>

Performs(name, p) ==
  LET e == ParseEntity(name)
      namespace == GetNamespace(e, DefNamespace)
      action == Namespaces[namespace].actions[GetId(e)]
  IN /\ namespace \in DOMAIN Namespaces /\ GetId(e) \in DOMAIN Namespaces[namespace].actions
     /\ "principalTypes" \in DOMAIN action => \A i \in DOMAIN p.subjects :
          p.subjects[i] = <<"any">> \/ Applies(p.subjects[i], action.principalTypes, namespace)
     /\ "resourceTypes" \in DOMAIN action =>
          p.object = <<>> \/ Applies(p.object, action.resourceTypes, namespace)

Conforms(p) ==
  /\ \A i \in DOMAIN p.subjects : p.subjects[i] = <<"any">> \/ Qualified(p.subjects[i]) \in DeclaredTypes
  /\ p.object \in {<<>>, DefNamespace} \/ Qualified(p.object) \in DeclaredTypes
  /\ \A i \in DOMAIN p.actions : Performs(p.actions[i], p)
  /\ p.parses /\ \A exp \in p.expressions : Compares(exp)

\* An object, or an operand that is looked at, that has no id to name in an error.
Unnamed(p) ==
  \/ ParseEntity(p.object).type = "in"
  \/ p.parses /\ \E exp \in p.expressions : \E o \in Compared(exp) :
                    o.kind = "entity" /\ ParseEntity(o.text).id = <<>>

\* An operand that is looked at and reaches two attributes of one name: which
\* of them is found depends on the order in which Go visits a map.
Ambiguous(p) ==
  p.parses /\ \E exp \in p.expressions : \E o \in Compared(exp) : Cardinality(Typed(o)) > 1

\* The sets of verdicts that may be reached on a policy.
Verdicts(p) ==
  CASE Unnamed(p) -> {{"panic"}}
    [] ~Unnamed(p) /\ ~Conforms(p) -> {{"invalid"}}
    [] OTHER -> {{"valid"}} \cup (IF Ambiguous(p) THEN {{"valid", "invalid"}} ELSE {})

\* ValidatePolicy panics only on an entity without an id.  Else it reports no
\* error if and only if the policy conforms to the model, and its verdict does
\* not depend on the order in which attributes are visited where each operand
\* reaches one attribute; where one reaches two of a name, a policy that
\* conforms can be accepted and one that does not never is.
AcceptsWhatConforms == part = "pim" => ValidatePolicy(policy) \in Verdicts(policy)
=============================================================================
