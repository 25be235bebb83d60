--------------------------- MODULE ResourceRoles ---------------------------
(***************************************************************************)
(* The resource action roles (RAR) of models/rar: the roles that may use   *)
(* an HTTP method on a resource, how they are made into policies, and      *)
(* which of them must be updated for a list of wanted policies.            *)
(*                                                                         *)
(* A resource's name is a sequence of words, "/" and "-". Roles are sets:  *)
(* SortCompact drops duplicates and blanks.                                *)
(***************************************************************************)
EXTENDS Naturals, Sequences, SequencesExt

CONSTANTS
  Methods,      \* the HTTP methods
  NoMethod,     \* getHttpMethod's "", for anything else
  itemMethod,   \* itemMethod[x]: the method an item's action names, in any case
  uriMethod,    \* uriMethod[x]: the method a policy's action "http:x" names
  uriOf,        \* uriOf[x]: the policy action "http:x" of an item's action x
  Resources,    \* the policies' resources, in alphabetic order
  Uris,         \* the policies' actions, in alphabetic order
  NoRar,        \* ResourceActionRoles{}
  NoName        \* its name

ASSUME MethodsAssumption ==
  /\ NoMethod \notin Methods
  /\ \A x \in DOMAIN itemMethod : itemMethod[x] \in Methods \union {NoMethod}
  /\ \A m \in Methods : m \in DOMAIN itemMethod /\ itemMethod[m] = m
  /\ \A x \in ToSet(Uris) : uriMethod[x] \in Methods \union {NoMethod}
  /\ \A x \in DOMAIN itemMethod : uriMethod[uriOf[x]] = itemMethod[x]

----------------------------------------------------------------------------
Stripped(resource) ==
  IF resource # << >> /\ Head(resource) = "/" THEN Tail(resource) ELSE resource

\* The name a RAR gives its resource.
Canonical(resource) == <<"/">> \o Stripped(resource)

Dashed(resource) ==
  [i \in DOMAIN Stripped(resource) |->
     IF Stripped(resource)[i] = "/" THEN "-" ELSE Stripped(resource)[i]]

\* An item is [resource, action, roles].
NewRar(item) ==
  IF itemMethod[item.action] = NoMethod \/ item.resource = << >> THEN NoRar
  ELSE [item EXCEPT !.resource = Canonical(@)]

Name(rar) ==
  IF rar = NoRar THEN NoName ELSE <<itemMethod[rar.action], Dashed(rar.resource)>>

KeyForPolicy(resource, uri) ==
  IF uriMethod[uri] = NoMethod \/ resource = << >> THEN NoName
  ELSE <<uriMethod[uri], Dashed(resource)>>

NewUriRar(resource, uri, roles) ==
  IF uriMethod[uri] = NoMethod THEN NoRar
  ELSE [resource |-> Canonical(resource), action |-> uriMethod[uri], roles |-> roles]

RolesOf(rar) == IF rar = NoRar THEN {} ELSE rar.roles

----------------------------------------------------------------------------
\* A policy is [resource, actions, subjects], the actions a set of uris.
PolicyOf(rar) ==
  IF rar = NoRar
  THEN [resource |-> << >>, actions |-> {}, subjects |-> {}]
  ELSE [resource |-> rar.resource, actions |-> {uriOf[rar.action]},
        subjects |-> rar.roles]

BuildPolicies(rars) == {PolicyOf(rar) : rar \in rars}

\* FlattenPolicy merges the policies for one action and resource.
FlattenPolicy(policies) ==
  LET named == {p \in policies : p.resource # << >>}
  IN  [k \in UNION {{p.resource} \X p.actions : p \in named} |->
         UNION {p.subjects : p \in {q \in named : q.resource = k[1] /\ k[2] \in q.actions}}]

\* sortPolicies: by resource, then action.
Before(k, l) ==
  LET place(s, x) == CHOOSE i \in DOMAIN s : s[i] = x
  IN  \/ place(Resources, k[1]) < place(Resources, l[1])
      \/ k[1] = l[1] /\ place(Uris, k[2]) < place(Uris, l[2])

Sorted(keys) ==
  CHOOSE list \in [1..Cardinality(keys) -> keys] :
    \A i, j \in DOMAIN list : i < j => Before(list[i], list[j])

\* mapResourceActionRoles: of RARs with one name the last one listed.
RarMaps(rars) ==
  LET names == {Name(r) : r \in rars}
  IN  {e \in [names -> rars] : \A n \in names : Name(e[n]) = n}

\* Mutant: roles that are only taken away are no change.
HasChanges_Added(existing, roles) == roles \ existing # {}

\* findRolesToUpdate; the roles to write are then the policy's.
HasChanges(existing, roles) == existing # roles

\* Mutant: what is updated is the item that was found for the key.
Updates_Found(existing, policies) ==
  LET flat == FlattenPolicy(policies)
      key(k) == KeyForPolicy(k[1], k[2])
      needed(k) ==
        key(k) \in DOMAIN existing /\ HasChanges(RolesOf(existing[key(k)]), flat[k])
      keys == Sorted({k \in DOMAIN flat : needed(k) /\ existing[key(k)] # NoRar})
  IN  [i \in DOMAIN keys |-> [existing[key(keys[i])] EXCEPT !.roles = flat[keys[i]]]]

\* Mutant: an item that does not exist is made.
Updates_All(existing, policies) ==
  LET flat == FlattenPolicy(policies)
      needed(k) ==
        LET key == KeyForPolicy(k[1], k[2])
        IN  key \in DOMAIN existing => HasChanges(RolesOf(existing[key]), flat[k])
      keys == Sorted({k \in DOMAIN flat : needed(k)})
  IN  [i \in DOMAIN keys |-> NewUriRar(keys[i][1], keys[i][2], flat[keys[i]])]

\* CalcResourceActionRolesForUpdate, from the map and the wanted policies.
Updates(existing, policies) ==
  LET flat == FlattenPolicy(policies)
      needed(k) ==
        LET key == KeyForPolicy(k[1], k[2])
        IN  key \in DOMAIN existing /\ HasChanges(RolesOf(existing[key]), flat[k])
      keys == Sorted({k \in DOMAIN flat : needed(k)})
  IN  [i \in DOMAIN keys |-> NewUriRar(keys[i][1], keys[i][2], flat[keys[i]])]
=============================================================================
