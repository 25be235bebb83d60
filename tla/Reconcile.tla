----------------------------- MODULE Reconcile -----------------------------
(***************************************************************************)
(* Policies.ReconcilePolicies of pkg/hexapolicy/hexa_policy.go: the        *)
(* existing policies are loaded into two maps, by id and (those without    *)
(* one) by etag; each policy of the compare list is then looked up in the  *)
(* one and in the other, and what is left in the maps is to be deleted.    *)
(*                                                                         *)
(* The maps hold positions of the existing list. A difference is a record  *)
(* [type, exist, cmp, difs]: positions in the two lists (0 for none) and   *)
(* the kinds of difference. Go ranges over a map in any order, so the      *)
(* deletions come in any order.                                            *)
(***************************************************************************)
EXTENDS HexaPolicy, FiniteSets

CONSTANTS
  Policies,  \* the policies the lists are made of
  Lists      \* the policy lists given to ReconcilePolicies

ASSUME ListsAssumption == Lists \subseteq Seq(Policies)

VARIABLES
  existing,   \* p.Policies
  compare,    \* the argument comparePolicies
  diffsOnly,  \* the argument diffsOnly
  pc,         \* "load" | "match" | "deleteIds" | "deleteEtags" | "done"
  i,          \* the position the load or the match loop has reached
  idMap,      \* policyIdMap
  etagMap,    \* policyEtagMap
  res         \* the differences found so far

vars == <<existing, compare, diffsOnly, pc, i, idMap, etagMap, res>>
inputs == <<existing, compare, diffsOnly>>

Put(f, k, v) == [x \in DOMAIN f \union {k} |-> IF x = k THEN v ELSE f[x]]
Drop(f, k) == [x \in DOMAIN f \ {k} |-> f[x]]

Dif(type, exist, cmp, difs) ==
  [type |-> type, exist |-> exist, cmp |-> cmp, difs |-> difs]

\* Mutant: a diffsOnly report that keeps updates back as well.
Report_NoUpdates(dif) ==
  res' = IF diffsOnly /\ dif.type \in {"MATCHED", "UPDATE"}
         THEN res ELSE Append(res, dif)

\* MATCHED differences are reported only when diffsOnly is false.
Report(dif) ==
  res' = IF diffsOnly /\ dif.type = "MATCHED" THEN res ELSE Append(res, dif)

Init ==
  /\ existing \in Lists
  /\ compare \in Lists
  /\ diffsOnly \in BOOLEAN
  /\ pc = "load"
  /\ i = 1
  /\ idMap = << >>
  /\ etagMap = << >>
  /\ res = << >>

----------------------------------------------------------------------------
\* The first loop. A policy replaces one loaded before under the same key.
LoadById ==
  /\ pc = "load" /\ i \in DOMAIN existing
  /\ existing[i].id # NoId
  /\ idMap' = Put(idMap, existing[i].id, i)
  /\ i' = i + 1
  /\ UNCHANGED <<inputs, pc, etagMap, res>>

LoadByEtag ==
  /\ pc = "load" /\ i \in DOMAIN existing
  /\ existing[i].id = NoId
  /\ etagMap' = Put(etagMap, Etag(existing[i]), i)
  /\ i' = i + 1
  /\ UNCHANGED <<inputs, pc, idMap, res>>

LoadDone ==
  /\ pc = "load" /\ i \notin DOMAIN existing
  /\ pc' = "match"
  /\ i' = 1
  /\ UNCHANGED <<inputs, idMap, etagMap, res>>

\* The second loop, one policy of the compare list a step.
MatchedById == compare[i].id # NoId /\ compare[i].id \in DOMAIN idMap
MatchedByEtag == ~MatchedById /\ Etag(compare[i]) \in DOMAIN etagMap

\* Mutant: the policy found by id stays in the map.
MatchById_Kept ==
  /\ pc = "match" /\ i \in DOMAIN compare
  /\ MatchedById
  /\ LET k == idMap[compare[i].id]
         difs == Difs(compare[i], existing[k])
     IN  Report(Dif(IF difs = {} THEN "MATCHED" ELSE "UPDATE", k, i, difs))
  /\ i' = i + 1
  /\ UNCHANGED <<inputs, pc, idMap, etagMap>>

MatchById ==
  /\ pc = "match" /\ i \in DOMAIN compare
  /\ MatchedById
  /\ LET k == idMap[compare[i].id]
         difs == Difs(compare[i], existing[k])
     IN  Report(Dif(IF difs = {} THEN "MATCHED" ELSE "UPDATE", k, i, difs))
  /\ idMap' = Drop(idMap, compare[i].id)
  /\ i' = i + 1
  /\ UNCHANGED <<inputs, pc, etagMap>>

\* Mutant: the type of the difference is CompareEqual's, not ChangeTypeEqual's.
MatchByEtag_Equal ==
  /\ pc = "match" /\ i \in DOMAIN compare
  /\ MatchedByEtag
  /\ Report(Dif("EQUAL", etagMap[Etag(compare[i])], i, {}))
  /\ etagMap' = Drop(etagMap, Etag(compare[i]))
  /\ i' = i + 1
  /\ UNCHANGED <<inputs, pc, idMap>>

MatchByEtag ==
  /\ pc = "match" /\ i \in DOMAIN compare
  /\ MatchedByEtag
  /\ Report(Dif("MATCHED", etagMap[Etag(compare[i])], i, {}))
  /\ etagMap' = Drop(etagMap, Etag(compare[i]))
  /\ i' = i + 1
  /\ UNCHANGED <<inputs, pc, idMap>>

NoMatch ==
  /\ pc = "match" /\ i \in DOMAIN compare
  /\ ~MatchedById /\ ~MatchedByEtag
  /\ Report(Dif("NEW", 0, i, {}))
  /\ i' = i + 1
  /\ UNCHANGED <<inputs, pc, idMap, etagMap>>

MatchDone ==
  /\ pc = "match" /\ i \notin DOMAIN compare
  /\ pc' = "deleteIds"
  /\ UNCHANGED <<inputs, i, idMap, etagMap, res>>

\* The two closing loops: an implied delete for each policy left.
DeleteById(id) ==
  /\ pc = "deleteIds" /\ id \in DOMAIN idMap
  /\ Report(Dif("DELETE", idMap[id], 0, {}))
  /\ idMap' = Drop(idMap, id)
  /\ UNCHANGED <<inputs, pc, i, etagMap>>

DeleteIdsDone ==
  /\ pc = "deleteIds" /\ DOMAIN idMap = {}
  /\ pc' = "deleteEtags"
  /\ UNCHANGED <<inputs, i, idMap, etagMap, res>>

DeleteByEtag(e) ==
  /\ pc = "deleteEtags" /\ e \in DOMAIN etagMap
  /\ Report(Dif("DELETE", etagMap[e], 0, {}))
  /\ etagMap' = Drop(etagMap, e)
  /\ UNCHANGED <<inputs, pc, i, idMap>>

DeleteEtagsDone ==
  /\ pc = "deleteEtags" /\ DOMAIN etagMap = {}
  /\ pc' = "done"
  /\ UNCHANGED <<inputs, i, idMap, etagMap, res>>

Next ==
  \/ LoadById \/ LoadByEtag \/ LoadDone
  \/ MatchById \/ MatchByEtag \/ NoMatch \/ MatchDone
  \/ \E id \in DOMAIN idMap : DeleteById(id)
  \/ DeleteIdsDone
  \/ \E e \in DOMAIN etagMap : DeleteByEtag(e)
  \/ DeleteEtagsDone

Spec == Init /\ [][Next]_vars
----------------------------------------------------------------------------
DifTypes == {"NEW", "MATCHED", "UPDATE", "DELETE"}

Difference ==
  [type : DifTypes, exist : {0} \union DOMAIN existing,
   cmp : {0} \union DOMAIN compare,
   difs : SUBSET {"SUBJECT", "ACTION", "OBJECT", "CONDITION"}]

\* The type invariant: maps hold positions of the existing list, and a
\* difference names positions of the two lists.
TypeOK ==
  /\ existing \in Lists /\ compare \in Lists /\ diffsOnly \in BOOLEAN
  /\ pc \in {"load", "match", "deleteIds", "deleteEtags", "done"}
  /\ i \in Nat \ {0}
  /\ idMap \in [DOMAIN idMap -> DOMAIN existing]
  /\ etagMap \in [DOMAIN etagMap -> DOMAIN existing]
  /\ res \in Seq(Difference)

\* Two existing policies that are one entry of a map.
SameKey(p, q) ==
  /\ p.id = q.id
  /\ p.id = NoId => Etag(p) = Etag(q)

\* No later policy of the existing list replaces the k-th in its map.
Loaded(k) ==
  \A m \in DOMAIN existing : m > k => ~SameKey(existing[m], existing[k])

Named(k, type) == \E n \in DOMAIN res : res[n].exist = k /\ res[n].type = type

\* ReconcilePolicies reports at most one difference about an existing policy
\* or about a policy of the compare list: never an update and a delete of the
\* same one, however ids and etags repeat in either list.
HandledOnce ==
  \A m, n \in DOMAIN res :
    m # n => /\ res[m].exist = 0 \/ res[m].exist # res[n].exist
             /\ res[m].cmp = 0 \/ res[m].cmp # res[n].cmp

\* What becomes of the compare list's policy j when the differences are applied.
Answered(j) ==
  \/ \E n \in DOMAIN res : res[n].cmp = j /\ res[n].type \in {"NEW", "UPDATE"}
  \/ \E k \in DOMAIN existing :
       /\ CompareEqual(compare[j], existing[k])
       /\ ~Named(k, "DELETE") /\ ~Named(k, "UPDATE")

\* Applying the differences leaves the compare list's policies, up to what
\* Compare sees: each is created, updated to, or equal to a policy that is
\* kept; and each policy that was loaded and is kept is equal to one of them.
AppliedIsWanted ==
  pc = "done" =>
    /\ \A j \in DOMAIN compare : Answered(j)
    /\ \A k \in DOMAIN existing :
         Loaded(k) => \/ Named(k, "DELETE")
                      \/ Named(k, "UPDATE")
                      \/ \E j \in DOMAIN compare :
                           CompareEqual(compare[j], existing[k])

DistinctKeys(list) ==
  \A m, n \in DOMAIN list : m # n => ~SameKey(list[m], list[n])

IsPermutation(s, t) ==
  /\ Len(s) = Len(t)
  /\ \A p \in Policies : Cardinality({n \in DOMAIN s : s[n] = p})
                       = Cardinality({n \in DOMAIN t : t[n] = p})

\* Reconciling a list with itself in another order reports no difference,
\* when no two of its policies share an id or (without ids) an etag.
PermutationIsClean ==
  (pc = "done" /\ diffsOnly /\ DistinctKeys(existing)
     /\ IsPermutation(existing, compare)) => res = << >>

\* What the comment on Integration.ReconcilePolicy says of the result: it is
\* the set of differences. No reported difference means equal policies.
EveryDifferenceReported ==
  (pc = "done" /\ diffsOnly /\ res = << >>) =>
    \A k \in DOMAIN existing : \E j \in DOMAIN compare :
      PolicyEquals(compare[j], existing[k])
=============================================================================
