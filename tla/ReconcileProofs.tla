-------------------------- MODULE ReconcileProofs --------------------------
(***************************************************************************)
(* Proofs about Reconcile, for lists of any length over any policies.      *)
(***************************************************************************)
EXTENDS Reconcile, FiniteSetTheorems, TLAPS

\* The maps file a policy under its own key, and a policy that is in a map
\* is in no difference yet.
MapsOK ==
  /\ \A id \in DOMAIN idMap : existing[idMap[id]].id = id /\ id # NoId
  /\ \A e \in DOMAIN etagMap :
       existing[etagMap[e]].id = NoId /\ Etag(existing[etagMap[e]]) = e
  /\ \A n \in DOMAIN res :
       /\ \A id \in DOMAIN idMap : idMap[id] # res[n].exist
       /\ \A e \in DOMAIN etagMap : etagMap[e] # res[n].exist

\* Differences exist from the match loop on, and name only policies of the
\* compare list that the loop has passed.
ResBehind ==
  /\ pc = "load" => res = << >>
  /\ pc = "match" => \A n \in DOMAIN res : res[n].cmp < i

IInv == TypeOK /\ MapsOK /\ ResBehind /\ HandledOnce

\* What Report leaves in res: the old differences, and at most the new one.
LEMMA ReportFacts ==
  ASSUME TypeOK, NEW d \in Difference, Report(d)
  PROVE  /\ res' \in Seq(Difference)
         /\ DOMAIN res \subseteq DOMAIN res'
         /\ \A n \in DOMAIN res : res'[n] = res[n]
         /\ \A n \in DOMAIN res' : n \in DOMAIN res \/ (n = Len(res) + 1 /\ res'[n] = d)
<1>1. res \in Seq(Difference) BY DEF TypeOK
<1>2. CASE res' = res BY <1>1, <1>2
<1>3. CASE res' = Append(res, d) BY <1>1, <1>3
<1>. QED BY <1>2, <1>3 DEF Report

\* A difference other than MATCHED is always reported.
LEMMA Reported ==
  ASSUME TypeOK, NEW d \in Difference, Report(d), d.type # "MATCHED"
  PROVE  \E n \in DOMAIN res' : res'[n] = d
<1>1. res \in Seq(Difference) /\ res' = Append(res, d) BY DEF TypeOK, Report
<1>2. Len(res) + 1 \in DOMAIN res' /\ res'[Len(res) + 1] = d BY <1>1
<1>. QED BY <1>2

LEMMA Positions ==
  ASSUME TypeOK
  PROVE  /\ i \in Nat /\ DOMAIN existing \subseteq Nat /\ DOMAIN compare \subseteq Nat
         /\ \A n \in DOMAIN res : res[n].cmp \in Nat /\ res[n].exist \in Nat
<1>1. existing \in Seq(Policies) /\ compare \in Seq(Policies)
  BY ListsAssumption DEF TypeOK
<1>2. DOMAIN existing \subseteq Nat /\ DOMAIN compare \subseteq Nat
  BY <1>1
<1>3. \A n \in DOMAIN res : res[n] \in Difference
  BY DEF TypeOK
<1>. QED BY <1>2, <1>3 DEF TypeOK, Difference

\* Adding or removing a key of a map into a set S of positions.
LEMMA PutTyped ==
  ASSUME NEW S, NEW f, f \in [DOMAIN f -> S], NEW k, NEW v \in S
  PROVE  Put(f, k, v) \in [DOMAIN Put(f, k, v) -> S]
BY DEF Put

LEMMA DropTyped ==
  ASSUME NEW S, NEW f, f \in [DOMAIN f -> S], NEW k
  PROVE  Drop(f, k) \in [DOMAIN Drop(f, k) -> S]
BY DEF Drop

\* The differences the steps report are differences of the two lists.
LEMMA DifTyped ==
  ASSUME TypeOK, NEW t \in DifTypes,
         NEW k \in {0} \union DOMAIN existing, NEW j \in {0} \union DOMAIN compare,
         NEW D \in SUBSET {"SUBJECT", "ACTION", "OBJECT", "CONDITION"}
  PROVE  Dif(t, k, j, D) \in Difference
BY DEF Dif, Difference

LEMMA DifsTyped ==
  ASSUME NEW p, NEW q
  PROVE  Difs(p, q) \in SUBSET {"SUBJECT", "ACTION", "OBJECT", "CONDITION"}
BY DEF Difs

LEMMA TypeInit == Init => TypeOK
BY ListsAssumption DEF Init, TypeOK

LEMMA TypeStep == TypeOK /\ [Next]_vars => TypeOK'
<1>. SUFFICES ASSUME TypeOK, [Next]_vars PROVE TypeOK'
  OBVIOUS
<1>. USE DEF inputs
<1>1. CASE LoadById
  <2>1. idMap' \in [DOMAIN idMap' -> DOMAIN existing]
    <3>. DEFINE k == existing[i].id
    <3>1. idMap \in [DOMAIN idMap -> DOMAIN existing] /\ i \in DOMAIN existing
      BY <1>1 DEF LoadById, TypeOK
    <3>2. Put(idMap, k, i) \in [DOMAIN Put(idMap, k, i) -> DOMAIN existing]
      BY <3>1, PutTyped
    <3>. QED BY <1>1, <3>2 DEF LoadById
  <2>. QED BY <1>1, <2>1 DEF LoadById, TypeOK, Difference
<1>2. CASE LoadByEtag
  <2>1. etagMap' \in [DOMAIN etagMap' -> DOMAIN existing]
    <3>. DEFINE k == Etag(existing[i])
    <3>1. etagMap \in [DOMAIN etagMap -> DOMAIN existing] /\ i \in DOMAIN existing
      BY <1>2 DEF LoadByEtag, TypeOK
    <3>2. Put(etagMap, k, i) \in [DOMAIN Put(etagMap, k, i) -> DOMAIN existing]
      BY <3>1, PutTyped
    <3>. QED BY <1>2, <3>2 DEF LoadByEtag
  <2>. QED BY <1>2, <2>1 DEF LoadByEtag, TypeOK, Difference
<1>3. CASE LoadDone
  BY <1>3 DEF LoadDone, TypeOK, Difference
<1>4. CASE MatchById
  <2>. DEFINE k == idMap[compare[i].id]
              D == Difs(compare[i], existing[k])
              t == IF D = {} THEN "MATCHED" ELSE "UPDATE"
  <2>1. k \in DOMAIN existing /\ i \in DOMAIN compare
    BY <1>4 DEF MatchById, MatchedById, TypeOK
  <2>2. t \in DifTypes BY DEF DifTypes
  <2>3. Dif(t, k, i, D) \in Difference
    BY <2>1, <2>2, DifTyped, DifsTyped
  <2>4. res' \in Seq(Difference)
    BY <1>4, <2>3, ReportFacts DEF MatchById
  <2>5. idMap' \in [DOMAIN idMap' -> DOMAIN existing]
    BY <1>4, DropTyped DEF MatchById, TypeOK
  <2>. QED BY <1>4, <2>4, <2>5 DEF MatchById, TypeOK, Difference
<1>5. CASE MatchByEtag
  <2>. DEFINE k == etagMap[Etag(compare[i])]
  <2>1. k \in DOMAIN existing /\ i \in DOMAIN compare
    BY <1>5 DEF MatchByEtag, MatchedByEtag, TypeOK
  <2>2. Dif("MATCHED", k, i, {}) \in Difference
    BY <2>1, DifTyped DEF DifTypes
  <2>3. res' \in Seq(Difference)
    BY <1>5, <2>2, ReportFacts DEF MatchByEtag
  <2>4. etagMap' \in [DOMAIN etagMap' -> DOMAIN existing]
    BY <1>5, DropTyped DEF MatchByEtag, TypeOK
  <2>. QED BY <1>5, <2>3, <2>4 DEF MatchByEtag, TypeOK, Difference
<1>6. CASE NoMatch
  <2>1. Dif("NEW", 0, i, {}) \in Difference
    BY <1>6, DifTyped DEF DifTypes, NoMatch
  <2>2. res' \in Seq(Difference)
    BY <1>6, <2>1, ReportFacts DEF NoMatch
  <2>. QED BY <1>6, <2>2 DEF NoMatch, TypeOK, Difference
<1>7. CASE MatchDone
  BY <1>7 DEF MatchDone, TypeOK, Difference
<1>8. ASSUME NEW id \in DOMAIN idMap, DeleteById(id) PROVE TypeOK'
  <2>1. Dif("DELETE", idMap[id], 0, {}) \in Difference
    BY <1>8, DifTyped DEF DifTypes, TypeOK
  <2>2. res' \in Seq(Difference)
    BY <1>8, <2>1, ReportFacts DEF DeleteById
  <2>3. idMap' \in [DOMAIN idMap' -> DOMAIN existing]
    BY <1>8, DropTyped DEF DeleteById, TypeOK
  <2>. QED BY <1>8, <2>2, <2>3 DEF DeleteById, TypeOK, Difference
<1>9. CASE DeleteIdsDone
  BY <1>9 DEF DeleteIdsDone, TypeOK, Difference
<1>10. ASSUME NEW e \in DOMAIN etagMap, DeleteByEtag(e) PROVE TypeOK'
  <2>1. Dif("DELETE", etagMap[e], 0, {}) \in Difference
    BY <1>10, DifTyped DEF DifTypes, TypeOK
  <2>2. res' \in Seq(Difference)
    BY <1>10, <2>1, ReportFacts DEF DeleteByEtag
  <2>3. etagMap' \in [DOMAIN etagMap' -> DOMAIN existing]
    BY <1>10, DropTyped DEF DeleteByEtag, TypeOK
  <2>. QED BY <1>10, <2>2, <2>3 DEF DeleteByEtag, TypeOK, Difference
<1>11. CASE DeleteEtagsDone
  BY <1>11 DEF DeleteEtagsDone, TypeOK, Difference
<1>12. CASE UNCHANGED vars
  BY <1>12 DEF vars, TypeOK, Difference
<1>. QED
  BY <1>1, <1>2, <1>3, <1>4, <1>5, <1>6, <1>7, <1>8, <1>9, <1>10, <1>11, <1>12
  DEF Next

\* ReconcilePolicies keeps to its types: every step of both loops and of the
\* closing loops leaves maps of positions and differences about the lists.
THEOREM TypeCorrect == Spec => []TypeOK
BY TypeInit, TypeStep, PTL DEF Spec
----------------------------------------------------------------------------
\* A report about policies no difference names yet keeps HandledOnce.
LEMMA ReportOnce ==
  ASSUME TypeOK, HandledOnce, NEW d \in Difference, Report(d),
         \A n \in DOMAIN res : d.exist = 0 \/ res[n].exist # d.exist,
         \A n \in DOMAIN res : d.cmp = 0 \/ res[n].cmp # d.cmp
  PROVE  HandledOnce'
BY ReportFacts DEF HandledOnce

\* The positions that are still in a map.
InMaps(k) ==
  \/ \E id \in DOMAIN idMap : idMap[id] = k
  \/ \E e \in DOMAIN etagMap : etagMap[e] = k

\* Maps keep their keys as entries are put in and dropped, and a dropped
\* entry's policy is in neither map.
LEMMA DroppedId ==
  ASSUME MapsOK, NEW id \in DOMAIN idMap, NEW k, k = idMap[id],
         idMap' = Drop(idMap, id), UNCHANGED <<existing, etagMap>>
  PROVE  /\ \A x \in DOMAIN idMap' : x \in DOMAIN idMap /\ idMap'[x] = idMap[x]
         /\ ~InMaps(k)'
         /\ \A m : m # k => (InMaps(m) <=> InMaps(m)')
<1>1. DOMAIN idMap' = DOMAIN idMap \ {id} BY DEF Drop
<1>2. \A x \in DOMAIN idMap' : idMap'[x] = idMap[x] BY DEF Drop
<1>3. ~InMaps(k)' BY <1>1, <1>2 DEF MapsOK, InMaps
<1>4. \A m : m # k => (InMaps(m) <=> InMaps(m)') BY <1>1, <1>2 DEF InMaps
<1>. QED BY <1>1, <1>2, <1>3, <1>4

LEMMA DroppedEtag ==
  ASSUME MapsOK, NEW e \in DOMAIN etagMap, NEW k, k = etagMap[e],
         etagMap' = Drop(etagMap, e), UNCHANGED <<existing, idMap>>
  PROVE  /\ \A x \in DOMAIN etagMap' : x \in DOMAIN etagMap /\ etagMap'[x] = etagMap[x]
         /\ ~InMaps(k)'
         /\ \A m : m # k => (InMaps(m) <=> InMaps(m)')
<1>1. DOMAIN etagMap' = DOMAIN etagMap \ {e} BY DEF Drop
<1>2. \A x \in DOMAIN etagMap' : etagMap'[x] = etagMap[x] BY DEF Drop
<1>3. ~InMaps(k)' BY <1>1, <1>2 DEF MapsOK, InMaps
<1>4. \A m : m # k => (InMaps(m) <=> InMaps(m)') BY <1>1, <1>2 DEF InMaps
<1>. QED BY <1>1, <1>2, <1>3, <1>4

\* A step that reports d, about a policy that leaves its map or about none,
\* keeps the maps apart from the differences.
LEMMA ReportApart ==
  ASSUME TypeOK, MapsOK, NEW d \in Difference, Report(d),
         UNCHANGED existing,
         \A x \in DOMAIN idMap' : x \in DOMAIN idMap /\ idMap'[x] = idMap[x],
         \A x \in DOMAIN etagMap' : x \in DOMAIN etagMap /\ etagMap'[x] = etagMap[x],
         NEW k, k = d.exist, ~InMaps(k)'
  PROVE  MapsOK'
<1>1. \A n \in DOMAIN res' : (n \in DOMAIN res /\ res'[n] = res[n]) \/ res'[n] = d
  BY ReportFacts
<1>2. \A n \in DOMAIN res' :
        /\ \A id \in DOMAIN idMap' : idMap'[id] # res'[n].exist
        /\ \A e \in DOMAIN etagMap' : etagMap'[e] # res'[n].exist
  BY <1>1 DEF MapsOK, InMaps
<1>. QED BY <1>2 DEF MapsOK

LEMMA IInvInit == Init => IInv
BY TypeInit DEF Init, IInv, MapsOK, ResBehind, HandledOnce

\* What is reported at position i is behind the position that follows.
LEMMA BehindNext ==
  ASSUME TypeOK, ResBehind, NEW d \in Difference, Report(d), d.cmp = i,
         pc = "match", pc' = pc, i' = i + 1
  PROVE  ResBehind'
<1>1. i \in Nat /\ \A n \in DOMAIN res : res[n].cmp \in Nat /\ res[n].cmp < i
  BY Positions DEF ResBehind
<1>2. \A n \in DOMAIN res' : (n \in DOMAIN res /\ res'[n] = res[n]) \/ res'[n] = d
  BY ReportFacts
<1>3. \A n \in DOMAIN res' : res'[n].cmp < i + 1 BY <1>1, <1>2
<1>. QED BY <1>3 DEF ResBehind

LEMMA IInvStep == IInv /\ [Next]_vars => IInv'
<1>. SUFFICES ASSUME IInv, [Next]_vars PROVE MapsOK' /\ ResBehind' /\ HandledOnce'
  BY TypeStep DEF IInv
<1>. USE DEF IInv, inputs
<1>1. CASE LoadById
  <2>1. MapsOK' BY <1>1 DEF LoadById, MapsOK, ResBehind, TypeOK, Put
  <2>2. ResBehind' BY <1>1 DEF LoadById, ResBehind
  <2>3. HandledOnce' BY <1>1 DEF LoadById, HandledOnce
  <2>. QED BY <2>1, <2>2, <2>3
<1>2. CASE LoadByEtag
  <2>1. MapsOK' BY <1>2 DEF LoadByEtag, MapsOK, ResBehind, TypeOK, Put
  <2>2. ResBehind' BY <1>2 DEF LoadByEtag, ResBehind
  <2>3. HandledOnce' BY <1>2 DEF LoadByEtag, HandledOnce
  <2>. QED BY <2>1, <2>2, <2>3
<1>3. CASE LoadDone
  BY <1>3 DEF LoadDone, MapsOK, ResBehind, HandledOnce
<1>4. CASE MatchById
  <2>. DEFINE k == idMap[compare[i].id]
              D == Difs(compare[i], existing[k])
              d == Dif(IF D = {} THEN "MATCHED" ELSE "UPDATE", k, i, D)
  <2>1. compare[i].id \in DOMAIN idMap /\ k \in DOMAIN existing /\ i \in DOMAIN compare
    BY <1>4 DEF MatchById, MatchedById, TypeOK
  <2>2. d \in Difference /\ d.exist = k /\ d.cmp = i
    BY <2>1, DifTyped, DifsTyped DEF Dif, DifTypes
  <2>3. Report(d) /\ idMap' = Drop(idMap, compare[i].id)
        /\ UNCHANGED <<existing, compare, pc, etagMap>> /\ i' = i + 1 /\ pc = "match"
    BY <1>4 DEF MatchById
  <2>4. MapsOK'
    <3>1. /\ \A x \in DOMAIN idMap' : x \in DOMAIN idMap /\ idMap'[x] = idMap[x]
          /\ \A m : m = k => ~InMaps(m)'
      BY <2>1, <2>3, DroppedId
    <3>. QED BY <2>2, <2>3, <3>1, ReportApart
  <2>5. ResBehind' BY <2>2, <2>3, BehindNext
  <2>6. HandledOnce'
    <3>1. \A n \in DOMAIN res : res[n].exist # k BY <2>1 DEF MapsOK
    <3>2. \A n \in DOMAIN res : res[n].cmp # i
      BY <2>3 DEF ResBehind, TypeOK, Difference
    <3>. QED BY <2>2, <2>3, <3>1, <3>2, ReportOnce
  <2>. QED BY <2>4, <2>5, <2>6
<1>5. CASE MatchByEtag
  <2>. DEFINE k == etagMap[Etag(compare[i])]
              d == Dif("MATCHED", k, i, {})
  <2>1. Etag(compare[i]) \in DOMAIN etagMap /\ k \in DOMAIN existing /\ i \in DOMAIN compare
    BY <1>5 DEF MatchByEtag, MatchedByEtag, TypeOK
  <2>2. d \in Difference /\ d.exist = k /\ d.cmp = i
    BY <2>1, DifTyped DEF Dif, DifTypes
  <2>3. Report(d) /\ etagMap' = Drop(etagMap, Etag(compare[i]))
        /\ UNCHANGED <<existing, compare, pc, idMap>> /\ i' = i + 1 /\ pc = "match"
    BY <1>5 DEF MatchByEtag
  <2>4. MapsOK'
    <3>1. /\ \A x \in DOMAIN etagMap' : x \in DOMAIN etagMap /\ etagMap'[x] = etagMap[x]
          /\ \A m : m = k => ~InMaps(m)'
      BY <2>1, <2>3, DroppedEtag
    <3>. QED BY <2>2, <2>3, <3>1, ReportApart
  <2>5. ResBehind' BY <2>2, <2>3, BehindNext
  <2>6. HandledOnce'
    <3>1. \A n \in DOMAIN res : res[n].exist # k BY <2>1 DEF MapsOK
    <3>2. \A n \in DOMAIN res : res[n].cmp # i
      BY <2>3 DEF ResBehind, TypeOK, Difference
    <3>. QED BY <2>2, <2>3, <3>1, <3>2, ReportOnce
  <2>. QED BY <2>4, <2>5, <2>6
<1>6. CASE NoMatch
  <2>. DEFINE d == Dif("NEW", 0, i, {})
  <2>1. d \in Difference /\ d.exist = 0 /\ d.cmp = i
    BY <1>6, DifTyped DEF Dif, DifTypes, NoMatch
  <2>2. Report(d) /\ UNCHANGED <<existing, compare, pc, idMap, etagMap>>
        /\ i' = i + 1 /\ pc = "match"
    BY <1>6 DEF NoMatch
  <2>3. MapsOK'
    <3>1. ~InMaps(0)' BY <2>2 DEF InMaps, TypeOK
    <3>. QED BY <2>1, <2>2, <3>1, ReportApart
  <2>4. ResBehind' BY <2>1, <2>2, BehindNext
  <2>5. HandledOnce'
    <3>1. \A n \in DOMAIN res : res[n].cmp # i
      BY <2>2 DEF ResBehind, TypeOK, Difference
    <3>. QED BY <2>1, <2>2, <3>1, ReportOnce
  <2>. QED BY <2>3, <2>4, <2>5
<1>7. CASE MatchDone
  BY <1>7 DEF MatchDone, MapsOK, ResBehind, HandledOnce
<1>8. ASSUME NEW id \in DOMAIN idMap, DeleteById(id)
      PROVE  MapsOK' /\ ResBehind' /\ HandledOnce'
  <2>. DEFINE k == idMap[id]
              d == Dif("DELETE", k, 0, {})
  <2>1. d \in Difference /\ d.exist = k /\ d.cmp = 0
    BY DifTyped DEF Dif, DifTypes, TypeOK
  <2>2. Report(d) /\ idMap' = Drop(idMap, id)
        /\ UNCHANGED <<existing, compare, pc, etagMap>> /\ pc = "deleteIds"
    BY <1>8 DEF DeleteById
  <2>3. MapsOK'
    <3>1. /\ \A x \in DOMAIN idMap' : x \in DOMAIN idMap /\ idMap'[x] = idMap[x]
          /\ \A m : m = k => ~InMaps(m)'
      BY <2>2, DroppedId
    <3>. QED BY <2>1, <2>2, <3>1, ReportApart
  <2>4. ResBehind' BY <2>2 DEF ResBehind
  <2>5. HandledOnce'
    <3>1. \A n \in DOMAIN res : res[n].exist # k BY DEF MapsOK
    <3>. QED BY <2>1, <2>2, <3>1, ReportOnce
  <2>. QED BY <2>3, <2>4, <2>5
<1>9. CASE DeleteIdsDone
  BY <1>9 DEF DeleteIdsDone, MapsOK, ResBehind, HandledOnce
<1>10. ASSUME NEW e \in DOMAIN etagMap, DeleteByEtag(e)
       PROVE  MapsOK' /\ ResBehind' /\ HandledOnce'
  <2>. DEFINE k == etagMap[e]
              d == Dif("DELETE", k, 0, {})
  <2>1. d \in Difference /\ d.exist = k /\ d.cmp = 0
    BY DifTyped DEF Dif, DifTypes, TypeOK
  <2>2. Report(d) /\ etagMap' = Drop(etagMap, e)
        /\ UNCHANGED <<existing, compare, pc, idMap>> /\ pc = "deleteEtags"
    BY <1>10 DEF DeleteByEtag
  <2>3. MapsOK'
    <3>1. /\ \A x \in DOMAIN etagMap' : x \in DOMAIN etagMap /\ etagMap'[x] = etagMap[x]
          /\ \A m : m = k => ~InMaps(m)'
      BY <2>2, DroppedEtag
    <3>. QED BY <2>1, <2>2, <3>1, ReportApart
  <2>4. ResBehind' BY <2>2 DEF ResBehind
  <2>5. HandledOnce'
    <3>1. \A n \in DOMAIN res : res[n].exist # k BY DEF MapsOK
    <3>. QED BY <2>1, <2>2, <3>1, ReportOnce
  <2>. QED BY <2>3, <2>4, <2>5
<1>11. CASE DeleteEtagsDone
  BY <1>11 DEF DeleteEtagsDone, MapsOK, ResBehind, HandledOnce
<1>12. CASE UNCHANGED vars
  BY <1>12 DEF vars, MapsOK, ResBehind, HandledOnce
<1>. QED
  BY <1>1, <1>2, <1>3, <1>4, <1>5, <1>6, <1>7, <1>8, <1>9, <1>10, <1>11, <1>12
  DEF Next

\* No policy of either list is in two differences of ReconcilePolicies: an
\* existing policy is never both updated and deleted, and no wanted policy
\* is created twice, whatever ids and etags repeat.
THEOREM HandledOnceCorrect == Spec => []HandledOnce
<1>1. IInv => HandledOnce BY DEF IInv
<1>. QED BY IInvInit, IInvStep, <1>1, PTL DEF Spec
----------------------------------------------------------------------------
\* A policy of the compare list is answered for good: by a NEW or an UPDATE,
\* or by an equal policy that has left the maps and is not to be touched.
Settled(j) ==
  \/ \E n \in DOMAIN res : res[n].cmp = j /\ res[n].type \in {"NEW", "UPDATE"}
  \/ \E k \in DOMAIN existing :
       /\ CompareEqual(compare[j], existing[k])
       /\ ~InMaps(k) /\ ~Named(k, "DELETE") /\ ~Named(k, "UPDATE")

\* An existing policy waits in its map until it is deleted, updated or found
\* equal to a wanted one.
Tracked(k) ==
  \/ InMaps(k) \/ Named(k, "DELETE") \/ Named(k, "UPDATE")
  \/ \E j \in DOMAIN compare : CompareEqual(compare[j], existing[k])

Progress ==
  /\ pc # "load" => \A j \in DOMAIN compare : (pc = "match" => j < i) => Settled(j)
  /\ \A k \in DOMAIN existing : Loaded(k) /\ (pc = "load" => k < i) => Tracked(k)
  /\ pc \in {"deleteEtags", "done"} => DOMAIN idMap = {}
  /\ pc = "done" => DOMAIN etagMap = {}

\* A step that reports d about a policy that leaves its map, or about none,
\* keeps what is settled and what is tracked.
LEMMA ReportKeeps ==
  ASSUME TypeOK, MapsOK, NEW d \in Difference, Report(d), UNCHANGED inputs,
         NEW k, k = d.exist, ~InMaps(k)', k = 0 \/ InMaps(k),
         \A m : m # k => (InMaps(m) <=> InMaps(m)')
  PROVE  /\ \A j \in DOMAIN compare : Settled(j) => Settled(j)'
         /\ \A m \in DOMAIN existing : m # k /\ Tracked(m) => Tracked(m)'
<1>1. /\ DOMAIN res \subseteq DOMAIN res'
      /\ \A n \in DOMAIN res : res'[n] = res[n]
      /\ \A n \in DOMAIN res' : (n \in DOMAIN res /\ res'[n] = res[n]) \/ res'[n] = d
  BY ReportFacts
<1>2. \A m, t : m # k => (Named(m, t) <=> Named(m, t)')
  BY <1>1 DEF Named
<1>3. ASSUME NEW j \in DOMAIN compare, Settled(j) PROVE Settled(j)'
  <2>1. CASE \E n \in DOMAIN res : res[n].cmp = j /\ res[n].type \in {"NEW", "UPDATE"}
    BY <1>1, <2>1 DEF Settled
  <2>2. ASSUME NEW m \in DOMAIN existing, CompareEqual(compare[j], existing[m]),
               ~InMaps(m), ~Named(m, "DELETE"), ~Named(m, "UPDATE")
        PROVE  Settled(j)'
    <3>1. m # k
      BY <2>2, ListsAssumption DEF TypeOK
    <3>2. ~InMaps(m)' /\ ~Named(m, "DELETE")' /\ ~Named(m, "UPDATE")'
      BY <2>2, <3>1, <1>2
    <3>3. CompareEqual(compare[j], existing[m])'
      BY <2>2 DEF inputs, CompareEqual, Difs, PolicyEquals, Etag, SubjectsEqual,
        ActionsEqual, ObjectsEqual, ConditionsEqual, ScopesEqual, ConditionDif,
        SameMembers, EqualFold, ConditionInfoEquals, ScopeInfoEquals
    <3>. QED BY <3>2, <3>3 DEF Settled, inputs
  <2>. QED BY <1>3, <2>1, <2>2 DEF Settled
<1>4. ASSUME NEW m \in DOMAIN existing, m # k, Tracked(m) PROVE Tracked(m)'
  BY <1>2, <1>4 DEF Tracked, inputs
<1>. QED BY <1>3, <1>4

\* A step of the match loop makes progress when its own policy is settled and
\* the policy it takes out of a map is tracked still.
LEMMA MatchProgress ==
  ASSUME TypeOK, MapsOK, Progress, pc = "match", UNCHANGED <<inputs, pc>>,
         i' = i + 1, NEW d \in Difference, Report(d),
         NEW k, k = d.exist, ~InMaps(k)', k = 0 \/ InMaps(k),
         \A m : m # k => (InMaps(m) <=> InMaps(m)'),
         NEW p, p = i, Settled(p)', k = 0 \/ Tracked(k)'
  PROVE  Progress'
<1>1. /\ \A j \in DOMAIN compare : Settled(j) => Settled(j)'
      /\ \A m \in DOMAIN existing : m # k /\ Tracked(m) => Tracked(m)'
  BY ReportKeeps
<1>2. \A j \in DOMAIN compare : j < i + 1 => Settled(j)'
  <2>1. \A j \in DOMAIN compare : j < i + 1 => j < i \/ j = i
    BY Positions
  <2>2. \A j \in DOMAIN compare : j < i => Settled(j)
    BY DEF Progress
  <2>. QED BY <1>1, <2>1, <2>2
<1>3. \A m \in DOMAIN existing : Loaded(m) => Tracked(m)'
  <2>1. \A m \in DOMAIN existing : Loaded(m) => Tracked(m)
    BY DEF Progress
  <2>2. \A m \in DOMAIN existing : m # 0
    BY ListsAssumption DEF TypeOK
  <2>. QED BY <1>1, <2>1, <2>2
<1>. QED BY <1>2, <1>3 DEF Progress, inputs, Loaded

LEMMA ProgressInit == Init => Progress
BY ListsAssumption DEF Init, Progress

LEMMA ProgressStep == IInv /\ Progress /\ [Next]_vars => Progress'
<1>. SUFFICES ASSUME IInv, Progress, [Next]_vars PROVE Progress'
  OBVIOUS
<1>0. TypeOK /\ MapsOK /\ ResBehind
  BY DEF IInv
<1>1. CASE LoadById
  <2>1. ASSUME NEW k \in DOMAIN existing, Loaded(k), k < i + 1 PROVE Tracked(k)'
    <3>1. CASE k = i
      BY <1>1, <3>1 DEF LoadById, Put, Tracked, InMaps
    <3>2. CASE k # i
      <4>1. Tracked(k) /\ i > k
        BY <1>0, <1>1, <2>1, <3>2, Positions DEF Progress, LoadById
      <4>2. ~SameKey(existing[i], existing[k])
        BY <1>1, <2>1, <4>1 DEF Loaded, LoadById
      <4>3. CASE InMaps(k)
        <5>1. PICK x : \/ x \in DOMAIN idMap /\ idMap[x] = k
                       \/ x \in DOMAIN etagMap /\ etagMap[x] = k
          BY <4>3 DEF InMaps
        <5>2. x \in DOMAIN idMap /\ idMap[x] = k => x # existing[i].id
          BY <1>0, <1>1, <4>2 DEF MapsOK, SameKey, LoadById
        <5>3. InMaps(k)'
          BY <1>1, <5>1, <5>2 DEF LoadById, Put, InMaps
        <5>. QED BY <5>3 DEF Tracked
      <4>4. CASE ~InMaps(k)
        BY <1>1, <4>1, <4>4 DEF LoadById, Tracked, Named, inputs
      <4>. QED BY <4>3, <4>4
    <3>. QED BY <3>1, <3>2
  <2>. QED BY <1>1, <2>1 DEF LoadById, Progress, inputs, Loaded
<1>2. CASE LoadByEtag
  <2>1. ASSUME NEW k \in DOMAIN existing, Loaded(k), k < i + 1 PROVE Tracked(k)'
    <3>1. CASE k = i
      BY <1>2, <3>1 DEF LoadByEtag, Put, Tracked, InMaps
    <3>2. CASE k # i
      <4>1. Tracked(k) /\ i > k
        BY <1>0, <1>2, <2>1, <3>2, Positions DEF Progress, LoadByEtag
      <4>2. ~SameKey(existing[i], existing[k])
        BY <1>2, <2>1, <4>1 DEF Loaded, LoadByEtag
      <4>3. CASE InMaps(k)
        <5>1. PICK x : \/ x \in DOMAIN idMap /\ idMap[x] = k
                       \/ x \in DOMAIN etagMap /\ etagMap[x] = k
          BY <4>3 DEF InMaps
        <5>2. x \in DOMAIN etagMap /\ etagMap[x] = k => x # Etag(existing[i])
          BY <1>0, <1>2, <4>2 DEF MapsOK, SameKey, LoadByEtag
        <5>3. InMaps(k)'
          BY <1>2, <5>1, <5>2 DEF LoadByEtag, Put, InMaps
        <5>. QED BY <5>3 DEF Tracked
      <4>4. CASE ~InMaps(k)
        BY <1>2, <4>1, <4>4 DEF LoadByEtag, Tracked, Named, inputs
      <4>. QED BY <4>3, <4>4
    <3>. QED BY <3>1, <3>2
  <2>. QED BY <1>2, <2>1 DEF LoadByEtag, Progress, inputs, Loaded
<1>3. CASE LoadDone
  <2>1. \A k \in DOMAIN existing : k < i
    <3>1. existing \in Seq(Policies) BY <1>0, ListsAssumption DEF TypeOK
    <3>. QED BY <1>0, <1>3, <3>1 DEF LoadDone, TypeOK
  <2>2. \A j \in DOMAIN compare : j >= 1
    <3>1. compare \in Seq(Policies) BY <1>0, ListsAssumption DEF TypeOK
    <3>. QED BY <3>1
  <2>3. \A k \in DOMAIN existing : Loaded(k) => Tracked(k)
    BY <2>1 DEF Progress
  <2>4. \A k \in DOMAIN existing : Tracked(k) => Tracked(k)'
    BY <1>3 DEF LoadDone, inputs, Tracked, InMaps, Named
  <2>5. \A k \in DOMAIN existing : Loaded(k)' => Loaded(k)
    BY <1>3 DEF LoadDone, inputs, Loaded
  <2>6. \A j \in DOMAIN compare : ~(j < 1)
    BY <2>2, ListsAssumption, <1>0 DEF TypeOK
  <2>7. pc' = "match" /\ i' = 1 /\ UNCHANGED inputs
    BY <1>3 DEF LoadDone
  <2>. QED BY <2>3, <2>4, <2>5, <2>6, <2>7 DEF Progress, inputs
<1>4. CASE MatchById
  <2>1. PICK k : k = idMap[compare[i].id] OBVIOUS
  <2>0. PICK j : j = i OBVIOUS
  <2>2. PICK D : D = Difs(compare[i], existing[k]) OBVIOUS
  <2>3. PICK d : d = Dif(IF D = {} THEN "MATCHED" ELSE "UPDATE", k, i, D) OBVIOUS
  <2>4. compare[i].id \in DOMAIN idMap /\ k \in DOMAIN existing /\ i \in DOMAIN compare
    BY <1>0, <1>4, <2>1 DEF MatchById, MatchedById, TypeOK
  <2>5. d \in Difference /\ d.exist = k /\ d.cmp = i
        /\ d.type = IF D = {} THEN "MATCHED" ELSE "UPDATE"
    BY <1>0, <2>2, <2>3, <2>4, DifTyped, DifsTyped DEF Dif, DifTypes
  <2>6. Report(d) /\ idMap' = Drop(idMap, compare[i].id)
        /\ UNCHANGED <<inputs, pc, etagMap>> /\ i' = i + 1 /\ pc = "match"
    BY <1>4, <2>1, <2>2, <2>3 DEF MatchById
  <2>7. InMaps(k) /\ ~InMaps(k)' /\ \A m : m # k => (InMaps(m) <=> InMaps(m)')
    BY <1>0, <2>1, <2>4, <2>6, DroppedId DEF inputs, InMaps
  <2>8. Settled(j)' /\ Tracked(k)'
    <3>1. CASE D # {}
      <4>1. \E n \in DOMAIN res' : res'[n] = d BY <1>0, <2>5, <2>6, <3>1, Reported
      <4>. QED BY <2>0, <2>5, <3>1, <4>1 DEF Settled, Tracked, Named
    <3>2. CASE D = {}
      <4>1. CompareEqual(compare[i], existing[k])
        BY <2>2, <3>2 DEF CompareEqual
      <4>2. \A n \in DOMAIN res : res[n].exist # k
        BY <1>0, <2>1, <2>4 DEF MapsOK
      <4>3. \A n \in DOMAIN res' : res'[n].exist = k => res'[n].type = "MATCHED"
        BY <1>0, <2>5, <2>6, <3>2, <4>2, ReportFacts
      <4>4. ~Named(k, "DELETE")' /\ ~Named(k, "UPDATE")'
        BY <4>3 DEF Named
      <4>. QED BY <2>0, <2>4, <2>6, <2>7, <4>1, <4>4 DEF Settled, Tracked, inputs
    <3>. QED BY <3>1, <3>2
  <2>. QED BY <1>0, <2>0, <2>5, <2>6, <2>7, <2>8, MatchProgress
<1>5. CASE MatchByEtag
  <2>0. PICK j : j = i OBVIOUS
  <2>1. PICK k : k = etagMap[Etag(compare[i])] OBVIOUS
  <2>2. PICK d : d = Dif("MATCHED", k, i, {}) OBVIOUS
  <2>3. Etag(compare[i]) \in DOMAIN etagMap /\ k \in DOMAIN existing /\ i \in DOMAIN compare
    BY <1>0, <1>5, <2>1 DEF MatchByEtag, MatchedByEtag, TypeOK
  <2>4. d \in Difference /\ d.exist = k /\ d.cmp = i /\ d.type = "MATCHED"
    BY <1>0, <2>2, <2>3, DifTyped DEF Dif, DifTypes
  <2>5. Report(d) /\ etagMap' = Drop(etagMap, Etag(compare[i]))
        /\ UNCHANGED <<inputs, pc, idMap>> /\ i' = i + 1 /\ pc = "match"
    BY <1>5, <2>1, <2>2 DEF MatchByEtag
  <2>6. InMaps(k) /\ ~InMaps(k)' /\ \A m : m # k => (InMaps(m) <=> InMaps(m)')
    BY <1>0, <2>1, <2>3, <2>5, DroppedEtag DEF inputs, InMaps
  <2>7. Settled(j)' /\ Tracked(k)'
    <3>1. CompareEqual(compare[i], existing[k])
      BY <1>0, <2>1, <2>3 DEF MapsOK, CompareEqual, Difs, PolicyEquals
    <3>2. \A n \in DOMAIN res : res[n].exist # k
      BY <1>0, <2>1, <2>3 DEF MapsOK
    <3>3. \A n \in DOMAIN res' : res'[n].exist = k => res'[n].type = "MATCHED"
      BY <1>0, <2>4, <2>5, <3>2, ReportFacts
    <3>4. ~Named(k, "DELETE")' /\ ~Named(k, "UPDATE")'
      BY <3>3 DEF Named
    <3>. QED BY <2>0, <2>3, <2>5, <2>6, <3>1, <3>4 DEF Settled, Tracked, inputs
  <2>. QED BY <1>0, <2>0, <2>4, <2>5, <2>6, <2>7, MatchProgress
<1>6. CASE NoMatch
  <2>0. PICK j : j = i OBVIOUS
  <2>1. PICK d : d = Dif("NEW", 0, i, {}) OBVIOUS
  <2>2. d \in Difference /\ d.exist = 0 /\ d.cmp = i /\ d.type = "NEW"
    BY <1>0, <1>6, <2>1, DifTyped DEF Dif, DifTypes, NoMatch
  <2>3. Report(d) /\ UNCHANGED <<inputs, pc, idMap, etagMap>>
        /\ i' = i + 1 /\ pc = "match"
    BY <1>6, <2>1 DEF NoMatch
  <2>4. ~InMaps(0)'
    <3>1. \A k \in DOMAIN existing : k # 0
      BY <1>0, ListsAssumption DEF TypeOK
    <3>. QED BY <1>0, <2>3, <3>1 DEF InMaps, TypeOK
  <2>5. \A m : InMaps(m) <=> InMaps(m)' BY <2>3 DEF InMaps
  <2>6. Settled(j)'
    <3>1. \E n \in DOMAIN res' : res'[n] = d BY <1>0, <2>2, <2>3, Reported
    <3>. QED BY <2>0, <2>2, <3>1 DEF Settled
  <2>. QED BY <1>0, <2>0, <2>2, <2>3, <2>4, <2>5, <2>6, MatchProgress
<1>7. CASE MatchDone
  <2>1. \A m \in DOMAIN compare : m < i
    <3>1. compare \in Seq(Policies) BY <1>0, ListsAssumption DEF TypeOK
    <3>. QED BY <1>0, <1>7, <3>1 DEF MatchDone, TypeOK
  <2>2. \A m \in DOMAIN compare : Settled(m)
    BY <1>7, <2>1 DEF MatchDone, Progress
  <2>3. \A m \in DOMAIN compare : Settled(m) => Settled(m)'
    BY <1>7 DEF MatchDone, Settled, InMaps, Named, inputs
  <2>4. \A m \in DOMAIN existing : Tracked(m) => Tracked(m)'
    BY <1>7 DEF MatchDone, Tracked, InMaps, Named, inputs
  <2>. QED BY <1>7, <2>2, <2>3, <2>4 DEF MatchDone, Progress, inputs, Loaded
<1>8. ASSUME NEW id \in DOMAIN idMap, DeleteById(id) PROVE Progress'
  <2>1. PICK k : k = idMap[id] OBVIOUS
  <2>2. PICK d : d = Dif("DELETE", k, 0, {}) OBVIOUS
  <2>3. d \in Difference /\ d.exist = k /\ d.type = "DELETE"
    BY <1>0, <2>1, <2>2, DifTyped DEF Dif, DifTypes, TypeOK
  <2>4. Report(d) /\ idMap' = Drop(idMap, id)
        /\ UNCHANGED <<inputs, pc, i, etagMap>> /\ pc = "deleteIds"
    BY <1>8, <2>1, <2>2 DEF DeleteById
  <2>5. InMaps(k) /\ ~InMaps(k)' /\ \A m : m # k => (InMaps(m) <=> InMaps(m)')
    BY <1>0, <2>1, <2>4, DroppedId DEF inputs, InMaps
  <2>6. Tracked(k)'
    <3>1. \E n \in DOMAIN res' : res'[n] = d BY <1>0, <2>3, <2>4, Reported
    <3>. QED BY <2>3, <3>1 DEF Tracked, Named
  <2>. QED BY <1>0, <2>3, <2>4, <2>5, <2>6, ReportKeeps DEF Progress, inputs, Loaded
<1>9. CASE DeleteIdsDone
  <2>1. \A m \in DOMAIN compare : Settled(m) => Settled(m)'
    BY <1>9 DEF DeleteIdsDone, Settled, InMaps, Named, inputs
  <2>2. \A m \in DOMAIN existing : Tracked(m) => Tracked(m)'
    BY <1>9 DEF DeleteIdsDone, Tracked, InMaps, Named, inputs
  <2>. QED BY <1>9, <2>1, <2>2 DEF DeleteIdsDone, Progress, inputs, Loaded
<1>10. ASSUME NEW e \in DOMAIN etagMap, DeleteByEtag(e) PROVE Progress'
  <2>1. PICK k : k = etagMap[e] OBVIOUS
  <2>2. PICK d : d = Dif("DELETE", k, 0, {}) OBVIOUS
  <2>3. d \in Difference /\ d.exist = k /\ d.type = "DELETE"
    BY <1>0, <2>1, <2>2, DifTyped DEF Dif, DifTypes, TypeOK
  <2>4. Report(d) /\ etagMap' = Drop(etagMap, e)
        /\ UNCHANGED <<inputs, pc, i, idMap>> /\ pc = "deleteEtags"
    BY <1>10, <2>1, <2>2 DEF DeleteByEtag
  <2>5. InMaps(k) /\ ~InMaps(k)' /\ \A m : m # k => (InMaps(m) <=> InMaps(m)')
    BY <1>0, <2>1, <2>4, DroppedEtag DEF inputs, InMaps
  <2>6. Tracked(k)'
    <3>1. \E n \in DOMAIN res' : res'[n] = d BY <1>0, <2>3, <2>4, Reported
    <3>. QED BY <2>3, <3>1 DEF Tracked, Named
  <2>. QED BY <1>0, <2>3, <2>4, <2>5, <2>6, ReportKeeps DEF Progress, inputs, Loaded
<1>11. CASE DeleteEtagsDone
  <2>1. \A m \in DOMAIN compare : Settled(m) => Settled(m)'
    BY <1>11 DEF DeleteEtagsDone, Settled, InMaps, Named, inputs
  <2>2. \A m \in DOMAIN existing : Tracked(m) => Tracked(m)'
    BY <1>11 DEF DeleteEtagsDone, Tracked, InMaps, Named, inputs
  <2>. QED BY <1>11, <2>1, <2>2 DEF DeleteEtagsDone, Progress, inputs, Loaded
<1>12. CASE UNCHANGED vars
  <2>1. \A m \in DOMAIN compare : Settled(m) => Settled(m)'
    BY <1>12 DEF vars, Settled, InMaps, Named
  <2>2. \A m \in DOMAIN existing : Tracked(m) => Tracked(m)'
    BY <1>12 DEF vars, Tracked, InMaps, Named
  <2>. QED BY <1>12, <2>1, <2>2 DEF vars, Progress, Loaded
<1>. QED
  BY <1>1, <1>2, <1>3, <1>4, <1>5, <1>6, <1>7, <1>8, <1>9, <1>10, <1>11, <1>12
  DEF Next

\* Once ReconcilePolicies returns, applying what it reports to the existing
\* policies leaves the wanted ones: each wanted policy is created, updated to
\* or equal to a kept one, and no loaded policy is kept without an equal.
THEOREM AppliedIsWantedCorrect == Spec => []AppliedIsWanted
<1>1. Progress => AppliedIsWanted
  <2>. SUFFICES ASSUME Progress, pc = "done" PROVE AppliedIsWanted
    BY DEF AppliedIsWanted
  <2>1. \A k : ~InMaps(k) BY DEF Progress, InMaps
  <2>2. \A j \in DOMAIN compare : Answered(j)
    BY DEF Progress, Settled, Answered
  <2>3. \A k \in DOMAIN existing : Loaded(k) => Tracked(k)
    BY DEF Progress
  <2>. QED BY <2>1, <2>2, <2>3 DEF AppliedIsWanted, Tracked
<1>. QED
  BY IInvInit, IInvStep, ProgressInit, ProgressStep, <1>1, PTL DEF Spec

-----------------------------------------------------------------------------
(* A list reconciled with itself in another order. *)

\* The two lists have the same policies, and none has the key of another.
LEMMA SameInAnyOrder ==
  ASSUME NEW s \in Lists, NEW t \in Lists, DistinctKeys(s), IsPermutation(s, t)
  PROVE  /\ \A j \in DOMAIN t : \E k \in DOMAIN s : s[k] = t[j]
         /\ \A k \in DOMAIN s : \E j \in DOMAIN t : t[j] = s[k]
         /\ \A j, m \in DOMAIN t : j # m => ~SameKey(t[j], t[m])
<1> DEFINE At(l, p) == {n \in DOMAIN l : l[n] = p}
<1>1. /\ s \in Seq(Policies) /\ t \in Seq(Policies)
      /\ IsFiniteSet(DOMAIN s) /\ IsFiniteSet(DOMAIN t)
  <2>1. s \in Seq(Policies) /\ t \in Seq(Policies) BY ListsAssumption
  <2>2. \A l \in {s, t} : Len(l) \in Nat /\ DOMAIN l = 1..Len(l) BY <2>1
  <2> QED BY <2>1, <2>2, FS_Interval
<1>2. \A p : IsFiniteSet(At(s, p)) /\ IsFiniteSet(At(t, p)) BY <1>1, FS_Subset
<1>3. \A p \in Policies : Cardinality(At(s, p)) = Cardinality(At(t, p)) BY DEF IsPermutation
<1>4. \A p \in Policies : At(s, p) = {} <=> At(t, p) = {} BY <1>2, <1>3, FS_EmptySet
<1>5. ASSUME NEW j \in DOMAIN t PROVE \E k \in DOMAIN s : s[k] = t[j]
  <2>1. t[j] \in Policies /\ j \in At(t, t[j]) BY <1>1
  <2> QED BY <1>4, <2>1
<1>6. ASSUME NEW k \in DOMAIN s PROVE \E j \in DOMAIN t : t[j] = s[k]
  <2>1. s[k] \in Policies /\ k \in At(s, s[k]) BY <1>1
  <2> QED BY <1>4, <2>1
<1>7. ASSUME NEW j \in DOMAIN t, NEW m \in DOMAIN t, SameKey(t[j], t[m]) PROVE j = m
  <2>1. PICK k \in DOMAIN s : s[k] = t[j] BY <1>5
  <2>2. PICK l \in DOMAIN s : s[l] = t[m] BY <1>5
  <2>3. k = l BY <1>7, <2>1, <2>2 DEF DistinctKeys, SameKey
  <2> DEFINE p == s[k]
  <2>4. At(s, p) = {k} BY DEF DistinctKeys, SameKey
  <2>5. p \in Policies BY <1>1
  <2> HIDE DEF p
  <2>6. Cardinality(At(t, p)) = 1 BY <1>3, <2>4, <2>5, FS_Singleton
  <2>7. PICK x : At(t, p) = {x}
    <3>1. IsFiniteSet(At(t, p)) BY <1>2
    <3>2. \A S : IsFiniteSet(S) => (Cardinality(S) = 1 <=> \E x : S = {x}) BY FS_Singleton
    <3> HIDE DEF At
    <3> QED BY <2>6, <3>1, <3>2
  <2>8. j \in At(t, p) /\ m \in At(t, p) BY <2>1, <2>2, <2>3 DEF p
  <2> QED BY <2>7, <2>8
<1> QED BY <1>5, <1>6, <1>7

Reordered == diffsOnly /\ DistinctKeys(existing) /\ IsPermutation(existing, compare)

\* The existing policy k is in its map.
Filed(k) ==
  IF existing[k].id # NoId
  THEN existing[k].id \in DOMAIN idMap /\ idMap[existing[k].id] = k
  ELSE Etag(existing[k]) \in DOMAIN etagMap /\ etagMap[Etag(existing[k])] = k

\* The compare list has the existing policy k at position n or later.
ToMatch(k, n) == \E j \in DOMAIN compare : j >= n /\ compare[j] = existing[k]

\* In the match loop the maps hold what the loop has yet to match.
CleanInv ==
  Reordered =>
    /\ res = << >>
    /\ pc = "load" => \A k \in DOMAIN existing : k < i => Filed(k)
    /\ pc = "match" => \A k \in DOMAIN existing : Filed(k) <=> ToMatch(k, i)
    /\ pc \notin {"load", "match"} => DOMAIN idMap = {} /\ DOMAIN etagMap = {}

LEMMA NextIsFiled ==
  ASSUME TypeOK, Reordered, CleanInv, pc = "match", i \in DOMAIN compare
  PROVE  \E k \in DOMAIN existing :
           /\ existing[k] = compare[i] /\ Filed(k) /\ ~ToMatch(k, i + 1)
           /\ \A m \in DOMAIN existing : m # k => (ToMatch(m, i) <=> ToMatch(m, i + 1))
<1>1. /\ \A j \in DOMAIN compare : \E k \in DOMAIN existing : existing[k] = compare[j]
      /\ \A j, m \in DOMAIN compare : j # m => ~SameKey(compare[j], compare[m])
  BY SameInAnyOrder DEF TypeOK, Reordered
<1>2. PICK k \in DOMAIN existing : existing[k] = compare[i] BY <1>1
<1>3. i \in Nat /\ \A j \in DOMAIN compare : j \in Nat BY Positions
<1>4. Filed(k) BY <1>2, <1>3 DEF CleanInv, ToMatch
<1>5. ~ToMatch(k, i + 1) BY <1>1, <1>2, <1>3 DEF ToMatch, SameKey
<1>6. \A m \in DOMAIN existing : m # k => existing[m] # compare[i]
  BY <1>2 DEF Reordered, DistinctKeys, SameKey
<1>7. \A m \in DOMAIN existing : m # k => (ToMatch(m, i) <=> ToMatch(m, i + 1))
  BY <1>3, <1>6 DEF ToMatch
<1> QED BY <1>2, <1>4, <1>5, <1>7

LEMMA CleanInit == Init => CleanInv
BY ListsAssumption DEF Init, CleanInv

LEMMA CleanStep == TypeOK /\ MapsOK /\ CleanInv /\ [Next]_vars => CleanInv'
<1> SUFFICES ASSUME TypeOK, MapsOK, CleanInv, [Next]_vars, Reordered' PROVE CleanInv'
  BY DEF CleanInv
<1>1. UNCHANGED inputs
  BY DEF Next, LoadById, LoadByEtag, LoadDone, MatchById, MatchByEtag, NoMatch, MatchDone,
         DeleteById, DeleteIdsDone, DeleteByEtag, DeleteEtagsDone, vars, inputs
<1>2. Reordered
  BY <1>1 DEF inputs, Reordered, DistinctKeys, SameKey, Etag, IsPermutation
<1>3. res = << >> BY <1>2 DEF CleanInv
<1>4. \A k, n : ToMatch(k, n)' <=> ToMatch(k, n) BY <1>1 DEF inputs, ToMatch
<1>5. \A k, m \in DOMAIN existing : k # m => ~SameKey(existing[k], existing[m])
  BY <1>2 DEF Reordered, DistinctKeys
<1>6. i \in Nat /\ DOMAIN existing \subseteq Nat BY Positions
<1>7. CASE LoadById \/ LoadByEtag
  <2>1. i' = i + 1 /\ pc = "load" /\ pc' = "load" /\ res' = res BY <1>7 DEF LoadById, LoadByEtag
  <2>2. ASSUME NEW k \in DOMAIN existing, k < i + 1 PROVE Filed(k)'
    <3>1. CASE k = i BY <1>1, <1>7, <3>1 DEF LoadById, LoadByEtag, inputs, Put, Filed
    <3>2. CASE k # i
      <4>1. Filed(k) BY <1>2, <1>6, <2>1, <2>2, <3>2 DEF CleanInv
      <4>2. i \in DOMAIN existing /\ ~SameKey(existing[i], existing[k])
        BY <1>5, <1>7, <3>2 DEF LoadById, LoadByEtag
      <4> QED BY <1>1, <1>7, <4>1, <4>2 DEF LoadById, LoadByEtag, inputs, Put, Filed, SameKey
    <3> QED BY <3>1, <3>2
  <2> QED BY <1>1, <1>3, <2>1, <2>2 DEF CleanInv, inputs
<1>8. CASE LoadDone
  <2>1. pc = "load" /\ pc' = "match" /\ i' = 1 /\ UNCHANGED <<idMap, etagMap, res>>
    BY <1>8 DEF LoadDone
  <2>2. \A k \in DOMAIN existing : k < i
    <3>1. existing \in Seq(Policies) BY ListsAssumption DEF TypeOK
    <3> QED BY <1>8, <3>1 DEF LoadDone, TypeOK
  <2>3. \A k \in DOMAIN existing : Filed(k) BY <1>2, <2>1, <2>2 DEF CleanInv
  <2>4. \A k \in DOMAIN existing : ToMatch(k, 1)
    <3>1. compare \in Seq(Policies) BY ListsAssumption DEF TypeOK
    <3>2. \A j \in DOMAIN compare : j >= 1 BY <3>1
    <3>3. \A k \in DOMAIN existing : \E j \in DOMAIN compare : compare[j] = existing[k]
      BY <1>2, SameInAnyOrder DEF TypeOK, Reordered
    <3> QED BY <3>2, <3>3 DEF ToMatch
  <2>5. \A k \in DOMAIN existing : Filed(k)' BY <1>1, <2>1, <2>3 DEF inputs, Filed
  <2> QED BY <1>1, <1>3, <1>4, <2>1, <2>4, <2>5 DEF CleanInv, inputs
<1>9. CASE MatchById \/ MatchByEtag \/ NoMatch
  <2>1. pc = "match" /\ i \in DOMAIN compare /\ pc' = "match" /\ i' = i + 1
    BY <1>9 DEF MatchById, MatchByEtag, NoMatch
  <2>2. PICK k \in DOMAIN existing :
          /\ existing[k] = compare[i] /\ Filed(k) /\ ~ToMatch(k, i + 1)
          /\ \A m \in DOMAIN existing : m # k => (ToMatch(m, i) <=> ToMatch(m, i + 1))
    BY <1>2, <2>1, NextIsFiled
  <2>3. Difs(compare[i], existing[k]) = {} BY <2>2 DEF Difs, PolicyEquals
  <2>4. CASE existing[k].id # NoId
    <3>1. MatchedById /\ idMap[compare[i].id] = k BY <2>2, <2>4 DEF Filed, MatchedById
    <3>2. MatchById BY <1>9, <3>1 DEF MatchByEtag, MatchedByEtag, NoMatch
    <3>3. idMap' = Drop(idMap, existing[k].id) /\ UNCHANGED etagMap /\ res' = res
      BY <1>2, <2>2, <2>3, <3>1, <3>2 DEF MatchById, Report, Dif, Reordered
    <3>4. ~Filed(k)' BY <1>1, <2>4, <3>3 DEF inputs, Filed, Drop
    <3>5. \A m \in DOMAIN existing : m # k => (Filed(m)' <=> Filed(m))
      BY <1>1, <1>5, <2>4, <3>3 DEF inputs, Filed, Drop, SameKey
    <3> QED BY <1>1, <1>2, <1>3, <1>4, <2>1, <2>2, <3>3, <3>4, <3>5 DEF CleanInv, inputs
  <2>5. CASE existing[k].id = NoId
    <3>1. MatchedByEtag /\ etagMap[Etag(compare[i])] = k
      BY <2>2, <2>5 DEF Filed, MatchedById, MatchedByEtag
    <3>2. MatchByEtag BY <1>9, <3>1 DEF MatchById, MatchedByEtag, NoMatch
    <3>3. etagMap' = Drop(etagMap, Etag(existing[k])) /\ UNCHANGED idMap /\ res' = res
      BY <1>2, <2>2, <3>2 DEF MatchByEtag, Report, Dif, Reordered
    <3>4. ~Filed(k)' BY <1>1, <2>5, <3>3 DEF inputs, Filed, Drop
    <3>5. \A m \in DOMAIN existing : m # k => (Filed(m)' <=> Filed(m))
      BY <1>1, <1>5, <2>5, <3>3 DEF inputs, Filed, Drop, SameKey
    <3> QED BY <1>1, <1>2, <1>3, <1>4, <2>1, <2>2, <3>3, <3>4, <3>5 DEF CleanInv, inputs
  <2> QED BY <2>4, <2>5
<1>10. CASE MatchDone
  <2>1. pc = "match" /\ pc' = "deleteIds" /\ UNCHANGED <<idMap, etagMap, res>> BY <1>10 DEF MatchDone
  <2>2. \A k \in DOMAIN existing : ~Filed(k)
    <3>1. compare \in Seq(Policies) BY ListsAssumption DEF TypeOK
    <3>2. \A j \in DOMAIN compare : ~(j >= i) BY <1>10, <3>1 DEF MatchDone, TypeOK
    <3> QED BY <1>2, <2>1, <3>2 DEF CleanInv, ToMatch
  <2>3. DOMAIN idMap = {} /\ DOMAIN etagMap = {} BY <2>2 DEF TypeOK, MapsOK, Filed
  <2> QED BY <1>1, <1>3, <2>1, <2>3 DEF CleanInv
<1>11. CASE \/ \E id \in DOMAIN idMap : DeleteById(id)
            \/ DeleteIdsDone
            \/ \E e \in DOMAIN etagMap : DeleteByEtag(e)
            \/ DeleteEtagsDone
  <2>1. DOMAIN idMap = {} /\ DOMAIN etagMap = {} /\ pc \notin {"load", "match"}
    BY <1>2, <1>11 DEF CleanInv, DeleteById, DeleteIdsDone, DeleteByEtag, DeleteEtagsDone
  <2> QED BY <1>3, <1>11, <2>1 DEF CleanInv, DeleteIdsDone, DeleteEtagsDone
<1>12. CASE UNCHANGED vars
  <2>1. \A k : Filed(k)' <=> Filed(k) BY <1>12 DEF vars, Filed
  <2> QED BY <1>2, <1>4, <1>12, <2>1 DEF vars, CleanInv
<1> QED BY <1>7, <1>8, <1>9, <1>10, <1>11, <1>12 DEF Next

\* Reconciling the policies with themselves in another order reports nothing
\* to change, when no two of them have one id or, without ids, one etag.
THEOREM PermutationIsCleanCorrect == Spec => []PermutationIsClean
<1>1. CleanInv => PermutationIsClean BY DEF CleanInv, Reordered, PermutationIsClean
<1>2. IInv => TypeOK /\ MapsOK BY DEF IInv
<1> QED BY IInvInit, IInvStep, CleanInit, CleanStep, <1>1, <1>2, PTL DEF Spec
=============================================================================
