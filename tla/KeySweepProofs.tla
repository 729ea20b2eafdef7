--------------------------- MODULE KeySweepProofs ---------------------------
(***************************************************************************)
(* Theorems about KeySweep, for all names, patterns, hash tables, page     *)
(* sizes and limits, and however often other clients step in.              *)
(*                                                                         *)
(* That a sweep over a server misses nothing is not inductive.  The reason *)
(* it is true is where the keys that are still owed are: not behind the    *)
(* cursor, or, between a Scan and its DEL, in the page or not behind the   *)
(* cursor that came with it.  Ahead states that, for both loops.           *)
(***************************************************************************)
EXTENDS KeySweep, FiniteSetTheorems, TLAPS

\* The bucket of k is still to be passed by a cursor c that is not at the end.
Ahead(c, k) == c <= BucketOf[k]

DeleteInv ==
  store = "bucket" /\ op = "delete" =>
    /\ pc = "scan" => \A k \in stable : Ahead(cursor, k)
    /\ pc = "del" => \A k \in stable \ page : next # 0 /\ Ahead(next, k)
    /\ pc = "done" => stable = {}

CollectInv ==
  store = "bucket" /\ op = "collect" =>
    /\ pc # "del"
    /\ pc = "scan" => \A k \in stable \ found : Ahead(cursor, k)
    /\ pc = "done" /\ ~cut => stable \subseteq found

IInv == TypeOK /\ DeleteInv /\ CollectInv /\ CountSound
-----------------------------------------------------------------------------
LEMMA SubsetCard ==
  ASSUME NEW S \in SUBSET Keys
  PROVE  IsFiniteSet(S) /\ Cardinality(S) \in Nat
BY SweepAssumption, FS_Subset, FS_CardinalityType

\* Both stores hand out a natural number as the next cursor.
LEMMA PageType ==
  ASSUME TypeOK, NEW keys, NEW to, Page(keys, to)
  PROVE  to \in Nat
<1>1. Cardinality(Visible) \in Nat
  BY SubsetCard, SweepAssumption DEF Visible, TypeOK
<1> QED
  BY <1>1, SweepAssumption DEF Page, OffsetPage, BucketPage, TypeOK

\* A page of a server: a visible key that is not in it is ahead of the cursor
\* that came with it, when it was ahead of the one the page was asked for with.
LEMMA PagePasses ==
  ASSUME TypeOK, store = "bucket", NEW keys, NEW to, Page(keys, to),
         NEW k \in Visible \ keys, Ahead(cursor, k)
  PROVE  to # 0 /\ Ahead(to, k)
<1>1. k \in Keys /\ BucketOf[k] \in 0 .. Buckets - 1
  BY SweepAssumption DEF Visible
<1>2. PICK upto \in cursor + 1 .. Buckets :
        /\ {j \in Visible : cursor <= BucketOf[j] /\ BucketOf[j] < upto}
             \subseteq keys
        /\ to = IF upto = Buckets THEN 0 ELSE upto
  BY DEF Page, BucketPage
<1>3. ~(BucketOf[k] < upto)
  BY <1>2 DEF Ahead
<1> QED
  BY <1>1, <1>2, <1>3, SweepAssumption DEF Ahead, TypeOK
-----------------------------------------------------------------------------
LEMMA InitInv == Init => IInv
<1> SUFFICES ASSUME Init
             PROVE  IInv
  OBVIOUS
<1>1. \A k \in stable : Ahead(0, k)
  BY SweepAssumption DEF Init, Ahead
<1>2. TypeOK
  <2>1. others \in 0 .. MaxOthers
    BY SweepAssumption DEF Init
  <2>2. cut \in BOOLEAN
    BY DEF Init
  <2>3. page \subseteq Match /\ found \subseteq Match
    BY DEF Init
  <2> QED
    BY <2>1, <2>2, <2>3, SweepAssumption DEF Init, TypeOK, Visible
<1>3. DeleteInv /\ CollectInv
  BY <1>1 DEF Init, DeleteInv, CollectInv
<1>4. CountSound
  BY DEF Init, CountSound
<1> QED
  BY <1>2, <1>3, <1>4 DEF IInv

LEMMA ScanToDeleteInv == IInv /\ ScanToDelete => IInv'
<1> SUFFICES ASSUME IInv, ScanToDelete
             PROVE  IInv'
  OBVIOUS
<1> USE DEF IInv
<1>1. PICK keys \in SUBSET Visible, to \in 0 .. Buckets + Cardinality(Keys) :
        /\ Page(keys, to) /\ page' = keys /\ next' = to
        /\ IF keys = {} THEN Advance(to) ELSE pc' = "del" /\ UNCHANGED cursor
  BY DEF ScanToDelete
<1>2. to \in Nat
  BY <1>1, PageType
<1>3. TypeOK'
  BY <1>1, <1>2 DEF ScanToDelete, storeVars, TypeOK, Visible, Advance
<1>4. DeleteInv'
  <2> SUFFICES ASSUME store = "bucket"
               PROVE  DeleteInv'
    BY DEF ScanToDelete, storeVars, DeleteInv
  <2>1. \A k \in stable \ keys : to # 0 /\ Ahead(to, k)
    BY <1>1, PagePasses DEF ScanToDelete, DeleteInv, TypeOK
  <2>2. CASE keys = {}
    BY <1>1, <2>1, <2>2 DEF ScanToDelete, storeVars, DeleteInv, Advance, Ahead
  <2>3. CASE keys # {}
    BY <1>1, <2>1, <2>3 DEF ScanToDelete, storeVars, DeleteInv, Ahead
  <2> QED
    BY <2>2, <2>3
<1>5. CollectInv' /\ CountSound'
  BY <1>1 DEF ScanToDelete, storeVars, CollectInv, CountSound, Advance
<1> QED
  BY <1>3, <1>4, <1>5

\* Taking keys out of the store leaves the invariants about what is owed.
LEMMA RemoveFacts ==
  ASSUME TypeOK, NEW keys, Remove(keys)
  PROVE  /\ stored' \subseteq Keys /\ expired' \subseteq stored'
         /\ stable' = stable \ keys
         /\ stable' \subseteq (stored' \ expired') \cap Match
         /\ stored \ stored' = keys \cap stored
         /\ Cardinality(stored \ stored') \in Nat
<1>1. stored \ stored' \in SUBSET Keys
  BY DEF Remove, TypeOK
<1> QED
  BY <1>1, SubsetCard DEF Remove, TypeOK, Visible

LEMMA DeletePageInv == IInv /\ DeletePage => IInv'
<1> SUFFICES ASSUME IInv, DeletePage
             PROVE  IInv'
  OBVIOUS
<1> USE DEF IInv
<1>1. /\ stored' \subseteq Keys /\ expired' \subseteq stored'
      /\ stable' = stable \ page
      /\ stable' \subseteq (stored' \ expired') \cap Match
      /\ stored \ stored' = page \cap stored
      /\ Cardinality(stored \ stored') \in Nat
  BY RemoveFacts DEF DeletePage
<1>2. deleted' - deleted = taken' - taken /\ deleted' \in Nat /\ taken' \in Nat
  <2> DEFINE n == Cardinality(page \cap stored)
  <2>1. n \in Nat /\ taken' = taken + n /\ deleted' = deleted + n
    BY <1>1 DEF DeletePage, DelReply
  <2> HIDE DEF n
  <2> QED
    BY <2>1 DEF TypeOK
<1>3. TypeOK'
  BY <1>1, <1>2 DEF DeletePage, TypeOK, Visible, Advance
<1>4. DeleteInv'
  BY <1>1 DEF DeletePage, DeleteInv, Advance, Ahead
<1>5. CollectInv' /\ CountSound'
  BY <1>1, <1>2 DEF DeletePage, CollectInv, CountSound, Advance, TypeOK
<1> QED
  BY <1>3, <1>4, <1>5

LEMMA ScanToCollectInv == IInv /\ ScanToCollect => IInv'
<1> SUFFICES ASSUME IInv, ScanToCollect
             PROVE  IInv'
  OBVIOUS
<1> USE DEF IInv
<1>1. PICK keys \in SUBSET Visible, to \in 0 .. Buckets + Cardinality(Keys) :
        LET size == total + Cardinality(keys) IN
        /\ Page(keys, to) /\ page' = keys /\ next' = to
        /\ total' = IF size > Limit THEN Limit ELSE size
        /\ \E kept \in SUBSET keys :
             /\ Cardinality(kept) = total' - total
             /\ found' = found \cup kept
        /\ cut' = (size > Limit \/ (size = Limit /\ to # 0))
        /\ IF size >= Limit THEN pc' = "done" /\ UNCHANGED cursor ELSE Advance(to)
  BY DEF ScanToCollect
<1> DEFINE size == total + Cardinality(keys)
<1>2. to \in Nat
  BY <1>1, PageType
<1>3. IsFiniteSet(keys) /\ Cardinality(keys) \in Nat /\ keys \subseteq Match
  BY SubsetCard, SweepAssumption DEF Visible, TypeOK
<1>4. size \in Nat /\ total' \in Nat /\ cut' \in BOOLEAN /\ found' \subseteq Match
  BY <1>1, <1>3, SweepAssumption DEF TypeOK
<1>5. TypeOK'
  BY <1>1, <1>2, <1>3, <1>4 DEF ScanToCollect, storeVars, TypeOK, Visible, Advance
<1>6. size <= Limit => found' = found \cup keys
  <2>1. PICK kept \in SUBSET keys : /\ Cardinality(kept) = total' - total
                                    /\ found' = found \cup kept
    BY <1>1
  <2>2. ASSUME size <= Limit
        PROVE  kept = keys
    <3>1. Cardinality(kept) = Cardinality(keys)
      BY <1>1, <1>3, <2>1, <2>2, SweepAssumption DEF TypeOK
    <3> QED
      BY <1>3, <3>1, FS_Subset
  <2> QED
    BY <2>1, <2>2
<1>7. CollectInv'
  <2> SUFFICES ASSUME store = "bucket"
               PROVE  CollectInv'
    BY DEF ScanToCollect, storeVars, CollectInv
  <2>1. \A k \in stable \ (found \cup keys) : to # 0 /\ Ahead(to, k)
    BY PagePasses, <1>1 DEF ScanToCollect, CollectInv, TypeOK
  <2>2. CASE size >= Limit
    <3>1. pc' = "done" /\ cut' = (size > Limit \/ (size = Limit /\ to # 0))
      BY <1>1, <2>2
    <3>2. size > Limit \/ size = Limit
      BY <1>4, <2>2, SweepAssumption
    <3>3. ~cut' => ~(size > Limit) /\ to = 0
      <4>1. ~cut' => ~(size > Limit) /\ ~(size = Limit /\ to # 0)
        BY <3>1, Zenon
      <4> QED
        BY <3>2, <4>1, Zenon
    <3>4. ~(size > Limit) => size <= Limit
      BY <1>4, SweepAssumption
    <3> QED
      BY <1>6, <2>1, <3>1, <3>3, <3>4 DEF ScanToCollect, storeVars, CollectInv
  <2>3. CASE ~(size >= Limit)
    <3>1. Advance(to) /\ found' = found \cup keys
      BY <1>1, <1>4, <1>6, <2>3, SweepAssumption
    <3> QED
      BY <2>1, <3>1 DEF ScanToCollect, storeVars, CollectInv, Advance, Ahead
  <2> QED
    BY <2>2, <2>3
<1>8. DeleteInv' /\ CountSound'
  BY <1>1 DEF ScanToCollect, storeVars, DeleteInv, CountSound, Advance
<1> QED
  BY <1>5, <1>7, <1>8

LEMMA FailInv == IInv /\ (FailScan \/ FailDelete) => IInv'
<1> SUFFICES ASSUME IInv, FailScan \/ FailDelete
             PROVE  IInv'
  OBVIOUS
<1> USE DEF IInv
<1>1. CASE FailScan
  BY <1>1 DEF FailScan, storeVars, TypeOK, DeleteInv, CollectInv, CountSound,
              Visible
<1>2. CASE FailDelete
  <2>1. CASE Remove(page) /\ taken' = taken + Cardinality(stored \ stored')
    <3>1. /\ stored' \subseteq Keys /\ expired' \subseteq stored'
          /\ stable' \subseteq (stored' \ expired') \cap Match
          /\ Cardinality(stored \ stored') \in Nat
      BY <2>1, RemoveFacts
    <3> QED
      BY <1>2, <2>1, <3>1 DEF FailDelete, TypeOK, DeleteInv, CollectInv,
                              CountSound, Visible
  <2>2. CASE UNCHANGED <<stored, expired, stable, taken>>
    BY <1>2, <2>2 DEF FailDelete, TypeOK, DeleteInv, CollectInv, CountSound,
                      Visible
  <2> QED
    BY <1>2, <2>1, <2>2 DEF FailDelete
<1> QED
  BY <1>1, <1>2

\* Others only take keys away from what is owed.
LEMMA OthersInv ==
  ASSUME IInv, NEW k \in Keys, OtherInserts(k) \/ OtherRemoves(k) \/ Expires(k)
  PROVE  IInv'
<1> USE DEF IInv
<1>1. /\ stored' \subseteq Keys /\ expired' \subseteq stored'
      /\ stable' \subseteq stable
      /\ stable' \subseteq (stored' \ expired') \cap Match
  <2>1. CASE OtherInserts(k)
    BY <2>1 DEF OtherInserts, TypeOK, Visible
  <2>2. CASE OtherRemoves(k)
    BY <2>2, RemoveFacts DEF OtherRemoves
  <2>3. CASE Expires(k)
    <3>1. CASE store = "offset"
      BY <2>3, <3>1 DEF Expires, TypeOK, Visible
    <3>2. CASE store # "offset"
      BY <2>3, <3>2, RemoveFacts DEF Expires
    <3> QED
      BY <3>1, <3>2
  <2> QED
    BY <2>1, <2>2, <2>3
<1>2. Other
  BY DEF OtherInserts, OtherRemoves, Expires
<1>3. TypeOK'
  BY <1>1, <1>2, SweepAssumption DEF Other, TypeOK, Visible
<1> QED
  BY <1>1, <1>2, <1>3 DEF Other, DeleteInv, CollectInv, CountSound, Ahead

LEMMA StepInv == IInv /\ [Next]_vars => IInv'
<1>1. IInv /\ UNCHANGED vars => IInv'
  BY DEF IInv, vars, TypeOK, DeleteInv, CollectInv, CountSound, Visible, Ahead
<1> QED
  BY <1>1, ScanToDeleteInv, DeletePageInv, ScanToCollectInv, FailInv, OthersInv
  DEF Next, Sweep

LEMMA Inductive == Spec => []IInv
BY InitInv, StepInv, PTL DEF Spec

\* Types.
THEOREM SweepTypeCorrect == Spec => []TypeOK
<1>1. IInv => TypeOK
  BY DEF IInv
<1> QED
  BY <1>1, Inductive, PTL

\* DeleteByPattern over a server's SCAN leaves no key that was there all along.
THEOREM DeletesAllCorrect == Spec => []DeletesAll
<1>1. IInv => DeletesAll
  BY DEF IInv, DeleteInv, DeletesAll
<1> QED
  BY <1>1, Inductive, PTL

\* ScanAllKeys and RunProfile over a server's SCAN miss no key that was there
\* all along, unless their limit stopped them.
THEOREM CollectsAllCorrect == Spec => []CollectsAll
<1>1. IInv => CollectsAll
  BY DEF IInv, CollectInv, CollectsAll
<1> QED
  BY <1>1, Inductive, PTL

\* The number that DeleteByPattern answers, for either store.
THEOREM CountCorrect == Spec => []CountSound
<1>1. IInv => CountSound
  BY DEF IInv
<1> QED
  BY <1>1, Inductive, PTL
-----------------------------------------------------------------------------
(* The engine's positions. *)

\* Without others a position means the same key from page to page: what a sweep
\* has found is what stands up to its cursor, counted once.
OffsetInv ==
  store = "offset" /\ op = "collect" /\ others = 0 =>
    /\ pc # "del"
    /\ pc = "scan" => /\ found = {k \in Visible : Rank(k) <= cursor}
                      /\ total = Cardinality(found)
    /\ OffsetExact

LEMMA RankBounds ==
  ASSUME TypeOK, NEW k \in Visible
  PROVE  Rank(k) \in 1 .. Cardinality(Visible)
<1> DEFINE below == {j \in Visible : j <= k}
<1>1. Visible \in SUBSET Keys /\ k \in Nat
  BY SweepAssumption DEF Visible, TypeOK
<1>2. IsFiniteSet(Visible) /\ Cardinality(Visible) \in Nat
  BY <1>1, SubsetCard
<1>3. IsFiniteSet(below) /\ Cardinality(below) <= Cardinality(Visible)
  BY <1>2, FS_Subset
<1>4. Cardinality(below) \in Nat /\ Cardinality(below) # 0
  BY <1>1, <1>3, FS_CardinalityType, FS_EmptySet
<1> QED
  BY <1>2, <1>3, <1>4 DEF Rank

LEMMA OffsetInit == Init => OffsetInv
<1> SUFFICES ASSUME Init
             PROVE  OffsetInv
  OBVIOUS
<1>1. \A k \in Visible : ~(Rank(k) <= cursor)
  BY InitInv, RankBounds DEF IInv, Init
<1> QED
  BY <1>1, FS_EmptySet DEF Init, OffsetInv, OffsetExact

LEMMA OffsetCollects ==
  ASSUME IInv, OffsetInv, ScanToCollect, store = "offset", others = 0
  PROVE  OffsetInv'
<1> USE DEF IInv
<1>1. PICK keys \in SUBSET Visible, to \in 0 .. Buckets + Cardinality(Keys) :
        LET size == total + Cardinality(keys) IN
        /\ OffsetPage(keys, to)
        /\ total' = IF size > Limit THEN Limit ELSE size
        /\ \E kept \in SUBSET keys :
             /\ Cardinality(kept) = total' - total
             /\ found' = found \cup kept
        /\ cut' = (size > Limit \/ (size = Limit /\ to # 0))
        /\ IF size >= Limit THEN pc' = "done" /\ UNCHANGED cursor ELSE Advance(to)
  BY DEF ScanToCollect, Page
<1> DEFINE size == total + Cardinality(keys)
<1>2. /\ IsFiniteSet(keys) /\ Cardinality(keys) \in Nat
      /\ IsFiniteSet(found) /\ Cardinality(found) \in Nat
      /\ Cardinality(Visible) \in Nat
  BY SubsetCard, SweepAssumption DEF Visible, TypeOK
<1>3. found = {k \in Visible : Rank(k) <= cursor} /\ total = Cardinality(found)
  BY DEF ScanToCollect, OffsetInv
<1>4. \A k \in Visible : Rank(k) \in 1 .. Cardinality(Visible)
  BY RankBounds
<1>5. found \cup keys = {k \in Visible : Rank(k) <= cursor + Batch}
  <2>1. cursor \in Nat /\ Batch \in Nat
    BY SweepAssumption DEF TypeOK
  <2>2. keys = {k \in Visible : cursor < Rank(k) /\ Rank(k) <= cursor + Batch}
    BY <1>1 DEF OffsetPage
  <2>3. \A k \in Visible : Rank(k) <= cursor + Batch
                             <=> k \in found \/ k \in keys
    BY <1>3, <1>4, <2>1, <2>2
  <2> QED
    BY <1>3, <2>3
<1>6. Cardinality(found \cup keys) = size
  <2>1. found \cap keys = {}
    BY <1>1, <1>3, <1>4 DEF OffsetPage, TypeOK
  <2> QED
    BY <1>2, <1>3, <2>1, FS_Union, FS_EmptySet
<1>7. size <= Limit => found' = found \cup keys /\ total' = size
  <2> SUFFICES ASSUME size <= Limit
               PROVE  found' = found \cup keys /\ total' = size
    OBVIOUS
  <2>1. PICK kept \in SUBSET keys : /\ Cardinality(kept) = total' - total
                                    /\ found' = found \cup kept
    BY <1>1
  <2>2. total' = size
    BY <1>1, <1>2, SweepAssumption DEF TypeOK
  <2>3. Cardinality(kept) = Cardinality(keys)
    BY <1>2, <2>1, <2>2 DEF TypeOK
  <2> QED
    BY <1>2, <2>1, <2>2, <2>3, FS_Subset
<1>8. to = 0 => found \cup keys = Visible
  BY <1>1, <1>2, <1>4, <1>5, SweepAssumption DEF OffsetPage, TypeOK
<1>9. UNCHANGED Visible /\ \A k : UNCHANGED Rank(k)
  BY DEF ScanToCollect, storeVars, Visible, Rank
<1>10. CASE size >= Limit
  <2>1. ~cut' => size <= Limit /\ to = 0
    <3>1. size > Limit \/ size = Limit
      BY <1>2, <1>10, SweepAssumption DEF TypeOK
    <3>2. ~(size > Limit) => size <= Limit
      BY <1>2, SweepAssumption DEF TypeOK
    <3>3. cut' = (size > Limit \/ (size = Limit /\ to # 0))
      BY <1>1
    <3> QED
      BY <3>1, <3>2, <3>3, Zenon
  <2>2. pc' = "done"
    BY <1>1, <1>10
  <2> QED
    BY <1>6, <1>7, <1>8, <1>9, <2>1, <2>2 DEF OffsetInv, OffsetExact
<1>11. CASE ~(size >= Limit)
  <2>1. Advance(to) /\ found' = found \cup keys /\ total' = size
    BY <1>1, <1>2, <1>7, <1>11, SweepAssumption DEF TypeOK
  <2>2. CASE to = 0
    BY <1>6, <1>8, <1>9, <2>1, <2>2 DEF OffsetInv, OffsetExact, Advance
  <2>3. CASE to # 0
    <3>1. cursor' = cursor + Batch /\ pc' = "scan"
      BY <1>1, <2>1, <2>3 DEF OffsetPage, Advance
    <3> QED
      BY <1>5, <1>6, <1>9, <2>1, <3>1 DEF OffsetInv, OffsetExact
  <2> QED
    BY <2>2, <2>3
<1> QED
  BY <1>10, <1>11

LEMMA OffsetStep == IInv /\ OffsetInv /\ [Next]_vars => OffsetInv'
<1> SUFFICES ASSUME IInv, OffsetInv, [Next]_vars, (store = "offset")',
                    (op = "collect")', (others = 0)'
             PROVE  OffsetInv'
  BY DEF OffsetInv
<1> USE DEF OffsetInv, OffsetExact
<1>1. CASE UNCHANGED vars
  BY <1>1 DEF vars, Visible, Rank
<1>2. CASE ScanToDelete
  BY <1>2 DEF ScanToDelete, storeVars
<1>3. CASE DeletePage
  BY <1>3 DEF DeletePage
<1>4. CASE ScanToCollect
  BY <1>4, OffsetCollects DEF ScanToCollect, storeVars
<1>5. CASE FailScan \/ FailDelete
  BY <1>5 DEF FailScan, FailDelete, storeVars
<1>6. ASSUME NEW k \in Keys, OtherInserts(k) \/ OtherRemoves(k) \/ Expires(k)
      PROVE  FALSE
  BY <1>6 DEF OtherInserts, OtherRemoves, Expires, Other, IInv, TypeOK
<1> QED
  BY <1>1, <1>2, <1>3, <1>4, <1>5, <1>6 DEF Next, Sweep

\* Over the engine's positions every matching key is collected and none twice,
\* while nobody else writes.
THEOREM OffsetExactCorrect == Spec => []OffsetExact
<1>1. IInv /\ OffsetInv => OffsetExact
  BY DEF OffsetInv, OffsetExact
<1>2. Spec => []OffsetInv
  BY Inductive, OffsetInit, OffsetStep, PTL DEF Spec
<1> QED
  BY <1>1, <1>2, Inductive, PTL
=============================================================================
