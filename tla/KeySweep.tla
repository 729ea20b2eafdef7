------------------------------ MODULE KeySweep ------------------------------
(***************************************************************************)
(* The cursor loops of pkg/explorer/scanner.go and pkg/profiler/memory.go: *)
(* DeleteByPattern ("delete") deletes every page it scans, ScanAllKeys and *)
(* RunProfile ("collect") keep what they scan up to a limit.  A page and   *)
(* what is done with it are separate calls, and other clients insert and   *)
(* remove keys, and keys expire, between any two calls.                    *)
(*                                                                         *)
(* The store behind the cursor is one of two.  "offset" is the embedded    *)
(* engine: its cursor is a position in the sorted list of the matching     *)
(* keys as it is at that call, and expired keys stay stored.  "bucket" is  *)
(* a Valkey server, as far as its SCAN guarantees: the cursor moves over   *)
(* the buckets of the hash table, a page has at least what the buckets it  *)
(* passes hold, and may repeat keys of other buckets.  Calls to a server   *)
(* fail, before or after the server acted.                                 *)
(***************************************************************************)
EXTENDS Integers, FiniteSets

CONSTANTS
  Keys,         \* key names, as their rank in sorted order
  Match,        \* the names that match the pattern
  Buckets,      \* buckets of a server's hash table, 0 .. Buckets - 1
  BucketOf,     \* the bucket of a name
  Batch,        \* COUNT of a page, maxBatch of DeleteByPattern
  Limit,        \* maxCount of ScanAllKeys, sampleLimit of RunProfile
  MaxOthers     \* bound: steps of other clients and of expiry

ASSUME SweepAssumption ==
  /\ Keys \subseteq Nat /\ IsFiniteSet(Keys)
  /\ Match \subseteq Keys
  /\ Buckets \in Nat \ {0}
  /\ BucketOf \in [Keys -> 0 .. Buckets - 1]
  /\ Batch \in Nat \ {0}
  /\ Limit \in Nat \ {0}
  /\ MaxOthers \in Nat

VARIABLES
  store,        \* "offset" or "bucket"
  op,           \* "delete" or "collect"
  stored,       \* the keys in the store
  expired,      \* those of them that have expired ("offset" only)
  pc,           \* "scan", "del", "done" or "failed"
  cursor,       \* the cursor of the next Scan
  page,         \* what the last Scan returned
  next,         \* the cursor the last Scan returned
  deleted,      \* totalDeleted
  found,        \* the keys collected
  total,        \* how many were collected, repetitions included
  cut,          \* the collection stopped before the end or dropped some
  stable,       \* history: matching keys that were there all along
  taken,        \* history: entries the sweep removed from the store
  others        \* steps of other clients so far

vars == <<store, op, stored, expired, pc, cursor, page, next, deleted, found,
          total, cut, stable, taken, others>>

storeVars == <<store, op, stored, expired, stable, others>>

Visible == (stored \ expired) \cap Match

-----------------------------------------------------------------------------
(* One page. *)

Rank(k) == Cardinality({j \in Visible : j <= k})

\* A slip: pages that overlap by one.
OverlappingPage(keys, to) ==
  /\ keys = {k \in Visible : cursor <= Rank(k) /\ Rank(k) <= cursor + Batch}
  /\ to = IF cursor + Batch < Cardinality(Visible) THEN cursor + Batch ELSE 0

\* The engine: the slice of the sorted visible keys at the cursor.
OffsetPage(keys, to) ==
  /\ keys = {k \in Visible : cursor < Rank(k) /\ Rank(k) <= cursor + Batch}
  /\ to = IF cursor + Batch < Cardinality(Visible) THEN cursor + Batch ELSE 0

\* A server: all there is in the buckets from the cursor on that it passes.
BucketPage(keys, to) ==
  \E upto \in cursor + 1 .. Buckets :
    /\ {k \in Visible : cursor <= BucketOf[k] /\ BucketOf[k] < upto} \subseteq keys
    /\ to = IF upto = Buckets THEN 0 ELSE upto

Page(keys, to) ==
  IF store = "offset" THEN OffsetPage(keys, to) ELSE BucketPage(keys, to)

\* Slips: a loop that takes an empty page for the last one, and one that asks
\* for the same page again.
StopOnEmpty(to) ==
  /\ cursor' = to
  /\ pc' = IF to = 0 \/ page' = {} THEN "done" ELSE "scan"

SamePage(to) ==
  /\ cursor' = cursor
  /\ pc' = IF to = 0 THEN "done" ELSE "scan"

\* The end of a round of either loop.
Advance(to) ==
  /\ cursor' = to
  /\ pc' = IF to = 0 THEN "done" ELSE "scan"
-----------------------------------------------------------------------------
(* DeleteByPattern *)

ScanToDelete ==
  /\ pc = "scan" /\ op = "delete"
  /\ \E keys \in SUBSET Visible, to \in 0 .. Buckets + Cardinality(Keys) :
       /\ Page(keys, to)
       /\ page' = keys
       /\ next' = to
       /\ IF keys = {} THEN Advance(to) ELSE pc' = "del" /\ UNCHANGED cursor
  /\ UNCHANGED <<storeVars, deleted, found, total, cut, taken>>

\* A slip: a removal that leaves the mark of expiry.
HalfRemove(keys) ==
  /\ stored' = stored \ keys
  /\ expired' = expired
  /\ stable' = stable \ keys

\* What DEL does in the store.
Remove(keys) ==
  /\ stored' = stored \ keys
  /\ expired' = expired \ keys
  /\ stable' = stable \ keys

\* A slip: the keys that were asked for are counted.
AskedFor == Cardinality(page)

\* DEL counts what the store holds, an expired entry of the engine included.
DelReply == Cardinality(page \cap stored)

DeletePage ==
  /\ pc = "del"
  /\ Remove(page)
  /\ taken' = taken + Cardinality(stored \ stored')
  /\ deleted' = deleted + DelReply
  /\ UNCHANGED <<store, op, others, page, next, found, total, cut>>
  /\ Advance(next)
-----------------------------------------------------------------------------
(* ScanAllKeys, RunProfile *)

\* A page is added; the loop ends at the limit, and what is over it is dropped.
ScanToCollect ==
  /\ pc = "scan" /\ op = "collect"
  /\ \E keys \in SUBSET Visible, to \in 0 .. Buckets + Cardinality(Keys) :
       LET size == total + Cardinality(keys) IN
       /\ Page(keys, to)
       /\ page' = keys
       /\ next' = to
       /\ total' = IF size > Limit THEN Limit ELSE size
       /\ \E kept \in SUBSET keys :
            /\ Cardinality(kept) = total' - total
            /\ found' = found \cup kept
       /\ cut' = (size > Limit \/ (size = Limit /\ to # 0))
       /\ IF size >= Limit THEN pc' = "done" /\ UNCHANGED cursor ELSE Advance(to)
  /\ UNCHANGED <<storeVars, deleted, taken>>
-----------------------------------------------------------------------------
(* A failed call ends either loop: with the count so far, or with nothing. *)

FailScan ==
  /\ pc = "scan" /\ store = "bucket"
  /\ pc' = "failed"
  /\ UNCHANGED <<storeVars, cursor, page, next, deleted, found, total, cut, taken>>

\* The DEL was lost, or its answer was.
FailDelete ==
  /\ pc = "del" /\ store = "bucket"
  /\ pc' = "failed"
  /\ \/ Remove(page) /\ taken' = taken + Cardinality(stored \ stored')
     \/ UNCHANGED <<stored, expired, stable, taken>>
  /\ UNCHANGED <<store, op, others, cursor, page, next, deleted, found, total, cut>>
-----------------------------------------------------------------------------
(* Other clients, and time. *)

Other ==
  /\ others < MaxOthers
  /\ others' = others + 1
  /\ UNCHANGED <<store, op, pc, cursor, page, next, deleted, found, total, cut, taken>>

OtherInserts(k) ==
  /\ stored' = stored \cup {k}
  /\ expired' = expired \ {k}
  /\ stable' = IF k \in Visible THEN stable ELSE stable \ {k}
  /\ Other

OtherRemoves(k) == k \in stored /\ Remove({k}) /\ Other

\* An expired entry stays in the engine's map; a server drops it.
Expires(k) ==
  /\ k \in stored \ expired
  /\ IF store = "offset"
     THEN /\ expired' = expired \cup {k}
          /\ stable' = stable \ {k}
          /\ UNCHANGED stored
     ELSE Remove({k})
  /\ Other
-----------------------------------------------------------------------------
Init ==
  /\ store \in {"offset", "bucket"}
  /\ op \in {"delete", "collect"}
  /\ stored \in SUBSET Keys
  /\ expired = {}
  /\ pc = "scan" /\ cursor = 0 /\ page = {} /\ next = 0
  /\ deleted = 0 /\ found = {} /\ total = 0 /\ cut = FALSE
  /\ stable = stored \cap Match
  /\ taken = 0 /\ others = 0

Sweep == ScanToDelete \/ DeletePage \/ ScanToCollect \/ FailScan \/ FailDelete

Next ==
  \/ Sweep
  \/ \E k \in Keys : OtherInserts(k) \/ OtherRemoves(k) \/ Expires(k)

\* The goroutine of the request is scheduled while it has something to do.
Spec == Init /\ [][Next]_vars /\ WF_vars(Sweep)
-----------------------------------------------------------------------------
TypeOK ==
  /\ store \in {"offset", "bucket"}
  /\ op \in {"delete", "collect"}
  /\ stored \subseteq Keys /\ expired \subseteq stored
  /\ pc \in {"scan", "del", "done", "failed"}
  /\ cursor \in Nat /\ next \in Nat
  /\ page \subseteq Match /\ found \subseteq Match
  /\ deleted \in Nat /\ total \in Nat /\ taken \in Nat
  /\ cut \in BOOLEAN
  /\ stable \subseteq Visible
  /\ others \in 0 .. MaxOthers

\* A server's SCAN: when DeleteByPattern returns without an error, no matching
\* key is left that was there all along, whatever others did meanwhile.
DeletesAll ==
  store = "bucket" /\ op = "delete" /\ pc = "done" => stable = {}

\* ... and ScanAllKeys and RunProfile have every such key, unless their limit
\* stopped them.
CollectsAll ==
  store = "bucket" /\ op = "collect" /\ pc = "done" /\ ~cut => stable \subseteq found

\* The engine's positions are exact while nobody else writes: every matching
\* key is collected, none twice.
OffsetExact ==
  store = "offset" /\ op = "collect" /\ pc = "done" /\ ~cut /\ others = 0 =>
    found = Visible /\ total = Cardinality(found)

\* The number the sweep answers is the number of entries it removed; after an
\* error it can be too low, by the page whose answer was lost, never too high.
CountSound ==
  /\ deleted <= taken
  /\ pc # "failed" => deleted = taken

\* Every sweep ends once the others stop, whatever they did before.
SweepEnds == <>(pc \in {"done", "failed"})

\* KeyExplorer.tsx asks "delete ALL keys matching": with the engine's cursor a
\* deleted page moves the next one down the list, and keys are passed over.
EngineDeletesAll ==
  store = "offset" /\ op = "delete" /\ pc = "done" => stable = {}
=============================================================================
