----------------------------- MODULE MCKeySweep -----------------------------
(***************************************************************************)
(* A small instance of KeySweep: four names, three of which match, pages   *)
(* smaller than the matches and a hash table with a shared bucket.         *)
(***************************************************************************)
EXTENDS KeySweep

MCBucketOf == [k \in Keys |-> k % Buckets]
=============================================================================
