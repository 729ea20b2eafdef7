----------------------------- MODULE MCKeyspace -----------------------------
(***************************************************************************)
(* A small instance of Keyspace: seedData loads permanent keys and keys    *)
(* with a TTL, of every type.                                              *)
(***************************************************************************)
EXTENDS Keyspace

CONSTANTS k1, k2, va, vb, f1

Seeded(val, type, deadline) == [type |-> type, val |-> val, deadline |-> deadline]

MCSeeds ==
  {[k \in Keys |-> IF k = k1 THEN Seeded({<<f1, va>>}, "hash", 1)
                   ELSE Seeded({va}, type, Never)] : type \in {"string", "stream"}}

\* EXPIRE takes any number from the REPL, zero and less included.
MCSecs == {-1, 0, 1}
MCMillis == {0, 2}
=============================================================================
