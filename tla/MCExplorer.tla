----------------------------- MODULE MCExplorer -----------------------------
(***************************************************************************)
(* Small instances of Explorer.  The data sets have one key to show or to  *)
(* duplicate, of each type that seedData loads, permanent or due at tick   *)
(* MCDue, and a second name that is free.                                  *)
(***************************************************************************)
EXTENDS Explorer

CONSTANTS k1, k2, va, vb, f1, f2

Seeded(val, type, deadline) == [type |-> type, val |-> val, deadline |-> deadline]

MCDue == 2

SeedOf(e) == [k \in Keys |-> IF k = k1 THEN e ELSE Absent]

MCPayloads ==
  {<<"string", {va}>>, <<"hash", {<<f1, va>>, <<f2, va>>}>>, <<"list", {va}>>,
   <<"set", {va}>>, <<"zset", {va, NilText}>>, <<"stream", {va}>>}

MCSeeds ==
  {SeedOf(Seeded(p[2], p[1], d)) : p \in MCPayloads, d \in {Never, MCDue}}

MCSecs == {0, 1}
MCMillis == {1}
=============================================================================
