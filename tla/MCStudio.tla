------------------------------ MODULE MCStudio ------------------------------
(***************************************************************************)
(* A small instance of Studio: two profile ids, lists of up to three, and  *)
(* queries that match all, some and none of the palette's actions.         *)
(***************************************************************************)
EXTENDS Studio

CONSTANTS p1, p2

MCLists == UNION {[1 .. n -> ProfileIds] : n \in 0 .. 3}
MCDefaults == <<p1>>
MCMatching ==
  [q \in {"", "export", "zzz"} |->
     CASE q = "" -> 1 .. 12 [] q = "export" -> {11, 12} [] q = "zzz" -> {}]
=============================================================================
