---------------------------- MODULE MCKeyBrowser ----------------------------
(***************************************************************************)
(* Small instances of KeyBrowser: two names and a search that matches the  *)
(* first name only. Two strings, or one hash, on an open server; a hash and *)
(* a stream on a guarded one.                                              *)
(***************************************************************************)
EXTENDS KeyBrowser

CONSTANTS k1, k2

MCPatterns == {Names, {k1}}
Strings == [k \in Names |-> "string"]
Mixed == [k \in Names |-> IF k = k1 THEN "hash" ELSE "stream"]
OneHash == [k \in Names |-> IF k = k1 THEN "hash" ELSE Absent]

MCServers ==
  {[db |-> Strings, guarded |-> FALSE], [db |-> OneHash, guarded |-> FALSE],
   [db |-> Mixed, guarded |-> TRUE]}
=============================================================================
