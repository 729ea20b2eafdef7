------------------------------- MODULE MCFeeds -------------------------------
(***************************************************************************)
(* A small instance of Feeds: a ring longer than what the dashboard keeps, *)
(* as in the code, and a channel of one message, so that each gets full.   *)
(***************************************************************************)
EXTENDS Feeds

CONSTANTS c1, c2

MCTopics == {{}, {c1}, {c1, c2}}
=============================================================================
