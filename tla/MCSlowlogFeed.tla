--------------------------- MODULE MCSlowlogFeed ---------------------------
(***************************************************************************)
(* A small instance of SlowlogFeed: the two streams every open dashboard   *)
(* has (App.tsx and TelemetryDashboard.tsx) and a window smaller than the  *)
(* log.                                                                    *)
(***************************************************************************)
EXTENDS SlowlogFeed

CONSTANTS s1, s2
=============================================================================
