-------------------------------- MODULE Feeds --------------------------------
(***************************************************************************)
(* The two tabs that live on event streams.  They share no state, and App  *)
(* mounts one tab at a time: a behaviour is about one of the two, which    *)
(* the user opens, leaves for some other tab and opens again.              *)
(***************************************************************************)
EXTENDS TelemetryFeed, PubSubFeed

VARIABLE feed   \* the one the behaviour is about

feedsVars == <<feed, telemetryVars, pubsubVars>>

FeedsTypeOK ==
  /\ feed \in {"telemetry", "pubsub"}
  /\ TelemetryTypeOK
  /\ PubSubTypeOK

FeedsInit == feed \in {"telemetry", "pubsub"} /\ TelemetryInit /\ PubSubInit

FeedsNext ==
  /\ UNCHANGED feed
  /\ \/ feed = "telemetry" /\ TelemetryNext /\ UNCHANGED pubsubVars
     \/ feed = "pubsub" /\ PubSubNext /\ UNCHANGED telemetryVars

FeedsSpec == FeedsInit /\ [][FeedsNext]_feedsVars /\ TelemetryFair /\ PubSubFair
=============================================================================
