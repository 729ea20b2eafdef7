----------------------------- MODULE StreamPanel -----------------------------
(***************************************************************************)
(* StreamInspector: a stream chosen by typing its name, one of its         *)
(* consumer groups and the entries pending in it.  Two effects load, one   *)
(* on the name and one on the name and the group, and loading the stream   *)
(* may set the group.                                                      *)
(***************************************************************************)
EXTENDS ApiClient

CONSTANTS
  StreamKeys,   \* what may stand in the name field; empty is Null
  Groups        \* the groups of the streams among them, in order

Streams == DOMAIN Groups

GroupNames == UNION {ToSet(Groups[k]) : k \in Streams}

ASSUME StreamsAssumption ==
  /\ Streams \subseteq StreamKeys
  /\ Groups \in [Streams -> Seq(GroupNames)]
  /\ Null \notin StreamKeys \cup GroupNames

StreamsView ==
  {[tab |-> "streams", streamKey |-> k, streamData |-> Null, loading |-> TRUE,
    selectedGroup |-> Null, pendingEntries |-> Null, loadingPending |-> FALSE] :
     k \in Streams}

\* loadStream of the render v.
StreamCall(v) ==
  <<Request("stream", [key |-> v.streamKey, had |-> v.selectedGroup # Null])>>

StreamsTypeOK ==
  /\ view.streamKey \in StreamKeys \cup {Null}
  /\ view.streamData \in Streams \cup {Null}
  /\ {view.loading, view.loadingPending} \subseteq BOOLEAN
  /\ view.selectedGroup \in GroupNames \cup {Null}
  /\ view.pendingEntries \in (Streams \X GroupNames) \cup {Null}

-----------------------------------------------------------------------------
\* A slip: the pending entries are loaded anew for another group only.
PendingOnGroup(v) ==
  IF v.streamKey = Null \/ v.selectedGroup \in {Null, view.selectedGroup} THEN <<>>
  ELSE <<Request("pending", [key |-> v.streamKey, group |-> v.selectedGroup])>>

\* What the effect on the name and the group sends once v is rendered.
PendingCall(v) ==
  IF v.streamKey = Null \/ v.selectedGroup = Null THEN <<>>
  ELSE <<Request("pending", [key |-> v.streamKey, group |-> v.selectedGroup])>>

Awaiting(v) == [v EXCEPT !.loadingPending = @ \/ PendingCall(v) # <<>>]

StreamsUser(v, sent) == UserActs /\ Land(v, calls, sent) /\ UNCHANGED calm

SetStreamKey ==
  /\ view.tab = "streams"
  /\ \E k \in (StreamKeys \cup {Null}) \ {view.streamKey} :
       LET v == Awaiting([view EXCEPT !.streamKey = k, !.loading = @ \/ k # Null])
       IN StreamsUser(v, (IF k = Null THEN <<>> ELSE StreamCall(v)) \o PendingCall(v))

RefreshStream ==
  /\ view.tab = "streams"
  /\ ~view.loading
  /\ view.streamKey # Null
  /\ StreamsUser([view EXCEPT !.loading = TRUE], StreamCall(view))

GroupsShown == IF view.streamData = Null THEN {} ELSE ToSet(Groups[view.streamData])

SelectGroup ==
  /\ view.tab = "streams"
  /\ \E g \in GroupsShown \ {view.selectedGroup} :
       LET v == Awaiting([view EXCEPT !.selectedGroup = g])
       IN StreamsUser(v, PendingCall(v))

StreamsAnswer(i, v, sent) ==
  /\ Land(v, RemoveAt(calls, i), sent)
  /\ calm' = (calm /\ ~Overtakes(i, {"stream"}) /\ ~Overtakes(i, {"pending"}))

\* The first group is selected where the closure of the request had none.
OnStreamLoaded ==
  \E i \in DOMAIN calls :
    /\ view.tab = "streams" /\ calls[i].op = "stream"
    /\ calls[i].key \in Streams
    /\ UNCHANGED acts
    /\ LET c == calls[i]
           first == IF c.had \/ Groups[c.key] = <<>> THEN view.selectedGroup
                    ELSE Head(Groups[c.key])
           v == [view EXCEPT !.loading = FALSE, !.streamData = c.key,
                             !.selectedGroup = first]
       IN IF first = view.selectedGroup THEN StreamsAnswer(i, v, <<>>)
          ELSE StreamsAnswer(i, Awaiting(v), PendingCall(v))

\* The name is no stream's, or the request fails.
OnStreamFailed ==
  \E i \in DOMAIN calls :
    /\ view.tab = "streams" /\ calls[i].op = "stream"
    /\ Outcome(calls[i].key \notin Streams)
    /\ StreamsAnswer(i, [view EXCEPT !.loading = FALSE, !.streamData = Null], <<>>)

HasGroup(c) == c.key \in Streams /\ c.group \in ToSet(Groups[c.key])

OnPending ==
  \E i \in DOMAIN calls, ok \in BOOLEAN :
    /\ view.tab = "streams" /\ calls[i].op = "pending"
    /\ Outcome(ok = HasGroup(calls[i])) /\ (ok => HasGroup(calls[i]))
    /\ StreamsAnswer(i, [view EXCEPT !.loadingPending = FALSE,
         !.pendingEntries = IF ok THEN <<calls[i].key, calls[i].group>> ELSE Null], <<>>)

StreamNext ==
  \/ SetStreamKey \/ RefreshStream \/ SelectGroup
  \/ OnStreamLoaded \/ OnStreamFailed \/ OnPending

-----------------------------------------------------------------------------
\* When all answers came in turn and none is awaited, the two tables are about
\* the stream in the name field and the group that is marked; the group may
\* still be another stream's, and then the table is empty.  An empty field
\* leaves what was there.
CalmInspector ==
  view.tab = "streams" /\ calm /\ calls = <<>> /\ view.streamKey # Null =>
    /\ view.streamData \in {Null, view.streamKey}
    /\ view.pendingEntries \in {Null, <<view.streamKey, view.selectedGroup>>}
=============================================================================
