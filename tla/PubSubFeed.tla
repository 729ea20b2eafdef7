----------------------------- MODULE PubSubFeed -----------------------------
(***************************************************************************)
(* The pub/sub console: PubSubConsole, the event stream of                 *)
(* pubsub_handler.go with the goroutine that subscribes for it, and the    *)
(* two clients: the one for a real server, whose callback knows nothing of *)
(* the request, and the demo, which makes its messages up.                 *)
(*                                                                         *)
(* A slot is a stream at the server.  It outlives the browser's side: the  *)
(* handler goes on until it looks at its context, the goroutine until its  *)
(* Subscribe returns.                                                      *)
(***************************************************************************)
EXTENDS Naturals, Sequences, FiniteSets, SequencesExt

CONSTANTS
  Slots,        \* bound: streams the server has at one time
  NoSlot,       \* the console has no stream
  Channels,     \* channel names
  Topics,       \* what may be applied: sets of channels; {} stands for "*"
  Buffer,       \* messages the handler's channel holds: 100
  Kept,         \* messages the console keeps: 500
  MaxMessage,   \* bound: messages in a behaviour
  MaxMoves      \* bound: what the user and failures do

ASSUME PubSubAssumption ==
  /\ NoSlot \notin Slots
  /\ Topics \subseteq SUBSET Channels
  /\ {} \in Topics
  /\ {Buffer, Kept} \subseteq Nat \ {0}
  /\ {MaxMessage, MaxMoves} \subseteq Nat

VARIABLES
  demo,         \* the server runs on the demo client
  published,    \* messages so far
  slot,         \* each stream of the server
  conn,         \* the console's stream
  console,      \* the state of the console
  moves         \* what the user and failures have done so far

pubsubVars == <<demo, published, slot, conn, console, moves>>

\* sub is the goroutine: "starting", "listening", "holding" the message at the
\* head of its inbox, "ended".  The wire is what has been flushed.
Free == [handler |-> "none", sub |-> "ended", topics |-> {}, done |-> FALSE,
         inbox |-> <<>>, msgChan |-> <<>>, wire |-> <<>>]

\* What an unmounted console leaves: nothing.
FreshConsole ==
  [mounted |-> TRUE, isListening |-> TRUE, activeChannels |-> {},
   messages |-> <<>>, isPublishing |-> FALSE, publishStatus |-> "none"]

PubSubTypeOK ==
  /\ published \in 0 .. MaxMessage
  /\ conn \in Slots \cup {NoSlot}
  /\ conn # NoSlot => slot[conn].handler = "running" /\ ~slot[conn].done
  /\ conn # NoSlot => console.mounted /\ console.isListening
  /\ \A s \in Slots :
       /\ Len(slot[s].msgChan) <= Buffer
       /\ slot[s].sub = "holding" => slot[s].inbox # <<>>
       /\ slot[s].handler = "running" /\ ~slot[s].done => s = conn
  /\ Len(console.messages) <= Kept
  /\ console.activeChannels \in Topics
  /\ {console.mounted, console.isListening, console.isPublishing, demo} \subseteq BOOLEAN
  /\ console.publishStatus \in {"none", "published", "failed"}

PubSubInit ==
  /\ demo \in BOOLEAN
  /\ published = 0
  /\ slot = [s \in Slots |-> Free]
  /\ conn = NoSlot
  /\ console = [FreshConsole EXCEPT !.mounted = FALSE]
  /\ moves = 0

Move == moves < MaxMoves /\ moves' = moves + 1

-----------------------------------------------------------------------------
(* The browser. *)

\* The stream of the console's effect; a stream that broke is opened again by
\* the browser.
Connect ==
  /\ console.mounted /\ console.isListening /\ conn = NoSlot
  /\ \E s \in Slots :
       /\ slot[s] = Free
       /\ slot' = [slot EXCEPT ![s] =
                     [Free EXCEPT !.handler = "running", !.sub = "starting",
                                  !.topics = console.activeChannels]]
       /\ conn' = s
  /\ UNCHANGED <<demo, published, console, moves>>

\* close(), or the network: the request's context is done.
Hangup ==
  /\ conn' = NoSlot
  /\ slot' = IF conn = NoSlot THEN slot ELSE [slot EXCEPT ![conn].done = TRUE]

StreamBreaks ==
  /\ conn # NoSlot /\ Move
  /\ Hangup
  /\ UNCHANGED <<demo, published, console>>

\* A slip: the state changes and the effect keeps its stream.
ResubscribeLazily(c) ==
  /\ Move
  /\ console' = c
  /\ UNCHANGED <<demo, published, conn, slot>>

\* A change of what the effect depends on: its cleanup runs.
Resubscribe(c) ==
  /\ Move
  /\ console' = c
  /\ Hangup
  /\ UNCHANGED <<demo, published>>

OpenConsole ==
  /\ ~console.mounted
  /\ console' = FreshConsole
  /\ UNCHANGED <<demo, published, slot, conn, moves>>

LeaveConsole ==
  console.mounted /\ Resubscribe([FreshConsole EXCEPT !.mounted = FALSE])

TogglePause ==
  console.mounted /\ Resubscribe([console EXCEPT !.isListening = ~@])

\* Applied topics are a new array: the effect runs although they are the same.
ApplySubscription ==
  /\ console.mounted
  /\ \E ts \in Topics : Resubscribe([console EXCEPT !.activeChannels = ts])

ClearMessages ==
  /\ console.mounted /\ console.messages # <<>> /\ Move
  /\ console' = [console EXCEPT !.messages = <<>>]
  /\ UNCHANGED <<demo, published, slot, conn>>

OnMessage ==
  /\ conn # NoSlot /\ slot[conn].wire # <<>>
  /\ console' = [console EXCEPT !.messages =
                   <<Head(slot[conn].wire)>>
                   \o (IF Len(@) < Kept THEN @ ELSE SubSeq(@, 1, Kept - 1))]
  /\ slot' = [slot EXCEPT ![conn].wire = Tail(@)]
  /\ UNCHANGED <<demo, published, conn, moves>>

SubmitPublish ==
  /\ console.mounted /\ ~console.isPublishing /\ Move
  /\ console' = [console EXCEPT !.isPublishing = TRUE, !.publishStatus = "none"]
  /\ UNCHANGED <<demo, published, slot, conn>>

OnPublished ==
  /\ console.isPublishing
  /\ \E status \in {"published", "failed"} :
       console' = [console EXCEPT !.isPublishing = FALSE, !.publishStatus = status]
  /\ UNCHANGED <<demo, published, slot, conn, moves>>

\* The timer of some earlier publication; it clears whatever is there.
ClearStatus ==
  /\ console.publishStatus # "none"
  /\ console' = [console EXCEPT !.publishStatus = "none"]
  /\ UNCHANGED <<demo, published, slot, conn, moves>>

-----------------------------------------------------------------------------
(* The server. *)

\* Somebody, or the console, publishes: the subscribers get it.
PublishMessage ==
  /\ ~demo /\ published < MaxMessage
  /\ published' = published + 1
  /\ \E c \in Channels :
       slot' = [s \in Slots |->
                  IF slot[s].sub \in {"listening", "holding"} /\ c \in slot[s].topics
                  THEN [slot[s] EXCEPT !.inbox =
                          Append(@, [id |-> published', channel |-> c])]
                  ELSE slot[s]]
  /\ UNCHANGED <<demo, conn, console, moves>>

\* Slot s becomes this; it is free again when both its sides have ended.
Becomes(s, r) ==
  slot' = [slot EXCEPT ![s] = IF r.handler = "none" /\ r.sub = "ended" THEN Free ELSE r]

ServerSide(s, r) ==
  Becomes(s, r) /\ UNCHANGED <<demo, published, conn, console, moves>>

\* The real client passes the channels on and drops the patterns: for "*"
\* alone the server refuses to subscribe to nothing, and the error is dropped.
Subscribe(s) ==
  /\ slot[s].sub = "starting"
  /\ ServerSide(s, [slot[s] EXCEPT !.sub =
                      IF demo \/ slot[s].topics # {} THEN "listening" ELSE "ended"])

SubscribeFails(s) ==
  /\ slot[s].sub \in {"starting", "listening"} /\ ~demo /\ Move
  /\ Becomes(s, [slot[s] EXCEPT !.sub = "ended", !.inbox = <<>>])
  /\ UNCHANGED <<demo, published, conn, console>>

Take(s) ==
  /\ slot[s].sub = "listening" /\ slot[s].inbox # <<>>
  /\ ServerSide(s, [slot[s] EXCEPT !.sub = "holding"])

\* The demo's ticker: any channel, whatever was asked for.
MakeUp(s) ==
  /\ demo /\ slot[s].sub = "listening" /\ published < MaxMessage
  /\ published' = published + 1
  /\ \E c \in Channels :
       slot' = [slot EXCEPT ![s].sub = "holding",
                            ![s].inbox = <<[id |-> published', channel |-> c]>>]
  /\ UNCHANGED <<demo, conn, console, moves>>

\* out <- msg
Push(s) ==
  /\ slot[s].sub = "holding" /\ Len(slot[s].msgChan) < Buffer
  /\ ServerSide(s, [slot[s] EXCEPT !.sub = "listening",
                                   !.msgChan = Append(@, Head(slot[s].inbox)),
                                   !.inbox = Tail(@)])

\* A slip: the demo's send does not look at the context either.
EndSubscriptionIdle(s) ==
  /\ slot[s].done /\ slot[s].sub = "listening"
  /\ ServerSide(s, [slot[s] EXCEPT !.sub = "ended", !.inbox = <<>>])

\* Subscribe returns: the real one between two messages only.
EndSubscription(s) ==
  /\ slot[s].done
  /\ slot[s].sub \in IF demo THEN {"listening", "holding"} ELSE {"listening"}
  /\ ServerSide(s, [slot[s] EXCEPT !.sub = "ended", !.inbox = <<>>])

\* The select of the handler: a message, or the end; with both it may take
\* either.  What is written to a browser that has left is lost.
Forward(s) ==
  /\ slot[s].handler = "running" /\ slot[s].msgChan # <<>>
  /\ ServerSide(s, [slot[s] EXCEPT !.wire = IF slot[s].done THEN <<>>
                                            ELSE Append(@, Head(slot[s].msgChan)),
                                   !.msgChan = Tail(@)])

EndHandler(s) ==
  /\ slot[s].handler = "running" /\ slot[s].done
  /\ ServerSide(s, [slot[s] EXCEPT !.handler = "none"])

Goroutine(s) == Subscribe(s) \/ Take(s) \/ Push(s) \/ EndSubscription(s)

PubSubNext ==
  \/ Connect \/ StreamBreaks \/ OpenConsole \/ LeaveConsole
  \/ TogglePause \/ ApplySubscription \/ ClearMessages
  \/ OnMessage \/ SubmitPublish \/ OnPublished \/ ClearStatus
  \/ PublishMessage
  \/ \E s \in Slots : \/ Goroutine(s) \/ SubscribeFails(s) \/ MakeUp(s)
                      \/ Forward(s) \/ EndHandler(s)

\* A goroutine that can go on does.
PubSubFair ==
  \A s \in Slots : WF_pubsubVars(Goroutine(s)) /\ WF_pubsubVars(EndHandler(s))

-----------------------------------------------------------------------------
\* A message is shown while the console listens, on a real server for a topic
\* that is applied, and after all that were published before it: pausing,
\* resubscribing and breaking streams never bring one twice, late, or from a
\* subscription that was replaced.
ShownOnce ==
  [][LET old == console.messages
         new == console'.messages
     IN new # old /\ new # <<>> =>
          /\ console.isListening
          /\ demo \/ new[1].channel \in console.activeChannels
          /\ \A i \in DOMAIN old : old[i].id < new[1].id]_pubsubVars

\* The goroutine of a stream that the browser has left ends, unless it is the
\* real client's callback on a channel that is full and that nobody reads:
\* that one is left behind for good.
SubscriberEnds ==
  \A s \in Slots :
    slot[s].done ~> \/ slot[s].sub = "ended"
                    \/ /\ ~demo /\ slot[s].sub = "holding"
                       /\ Len(slot[s].msgChan) = Buffer
                       /\ slot[s].handler = "none"
=============================================================================
