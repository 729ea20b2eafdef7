---------------------------- MODULE SlowlogFeed ----------------------------
(***************************************************************************)
(* The slow-log alerts of pkg/telemetry/slowlog.go and the event streams   *)
(* of server/handlers/telemetry_handler.go that carry them.  Each browser  *)
(* view that is open holds a stream, a goroutine with a ticker of its own; *)
(* all of them ask one SlowlogTracker, which keeps one mark, lastSeenID,   *)
(* under one mutex that is held over the call to the server.               *)
(*                                                                         *)
(* The server numbers its entries from 0, keeps the newest MaxLen of them  *)
(* and starts over when it restarts.  An entry is <<run, id>>, run telling *)
(* the lives of the server apart; the program only ever sees the id.       *)
(***************************************************************************)
EXTENDS Integers, FiniteSets

CONSTANTS
  Streams,      \* the event streams
  Nobody,       \* the holder of a free mutex
  Window,       \* entries CheckNewEntries asks for: 20
  MaxLen,       \* entries the server keeps: slowlog-max-len
  MaxId,        \* bound: ids the server gives in one life
  MaxRuns,      \* bound: restarts of the server
  MaxFails      \* bound: calls to the server that fail

ASSUME SlowlogAssumption ==
  /\ Nobody \notin Streams
  /\ Window \in Nat \ {0}
  /\ MaxLen \in Nat \ {0}
  /\ MaxId \in Nat
  /\ MaxRuns \in Nat
  /\ MaxFails \in Nat

VARIABLES
  run, nextID,  \* the server's life, and the next id it gives
  log,          \* the ids in its slow log
  lastSeen,     \* SlowlogTracker.lastSeenID
  holder,       \* who holds SlowlogTracker.mu
  pc,           \* each stream: "closed", "wait", "lock", "fetch", "compare", "write"
  gone,         \* the browser has left: the stream's context is done
  reply,        \* what the server answered the stream's check
  news,         \* what the check found new
  fails,        \* failed calls so far
  owed,         \* history: logged in this life while the stream was open, not in an answer yet
  reported,     \* history: entries some check found new
  scrolled      \* history: pushed out of the newest Window in this life, unreported

server == <<run, nextID, log>>
tracker == <<lastSeen, holder, fails, reported>>
stream == <<pc, gone, reply, news>>
vars == <<server, tracker, stream, owed, scrolled>>

Entry == (0 .. MaxRuns) \X (0 .. MaxId)

\* What SLOWLOG GET answers when it is asked for Window entries.
Recent ==
  {<<run, id>> : id \in {i \in log : Cardinality({j \in log : j >= i}) <= Window}}

-----------------------------------------------------------------------------
(* The server. *)

Scroll == scrolled' = scrolled \cup ((Recent \ Recent') \ reported)

LogSlow ==
  /\ nextID <= MaxId
  /\ nextID' = nextID + 1
  /\ log' = {id \in log \cup {nextID} : id > nextID - MaxLen}
  /\ owed' = [s \in Streams |->
                IF pc[s] = "closed" THEN owed[s] ELSE owed[s] \cup {<<run, nextID>>}]
  /\ UNCHANGED <<run, tracker, stream>>
  /\ Scroll

\* SLOWLOG RESET empties the log and keeps counting.
ResetLog ==
  /\ log' = {}
  /\ UNCHANGED <<run, nextID, tracker, stream, owed>>
  /\ Scroll

Restart ==
  /\ run < MaxRuns
  /\ run' = run + 1
  /\ nextID' = 0
  /\ log' = {}
  /\ owed' = [s \in Streams |-> {}]
  /\ scrolled' = {}
  /\ UNCHANGED <<tracker, stream>>
-----------------------------------------------------------------------------
(* A stream. *)

Goto(s, place) == pc' = [pc EXCEPT ![s] = place]

Open(s) ==
  /\ pc[s] = "closed"
  /\ Goto(s, "wait")
  /\ UNCHANGED <<server, tracker, gone, reply, news, owed, scrolled>>

Leave(s) ==
  /\ pc[s] # "closed" /\ ~gone[s]
  /\ gone' = [gone EXCEPT ![s] = TRUE]
  /\ UNCHANGED <<server, tracker, pc, reply, news, owed, scrolled>>

\* The select: with the context done it may still take the ticker's branch.
Close(s) ==
  /\ pc[s] = "wait" /\ gone[s]
  /\ Goto(s, "closed")
  /\ gone' = [gone EXCEPT ![s] = FALSE]
  /\ owed' = [owed EXCEPT ![s] = {}]
  /\ UNCHANGED <<server, tracker, reply, news, scrolled>>

TickerFires(s) ==
  /\ pc[s] = "wait"
  /\ Goto(s, "lock")
  /\ UNCHANGED <<server, tracker, gone, reply, news, owed, scrolled>>

\* A slip: a check that does not take the mutex.
Barge(s) ==
  /\ pc[s] = "lock"
  /\ holder' = s
  /\ Goto(s, "fetch")
  /\ UNCHANGED <<server, lastSeen, fails, reported, gone, reply, news, owed, scrolled>>

Lock(s) ==
  /\ pc[s] = "lock" /\ holder = Nobody
  /\ holder' = s
  /\ Goto(s, "fetch")
  /\ UNCHANGED <<server, lastSeen, fails, reported, gone, reply, news, owed, scrolled>>

Fetch(s) ==
  /\ pc[s] = "fetch"
  /\ reply' = [reply EXCEPT ![s] = Recent]
  /\ Goto(s, "compare")
  /\ UNCHANGED <<server, tracker, gone, news, owed, scrolled>>

\* A slip: an error path that leaves the mutex locked.
FailLocked(s) ==
  /\ pc[s] = "fetch" /\ fails < MaxFails
  /\ fails' = fails + 1
  /\ Goto(s, "wait")
  /\ UNCHANGED <<server, lastSeen, holder, reported, gone, reply, news, owed, scrolled>>

\* The call fails, as it does on a context that is done: the mark stays.
FetchFails(s) ==
  /\ pc[s] = "fetch" /\ fails < MaxFails
  /\ fails' = fails + 1
  /\ holder' = Nobody
  /\ Goto(s, "wait")
  /\ UNCHANGED <<server, lastSeen, reported, gone, reply, news, owed, scrolled>>

\* A slip: the entry at the mark is new.
AtMark(e) == e[2] >= lastSeen

IsNew(e) == e[2] > lastSeen

\* A slip: the mark is the id that is expected next.
ExpectedNext(entries) ==
  CHOOSE m \in {lastSeen} \cup {e[2] + 1 : e \in entries} :
    \A i \in {lastSeen} \cup {e[2] + 1 : e \in entries} : i <= m

Highest(entries) ==
  CHOOSE m \in {lastSeen} \cup {e[2] : e \in entries} :
    \A i \in {lastSeen} \cup {e[2] : e \in entries} : i <= m

Compare(s) ==
  /\ pc[s] = "compare"
  /\ news' = [news EXCEPT ![s] = {e \in reply[s] : IsNew(e)}]
  /\ lastSeen' = Highest(reply[s])
  /\ reported' = reported \cup news'[s]
  /\ reply' = [reply EXCEPT ![s] = {}]
  /\ owed' = [owed EXCEPT ![s] = @ \ reply[s]]
  /\ holder' = Nobody
  /\ Goto(s, "write")
  /\ UNCHANGED <<server, fails, gone, scrolled>>

\* What is written to a browser that has left is lost; nobody looks.
Write(s) ==
  /\ pc[s] = "write"
  /\ news' = [news EXCEPT ![s] = {}]
  /\ Goto(s, "wait")
  /\ UNCHANGED <<server, tracker, gone, reply, owed, scrolled>>
-----------------------------------------------------------------------------
Init ==
  /\ run = 0 /\ nextID = 0 /\ log = {}
  /\ lastSeen = 0 /\ holder = Nobody /\ fails = 0
  /\ pc = [s \in Streams |-> "closed"]
  /\ gone = [s \in Streams |-> FALSE]
  /\ reply = [s \in Streams |-> {}]
  /\ news = [s \in Streams |-> {}]
  /\ owed = [s \in Streams |-> {}]
  /\ reported = {} /\ scrolled = {}

Step(s) ==
  \/ Close(s) \/ TickerFires(s) \/ Lock(s) \/ Fetch(s) \/ FetchFails(s)
  \/ Compare(s) \/ Write(s)

Next ==
  \/ LogSlow \/ ResetLog \/ Restart
  \/ \E s \in Streams : Open(s) \/ Leave(s) \/ Step(s)

Spec == Init /\ [][Next]_vars

\* The ticker fires and the goroutine is scheduled; a call to the server comes
\* back.  Nothing makes a browser open a stream or leave.
FairSpec == Spec /\ \A s \in Streams : WF_vars(Step(s))
-----------------------------------------------------------------------------
\* Types, and the mutex: a stream is inside it exactly when it holds it.
TypeOK ==
  /\ run \in 0 .. MaxRuns /\ nextID \in 0 .. MaxId + 1
  /\ log \subseteq 0 .. MaxId
  /\ lastSeen \in 0 .. MaxId
  /\ pc \in [Streams -> {"closed", "wait", "lock", "fetch", "compare", "write"}]
  /\ gone \in [Streams -> BOOLEAN]
  /\ {reply, news, owed} \subseteq [Streams -> SUBSET Entry]
  /\ fails \in 0 .. MaxFails
  /\ reported \subseteq Entry /\ scrolled \subseteq Entry
  /\ {s \in Streams : pc[s] \in {"fetch", "compare"}} = {holder} \ {Nobody}

\* However many streams check, whatever fails and however often the server
\* restarts and counts from 0 again: no entry is reported twice.
ReportedOnce ==
  [][\A s \in Streams : news'[s] # news[s] => news'[s] \cap reported = {}]_vars

\* The mark passes no entry by: while the server lives, one that has an id up
\* to the mark was reported, or was pushed out of the newest Window before.
\* The first id, 0, is never reported: the mark starts there.
NothingSkipped ==
  run = 0 => \A id \in 1 .. lastSeen : <<0, id>> \in reported \cup scrolled

\* An entry above the mark is reported, by this stream or by another (the mark
\* passes it, which NothingSkipped says is a report), while a stream stays open,
\* unless it is pushed out or lost with the server first.
NewsReported ==
  \A id \in 1 .. MaxId, s \in Streams :
    (<<run, id>> \in Recent /\ id > lastSeen /\ pc[s] = "wait" /\ ~gone[s])
      ~> (id <= lastSeen \/ <<run, id>> \notin Recent \/ gone[s])

\* ARCHITECTURE.md, "Slowlog Streamer: ... tracks unseen entries, and
\* broadcasts them over Server-Sent Events": what was logged while a stream was
\* open is sent on it by the first check of it that is answered with it.  Id 0,
\* that no stream is ever sent, is left aside.
Broadcast ==
  [][\A s \in Streams :
       Compare(s) => \A e \in reply[s] \cap owed[s] : e[2] > 0 => e \in news'[s]]_vars
=============================================================================
