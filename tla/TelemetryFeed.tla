---------------------------- MODULE TelemetryFeed ----------------------------
(***************************************************************************)
(* The live dashboard: the poll loop of pkg/telemetry/monitor.go, the      *)
(* event stream of telemetry_handler.go and TelemetryDashboard, which asks *)
(* for a snapshot and a slow log when it is mounted and then listens.  The *)
(* shell of the application holds a stream of its own all the time; both   *)
(* share the tracker of SlowlogFeed, which is an atomic mark here.         *)
(***************************************************************************)
EXTENDS Naturals, Sequences, SequencesExt

CONSTANTS
  None,         \* null: no snapshot, no stream, no reply
  Ring,         \* points the monitor keeps: 300
  Cap,          \* points the dashboard keeps: 120
  SlowCap,      \* slow-log entries it asks for and keeps: 50
  Checked,      \* newest entries a check of the tracker asks for: 20
  MaxPoint,     \* bound: polls that find something new
  MaxSlow,      \* bound: entries of the slow log
  MaxWire,      \* bound: events on their way
  MaxTrouble    \* bound: requests and streams that fail, tabs left

\* What is in memory and on the stream; points and slow entries are numbers.
Snapshots == [current : Nat, history : Seq(Nat)]

Events ==
  [event : {"snapshot"}, data : Snapshots] \cup
  [event : {"metric"}, data : Nat] \cup
  [event : {"slowlog"}, data : Seq(Nat)]

Boards == [snapshot : Snapshots \cup {None}, slowlogs : Seq(Nat)]

ASSUME TelemetryAssumption ==
  /\ {Ring, Cap, MaxWire} \subseteq Nat \ {0, 1}
  /\ {SlowCap, Checked} \subseteq Nat \ {0}
  /\ {MaxPoint, MaxSlow, MaxTrouble} \subseteq Nat
  /\ None \notin Snapshots
  /\ None \notin Boards
  /\ None \notin Seq(Events)

VARIABLES
  point,        \* Monitor.lastPoint, the points numbered; 0: none polled yet
  slow, mark,   \* the newest slow-log entry, and the tracker's mark
  board,        \* None, or the state of the mounted dashboard
  first,        \* its two first requests: their replies
  wire,         \* None, or the events of its stream on their way
  trouble       \* what has gone wrong or been left so far

telemetryVars == <<point, slow, mark, board, first, wire, trouble>>

Snapshot(p) ==
  [current |-> p, history |-> [i \in 1 .. IF p < Ring THEN p ELSE Ring |->
                                 p - (IF p < Ring THEN p ELSE Ring) + i]]

\* The entries of the slow log above an id, the newest first, at most n.
SlowLog(above, n) ==
  [i \in 1 .. IF slow - above < n THEN slow - above ELSE n |-> slow + 1 - i]

EmptyBoard == [snapshot |-> None, slowlogs |-> <<>>]

Requests == {"snapshot", "slowlogs"}

All(status) == [r \in Requests |-> [status |-> status, reply |-> None]]

NoRequests == All("none")

TelemetryTypeOK ==
  /\ point \in 0 .. MaxPoint
  /\ slow \in 0 .. MaxSlow /\ mark \in 0 .. slow
  /\ board = None =>
       first = NoRequests /\ wire = None
  /\ board # None =>
       /\ wire = None \/ Len(wire) <= MaxWire
       /\ board.slowlogs \in Seq(1 .. slow) /\ Len(board.slowlogs) <= SlowCap
       /\ board.snapshot # None =>
            /\ board.snapshot.current \in 0 .. point
            /\ Len(board.snapshot.history) <= IF Ring < Cap THEN Cap ELSE Ring

TelemetryInit ==
  /\ point = 0 /\ slow = 0 /\ mark = 0
  /\ board = None /\ first = NoRequests /\ wire = None
  /\ trouble = 0

-----------------------------------------------------------------------------
(* The server. *)

\* A poll that fails leaves the last point.
Poll ==
  /\ point < MaxPoint
  /\ point' = point + 1
  /\ UNCHANGED <<slow, mark, board, first, wire, trouble>>

LogSlowCommand ==
  /\ slow < MaxSlow
  /\ slow' = slow + 1
  /\ UNCHANGED <<point, mark, board, first, wire, trouble>>

\* The stream of the shell checks too; its handler throws the news away.
ShellTick ==
  /\ mark < slow
  /\ mark' = slow
  /\ UNCHANGED <<point, slow, board, first, wire, trouble>>

\* The stream is accepted, at first or again, and starts with a snapshot.
OpenStream ==
  /\ board # None /\ wire = None
  /\ wire' = <<[event |-> "snapshot", data |-> Snapshot(point)]>>
  /\ UNCHANGED <<point, slow, mark, board, first, trouble>>

\* Every second: the last point, and what the check finds above the mark.
StreamTick ==
  /\ wire # None /\ Len(wire) < MaxWire - 1
  /\ wire' = Append(wire, [event |-> "metric", data |-> point])
             \o (IF mark < slow
                 THEN <<[event |-> "slowlog", data |-> SlowLog(mark, Checked)]>>
                 ELSE <<>>)
  /\ mark' = slow
  /\ UNCHANGED <<point, slow, board, first, trouble>>

Serve(r) ==
  /\ first[r].status = "asked"
  /\ first' = [first EXCEPT ![r] =
                 [status |-> "answered",
                  reply |-> IF r = "snapshot" THEN Snapshot(point)
                            ELSE SlowLog(0, SlowCap)]]
  /\ UNCHANGED <<point, slow, mark, board, wire, trouble>>

-----------------------------------------------------------------------------
(* Failures; the browser opens a stream that broke again. *)

Trouble == trouble < MaxTrouble /\ trouble' = trouble + 1

RequestFails(r) ==
  /\ first[r].status # "none" /\ Trouble
  /\ first' = [first EXCEPT ![r] = NoRequests[r]]
  /\ UNCHANGED <<point, slow, mark, board, wire>>

EventsBreak ==
  /\ wire # None /\ Trouble
  /\ wire' = None
  /\ UNCHANGED <<point, slow, mark, board, first>>

-----------------------------------------------------------------------------
(* The dashboard. *)

OpenDashboard ==
  /\ board = None
  /\ board' = EmptyBoard
  /\ first' = All("asked")
  /\ UNCHANGED <<point, slow, mark, wire, trouble>>

\* unsubscribe; the answers to the first requests find nobody.
LeaveDashboard ==
  /\ board # None /\ Trouble
  /\ board' = None /\ first' = NoRequests /\ wire' = None
  /\ UNCHANGED <<point, slow, mark>>

OnFirst(r) ==
  /\ first[r].status = "answered"
  /\ first' = [first EXCEPT ![r] = NoRequests[r]]
  /\ board' = IF r = "snapshot"
              THEN [board EXCEPT !.snapshot = first[r].reply]
              ELSE [board EXCEPT !.slowlogs = first[r].reply]
  /\ UNCHANGED <<point, slow, mark, wire, trouble>>

\* A slip: the figure changes and the chart does not.
AddFigure(snap, p) == IF snap = None THEN None ELSE [snap EXCEPT !.current = p]

\* A slip: the list is never shortened.
AddPointLonger(snap, p) ==
  IF snap = None THEN None
  ELSE [snap EXCEPT !.current = p, !.history = Append(@, p)]

\* A point for a dashboard that has no snapshot is dropped; the list gives up
\* one point for one once it is longer than Cap.
AddPoint(snap, p) ==
  IF snap = None THEN None
  ELSE LET longer == Append(snap.history, p)
       IN [snap EXCEPT !.current = p,
             !.history = IF Len(longer) > Cap THEN Tail(longer) ELSE longer]

\* What a check found goes in front, known entries once more, and the list is
\* cut to SlowCap.
AddSlow(list, found) ==
  LET all == found \o list
  IN IF Len(all) > SlowCap THEN SubSeq(all, 1, SlowCap) ELSE all

OnEvent ==
  /\ wire \notin {None, <<>>}
  /\ LET e == Head(wire)
     IN board' = CASE e.event = "snapshot" -> [board EXCEPT !.snapshot = e.data]
                   [] e.event = "metric" ->
                        [board EXCEPT !.snapshot = AddPoint(@, e.data)]
                   [] e.event = "slowlog" ->
                        [board EXCEPT !.slowlogs = AddSlow(@, e.data)]
  /\ wire' = Tail(wire)
  /\ UNCHANGED <<point, slow, mark, first, trouble>>

\* What happens without the user and without failures.
TelemetryProgress ==
  \/ OpenStream \/ StreamTick \/ OnEvent
  \/ \E r \in Requests : Serve(r) \/ OnFirst(r)

TelemetryNext ==
  \/ TelemetryProgress
  \/ Poll \/ LogSlowCommand \/ ShellTick \/ EventsBreak
  \/ OpenDashboard \/ LeaveDashboard
  \/ \E r \in Requests : RequestFails(r)

\* The tickers fire, the requests are answered and the events arrive.
TelemetryFair ==
  /\ WF_telemetryVars(OpenStream)
  /\ WF_telemetryVars(StreamTick)
  /\ WF_telemetryVars(OnEvent)
  /\ \A r \in Requests : WF_telemetryVars(Serve(r)) /\ WF_telemetryVars(OnFirst(r))

-----------------------------------------------------------------------------
\* The figures and the end of the chart are those of the monitor.
UpToDate ==
  /\ board.snapshot # None
  /\ board.snapshot.current = point
  /\ point > 0 => /\ board.snapshot.history # <<>>
                  /\ Last(board.snapshot.history) = point

\* A snapshot that was asked for early may arrive late and put old points
\* back, and the stream may break: a dashboard that stays open still ends up
\* with the newest point, once there is no newer one.
DashboardCatchesUp == <>[](board # None) => <>[](board # None /\ UpToDate)
=============================================================================
