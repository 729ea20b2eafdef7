---------------------------- MODULE StudioProofs ----------------------------
(***************************************************************************)
(* Proofs about the connection profiles and the shell of the application:  *)
(* for any number of requests and any lists, a profiles file is never read *)
(* half written while its writer is alive; the palette's cursor is always  *)
(* on a line; and once everything is answered, the list on the screen is   *)
(* the list in the file.  The last needs the order of the requests that    *)
(* are on their way, each with the job of its handler (InOrder).           *)
(***************************************************************************)
EXTENDS Studio, RequestProofs

-----------------------------------------------------------------------------
(* The lock. *)

\* The lock says who is where: readers read and nobody writes meanwhile, a
\* writer is alone, and a torn file has its writer in the middle of the write
\* or lost it there.
LockInv ==
  /\ \A h \in Handlers : job[h].pc = "reading" => job[h].op = "load"
  /\ \A h \in Handlers : job[h].pc \in {"opening", "writing"} => job[h].op = "save"
  /\ \A h \in Handlers : job[h].pc = "reading" <=> h \in readers
  /\ \A h \in Handlers : job[h].pc \in {"opening", "writing"} <=> writer = h
  /\ readers # {} => writer = Nobody
  /\ file = Torn => interrupted \/ \E h \in Handlers : job[h].pc = "writing"

StoreInv == StoreTypeOK /\ LockInv

USE DEF storeVars

LEMMA StoreInvInit ==
  ASSUME StoreInit
  PROVE  StoreInv
<1> USE StoreAssumption DEF StoreInit
<1>1. \A h \in Handlers : job[h].pc = "idle"
  OBVIOUS
<1>2. StoreTypeOK
  BY DEF StoreTypeOK, Job, Places
<1>3. LockInv
  BY <1>1 DEF LockInv
<1> QED
  BY <1>2, <1>3 DEF StoreInv

LEMMA StoreTypeStep ==
  ASSUME StoreTypeOK, [StoreNext]_storeVars
  PROVE  StoreTypeOK'
<1> USE StoreAssumption DEF StoreTypeOK, Job, Places
<1>1. CASE UNCHANGED storeVars
  BY <1>1
<1>2. ASSUME NEW h \in Handlers, NEW op \in {"load", "save"}, NEW list \in Lists,
             Submit(h, op, list)
      PROVE  StoreTypeOK'
  BY <1>2 DEF Submit
<1>3. ASSUME NEW h \in Handlers, Acquire(h) PROVE StoreTypeOK'
  BY <1>3 DEF Acquire
<1>4. ASSUME NEW h \in Handlers, Read(h) PROVE StoreTypeOK'
  <2>1. Contents \in Lists \cup {Error}
    BY DEF Contents
  <2> QED
    BY <1>4, <2>1 DEF Read
<1>5. ASSUME NEW h \in Handlers, Truncate(h) PROVE StoreTypeOK'
  BY <1>5 DEF Truncate
<1>6. ASSUME NEW h \in Handlers, WriteOut(h) PROVE StoreTypeOK'
  BY <1>6 DEF WriteOut
<1>7. ASSUME NEW h \in Handlers, WriteFails(h) PROVE StoreTypeOK'
  BY <1>7 DEF WriteFails
<1>8. ASSUME NEW h \in Handlers, Finish(h) PROVE StoreTypeOK'
  BY <1>8 DEF Finish
<1>9. CASE Crash
  BY <1>9 DEF Crash
<1> QED
  BY <1>1, <1>2, <1>3, <1>4, <1>5, <1>6, <1>7, <1>8, <1>9 DEF StoreNext, Work

LEMMA LockStep ==
  ASSUME StoreInv, [StoreNext]_storeVars
  PROVE  LockInv'
<1> USE StoreAssumption DEF StoreInv, StoreTypeOK, LockInv, Job, Places
<1>1. CASE UNCHANGED storeVars
  BY <1>1
<1>2. ASSUME NEW h \in Handlers, NEW op \in {"load", "save"}, NEW list \in Lists,
             Submit(h, op, list)
      PROVE  LockInv'
  BY <1>2 DEF Submit
<1>3. ASSUME NEW h \in Handlers, Acquire(h) PROVE LockInv'
  BY <1>3 DEF Acquire
<1>4. ASSUME NEW h \in Handlers, Read(h) PROVE LockInv'
  BY <1>4 DEF Read
<1>5. ASSUME NEW h \in Handlers, Truncate(h) PROVE LockInv'
  BY <1>5 DEF Truncate
<1>6. ASSUME NEW h \in Handlers, WriteOut(h) PROVE LockInv'
  BY <1>6 DEF WriteOut
<1>7. ASSUME NEW h \in Handlers, WriteFails(h) PROVE LockInv'
  BY <1>7 DEF WriteFails
<1>8. ASSUME NEW h \in Handlers, Finish(h) PROVE LockInv'
  BY <1>8 DEF Finish
<1>9. CASE Crash
  BY <1>9 DEF Crash
<1> QED
  BY <1>1, <1>2, <1>3, <1>4, <1>5, <1>6, <1>7, <1>8, <1>9 DEF StoreNext, Work

LEMMA StoreInvariant == StoreSpec => []StoreInv
<1>1. StoreInv /\ [StoreNext]_storeVars => StoreInv'
  BY StoreTypeStep, LockStep DEF StoreInv
<1> QED
  BY <1>1, StoreInvInit, PTL DEF StoreSpec

\* Profiles never reads what SaveProfiles is in the middle of writing.
THEOREM StoreLoadsWhole == StoreSpec => []LoadsAreWhole
<1>1. StoreInv => LoadsAreWhole
  BY StoreAssumption DEF StoreInv, StoreTypeOK, LockInv, LoadsAreWhole
<1> QED
  BY <1>1, StoreInvariant, PTL

-----------------------------------------------------------------------------
(* The application over the store. *)

\* What the user, the answers and the server do in the application is a step
\* of the store or leaves it alone.
LEMMA StudioStepsStore ==
  ASSUME StudioNext
  PROVE  StoreNext \/ UNCHANGED storeVars
<1>1. \A h \in Handlers, op \in {"load", "save"}, list \in Lists :
        Submit(h, op, list) => StoreNext
  BY DEF StoreNext
<1>2. \A h \in Handlers : Work(h) \/ WriteFails(h) \/ Finish(h) => StoreNext
  BY DEF StoreNext
<1>3. ASSUME NEW v, NEW op \in {"load", "save"}, NEW edit, NEW list \in Lists,
             ProfilesStep(v, op, edit, list)
      PROVE  StoreNext
  BY <1>1, <1>3 DEF ProfilesStep
<1>4. CASE SelectTab
  BY <1>4 DEF SelectTab, ShellStep
<1>5. CASE TogglePalette
  BY <1>5 DEF TogglePalette, ShellStep
<1>6. CASE TypeQuery
  BY <1>6 DEF TypeQuery, ShellStep
<1>7. CASE MoveCursor
  BY <1>7 DEF MoveCursor, ShellStep
<1>8. CASE RunAction
  BY <1>8 DEF RunAction, ShellStep
<1>9. CASE StreamEvent
  BY <1>9 DEF StreamEvent
<1>10. CASE OnInfo
  BY <1>10 DEF OnInfo
<1>11. CASE OpenProfiles
  BY <1>3, <1>11, StoreAssumption DEF OpenProfiles
<1>12. CASE CloseProfiles
  BY <1>12 DEF CloseProfiles, ShellStep
<1>13. CASE Connect
  BY <1>13 DEF Connect
<1>14. CASE ToggleAdd
  BY <1>14 DEF ToggleAdd, ShellStep
<1>15. ASSUME NEW edit, NEW list, Edit(edit, list) PROVE StoreNext
  BY <1>3, <1>15 DEF Edit, SaveList
<1>16. CASE AddProfile
  BY <1>15, <1>16 DEF AddProfile
<1>17. CASE DeleteProfile
  BY <1>15, <1>17 DEF DeleteProfile
<1>18. CASE ServerStep
  BY <1>2, <1>18 DEF ServerStep
<1>19. CASE ServerFails
  BY <1>2, <1>19 DEF ServerFails, StoreNext
<1>20. CASE OnProfiles
  BY <1>2, <1>20 DEF OnProfiles
<1> QED
  BY <1>4, <1>5, <1>6, <1>7, <1>8, <1>9, <1>10, <1>11, <1>12, <1>13, <1>14,
     <1>16, <1>17, <1>18, <1>19, <1>20 DEF StudioNext

\* The application uses the store as StoreSpec says: what the store promises,
\* it promises whatever the user does to the profile list.
THEOREM StudioImplementsStore == StudioSpec => StoreSpec
<1>1. StudioInit => StoreInit
  BY DEF StudioInit
<1>2. [StudioNext]_studioVars => [StoreNext]_storeVars
  BY StudioStepsStore DEF studioVars
<1> QED
  BY <1>1, <1>2, PTL DEF StudioSpec, StoreSpec

\* In the application, too, a list that cannot be loaded is one whose last
\* write was cut short.
THEOREM LoadsAreWholeCorrect == StudioSpec => []LoadsAreWhole
BY StudioImplementsStore, StoreLoadsWhole, PTL

-----------------------------------------------------------------------------
(* The palette *)

LEMMA PaletteLeads ==
  /\ DOMAIN PaletteActions = 1 .. 12
  /\ \A i \in 1 .. 12 : PaletteActions[i] \in ToSet(Tabs) \cup {"export"}
<1> DEFINE more == <<"traffic", "export", "export">>
           S == {"explorer", "profiler", "traffic", "clients", "pubsub",
                 "cluster", "streams", "telemetry", "repl", "export"}
<1>1. Tabs \in Seq(S) /\ Len(Tabs) = 9
  BY DEF Tabs
<1>2. more \in Seq(S) /\ Len(more) = 3
  OBVIOUS
<1>3. Tabs[3] = "traffic"
  BY DEF Tabs
<1>4. more[1] = "traffic" /\ more[2] = "export" /\ more[3] = "export"
  OBVIOUS
<1>5. PaletteActions = Tabs \o more
  BY DEF PaletteActions
<1> HIDE DEF more, S
<1>6. DOMAIN Tabs = 1 .. 9
  BY <1>1
<1>7. \A i \in 1 .. 9 : Tabs[i] \in ToSet(Tabs)
  BY <1>6 DEF ToSet
<1>8. "traffic" \in ToSet(Tabs)
  BY <1>3, <1>7
<1>9. /\ Tabs \o more \in Seq(S) /\ Len(Tabs \o more) = Len(Tabs) + Len(more)
      /\ \A i \in 1 .. Len(Tabs) + Len(more) :
           (Tabs \o more)[i] = IF i <= Len(Tabs) THEN Tabs[i] ELSE more[i - Len(Tabs)]
  BY <1>1, <1>2, ConcatProperties
<1>10. Len(Tabs) + Len(more) = 12
  BY <1>1, <1>2
<1>11. DOMAIN (Tabs \o more) = 1 .. 12
  <2>1. \A q \in Seq(S) : DOMAIN q = 1 .. Len(q)
    OBVIOUS
  <2> QED
    BY <1>9, <1>10, <2>1, Zenon
<1>12. ASSUME NEW i \in 1 .. 12
       PROVE  (Tabs \o more)[i] \in ToSet(Tabs) \cup {"export"}
  <2>0. (Tabs \o more)[i] = IF i <= 9 THEN Tabs[i] ELSE more[i - 9]
    BY <1>1, <1>9, <1>10
  <2>1. CASE i <= 9
    BY <1>7, <2>0, <2>1
  <2>2. CASE i > 9
    <3>1. ~(i <= 9) /\ i - 9 \in {1, 2, 3}
      BY <2>2
    <3>2. more[i - 9] \in {"traffic", "export"}
      BY <1>4, <3>1
    <3> QED
      BY <1>8, <2>0, <3>1, <3>2
  <2>3. i <= 9 \/ i > 9
    OBVIOUS
  <2> QED
    BY <2>1, <2>2, <2>3
<1> QED
  BY <1>5, <1>11, <1>12

LEMMA FilteredIs ==
  ASSUME NEW q \in Queries
  PROVE  /\ Len(Filtered(q)) \in Nat
         /\ Filtered(q) = <<>> <=> Len(Filtered(q)) = 0
         /\ DOMAIN Filtered(q) = 1 .. Len(Filtered(q))
         /\ \A i \in DOMAIN Filtered(q) : Filtered(q)[i] \in DOMAIN PaletteActions
<1> DEFINE all == [i \in DOMAIN PaletteActions |-> i]
<1>1. all \in Seq(DOMAIN PaletteActions) /\ DOMAIN all = DOMAIN PaletteActions
  BY PaletteLeads
<1>2. Matching[q] \in SUBSET DOMAIN all
  BY <1>1, StudioAssumption
<1>3. Filtered(q) = Picked(all, Matching[q])
  BY DEF Filtered
<1> HIDE DEF all
<1>4. Filtered(q) \in Seq(DOMAIN PaletteActions)
  BY <1>1, <1>2, <1>3, PickedIs
<1> QED
  BY <1>4

View ==
  [currentTab : ToSet(Tabs), systemInfo : {Null, "info"}, isProfilesOpen : BOOLEAN,
   isCommandPaletteOpen : BOOLEAN, isStreaming : BOOLEAN, query : Queries,
   selectedIndex : Nat, profiles : Lists, loaded : BOOLEAN, showAdd : BOOLEAN]

Requests ==
  [op : {"info"}, key : {Null}, reply : {Null}]
    \cup [op : {"load", "save"}, edit : Edits, reply : Handlers]

\* The cursor of view v is on a line of its list.
OnLine(v) ==
  v.isCommandPaletteOpen =>
    \/ v.selectedIndex < Len(Filtered(v.query))
    \/ v.selectedIndex = 0 /\ Filtered(v.query) = <<>>

LEMMA NoQueryMatches == NoQuery \in Queries
<1>1. \E q \in Queries : Matching[q] = DOMAIN PaletteActions
  BY StudioAssumption
<1> QED
  BY <1>1, Zenon DEF NoQuery

LEMMA Tops ==
  ASSUME NEW v, v.query \in Queries, v.selectedIndex = 0
  PROVE  OnLine(v)
BY FilteredIs DEF OnLine

LEMMA Opened ==
  ASSUME NEW v \in View, OnLine(v), NEW open \in BOOLEAN
  PROVE  PaletteOpen(v, open) \in View /\ OnLine(PaletteOpen(v, open))
<1>1. CASE open /\ ~v.isCommandPaletteOpen
  <2> DEFINE w == [v EXCEPT !.isCommandPaletteOpen = TRUE, !.query = NoQuery,
                            !.selectedIndex = 0]
  <2>1. w \in View
    BY NoQueryMatches DEF View
  <2>2. w.query \in Queries /\ w.selectedIndex = 0
    BY NoQueryMatches DEF View
  <2>3. PaletteOpen(v, open) = w
    BY <1>1 DEF PaletteOpen
  <2> HIDE DEF w
  <2> QED
    BY <2>1, <2>2, <2>3, Tops
<1>2. CASE ~(open /\ ~v.isCommandPaletteOpen)
  <2> DEFINE w == [v EXCEPT !.isCommandPaletteOpen = open]
  <2>1. w \in View
    BY DEF View
  <2>2. /\ w.query = v.query /\ w.selectedIndex = v.selectedIndex
        /\ w.isCommandPaletteOpen => v.isCommandPaletteOpen
    BY <1>2 DEF View
  <2>3. PaletteOpen(v, open) = w
    BY <1>2 DEF PaletteOpen
  <2> HIDE DEF w
  <2> QED
    BY <2>1, <2>2, <2>3 DEF OnLine
<1> QED
  BY <1>1, <1>2

LEMMA TabShown ==
  ASSUME NEW v \in View, OnLine(v), NEW t \in ToSet(Tabs), NEW w,
         w = [v EXCEPT !.currentTab = t]
  PROVE  w \in View /\ OnLine(w) /\ w.loaded = v.loaded /\ w.profiles = v.profiles
<1>1. w \in View
  BY DEF View
<1>2. /\ w.isCommandPaletteOpen = v.isCommandPaletteOpen
      /\ w.selectedIndex = v.selectedIndex /\ w.query = v.query
      /\ w.loaded = v.loaded /\ w.profiles = v.profiles
  BY DEF View
<1> QED
  BY <1>1, <1>2 DEF OnLine

\* A step that only moves in the palette or among the tabs.
ShellOnly ==
  /\ view' \in View /\ OnLine(view')
  /\ view'.loaded = view.loaded /\ view'.profiles = view.profiles
  /\ calls' = calls \o <<>> \/ UNCHANGED calls
  /\ UNCHANGED <<calm, storeVars>>

LEMMA Kept ==
  ASSUME NEW v \in View, NEW open \in BOOLEAN
  PROVE  /\ PaletteOpen(v, open).loaded = v.loaded
         /\ PaletteOpen(v, open).profiles = v.profiles
BY DEF PaletteOpen, View

LEMMA SelectTabStep ==
  ASSUME view \in View, OnLine(view), SelectTab
  PROVE  ShellOnly
<1>1. PICK t \in ToSet(Tabs) : ShellStep([view EXCEPT !.currentTab = t])
  BY DEF SelectTab
<1> DEFINE w == [view EXCEPT !.currentTab = t]
<1>2. w \in View /\ OnLine(w) /\ w.loaded = view.loaded /\ w.profiles = view.profiles
  BY TabShown
<1> HIDE DEF w
<1> QED
  BY <1>1, <1>2 DEF w, ShellStep, Land, ShellOnly

LEMMA TogglePaletteStep ==
  ASSUME view \in View, OnLine(view), TogglePalette
  PROVE  ShellOnly
<1> DEFINE w == PaletteOpen(view, ~view.isCommandPaletteOpen)
<1>1. (~view.isCommandPaletteOpen) \in BOOLEAN
  OBVIOUS
<1>2. w \in View /\ OnLine(w) /\ w.loaded = view.loaded /\ w.profiles = view.profiles
  BY <1>1, Opened, Kept
<1>3. ShellStep(w)
  BY DEF TogglePalette
<1> HIDE DEF w
<1> QED
  BY <1>2, <1>3 DEF ShellStep, Land, ShellOnly

LEMMA TypeQueryStep ==
  ASSUME view \in View, OnLine(view), TypeQuery
  PROVE  ShellOnly
<1>1. PICK q \in Queries : ShellStep(Typed(view, q))
  BY DEF TypeQuery
<1> DEFINE w == Typed(view, q)
<1>2. /\ w \in View /\ w.loaded = view.loaded /\ w.profiles = view.profiles
      /\ w.query = q /\ w.selectedIndex = 0
  BY DEF Typed, View
<1> HIDE DEF w
<1>3. OnLine(w)
  BY <1>2, Tops
<1> QED
  BY <1>1, <1>2, <1>3 DEF w, ShellStep, Land, ShellOnly

\* Where the arrows and the mouse take the cursor in a list of n lines.
LEMMA Moved ==
  ASSUME NEW n \in Nat, NEW i \in Nat, NEW m, m = (IF n = 0 THEN 1 ELSE n),
         NEW to \in {(i + 1) % m, (i + n + m - 1) % m} \cup 0 .. n - 1
  PROVE  to \in Nat /\ (to < n \/ (to = 0 /\ n = 0))
<1>1. m \in Nat /\ m > 0 /\ i + 1 \in Nat /\ i + n + m - 1 \in Nat
  OBVIOUS
<1>2. \A a \in Nat : a % m \in 0 .. m - 1
  BY <1>1
<1>3. CASE to \in 0 .. n - 1
  BY <1>3
<1>4. CASE to \in {(i + 1) % m, (i + n + m - 1) % m}
  <2>1. to \in 0 .. m - 1
    BY <1>1, <1>2, <1>4
  <2> QED
    BY <1>1, <2>1
<1> QED
  BY <1>3, <1>4

LEMMA MoveCursorStep ==
  ASSUME view \in View, OnLine(view), MoveCursor
  PROVE  ShellOnly
<1> DEFINE n == Len(Filtered(view.query))
           m == IF n = 0 THEN 1 ELSE n
           i == view.selectedIndex
<1>1. PICK to \in {(i + 1) % m, (i + n + m - 1) % m} \cup 0 .. n - 1 :
        ShellStep([view EXCEPT !.selectedIndex = to])
  BY DEF MoveCursor
<1>2. view.query \in Queries /\ i \in Nat
  BY DEF View
<1>3. n \in Nat /\ (Filtered(view.query) = <<>> <=> n = 0)
  BY <1>2, FilteredIs
<1> HIDE DEF n, i
<1>4. to \in Nat /\ (to < n \/ (to = 0 /\ n = 0))
  BY <1>2, <1>3, Moved
<1> DEFINE w == [view EXCEPT !.selectedIndex = to]
<1>5. /\ w \in View /\ w.loaded = view.loaded /\ w.profiles = view.profiles
      /\ w.query = view.query /\ w.selectedIndex = to
  BY <1>4 DEF View
<1> HIDE DEF w
<1>6. OnLine(w)
  BY <1>3, <1>4, <1>5 DEF OnLine, n
<1> QED
  BY <1>1, <1>5, <1>6 DEF w, ShellStep, Land, ShellOnly

LEMMA RunActionStep ==
  ASSUME view \in View, OnLine(view), RunAction
  PROVE  ShellOnly
<1> DEFINE v == PaletteOpen(view, FALSE)
           to(i) == PaletteActions[Filtered(view.query)[i]]
<1>1. PICK i \in DOMAIN Filtered(view.query) :
        ShellStep([v EXCEPT !.currentTab = IF to(i) = "export" THEN @ ELSE to(i)])
  BY DEF RunAction
<1>2. v \in View /\ OnLine(v) /\ v.loaded = view.loaded /\ v.profiles = view.profiles
  BY Opened, Kept
<1>3. to(i) \in ToSet(Tabs) \cup {"export"}
  <2>1. view.query \in Queries
    BY DEF View
  <2> QED
    BY <2>1, FilteredIs, PaletteLeads
<1>4. v.currentTab \in ToSet(Tabs)
  BY <1>2 DEF View
<1> HIDE DEF v, to
<1> DEFINE t == IF to(i) = "export" THEN v.currentTab ELSE to(i)
           w == [v EXCEPT !.currentTab = t]
<1>5. t \in ToSet(Tabs)
  BY <1>3, <1>4
<1>6. [v EXCEPT !.currentTab = IF to(i) = "export" THEN @ ELSE to(i)] = w
  OBVIOUS
<1> HIDE DEF t
<1>7. w \in View /\ OnLine(w) /\ w.loaded = v.loaded /\ w.profiles = v.profiles
  BY <1>2, <1>5, TabShown
<1> HIDE DEF w
<1>8. ShellStep(w)
  BY <1>1, <1>6
<1> QED
  BY <1>2, <1>7, <1>8 DEF ShellStep, Land, ShellOnly

-----------------------------------------------------------------------------
(* The requests for profiles, in the order they were sent *)

\* What a request is to the server: the job of its handler.
NoTask == [op |-> "info", pc |-> "none"]

Task(c, jb) == IF c.op = "info" THEN NoTask ELSE jb[c.reply]

Line(q, jb) == [i \in DOMAIN q |-> Task(q[i], jb)]

\* A handler that is not idle handles one request in flight.
Handling(q, jb) ==
  /\ \A i, j \in DOMAIN q :
       q[i].op # "info" /\ q[j].op # "info" /\ q[i].reply = q[j].reply => i = j
  /\ \A i \in DOMAIN q :
       q[i].op # "info" =>
         jb[q[i].reply].pc # "idle" /\ jb[q[i].reply].op = q[i].op
  /\ \A h \in Handlers :
       jb[h].pc # "idle" => \E i \in DOMAIN q : q[i].op # "info" /\ q[i].reply = h

Unwritten(t) == t.op = "save" /\ t.pc \in {"waiting", "opening", "writing"}

\* The lock is given in the order of the requests, no save follows a load, and
\* a load that got the lock has all saves behind it.
Orderly(w) ==
  /\ \A i, j \in DOMAIN w : i < j /\ w[i].op = "load" => w[j].op # "save"
  /\ \A i, j \in DOMAIN w :
       i < j /\ w[i].pc = "waiting" => w[j].pc \in {"waiting", "none"}
  /\ \A i, j \in DOMAIN w :
       w[i].op = "load" /\ w[i].pc \in {"reading", "done"} => ~Unwritten(w[j])

\* What a load brings is what the file has.
Faithful(w, c) ==
  \A i \in DOMAIN w :
    w[i].op = "load" /\ w[i].pc = "done" => w[i].reply = c /\ c # Error

\* The youngest save that is not written has the list; if there is none, the
\* file has it.
Settled(w, list, c) ==
  /\ \A i \in DOMAIN w :
       Unwritten(w[i]) /\ (\A j \in DOMAIN w : Unwritten(w[j]) => j <= i)
         => w[i].list = list
  /\ (\A i \in DOMAIN w : ~Unwritten(w[i])) => c = list

InOrder(w, loaded, list, c) ==
  /\ Orderly(w)
  /\ Faithful(w, c)
  /\ IF loaded THEN Settled(w, list, c) ELSE \A i \in DOMAIN w : w[i].op # "save"

\* A request that has nothing left to write is answered.
LEMMA InOrderRest ==
  ASSUME NEW n \in Nat, NEW w, DOMAIN w = 1 .. n, NEW i \in 1 .. n,
         NEW r, DOMAIN r = 1 .. n - 1,
         \A j \in 1 .. n - 1 : Skip(i, j) \in 1 .. n /\ r[j] = w[Skip(i, j)],
         \A j, k \in 1 .. n - 1 : j < k <=> Skip(i, j) < Skip(i, k),
         \A k \in 1 .. n : k # i => \E j \in 1 .. n - 1 : Skip(i, j) = k,
         NEW loaded, NEW list, NEW c,
         InOrder(w, loaded, list, c), ~Unwritten(w[i])
  PROVE  InOrder(r, loaded, list, c)
<1>1. Orderly(r)
  BY DEF InOrder, Orderly
<1>2. Faithful(r, c)
  BY DEF InOrder, Faithful
<1>3. CASE loaded
  <2>1. Settled(w, list, c)
    BY <1>3 DEF InOrder
  <2>2. ASSUME NEW j \in DOMAIN r, Unwritten(r[j]),
               \A k \in DOMAIN r : Unwritten(r[k]) => k <= j
        PROVE  r[j].list = list
    <3>1. ASSUME NEW k \in DOMAIN w, Unwritten(w[k])
          PROVE  k <= Skip(i, j)
      <4>1. PICK m \in 1 .. n - 1 : Skip(i, m) = k
        BY <3>1
      <4>2. m <= j
        BY <2>2, <3>1, <4>1
      <4>3. ~(j < m) /\ Skip(i, j) \in Nat /\ Skip(i, m) \in Nat
        BY <2>2, <4>2
      <4>4. ~(Skip(i, j) < Skip(i, m))
        BY <2>2, <4>3
      <4> QED
        BY <4>1, <4>3, <4>4
    <3>2. Unwritten(w[Skip(i, j)]) /\ Skip(i, j) \in DOMAIN w
      BY <2>2
    <3> QED
      BY <2>1, <2>2, <3>1, <3>2 DEF Settled
  <2>3. ASSUME \A j \in DOMAIN r : ~Unwritten(r[j])
        PROVE  c = list
    <3>1. \A k \in DOMAIN w : ~Unwritten(w[k])
      BY <2>3
    <3> QED
      BY <2>1, <3>1 DEF Settled
  <2> QED
    BY <1>1, <1>2, <1>3, <2>2, <2>3 DEF InOrder, Settled
<1>4. CASE ~loaded
  <2>1. \A j \in DOMAIN r : r[j].op # "save"
    BY <1>4 DEF InOrder
  <2> QED
    BY <1>1, <1>2, <1>4, <2>1 DEF InOrder
<1> QED
  BY <1>3, <1>4

\* A request is sent: for the system status, for the list, or with a new list
\* when the old one has been loaded and no load is awaited.
LEMMA InOrderMore ==
  ASSUME NEW n \in Nat, NEW w, DOMAIN w = 1 .. n,
         NEW r, DOMAIN r = 1 .. n + 1, \A j \in 1 .. n : r[j] = w[j],
         NEW t, r[n + 1] = t,
         NEW loaded, NEW list, NEW c, NEW list2,
         InOrder(w, loaded, list, c),
         \/ t.op = "info" /\ t.pc = "none" /\ list2 = list
         \/ t.op = "load" /\ t.pc = "waiting" /\ list2 = list
         \/ /\ t.op = "save" /\ t.pc = "waiting" /\ t.list = list2
            /\ loaded /\ \A i \in 1 .. n : w[i].op # "load"
  PROVE  InOrder(r, loaded, list2, c)
<1>0. /\ \A i \in 1 .. n + 1 : i \in 1 .. n \/ i = n + 1
      /\ \A i \in 1 .. n : i \in 1 .. n + 1 /\ i < n + 1 /\ ~(n + 1 < i)
      /\ n + 1 \in 1 .. n + 1 /\ ~(n + 1 < n + 1) /\ n + 1 <= n + 1
  OBVIOUS
<1>1. Orderly(r)
  <2>1. Orderly(w)
    BY DEF InOrder
  <2>2. ASSUME NEW i \in DOMAIN r, NEW j \in DOMAIN r, i < j
        PROVE  /\ r[i].op = "load" => r[j].op # "save"
               /\ r[i].pc = "waiting" => r[j].pc \in {"waiting", "none"}
    <3>1. i \in 1 .. n
      BY <2>2
    <3>2. CASE j \in 1 .. n
      BY <2>1, <2>2, <3>1, <3>2 DEF Orderly
    <3>3. CASE j = n + 1
      BY <3>1, <3>3
    <3> QED
      BY <3>2, <3>3, <1>0
  <2>3. ASSUME NEW i \in DOMAIN r, NEW j \in DOMAIN r, r[i].op = "load",
               r[i].pc \in {"reading", "done"}
        PROVE  ~Unwritten(r[j])
    <3>1. i \in 1 .. n
      BY <1>0, <2>3
    <3>2. CASE j \in 1 .. n
      BY <2>1, <2>3, <3>1, <3>2 DEF Orderly
    <3>3. CASE j = n + 1
      BY <2>3, <3>1, <3>3 DEF Unwritten
    <3> QED
      BY <3>2, <3>3, <1>0
  <2> QED
    BY <2>2, <2>3 DEF Orderly
<1>2. Faithful(r, c)
  BY <1>0 DEF InOrder, Faithful
<1>3. CASE loaded /\ t.op = "save"
  <2>1. Unwritten(r[n + 1])
    BY <1>3 DEF Unwritten
  <2>2. ASSUME NEW j \in DOMAIN r, Unwritten(r[j]),
               \A k \in DOMAIN r : Unwritten(r[k]) => k <= j
        PROVE  r[j].list = list2
    <3>1. n + 1 <= j
      BY <1>0, <2>1, <2>2
    <3>2. j = n + 1
      BY <3>1
    <3> QED
      BY <1>3, <3>2
  <2> QED
    BY <1>0, <1>1, <1>2, <1>3, <2>1, <2>2 DEF InOrder, Settled
<1>4. CASE loaded /\ t.op # "save"
  <2>1. Settled(w, list, c) /\ list2 = list
    BY <1>4 DEF InOrder
  <2>2. ~Unwritten(r[n + 1])
    BY <1>4 DEF Unwritten
  <2>3. Settled(r, list, c)
    BY <1>0, <2>1, <2>2 DEF Settled
  <2> QED
    BY <1>1, <1>2, <1>4, <2>1, <2>3 DEF InOrder
<1>5. CASE ~loaded
  <2>1. \A j \in DOMAIN r : r[j].op # "save"
    BY <1>0, <1>5 DEF InOrder
  <2> QED
    BY <1>1, <1>2, <1>5, <2>1 DEF InOrder
<1> QED
  BY <1>3, <1>4, <1>5

\* Request i of n is served: the others stay as they are.
Changed(n, w, r, i) ==
  /\ n \in Nat /\ i \in 1 .. n
  /\ DOMAIN w = 1 .. n /\ DOMAIN r = 1 .. n
  /\ \A j \in 1 .. n : j # i => r[j] = w[j]

\* RLock: a load gets the lock.
LEMMA InOrderRLock ==
  ASSUME NEW n, NEW w, NEW r, NEW i, Changed(n, w, r, i),
         NEW loaded, NEW list, NEW c, InOrder(w, loaded, list, c),
         w[i].op = "load", w[i].pc = "waiting", r[i].op = "load", r[i].pc = "reading",
         \A j \in 1 .. n : w[j].pc \notin {"opening", "writing"},
         \A j \in 1 .. n : j < i => w[j].pc # "waiting"
  PROVE  InOrder(r, loaded, list, c)
<1> USE DEF Changed
<1>1. Orderly(w) /\ Faithful(w, c)
  BY DEF InOrder
<1>2. Orderly(r)
  <2>1. ASSUME NEW j \in DOMAIN r, NEW k \in DOMAIN r, j < k
        PROVE  /\ r[j].op = "load" => r[k].op # "save"
               /\ r[j].pc = "waiting" => r[k].pc \in {"waiting", "none"}
    <3>1. /\ w[j].op = "load" => w[k].op # "save"
          /\ w[j].pc = "waiting" => w[k].pc \in {"waiting", "none"}
      BY <1>1, <2>1 DEF Orderly
    <3>2. /\ r[j].op = w[j].op /\ r[k].op = w[k].op
          /\ r[j].pc = "waiting" => w[j].pc = "waiting" /\ j # i
      BY <2>1
    <3>3. r[j].pc = "waiting" => k # i
      BY <2>1, <3>1, <3>2
    <3> QED
      BY <2>1, <3>1, <3>2, <3>3
  <2>2. ASSUME NEW k \in DOMAIN w
        PROVE  ~Unwritten(w[k])
    <3>1. CASE k < i
      BY <2>2, <3>1 DEF Unwritten
    <3>2. CASE i < k
      BY <1>1, <2>2, <3>2 DEF Orderly, Unwritten
    <3>3. CASE k = i
      BY <3>3 DEF Unwritten
    <3> QED
      BY <2>2, <3>1, <3>2, <3>3
  <2>3. \A k \in DOMAIN r : ~Unwritten(r[k])
    BY <2>2 DEF Unwritten
  <2> QED
    BY <2>1, <2>3 DEF Orderly
<1>3. Faithful(r, c)
  BY <1>1 DEF Faithful
<1>4. \A j \in DOMAIN r : Unwritten(r[j]) <=> Unwritten(w[j])
  BY DEF Unwritten
<1>5. \A j \in DOMAIN r : Unwritten(r[j]) => r[j] = w[j]
  BY DEF Unwritten
<1>6. Settled(w, list, c) => Settled(r, list, c)
  BY <1>4, <1>5 DEF Settled
<1>7. (\A j \in DOMAIN w : w[j].op # "save") => \A j \in DOMAIN r : r[j].op # "save"
  OBVIOUS
<1> QED
  BY <1>2, <1>3, <1>6, <1>7 DEF InOrder

\* Lock: a save gets the lock; and then it truncates the file.
LEMMA InOrderLock ==
  ASSUME NEW n, NEW w, NEW r, NEW i, Changed(n, w, r, i),
         NEW loaded, NEW list, NEW c, InOrder(w, loaded, list, c),
         NEW c2,
         w[i].op = "save", r[i].op = "save", r[i].list = w[i].list,
         \/ /\ w[i].pc = "waiting" /\ r[i].pc = "opening"
            /\ \A j \in 1 .. n : j < i => w[j].pc # "waiting"
         \/ w[i].pc = "opening" /\ r[i].pc = "writing"
  PROVE  InOrder(r, loaded, list, c2)
<1> USE DEF Changed
<1>1. Orderly(w) /\ Faithful(w, c) /\ Unwritten(w[i])
  BY DEF InOrder, Unwritten
<1>2. \A j \in DOMAIN r : (Unwritten(r[j]) <=> Unwritten(w[j])) /\ r[j].op = w[j].op
  BY DEF Unwritten
<1>3. Orderly(r)
  <2>1. ASSUME NEW j \in DOMAIN r, NEW k \in DOMAIN r, j < k
        PROVE  /\ r[j].op = "load" => r[k].op # "save"
               /\ r[j].pc = "waiting" => r[k].pc \in {"waiting", "none"}
    <3>1. /\ w[j].op = "load" => w[k].op # "save"
          /\ w[j].pc = "waiting" => w[k].pc \in {"waiting", "none"}
      BY <1>1, <2>1 DEF Orderly
    <3>2. /\ r[j].op = w[j].op /\ r[k].op = w[k].op
          /\ r[j].pc = "waiting" => w[j].pc = "waiting" /\ j # i
      BY <2>1
    <3>3. r[j].pc = "waiting" => k # i
      BY <2>1, <3>1, <3>2
    <3> QED
      BY <2>1, <3>1, <3>2, <3>3
  <2>2. ASSUME NEW j \in DOMAIN r, r[j].op = "load", r[j].pc \in {"reading", "done"}
        PROVE  FALSE
    BY <1>1, <2>2 DEF Orderly
  <2> QED
    BY <2>1, <2>2 DEF Orderly
<1>4. Faithful(r, c2)
  <2>1. ASSUME NEW j \in DOMAIN r, r[j].op = "load", r[j].pc = "done"
        PROVE  FALSE
    BY <1>1, <2>1 DEF Orderly
  <2> QED
    BY <2>1 DEF Faithful
<1>5. \A j \in DOMAIN r : Unwritten(r[j]) => r[j].list = w[j].list
  OBVIOUS
<1>6. Settled(w, list, c) => Settled(r, list, c2)
  BY <1>1, <1>2, <1>5 DEF Settled
<1>7. (\A j \in DOMAIN w : w[j].op # "save") => \A j \in DOMAIN r : r[j].op # "save"
  OBVIOUS
<1> QED
  BY <1>3, <1>4, <1>6, <1>7 DEF InOrder

\* A load reads the file.
LEMMA InOrderRead ==
  ASSUME NEW n, NEW w, NEW r, NEW i, Changed(n, w, r, i),
         NEW loaded, NEW list, NEW c, InOrder(w, loaded, list, c),
         w[i].op = "load", w[i].pc = "reading", r[i].op = "load", r[i].pc = "done",
         r[i].reply = c, c # Error
  PROVE  InOrder(r, loaded, list, c)
<1> USE DEF Changed
<1>1. Orderly(w) /\ Faithful(w, c)
  BY DEF InOrder
<1>2. \A j \in DOMAIN r : Unwritten(r[j]) <=> Unwritten(w[j])
  BY DEF Unwritten
<1>3. Orderly(r)
  <2>1. ASSUME NEW j \in DOMAIN r, NEW k \in DOMAIN r, j < k
        PROVE  /\ r[j].op = "load" => r[k].op # "save"
               /\ r[j].pc = "waiting" => r[k].pc \in {"waiting", "none"}
    <3>1. /\ w[j].op = "load" => w[k].op # "save"
          /\ w[j].pc = "waiting" => w[k].pc \in {"waiting", "none"}
      BY <1>1, <2>1 DEF Orderly
    <3>2. /\ r[j].op = w[j].op /\ r[k].op = w[k].op
          /\ r[j].pc = "waiting" => w[j].pc = "waiting" /\ j # i
      BY <2>1
    <3>3. r[j].pc = "waiting" => k # i
      BY <2>1, <3>1, <3>2
    <3> QED
      BY <2>1, <3>1, <3>2, <3>3
  <2>2. ASSUME NEW j \in DOMAIN r, r[j].op = "load", r[j].pc \in {"reading", "done"}
        PROVE  \A k \in DOMAIN r : ~Unwritten(r[k])
    BY <1>1, <1>2, <2>2 DEF Orderly
  <2> QED
    BY <2>1, <2>2 DEF Orderly
<1>4. Faithful(r, c)
  BY <1>1 DEF Faithful
<1>5. \A j \in DOMAIN r : Unwritten(r[j]) => r[j] = w[j]
  BY DEF Unwritten
<1>6. Settled(w, list, c) => Settled(r, list, c)
  BY <1>2, <1>5 DEF Settled
<1>7. (\A j \in DOMAIN w : w[j].op # "save") => \A j \in DOMAIN r : r[j].op # "save"
  OBVIOUS
<1> QED
  BY <1>3, <1>4, <1>6, <1>7 DEF InOrder

\* A save writes its list: the youngest there was, or a younger one waits.
LEMMA InOrderWrite ==
  ASSUME NEW n, NEW w, NEW r, NEW i, Changed(n, w, r, i),
         NEW loaded, NEW list, NEW c, InOrder(w, loaded, list, c),
         w[i].op = "save", w[i].pc = "writing", r[i].op = "save", r[i].pc = "done",
         \A j \in 1 .. n : j # i => w[j].pc \notin {"opening", "writing"},
         NEW c2, c2 = w[i].list
  PROVE  InOrder(r, loaded, list, c2)
<1> USE DEF Changed
<1>1. Orderly(w) /\ Faithful(w, c) /\ Unwritten(w[i]) /\ ~Unwritten(r[i])
  BY DEF InOrder, Unwritten
<1>2. \A j \in DOMAIN r : j # i => (Unwritten(r[j]) <=> Unwritten(w[j]))
  OBVIOUS
<1>3. Orderly(r)
  <2>1. ASSUME NEW j \in DOMAIN r, NEW k \in DOMAIN r, j < k
        PROVE  /\ r[j].op = "load" => r[k].op # "save"
               /\ r[j].pc = "waiting" => r[k].pc \in {"waiting", "none"}
    <3>1. /\ w[j].op = "load" => w[k].op # "save"
          /\ w[j].pc = "waiting" => w[k].pc \in {"waiting", "none"}
      BY <1>1, <2>1 DEF Orderly
    <3>2. /\ r[j].op = w[j].op /\ r[k].op = w[k].op
          /\ r[j].pc = "waiting" => w[j].pc = "waiting" /\ j # i
      BY <2>1
    <3>3. r[j].pc = "waiting" => k # i
      BY <2>1, <3>1, <3>2
    <3> QED
      BY <2>1, <3>1, <3>2, <3>3
  <2>2. ASSUME NEW j \in DOMAIN r, r[j].op = "load", r[j].pc \in {"reading", "done"}
        PROVE  FALSE
    BY <1>1, <2>2 DEF Orderly
  <2> QED
    BY <2>1, <2>2 DEF Orderly
<1>4. Faithful(r, c2)
  <2>1. ASSUME NEW j \in DOMAIN r, r[j].op = "load", r[j].pc = "done"
        PROVE  FALSE
    BY <1>1, <2>1 DEF Orderly
  <2> QED
    BY <2>1 DEF Faithful
<1>5. \A j \in DOMAIN r : Unwritten(r[j]) => i < j
  <2> SUFFICES ASSUME NEW j \in DOMAIN r, Unwritten(r[j]), j < i
               PROVE  FALSE
    BY <1>1
  <2>1. w[j].pc = "waiting"
    BY DEF Unwritten
  <2> QED
    BY <1>1, <2>1 DEF Orderly
<1>6. ASSUME Settled(w, list, c)
      PROVE  Settled(r, list, c2)
  <2>1. ASSUME NEW j \in DOMAIN r, Unwritten(r[j]),
               \A k \in DOMAIN r : Unwritten(r[k]) => k <= j
        PROVE  r[j].list = list
    <3>1. i < j
      BY <1>5, <2>1
    <3>2. \A k \in DOMAIN w : Unwritten(w[k]) => k <= j
      BY <1>2, <2>1, <3>1
    <3>3. w[j] = r[j]
      BY <3>1
    <3> QED
      BY <1>6, <2>1, <3>2, <3>3 DEF Settled
  <2>2. ASSUME \A k \in DOMAIN r : ~Unwritten(r[k])
        PROVE  c2 = list
    <3>1. \A k \in DOMAIN w : Unwritten(w[k]) => k <= i
      BY <1>2, <2>2
    <3> QED
      BY <1>1, <1>6, <3>1 DEF Settled
  <2> QED
    BY <2>1, <2>2 DEF Settled
<1>7. (\A j \in DOMAIN w : w[j].op # "save") => \A j \in DOMAIN r : r[j].op # "save"
  OBVIOUS
<1> QED
  BY <1>3, <1>4, <1>6, <1>7 DEF InOrder

-----------------------------------------------------------------------------
(* The application: requests and jobs together *)

StoreInOrder ==
  calm => /\ ~interrupted
          /\ InOrder(Line(calls, job), view.loaded, view.profiles, Contents)

Shaped == view \in View /\ calls \in Seq(Requests) /\ calm \in BOOLEAN

AppInv ==
  /\ Shaped
  /\ OnLine(view)
  /\ Handling(calls, job)
  /\ StoreInOrder

StudioInv == StoreInv /\ AppInv

LEMMA RequestKinds ==
  ASSUME NEW c \in Requests
  PROVE  /\ c.op \in {"info", "load", "save"}
         /\ c.op # "info" => c.reply \in Handlers
         /\ c.op = "info" => c.reply = Null
BY DEF Requests

LEMMA LineIs ==
  ASSUME NEW q \in Seq(Requests), NEW jb
  PROVE  /\ DOMAIN q = 1 .. Len(q) /\ Len(q) \in Nat
         /\ DOMAIN Line(q, jb) = 1 .. Len(q)
         /\ \A i \in 1 .. Len(q) : Line(q, jb)[i] = Task(q[i], jb) /\ q[i] \in Requests
BY DEF Line

LEMMA TaskAnswered ==
  ASSUME NEW q \in Seq(Requests), NEW jb, NEW jb2, Handling(q, jb),
         NEW i \in DOMAIN q, NEW rest, rest = RemoveAt(q, i),
         \A h \in Handlers : q[i].op = "info" \/ h # q[i].reply => jb2[h] = jb[h],
         q[i].op # "info" => jb2[q[i].reply].pc = "idle"
  PROVE  /\ rest \in Seq(Requests) /\ Handling(rest, jb2)
         /\ \A loaded, list, c :
              InOrder(Line(q, jb), loaded, list, c) /\ ~Unwritten(Task(q[i], jb))
                => InOrder(Line(rest, jb2), loaded, list, c)
<1> DEFINE n == Len(q)
<1>1. /\ rest \in Seq(Requests)
      /\ DOMAIN q = 1 .. n /\ n \in Nat
      /\ DOMAIN rest = 1 .. n - 1
      /\ \A j \in DOMAIN rest :
           /\ Skip(i, j) \in DOMAIN q /\ Skip(i, j) # i
           /\ rest[j] = q[Skip(i, j)]
      /\ \A j, k \in DOMAIN rest : j < k <=> Skip(i, j) < Skip(i, k)
      /\ \A k \in DOMAIN q : k # i => \E j \in DOMAIN rest : Skip(i, j) = k
  <2>1. rest \in Seq(Requests) /\ Without(rest, q, i)
    BY Skipping
  <2> QED
    BY <2>1 DEF Without
<1>2. \A j \in DOMAIN q : q[j] \in Requests
  BY <1>1
<1>3. ASSUME NEW j \in DOMAIN q, j # i, q[j].op # "info"
      PROVE  jb2[q[j].reply] = jb[q[j].reply]
  <2>1. q[j].reply \in Handlers
    BY <1>2, <1>3, RequestKinds
  <2>2. q[i].op # "info" => q[i].reply # q[j].reply
    BY <1>3 DEF Handling
  <2> QED
    BY <2>1, <2>2
<1>4. Handling(rest, jb2)
  <2>1. ASSUME NEW j \in DOMAIN rest, NEW k \in DOMAIN rest, rest[j].op # "info",
               rest[k].op # "info", rest[j].reply = rest[k].reply
        PROVE  j = k
    <3>1. Skip(i, j) = Skip(i, k)
      BY <1>1, <2>1 DEF Handling
    <3>2. Skip(i, j) \in Nat /\ ~(Skip(i, j) < Skip(i, k)) /\ ~(Skip(i, k) < Skip(i, j))
      BY <1>1, <3>1
    <3>3. ~(j < k) /\ ~(k < j)
      BY <1>1, <3>2
    <3> QED
      BY <1>1, <3>3
  <2>2. ASSUME NEW j \in DOMAIN rest, rest[j].op # "info"
        PROVE  jb2[rest[j].reply].pc # "idle" /\ jb2[rest[j].reply].op = rest[j].op
    BY <1>1, <1>3, <2>2 DEF Handling
  <2>3. ASSUME NEW h \in Handlers, jb2[h].pc # "idle"
        PROVE  \E j \in DOMAIN rest : rest[j].op # "info" /\ rest[j].reply = h
    <3>1. q[i].op = "info" \/ h # q[i].reply
      BY <2>3
    <3>2. jb[h].pc # "idle"
      BY <2>3, <3>1
    <3>3. PICK k \in DOMAIN q : q[k].op # "info" /\ q[k].reply = h
      BY <3>2 DEF Handling
    <3>4. k # i
      BY <3>1, <3>3
    <3> QED
      BY <1>1, <3>3, <3>4
  <2> QED
    BY <2>1, <2>2, <2>3 DEF Handling
<1>5. ASSUME NEW loaded, NEW list, NEW c,
             InOrder(Line(q, jb), loaded, list, c), ~Unwritten(Task(q[i], jb))
      PROVE  InOrder(Line(rest, jb2), loaded, list, c)
  <2> DEFINE w == Line(q, jb)
             r == Line(rest, jb2)
  <2>1. DOMAIN w = 1 .. n /\ \A j \in 1 .. n : w[j] = Task(q[j], jb)
    BY <1>1 DEF Line
  <2>2. DOMAIN r = 1 .. n - 1 /\ \A j \in 1 .. n - 1 : r[j] = Task(rest[j], jb2)
    BY <1>1 DEF Line
  <2>3. \A j \in 1 .. n : j # i => Task(q[j], jb2) = Task(q[j], jb)
    BY <1>1, <1>3 DEF Task
  <2> HIDE DEF w, r, n
  <2>4. \A j \in 1 .. n - 1 : Skip(i, j) \in 1 .. n /\ r[j] = w[Skip(i, j)]
    BY <1>1, <2>1, <2>2, <2>3
  <2>5. /\ \A j, k \in 1 .. n - 1 : j < k <=> Skip(i, j) < Skip(i, k)
        /\ \A k \in 1 .. n : k # i => \E j \in 1 .. n - 1 : Skip(i, j) = k
        /\ n \in Nat /\ i \in 1 .. n
    BY <1>1
  <2>6. InOrder(w, loaded, list, c) /\ ~Unwritten(w[i])
    BY <1>5, <2>1, <2>5 DEF w
  <2>7. InOrder(r, loaded, list, c)
    BY <2>1, <2>2, <2>4, <2>5, <2>6, InOrderRest
  <2> QED
    BY <2>7 DEF r
<1> QED
  BY <1>1, <1>4, <1>5

LEMMA TaskSent ==
  ASSUME NEW q \in Seq(Requests), NEW jb, NEW jb2, Handling(q, jb),
         NEW c \in Requests,
         IF c.op = "info" THEN jb2 = jb
         ELSE /\ jb[c.reply].pc = "idle"
              /\ jb2[c.reply].pc = "waiting" /\ jb2[c.reply].op = c.op
              /\ \A h \in Handlers : h # c.reply => jb2[h] = jb[h]
  PROVE  /\ q \o <<c>> \in Seq(Requests) /\ Handling(q \o <<c>>, jb2)
         /\ \A loaded, list, list2, f :
              /\ InOrder(Line(q, jb), loaded, list, f)
              /\ \/ c.op # "save" /\ list2 = list
                 \/ /\ c.op = "save" /\ jb2[c.reply].list = list2
                    /\ loaded /\ ~InFlight(q, {"load"})
              => InOrder(Line(q \o <<c>>, jb2), loaded, list2, f)
<1> DEFINE n == Len(q)
           all == q \o <<c>>
<1>1. /\ all \in Seq(Requests)
      /\ DOMAIN q = 1 .. n /\ n \in Nat
      /\ DOMAIN all = 1 .. n + 1
      /\ all[n + 1] = c
      /\ \A i \in DOMAIN q : all[i] = q[i]
  BY OneMore
<1>2. \A j \in DOMAIN q : q[j] \in Requests
  BY <1>1
<1> HIDE DEF all, n
<1>3. /\ \A j \in DOMAIN all : j \in DOMAIN q \/ j = n + 1
      /\ n + 1 \in DOMAIN all /\ \A j \in DOMAIN q : j \in DOMAIN all
  BY <1>1
<1>4. ASSUME NEW j \in DOMAIN q, q[j].op # "info"
      PROVE  /\ jb2[q[j].reply] = jb[q[j].reply]
             /\ c.op # "info" => q[j].reply # c.reply
  <2>1. q[j].reply \in Handlers
    BY <1>2, <1>4, RequestKinds
  <2>2. c.op # "info" => q[j].reply # c.reply
    BY <1>4 DEF Handling
  <2> QED
    BY <2>1, <2>2
<1>5. Handling(all, jb2)
  <2>1. ASSUME NEW j \in DOMAIN all, NEW k \in DOMAIN all, all[j].op # "info",
               all[k].op # "info", all[j].reply = all[k].reply
        PROVE  j = k
    BY <1>1, <1>3, <1>4, <2>1 DEF Handling
  <2>2. ASSUME NEW j \in DOMAIN all, all[j].op # "info"
        PROVE  jb2[all[j].reply].pc # "idle" /\ jb2[all[j].reply].op = all[j].op
    BY <1>1, <1>3, <1>4, <2>2 DEF Handling
  <2>3. ASSUME NEW h \in Handlers, jb2[h].pc # "idle"
        PROVE  \E j \in DOMAIN all : all[j].op # "info" /\ all[j].reply = h
    <3>1. CASE c.op # "info" /\ h = c.reply
      BY <1>1, <1>3, <3>1
    <3>2. CASE ~(c.op # "info" /\ h = c.reply)
      <4>1. jb[h].pc # "idle"
        BY <2>3, <3>2
      <4>2. PICK k \in DOMAIN q : q[k].op # "info" /\ q[k].reply = h
        BY <4>1 DEF Handling
      <4> QED
        BY <1>1, <1>3, <4>2
    <3> QED
      BY <3>1, <3>2
  <2> QED
    BY <2>1, <2>2, <2>3 DEF Handling
<1>6. ASSUME NEW loaded, NEW list, NEW list2, NEW f,
             InOrder(Line(q, jb), loaded, list, f),
             \/ c.op # "save" /\ list2 = list
             \/ /\ c.op = "save" /\ jb2[c.reply].list = list2
                /\ loaded /\ ~InFlight(q, {"load"})
      PROVE  InOrder(Line(all, jb2), loaded, list2, f)
  <2> DEFINE w == Line(q, jb)
             r == Line(all, jb2)
             t == Task(c, jb2)
  <2>1. DOMAIN w = 1 .. n /\ \A j \in 1 .. n : w[j] = Task(q[j], jb)
    BY <1>1 DEF Line
  <2>2. DOMAIN r = 1 .. n + 1 /\ \A j \in 1 .. n + 1 : r[j] = Task(all[j], jb2)
    BY <1>1 DEF Line
  <2>3. \A j \in 1 .. n : Task(q[j], jb2) = Task(q[j], jb)
    BY <1>1, <1>4 DEF Task
  <2>4. \/ t.op = "info" /\ t.pc = "none" /\ c.op = "info"
        \/ t.op = "load" /\ t.pc = "waiting" /\ c.op = "load"
        \/ /\ t.op = "save" /\ t.pc = "waiting" /\ c.op = "save"
           /\ t = jb2[c.reply]
    BY RequestKinds DEF Task, NoTask
  <2>5. \A j \in 1 .. n : q[j].op # "load" => w[j].op # "load"
    BY <1>1, <2>1 DEF Task, NoTask, Handling
  <2>6. c.op = "save" => t.list = list2 /\ loaded /\ \A j \in 1 .. n : w[j].op # "load"
    BY <1>1, <1>6, <2>4, <2>5 DEF InFlight
  <2>7. InOrder(w, loaded, list, f)
    BY <1>6
  <2> HIDE DEF w, r, t
  <2>8. r[n + 1] = t /\ \A j \in 1 .. n : r[j] = w[j]
    BY <1>1, <1>3, <2>1, <2>2, <2>3 DEF t
  <2>9. n \in Nat
    BY <1>1
  <2>10. \/ t.op = "info" /\ t.pc = "none" /\ list2 = list
         \/ t.op = "load" /\ t.pc = "waiting" /\ list2 = list
         \/ /\ t.op = "save" /\ t.pc = "waiting" /\ t.list = list2
            /\ loaded /\ \A i \in 1 .. n : w[i].op # "load"
    BY <1>6, <2>4, <2>6
  <2>11. InOrder(r, loaded, list2, f)
    BY <2>1, <2>2, <2>7, <2>8, <2>9, <2>10, InOrderMore
  <2> QED
    BY <2>11 DEF r
<1> QED
  BY <1>1, <1>5, <1>6 DEF all

\* From w to r the job of handler h, which has request i of q, makes progress.
Progress(q, jb, jb2, i, h, w, r) ==
  /\ Len(q) \in Nat /\ i \in 1 .. Len(q)
  /\ DOMAIN w = 1 .. Len(q) /\ DOMAIN r = 1 .. Len(q)
  /\ \A j \in 1 .. Len(q) : j # i => r[j] = w[j]
  /\ w[i] = jb[h] /\ r[i] = jb2[h] /\ jb[h].op = q[i].op
  /\ \A j \in 1 .. Len(q) : w[j] # NoTask =>
       /\ q[j].op \in {"load", "save"} /\ q[j].reply \in Handlers
       /\ w[j] = jb[q[j].reply] /\ (j # i => q[j].reply # h)

LEMMA TaskWorked ==
  ASSUME NEW q \in Seq(Requests), NEW jb, NEW jb2, Handling(q, jb),
         NEW i \in DOMAIN q, NEW h \in Handlers, q[i].op # "info", q[i].reply = h,
         \A g \in Handlers : g # h => jb2[g] = jb[g],
         jb2[h].pc # "idle", jb2[h].op = jb[h].op,
         NEW w, w = Line(q, jb), NEW r, r = Line(q, jb2)
  PROVE  Handling(q, jb2) /\ Progress(q, jb, jb2, i, h, w, r)
<1>1. /\ DOMAIN q = 1 .. Len(q) /\ Len(q) \in Nat
      /\ DOMAIN w = 1 .. Len(q) /\ DOMAIN r = 1 .. Len(q)
      /\ \A j \in 1 .. Len(q) :
           w[j] = Task(q[j], jb) /\ r[j] = Task(q[j], jb2) /\ q[j] \in Requests
  BY LineIs
<1>2. ASSUME NEW j \in 1 .. Len(q), q[j].op # "info"
      PROVE  /\ q[j].op \in {"load", "save"} /\ q[j].reply \in Handlers
             /\ j # i => q[j].reply # h /\ jb2[q[j].reply] = jb[q[j].reply]
  <2>1. q[j].op \in {"load", "save"} /\ q[j].reply \in Handlers
    BY <1>1, <1>2, RequestKinds
  <2>2. j # i => q[j].reply # h
    BY <1>1, <1>2 DEF Handling
  <2> QED
    BY <2>1, <2>2
<1>3. Handling(q, jb2)
  <2>1. ASSUME NEW j \in DOMAIN q, q[j].op # "info"
        PROVE  jb2[q[j].reply].pc # "idle" /\ jb2[q[j].reply].op = q[j].op
    BY <1>1, <1>2, <2>1 DEF Handling
  <2>2. ASSUME NEW g \in Handlers, jb2[g].pc # "idle"
        PROVE  \E j \in DOMAIN q : q[j].op # "info" /\ q[j].reply = g
    <3>1. CASE g = h
      BY <3>1
    <3>2. CASE g # h
      BY <2>2, <3>2 DEF Handling
    <3> QED
      BY <3>1, <3>2
  <2>3. \A j, k \in DOMAIN q :
          q[j].op # "info" /\ q[k].op # "info" /\ q[j].reply = q[k].reply => j = k
    BY DEF Handling
  <2> QED
    BY <2>1, <2>2, <2>3 DEF Handling
<1>4. \A j \in 1 .. Len(q) : j # i => r[j] = w[j]
  BY <1>1, <1>2 DEF Task
<1>5. w[i] = jb[h] /\ r[i] = jb2[h] /\ jb[h].op = q[i].op
  BY <1>1 DEF Task, Handling
<1>6. \A j \in 1 .. Len(q) : w[j] # NoTask =>
        /\ q[j].op \in {"load", "save"} /\ q[j].reply \in Handlers
        /\ w[j] = jb[q[j].reply] /\ (j # i => q[j].reply # h)
  BY <1>1, <1>2 DEF Task
<1> QED
  BY <1>1, <1>3, <1>4, <1>5, <1>6 DEF Progress

LEMMA ServerStepKeeps ==
  ASSUME StudioInv, ServerStep
  PROVE  Handling(calls', job') /\ StoreInOrder'
<1>1. PICK i \in DOMAIN calls, h \in Handlers :
        /\ HandledBy(i, h)
        /\ Work(h)
        /\ calm' = (calm /\ ~(Pending(i) /\ \E j \in 1 .. i - 1 : Pending(j)))
        /\ UNCHANGED <<view, calls, acts>>
  BY DEF ServerStep
<1> DEFINE w == Line(calls, job)
           r == Line(calls, job')
           n == Len(calls)
<1>2. /\ calls \in Seq(Requests) /\ Handling(calls, job)
      /\ calls[i].op # "info" /\ calls[i].reply = h
  BY <1>1 DEF StudioInv, AppInv, Shaped, HandledBy
<1>3. StoreTypeOK /\ LockInv
  BY DEF StudioInv, AppInv, StoreInv
<1>4. /\ \A g \in Handlers : g # h => job'[g] = job[g]
      /\ job'[h].pc # "idle" /\ job'[h].op = job[h].op /\ job'[h].list = job[h].list
      /\ job[h].pc \in {"waiting", "reading", "opening", "writing"}
  BY <1>1, <1>3 DEF StoreTypeOK, Job, Work, Acquire, Read, Truncate, WriteOut
<1>5. /\ Handling(calls, job')
      /\ n \in Nat /\ i \in 1 .. n
      /\ DOMAIN w = 1 .. n /\ DOMAIN r = 1 .. n
      /\ \A j \in 1 .. n : j # i => r[j] = w[j]
      /\ w[i] = job[h] /\ r[i] = job'[h] /\ job[h].op = calls[i].op
      /\ \A j \in 1 .. n : w[j] # NoTask =>
           /\ calls[j].op \in {"load", "save"} /\ calls[j].reply \in Handlers
           /\ w[j] = job[calls[j].reply] /\ (j # i => calls[j].reply # h)
  <2>1. w = Line(calls, job) /\ r = Line(calls, job')
    OBVIOUS
  <2> HIDE DEF w, r
  <2>2. i \in DOMAIN calls /\ h \in Handlers
    OBVIOUS
  <2>3. Handling(calls, job') /\ Progress(calls, job, job', i, h, w, r)
    BY <1>2, <1>4, <2>1, <2>2, TaskWorked
  <2> QED
    BY <2>3 DEF Progress
<1> HIDE DEF w, r, n
<1>0. Changed(n, w, r, i)
  BY <1>5 DEF Changed
<1>6. ASSUME calm'
      PROVE  /\ ~interrupted'
             /\ InOrder(r, view.loaded, view.profiles, Contents')
  <2>1. /\ calm /\ ~interrupted
        /\ InOrder(w, view.loaded, view.profiles, Contents)
        /\ ~(Pending(i) /\ \E j \in 1 .. i - 1 : Pending(j))
    BY <1>1, <1>6 DEF StudioInv, AppInv, StoreInOrder, w
  <2>2. ASSUME job[h].pc = "waiting", NEW j \in 1 .. n, j < i
        PROVE  w[j].pc # "waiting"
    <3>1. Pending(i)
      BY <1>1, <2>2 DEF Pending
    <3>2. j \in 1 .. i - 1
      BY <1>5, <2>2
    <3>3. ~Pending(j)
      BY <2>1, <3>1, <3>2
    <3>4. w[j] # NoTask /\ w[j].pc = "waiting" => Pending(j)
      BY <1>5 DEF Pending, HandledBy
    <3>5. NoTask.pc # "waiting"
      BY DEF NoTask
    <3> QED
      BY <3>3, <3>4, <3>5
  <2>3. ASSUME writer \in {Nobody, h}, NEW j \in 1 .. n, j # i
        PROVE  w[j].pc \notin {"opening", "writing"}
    <3>1. CASE w[j] = NoTask
      BY <3>1 DEF NoTask
    <3>2. CASE w[j] # NoTask
      BY <1>3, <1>5, <2>3, <3>2, StoreAssumption DEF LockInv
    <3> QED
      BY <3>1, <3>2
  <2>4. job[h].op \in {"load", "save"} /\ job \in [Handlers -> Job]
    BY <1>3, <1>5 DEF StoreTypeOK, Job
  <2>5. CASE Acquire(h) /\ job[h].op = "load"
    <3>1. /\ job[h].pc = "waiting" /\ job'[h].pc = "reading" /\ job'[h].op = "load"
          /\ writer = Nobody /\ UNCHANGED <<file, interrupted>>
      BY <2>4, <2>5 DEF Acquire, Job
    <3>2. Contents' = Contents
      BY <3>1 DEF Contents
    <3>3. \A j \in 1 .. n : w[j].pc \notin {"opening", "writing"}
      BY <1>5, <2>3, <3>1
    <3>4. \A j \in 1 .. n : j < i => w[j].pc # "waiting"
      BY <2>2, <3>1
    <3>5. InOrder(r, view.loaded, view.profiles, Contents)
      BY <1>0, <1>5, <2>1, <2>5, <3>1, <3>3, <3>4, InOrderRLock
    <3> QED
      BY <2>1, <3>1, <3>2, <3>5
  <2>6. CASE Acquire(h) /\ job[h].op = "save"
    <3>1. /\ job[h].pc = "waiting" /\ job'[h].pc = "opening"
          /\ UNCHANGED <<file, interrupted>>
      BY <2>4, <2>6 DEF Acquire, Job
    <3>2. Contents' = Contents
      BY <3>1 DEF Contents
    <3>3. \A j \in 1 .. n : j < i => w[j].pc # "waiting"
      BY <2>2, <3>1
    <3>4. InOrder(r, view.loaded, view.profiles, Contents)
      BY <1>0, <1>4, <1>5, <2>1, <2>6, <3>1, <3>3, InOrderLock
    <3> QED
      BY <2>1, <3>1, <3>2, <3>4
  <2>7. CASE Read(h)
    <3>1. /\ job[h].pc = "reading" /\ job'[h].pc = "done" /\ job'[h].reply = Contents
          /\ UNCHANGED <<file, interrupted>>
      BY <2>4, <2>7 DEF Read, Job
    <3>2. Contents' = Contents
      BY <3>1 DEF Contents
    <3>3. job[h].op = "load"
      BY <1>3, <3>1, Zenon DEF LockInv
    <3>4. Contents # Error
      <4>1. h \in readers /\ writer = Nobody
        BY <1>3, <3>1, Zenon DEF LockInv
      <4>2. file # Torn
        BY <1>3, <2>1, <4>1, StoreAssumption DEF LockInv
      <4>3. Contents \in Lists
        BY <1>3, <4>2, StoreAssumption DEF StoreTypeOK, Contents
      <4> QED
        BY <4>3, StoreAssumption
    <3>5. InOrder(r, view.loaded, view.profiles, Contents)
      BY <1>0, <1>4, <1>5, <2>1, <3>1, <3>3, <3>4, InOrderRead
    <3> QED
      BY <2>1, <3>1, <3>2, <3>5
  <2>8. CASE Truncate(h)
    <3>1. /\ job[h].pc = "opening" /\ job'[h].pc = "writing" /\ UNCHANGED interrupted
      BY <2>4, <2>8 DEF Truncate, Job
    <3>2. job[h].op = "save"
      BY <1>3, <3>1, Zenon DEF LockInv
    <3>3. InOrder(r, view.loaded, view.profiles, Contents')
      BY <1>0, <1>4, <1>5, <2>1, <3>1, <3>2, InOrderLock
    <3> QED
      BY <2>1, <3>1, <3>3
  <2>9. CASE WriteOut(h)
    <3>1. /\ job[h].pc = "writing" /\ job'[h].pc = "done" /\ ~interrupted'
          /\ file' = job[h].list
      BY <2>4, <2>9 DEF WriteOut, Job
    <3>2. job[h].op = "save"
      BY <1>3, <3>1, Zenon DEF LockInv
    <3>3. Contents' = job[h].list
      BY <2>4, <3>1, StoreAssumption DEF Contents, Job
    <3>4. writer = h
      BY <1>3, <3>1, Zenon DEF LockInv
    <3>5. \A j \in 1 .. n : j # i => w[j].pc \notin {"opening", "writing"}
      BY <2>3, <3>4
    <3>6. InOrder(r, view.loaded, view.profiles, Contents')
      BY <1>0, <1>4, <1>5, <2>1, <3>1, <3>2, <3>3, <3>5, InOrderWrite
    <3> QED
      BY <3>1, <3>6
  <2> QED
    BY <1>1, <2>4, <2>5, <2>6, <2>7, <2>8, <2>9 DEF Work
<1> QED
  BY <1>1, <1>5, <1>6 DEF StoreInOrder, r

LEMMA SameLine ==
  ASSUME NEW q \in Seq(Requests)
  PROVE  q \o <<>> = q
BY ConcatEmptySeq

\* A handler is as busy as before.
LEMMA SameHandling ==
  ASSUME NEW q \in Seq(Requests), NEW jb, NEW jb2, Handling(q, jb),
         \A h \in Handlers : (jb2[h].pc = "idle" <=> jb[h].pc = "idle") /\ jb2[h].op = jb[h].op
  PROVE  Handling(q, jb2)
<1>1. \A i \in DOMAIN q : q[i].op # "info" => q[i].reply \in Handlers
  BY LineIs, RequestKinds
<1> QED
  BY <1>1 DEF Handling

LEMMA ShellKeeps ==
  ASSUME StudioInv, ShellOnly
  PROVE  AppInv'
<1>1. calls' = calls
  BY SameLine DEF ShellOnly, StudioInv, AppInv, Shaped
<1>2. job' = job /\ Contents' = Contents /\ interrupted' = interrupted /\ calm' = calm
  BY DEF ShellOnly, Contents
<1>3. Shaped'
  BY <1>1, <1>2 DEF ShellOnly, StudioInv, AppInv, Shaped
<1>4. OnLine(view')
  BY DEF ShellOnly
<1>5. Handling(calls', job')
  BY <1>1, <1>2 DEF StudioInv, AppInv
<1>6. StoreInOrder'
  BY <1>1, <1>2 DEF ShellOnly, StudioInv, AppInv, StoreInOrder
<1> QED
  BY <1>3, <1>4, <1>5, <1>6 DEF AppInv

LEMMA OnInfoKeeps ==
  ASSUME StudioInv, OnInfo
  PROVE  AppInv'
<1>1. PICK i \in DOMAIN calls, ok \in BOOLEAN :
        /\ calls[i].op = "info"
        /\ Land([view EXCEPT !.systemInfo = IF ok THEN "info" ELSE @],
                RemoveAt(calls, i), <<>>)
        /\ UNCHANGED <<calm, storeVars>>
  BY DEF OnInfo
<1> DEFINE rest == RemoveAt(calls, i)
           v == [view EXCEPT !.systemInfo = IF ok THEN "info" ELSE @]
<1>2. view \in View /\ calls \in Seq(Requests) /\ OnLine(view) /\ Handling(calls, job)
  BY DEF StudioInv, AppInv, Shaped
<1>3. v \in View /\ v.loaded = view.loaded /\ v.profiles = view.profiles
  BY <1>2 DEF View
<1>4. OnLine(v)
  BY <1>2 DEF OnLine, View
<1>5. view' = v /\ calls' = rest \o <<>>
  BY <1>1 DEF Land
<1>6. rest = RemoveAt(calls, i)
  OBVIOUS
<1> HIDE DEF rest, v
<1>7. /\ rest \in Seq(Requests) /\ Handling(rest, job)
      /\ \A loaded, list, c :
           InOrder(Line(calls, job), loaded, list, c) /\ ~Unwritten(Task(calls[i], job))
             => InOrder(Line(rest, job), loaded, list, c)
  BY <1>1, <1>2, <1>6, TaskAnswered
<1>8. ~Unwritten(Task(calls[i], job))
  BY <1>1 DEF Task, NoTask, Unwritten
<1>9. calls' = rest
  BY <1>5, <1>7, SameLine
<1>10. job' = job /\ Contents' = Contents /\ interrupted' = interrupted /\ calm' = calm
  BY <1>1 DEF Contents
<1>11. StoreInOrder'
  BY <1>3, <1>5, <1>7, <1>8, <1>9, <1>10 DEF StudioInv, AppInv, StoreInOrder
<1>12. Shaped'
  BY <1>3, <1>5, <1>7, <1>9, <1>10 DEF StudioInv, AppInv, Shaped
<1>13. OnLine(view') /\ Handling(calls', job')
  BY <1>4, <1>5, <1>7, <1>9, <1>10
<1> QED
  BY <1>11, <1>12, <1>13 DEF AppInv

LEMMA ConnectKeeps ==
  ASSUME StudioInv, Connect
  PROVE  AppInv'
<1> DEFINE c == [op |-> "info", reply |-> Null, key |-> Null]
           v == [view EXCEPT !.isProfilesOpen = FALSE]
<1>1. Request("info", [key |-> Null]) = c
  BY DEF Request, Join
<1>2. view' = v /\ calls' = calls \o <<c>> /\ UNCHANGED <<calm, storeVars>>
  BY <1>1 DEF Connect, Land
<1>3. view \in View /\ calls \in Seq(Requests) /\ OnLine(view) /\ Handling(calls, job)
  BY DEF StudioInv, AppInv, Shaped
<1>4. v \in View /\ v.loaded = view.loaded /\ v.profiles = view.profiles
  BY <1>3 DEF View
<1>5. OnLine(v)
  BY <1>3 DEF OnLine, View
<1>6. c \in Requests /\ c.op = "info"
  BY DEF Requests
<1> HIDE DEF c, v
<1>7. /\ calls \o <<c>> \in Seq(Requests) /\ Handling(calls \o <<c>>, job)
      /\ \A loaded, list, list2, f :
           /\ InOrder(Line(calls, job), loaded, list, f)
           /\ \/ c.op # "save" /\ list2 = list
              \/ /\ c.op = "save" /\ job[c.reply].list = list2
                 /\ loaded /\ ~InFlight(calls, {"load"})
           => InOrder(Line(calls \o <<c>>, job), loaded, list2, f)
  BY <1>3, <1>6, TaskSent
<1>8. job' = job /\ Contents' = Contents /\ interrupted' = interrupted /\ calm' = calm
  BY <1>2 DEF Contents
<1>9. StoreInOrder'
  BY <1>2, <1>4, <1>6, <1>7, <1>8 DEF StudioInv, AppInv, StoreInOrder
<1>10. Shaped'
  BY <1>2, <1>4, <1>7, <1>8 DEF StudioInv, AppInv, Shaped
<1>11. OnLine(view') /\ Handling(calls', job')
  BY <1>2, <1>5, <1>7, <1>8
<1> QED
  BY <1>9, <1>10, <1>11 DEF AppInv

\* The list is asked for, or a new one is sent to be saved.
LEMMA ProfilesStepKeeps ==
  ASSUME StudioInv, NEW v \in View, OnLine(v), v.loaded = view.loaded,
         NEW op \in {"load", "save"}, NEW edit \in Edits, NEW list \in Lists,
         ProfilesStep(v, op, edit, list),
         calm' \in BOOLEAN, calm' => calm,
         \/ op = "load" /\ v.profiles = view.profiles
         \/ /\ op = "save" /\ v.profiles = list
            /\ calm' => view.loaded /\ ~InFlight(calls, {"load"})
  PROVE  AppInv'
<1>1. PICK h \in Handlers :
        Submit(h, op, list) /\ Land(v, calls, StoreCall(op, edit, h))
  BY DEF ProfilesStep
<1> DEFINE c == [op |-> op, edit |-> edit, reply |-> h]
<1>2. view' = v /\ calls' = calls \o <<c>>
  BY <1>1 DEF Land, StoreCall
<1>3. calls \in Seq(Requests) /\ Handling(calls, job) /\ job \in [Handlers -> Job]
  BY DEF StudioInv, AppInv, Shaped, StoreInv, StoreTypeOK
<1>4. c \in Requests /\ c.op = op /\ c.reply = h /\ c.op # "info"
  BY DEF Requests
<1>5. /\ job[h].pc = "idle"
      /\ job'[h].pc = "waiting" /\ job'[h].op = op /\ job'[h].list = list
      /\ \A g \in Handlers : g # h => job'[g] = job[g]
      /\ Contents' = Contents /\ interrupted' = interrupted
  BY <1>1, <1>3 DEF Submit, Contents
<1> HIDE DEF c
<1>6. IF c.op = "info" THEN job' = job
      ELSE /\ job[c.reply].pc = "idle"
           /\ job'[c.reply].pc = "waiting" /\ job'[c.reply].op = c.op
           /\ \A g \in Handlers : g # c.reply => job'[g] = job[g]
  BY <1>4, <1>5
<1>7. /\ calls \o <<c>> \in Seq(Requests) /\ Handling(calls \o <<c>>, job')
      /\ \A loaded, l, l2, f :
           /\ InOrder(Line(calls, job), loaded, l, f)
           /\ \/ c.op # "save" /\ l2 = l
              \/ /\ c.op = "save" /\ job'[c.reply].list = l2
                 /\ loaded /\ ~InFlight(calls, {"load"})
           => InOrder(Line(calls \o <<c>>, job'), loaded, l2, f)
  BY <1>3, <1>4, <1>6, TaskSent
<1>8. StoreInOrder'
  <2> SUFFICES ASSUME calm'
               PROVE  /\ ~interrupted'
                      /\ InOrder(Line(calls', job'), view'.loaded, view'.profiles, Contents')
    BY DEF StoreInOrder
  <2>1. ~interrupted /\ InOrder(Line(calls, job), view.loaded, view.profiles, Contents)
    BY DEF StudioInv, AppInv, StoreInOrder
  <2>2. InOrder(Line(calls \o <<c>>, job'), view.loaded, v.profiles, Contents)
    BY <1>4, <1>5, <1>7, <2>1
  <2> QED
    BY <1>2, <1>5, <2>1, <2>2
<1>9. Shaped'
  BY <1>2, <1>7 DEF Shaped
<1>10. OnLine(view') /\ Handling(calls', job')
  BY <1>2, <1>7
<1> QED
  BY <1>8, <1>9, <1>10 DEF AppInv

LEMMA OpenProfilesKeeps ==
  ASSUME StudioInv, OpenProfiles
  PROVE  AppInv'
<1> DEFINE v == [view EXCEPT !.isProfilesOpen = TRUE]
<1>1. view \in View /\ OnLine(view) /\ calm \in BOOLEAN
  BY DEF StudioInv, AppInv, Shaped
<1>2. v \in View /\ v.loaded = view.loaded /\ v.profiles = view.profiles
  BY <1>1 DEF View
<1>3. OnLine(v)
  BY <1>1 DEF OnLine, View
<1>4. ProfilesStep(v, "load", "none", Defaults) /\ calm' = calm
  BY DEF OpenProfiles
<1>5. "none" \in Edits
  BY DEF Edits
<1> HIDE DEF v
<1> QED
  BY <1>1, <1>2, <1>3, <1>4, <1>5, ProfilesStepKeeps, StoreAssumption

LEMMA EditKeeps ==
  ASSUME StudioInv, NEW edit \in Edits, NEW list, Edit(edit, list)
  PROVE  AppInv'
<1> DEFINE v == [view EXCEPT !.profiles = list]
<1>1. view \in View /\ OnLine(view) /\ calm \in BOOLEAN
  BY DEF StudioInv, AppInv, Shaped
<1>2. list \in Lists /\ ProfilesStep(v, "save", edit, list)
      /\ calm' = (calm /\ view.loaded /\ ~InFlight(calls, {"load"}))
  BY DEF Edit, SaveList
<1>3. v \in View /\ v.loaded = view.loaded /\ v.profiles = list
  BY <1>1, <1>2 DEF View
<1>4. OnLine(v)
  BY <1>1 DEF OnLine, View
<1> HIDE DEF v
<1>5. calm' \in BOOLEAN /\ (calm' => calm)
      /\ (calm' => view.loaded /\ ~InFlight(calls, {"load"}))
  BY <1>2
<1> QED
  BY <1>2, <1>3, <1>4, <1>5, ProfilesStepKeeps

LEMMA ProfileShellStep ==
  ASSUME StudioInv, StreamEvent \/ CloseProfiles \/ ToggleAdd
  PROVE  ShellOnly
<1>1. view \in View /\ OnLine(view)
  BY DEF StudioInv, AppInv, Shaped
<1>2. ASSUME NEW w \in View, w.isCommandPaletteOpen = view.isCommandPaletteOpen,
             w.query = view.query, w.selectedIndex = view.selectedIndex,
             w.loaded = view.loaded, w.profiles = view.profiles,
             view' = w, calls' = calls \o <<>> \/ UNCHANGED calls,
             UNCHANGED <<calm, storeVars>>
      PROVE  ShellOnly
  BY <1>1, <1>2 DEF ShellOnly, OnLine
<1>3. CASE StreamEvent
  <2> DEFINE w == [view EXCEPT !.isStreaming = TRUE]
  <2>1. /\ w \in View /\ w.isCommandPaletteOpen = view.isCommandPaletteOpen
        /\ w.query = view.query /\ w.selectedIndex = view.selectedIndex
        /\ w.loaded = view.loaded /\ w.profiles = view.profiles
    BY <1>1 DEF View
  <2>2. view' = w /\ UNCHANGED calls /\ UNCHANGED <<calm, storeVars>>
    BY <1>3 DEF StreamEvent
  <2> HIDE DEF w
  <2> QED
    BY <1>2, <2>1, <2>2
<1>4. CASE CloseProfiles
  <2> DEFINE w == [view EXCEPT !.isProfilesOpen = FALSE]
  <2>1. /\ w \in View /\ w.isCommandPaletteOpen = view.isCommandPaletteOpen
        /\ w.query = view.query /\ w.selectedIndex = view.selectedIndex
        /\ w.loaded = view.loaded /\ w.profiles = view.profiles
    BY <1>1 DEF View
  <2>2. view' = w /\ calls' = calls \o <<>> /\ UNCHANGED <<calm, storeVars>>
    BY <1>4 DEF CloseProfiles, ShellStep, Land
  <2> HIDE DEF w
  <2> QED
    BY <1>2, <2>1, <2>2
<1>5. CASE ToggleAdd
  <2> DEFINE w == [view EXCEPT !.showAdd = ~@]
  <2>1. /\ w \in View /\ w.isCommandPaletteOpen = view.isCommandPaletteOpen
        /\ w.query = view.query /\ w.selectedIndex = view.selectedIndex
        /\ w.loaded = view.loaded /\ w.profiles = view.profiles
    BY <1>1 DEF View
  <2>2. view' = w /\ calls' = calls \o <<>> /\ UNCHANGED <<calm, storeVars>>
    BY <1>5 DEF ToggleAdd, ShellStep, Land
  <2> HIDE DEF w
  <2> QED
    BY <1>2, <2>1, <2>2
<1> QED
  BY <1>3, <1>4, <1>5

LEMMA ServerKeeps ==
  ASSUME StudioInv, ServerStep \/ ServerFails
  PROVE  AppInv'
<1>1. /\ view \in View /\ calls \in Seq(Requests) /\ calm \in BOOLEAN
      /\ OnLine(view) /\ Handling(calls, job) /\ job \in [Handlers -> Job]
  BY DEF StudioInv, AppInv, Shaped, StoreInv, StoreTypeOK
<1>2. view' = view /\ calls' = calls
  BY DEF ServerStep, ServerFails
<1>3. calm' \in BOOLEAN
  BY <1>1 DEF ServerStep, ServerFails
<1>4. CASE ServerStep
  <2>1. Handling(calls', job') /\ StoreInOrder'
    BY <1>4, ServerStepKeeps
  <2> QED
    BY <1>1, <1>2, <1>3, <2>1 DEF AppInv, Shaped
<1>5. CASE ServerFails
  <2>1. ASSUME NEW h \in Handlers
        PROVE  (job'[h].pc = "idle" <=> job[h].pc = "idle") /\ job'[h].op = job[h].op
    <3>1. CASE Crash
      BY <1>1, <3>1 DEF Crash, Job
    <3>2. ASSUME NEW g \in Handlers, WriteFails(g)
          PROVE  (job'[h].pc = "idle" <=> job[h].pc = "idle") /\ job'[h].op = job[h].op
      BY <1>1, <3>2 DEF WriteFails, Job
    <3> QED
      BY <1>5, <3>1, <3>2 DEF ServerFails
  <2>2. Handling(calls, job')
    BY <1>1, <2>1, SameHandling
  <2>3. StoreInOrder'
    BY <1>5 DEF ServerFails, StoreInOrder
  <2> QED
    BY <1>1, <1>2, <1>3, <2>2, <2>3 DEF AppInv, Shaped
<1> QED
  BY <1>4, <1>5

LEMMA OnProfilesKeeps ==
  ASSUME StudioInv, OnProfiles
  PROVE  AppInv'
<1> DEFINE Shown(i, h) ==
             IF job[h].reply = Error THEN view
             ELSE IF calls[i].op = "load"
             THEN [view EXCEPT !.profiles = job[h].reply, !.loaded = TRUE]
             ELSE [view EXCEPT !.showAdd = @ /\ calls[i].edit # "add"]
<1>1. PICK i \in DOMAIN calls, h \in Handlers :
        /\ HandledBy(i, h)
        /\ Finish(h)
        /\ Land(Shown(i, h), RemoveAt(calls, i), <<>>)
        /\ UNCHANGED <<acts, calm>>
  BY DEF OnProfiles
<1> DEFINE rest == RemoveAt(calls, i)
           v == Shown(i, h)
           reply == job[h].reply
<1>2. /\ view \in View /\ calls \in Seq(Requests) /\ calm \in BOOLEAN
      /\ OnLine(view) /\ Handling(calls, job) /\ job \in [Handlers -> Job]
  BY DEF StudioInv, AppInv, Shaped, StoreInv, StoreTypeOK
<1>3. reply \in Lists \cup {Error}
  BY <1>2 DEF Job
<1>4. /\ v \in View
      /\ v.isCommandPaletteOpen = view.isCommandPaletteOpen
      /\ v.query = view.query /\ v.selectedIndex = view.selectedIndex
  BY <1>2, <1>3 DEF View
<1>5. /\ reply # Error /\ calls[i].op = "load" => v.loaded /\ v.profiles = reply
      /\ ~(reply # Error /\ calls[i].op = "load")
           => v.loaded = view.loaded /\ v.profiles = view.profiles
  BY <1>2 DEF View
<1>6. OnLine(v)
  BY <1>2, <1>4 DEF OnLine
<1>7. view' = v /\ calls' = rest \o <<>>
  BY <1>1 DEF Land
<1>8. rest = RemoveAt(calls, i)
  OBVIOUS
<1>9. /\ calls[i].op # "info" /\ calls[i].reply = h
      /\ job[h].op = calls[i].op
      /\ job[h].pc = "done" /\ job'[h].pc = "idle"
      /\ \A g \in Handlers : g # h => job'[g] = job[g]
      /\ Contents' = Contents /\ interrupted' = interrupted
  BY <1>1, <1>2 DEF HandledBy, Finish, Contents, Handling, Job
<1> HIDE DEF rest, v
<1>10. /\ rest \in Seq(Requests) /\ Handling(rest, job')
       /\ \A loaded, list, c :
            InOrder(Line(calls, job), loaded, list, c) /\ ~Unwritten(Task(calls[i], job))
              => InOrder(Line(rest, job'), loaded, list, c)
  BY <1>2, <1>8, <1>9, TaskAnswered
<1>11. calls' = rest
  BY <1>7, <1>10, SameLine
<1>12. Task(calls[i], job) = job[h] /\ ~Unwritten(job[h])
  BY <1>9 DEF Task, Unwritten
<1>13. StoreInOrder'
  <2> SUFFICES ASSUME calm'
               PROVE  ~interrupted' /\ InOrder(Line(rest, job'), v.loaded, v.profiles, Contents')
    BY <1>7, <1>11 DEF StoreInOrder
  <2> DEFINE w == Line(calls, job)
  <2>1. ~interrupted /\ InOrder(w, view.loaded, view.profiles, Contents)
    BY <1>1 DEF StudioInv, AppInv, StoreInOrder
  <2>2. i \in DOMAIN w /\ w[i] = job[h]
    BY <1>2, <1>12, LineIs
  <2> HIDE DEF w
  <2>3. InOrder(w, v.loaded, v.profiles, Contents)
    <3>1. CASE reply # Error /\ calls[i].op = "load"
      <4>1. Orderly(w) /\ Faithful(w, Contents)
        BY <2>1 DEF InOrder
      <4>2. reply = Contents
        BY <1>9, <2>2, <3>1, <4>1 DEF Faithful
      <4>3. \A j \in DOMAIN w : ~Unwritten(w[j])
        BY <1>9, <2>2, <3>1, <4>1 DEF Orderly
      <4>4. Settled(w, reply, Contents)
        BY <4>2, <4>3 DEF Settled
      <4> QED
        BY <1>5, <3>1, <4>1, <4>4 DEF InOrder
    <3>2. CASE ~(reply # Error /\ calls[i].op = "load")
      BY <1>5, <2>1, <3>2
    <3> QED
      BY <3>1, <3>2
  <2>4. InOrder(Line(rest, job'), v.loaded, v.profiles, Contents)
    BY <1>10, <1>12, <2>3 DEF w
  <2> QED
    BY <1>9, <2>1, <2>4
<1>14. Shaped'
  BY <1>1, <1>2, <1>4, <1>7, <1>10, <1>11 DEF Shaped
<1>15. OnLine(view') /\ Handling(calls', job')
  BY <1>6, <1>7, <1>10, <1>11
<1> QED
  BY <1>13, <1>14, <1>15 DEF AppInv

-----------------------------------------------------------------------------
(* The invariant *)

LEMMA StudioInvInit ==
  ASSUME StudioInit
  PROVE  StudioInv
<1> DEFINE c == [op |-> "info", reply |-> Null, key |-> Null]
<1>1. StoreInv
  BY StoreInvInit DEF StudioInit
<1>2. Request("info", [key |-> Null]) = c
  BY DEF Request, Join
<1>3. calls = <<c>> /\ c \in Requests /\ c.op = "info"
  BY <1>2 DEF StudioInit, Requests
<1> HIDE DEF c
<1>4. calls \in Seq(Requests) /\ DOMAIN calls = {1} /\ calls[1] = c
  BY <1>3
<1>5. "explorer" \in ToSet(Tabs)
  BY DEF Tabs, ToSet
<1>6. Shaped
  BY <1>4, <1>5, NoQueryMatches, StudioAssumption DEF StudioInit, Shaped, View
<1>7. OnLine(view)
  BY DEF StudioInit, OnLine
<1>8. \A h \in Handlers : job[h].pc = "idle"
  BY DEF StudioInit, StoreInit
<1>9. Handling(calls, job)
  BY <1>3, <1>4, <1>8 DEF Handling
<1>10. StoreInOrder
  <2> DEFINE w == Line(calls, job)
  <2>1. DOMAIN w = {1} /\ w[1] = NoTask
    BY <1>3, <1>4 DEF Line, Task
  <2> HIDE DEF w
  <2>2. NoTask.op = "info"
    BY DEF NoTask
  <2>3. InOrder(w, FALSE, view.profiles, Contents)
    BY <2>1, <2>2 DEF InOrder, Orderly, Faithful, Unwritten
  <2>4. view.loaded = FALSE /\ ~interrupted
    BY DEF StudioInit, StoreInit
  <2> QED
    BY <2>3, <2>4 DEF StoreInOrder, w
<1> QED
  BY <1>1, <1>6, <1>7, <1>9, <1>10 DEF StudioInv, AppInv

LEMMA StudioInvStep ==
  ASSUME StudioInv, [StudioNext]_studioVars
  PROVE  StudioInv'
<1>1. StoreInv'
  BY StudioStepsStore, StoreTypeStep, LockStep DEF StudioInv, StoreInv, studioVars
<1>2. AppInv'
  <2>0. view \in View /\ OnLine(view)
    BY DEF StudioInv, AppInv, Shaped
  <2>1. CASE SelectTab
    BY <2>0, <2>1, SelectTabStep, ShellKeeps
  <2>2. CASE TogglePalette
    BY <2>0, <2>2, TogglePaletteStep, ShellKeeps
  <2>3. CASE TypeQuery
    BY <2>0, <2>3, TypeQueryStep, ShellKeeps
  <2>4. CASE MoveCursor
    BY <2>0, <2>4, MoveCursorStep, ShellKeeps
  <2>5. CASE RunAction
    BY <2>0, <2>5, RunActionStep, ShellKeeps
  <2>6. CASE StreamEvent \/ CloseProfiles \/ ToggleAdd
    BY <2>6, ProfileShellStep, ShellKeeps
  <2>7. CASE OnInfo
    BY <2>7, OnInfoKeeps
  <2>8. CASE Connect
    BY <2>8, ConnectKeeps
  <2>9. CASE OpenProfiles
    BY <2>9, OpenProfilesKeeps
  <2>10. CASE AddProfile \/ DeleteProfile
    <3>1. \E edit \in Edits : \E list : Edit(edit, list)
      BY <2>10 DEF AddProfile, DeleteProfile, Edits
    <3>2. PICK edit \in Edits : \E list : Edit(edit, list)
      BY <3>1
    <3>3. PICK list : Edit(edit, list)
      BY <3>2
    <3> QED
      BY <3>3, EditKeeps
  <2>11. CASE ServerStep \/ ServerFails
    BY <2>11, ServerKeeps
  <2>12. CASE OnProfiles
    BY <2>12, OnProfilesKeeps
  <2>13. CASE UNCHANGED studioVars
    <3>1. ShellOnly
      BY <2>0, <2>13 DEF studioVars, apiVars, ShellOnly
    <3> QED
      BY <3>1, ShellKeeps
  <2> QED
    BY <2>1, <2>2, <2>3, <2>4, <2>5, <2>6, <2>7, <2>8, <2>9, <2>10, <2>11,
       <2>12, <2>13 DEF StudioNext
<1> QED
  BY <1>1, <1>2 DEF StudioInv

LEMMA StudioInvariant == StudioSpec => []StudioInv
<1>1. StudioInit => StudioInv
  BY StudioInvInit
<1>2. StudioInv /\ [StudioNext]_studioVars => StudioInv'
  BY StudioInvStep
<1> QED
  BY <1>1, <1>2, PTL DEF StudioSpec

LEMMA StudioTyped ==
  ASSUME StudioInv
  PROVE  StudioTypeOK
<1>1. StoreTypeOK /\ view \in View /\ calls \in Seq(Requests) /\ calm \in BOOLEAN
      /\ Handling(calls, job)
  BY DEF StudioInv, StoreInv, AppInv, Shaped
<1>2. \A i \in DOMAIN calls : calls[i].op \in {"info", "load", "save"}
  BY <1>1, LineIs, RequestKinds
<1>3. ASSUME NEW h \in Handlers
      PROVE  Cardinality({i \in DOMAIN calls : calls[i].reply = h})
               = IF job[h].pc = "idle" THEN 0 ELSE 1
  <2> DEFINE mine == {i \in DOMAIN calls : calls[i].reply = h}
  <2>1. \A i \in mine : i \in DOMAIN calls /\ calls[i].op # "info" /\ calls[i].reply = h
    BY <1>1, LineIs, RequestKinds, StudioAssumption
  <2>2. CASE job[h].pc = "idle"
    <3>1. mine = {}
      BY <1>1, <2>1, <2>2 DEF Handling
    <3> QED
      BY <2>2, <3>1, FS_EmptySet
  <2>3. CASE job[h].pc # "idle"
    <3>1. PICK i \in DOMAIN calls : calls[i].op # "info" /\ calls[i].reply = h
      BY <1>1, <2>3 DEF Handling
    <3>2. \A j \in mine : j = i
      BY <1>1, <2>1, <3>1 DEF Handling
    <3>3. mine = {i}
      BY <3>1, <3>2
    <3> QED
      BY <2>3, <3>3, FS_Singleton
  <2> QED
    BY <2>2, <2>3
<1>4. /\ view.currentTab \in ToSet(Tabs)
      /\ view.systemInfo \in {Null, "info"}
      /\ view.query \in Queries
      /\ view.profiles \in Lists
  BY <1>1 DEF View
<1>5. {view.isProfilesOpen, view.isCommandPaletteOpen, view.showAdd,
       view.isStreaming, view.loaded, calm} \subseteq BOOLEAN
  <2>1. /\ view.isProfilesOpen \in BOOLEAN /\ view.isCommandPaletteOpen \in BOOLEAN
        /\ view.showAdd \in BOOLEAN /\ view.isStreaming \in BOOLEAN
        /\ view.loaded \in BOOLEAN /\ calm \in BOOLEAN
    BY <1>1 DEF View
  <2> QED
    BY <2>1, Zenon
<1> QED
  BY <1>1, <1>2, <1>3, <1>4, <1>5 DEF StudioTypeOK

\* Types of the application; every request for profiles has its handler, and
\* every busy handler its request.
THEOREM StudioTypeCorrect == StudioSpec => []StudioTypeOK
<1>1. StudioInv => StudioTypeOK
  BY StudioTyped
<1> QED
  BY <1>1, StudioInvariant, PTL

\* However the palette is opened, typed into and walked through, and whichever
\* actions a query matches, its cursor is on a line of the list.
THEOREM PaletteCursorCorrect == StudioSpec => []PaletteCursor
<1>1. StudioInv => PaletteCursor
  BY DEF StudioInv, AppInv, OnLine, PaletteCursor
<1> QED
  BY <1>1, StudioInvariant, PTL

\* With any number of requests in flight: a list that was loaded before it was
\* edited is, once everything is answered, the list in the file.
THEOREM CalmStoreCorrect == StudioSpec => []CalmStore
<1>1. ASSUME StudioInv, calm, view.loaded, calls = <<>>
      PROVE  view.profiles = Contents
  <2> DEFINE w == Line(calls, job)
  <2>1. InOrder(w, view.loaded, view.profiles, Contents)
    BY <1>1 DEF StudioInv, AppInv, StoreInOrder
  <2>2. DOMAIN w = {}
    BY <1>1 DEF Line
  <2> HIDE DEF w
  <2>3. Settled(w, view.profiles, Contents)
    BY <1>1, <2>1 DEF InOrder
  <2> QED
    BY <2>2, <2>3 DEF Settled
<1>2. StudioInv => CalmStore
  BY <1>1 DEF CalmStore
<1> QED
  BY <1>2, StudioInvariant, PTL
=============================================================================
