------------------------------- MODULE Studio -------------------------------
(***************************************************************************)
(* The shell of the browser application and its connection profiles: App,  *)
(* Navbar, CommandPalette and ProfileManager over ProfileStore.  The tabs  *)
(* themselves are KeyBrowser, Panels and Feeds.                            *)
(***************************************************************************)
EXTENDS ApiClient, ProfileStore

CONSTANTS
  ProfileIds,   \* the ids of profiles; two names may give one id
  Matching      \* what may stand in the palette: the actions that match

Tabs == <<"explorer", "profiler", "traffic", "clients", "pubsub", "cluster",
          "streams", "telemetry", "repl">>

\* A slip: an action leads to a tab that is not there.
PaletteActionsAstray == Tabs \o <<"sampler", "export", "export">>

\* Where the actions of the palette lead; the exports open a window.
PaletteActions == Tabs \o <<"traffic", "export", "export">>

Queries == DOMAIN Matching

\* The empty query matches every action.
ASSUME StudioAssumption ==
  /\ \A q \in Queries : Matching[q] \subseteq DOMAIN PaletteActions
  /\ \E q \in Queries : Matching[q] = DOMAIN PaletteActions
  /\ <<>> \in Lists
  /\ Null \notin Handlers

studioVars == <<apiVars, storeVars>>

\* The actions the palette lists, in their order.
Filtered(q) == Picked([i \in DOMAIN PaletteActions |-> i], Matching[q])

NoQuery == CHOOSE q \in Queries : Matching[q] = DOMAIN PaletteActions

StudioTypeOK ==
  /\ StoreTypeOK
  /\ view.currentTab \in ToSet(Tabs)
  /\ view.systemInfo \in {Null, "info"}
  /\ {view.isProfilesOpen, view.isCommandPaletteOpen, view.showAdd,
      view.isStreaming, view.loaded, calm} \subseteq BOOLEAN
  /\ view.query \in Queries
  /\ view.profiles \in Lists
  /\ \A i \in DOMAIN calls : calls[i].op \in {"info", "load", "save"}
  /\ \A h \in Handlers :
       Cardinality({i \in DOMAIN calls : calls[i].reply = h})
         = IF job[h].pc = "idle" THEN 0 ELSE 1

\* What a request about profiles is for.
Edits == {"none", "add", "delete"}

\* A request that is handled by h: its reply is looked up there.
StoreCall(op, edit, h) == <<[op |-> op, edit |-> edit, reply |-> h]>>

StudioInit ==
  /\ StoreInit
  /\ view = [currentTab |-> "explorer", systemInfo |-> Null,
             isProfilesOpen |-> FALSE, isCommandPaletteOpen |-> FALSE,
             isStreaming |-> FALSE, query |-> NoQuery, selectedIndex |-> 0,
             profiles |-> <<>>, loaded |-> FALSE, showAdd |-> FALSE]
  /\ calls = <<Request("info", [key |-> Null])>>
  /\ acts = 0
  /\ calm = TRUE

-----------------------------------------------------------------------------
(* The shell and the palette. *)

ShellStep(v) ==
  UserActs /\ Land(v, calls, <<>>) /\ UNCHANGED <<calm, storeVars>>

\* A tab of the Navbar, its logo, or a key of the profiler.
SelectTab ==
  \E t \in ToSet(Tabs) \ {view.currentTab} :
    ShellStep([view EXCEPT !.currentTab = t])

\* Opening clears the query and the cursor, in an effect.
PaletteOpen(v, open) ==
  IF open /\ ~v.isCommandPaletteOpen
  THEN [v EXCEPT !.isCommandPaletteOpen = TRUE, !.query = NoQuery, !.selectedIndex = 0]
  ELSE [v EXCEPT !.isCommandPaletteOpen = open]

\* Ctrl+K anywhere, the buttons, Escape.
TogglePalette == ShellStep(PaletteOpen(view, ~view.isCommandPaletteOpen))

\* A slip: the cursor stays where it is when the query changes.
TypedOnly(v, q) == [v EXCEPT !.query = q]

\* The query and the effect on it.
Typed(v, q) == [v EXCEPT !.query = q, !.selectedIndex = 0]

TypeQuery ==
  /\ view.isCommandPaletteOpen
  /\ \E q \in Queries \ {view.query} : ShellStep(Typed(view, q))

\* Arrow keys go round; the mouse goes anywhere.
MoveCursor ==
  /\ view.isCommandPaletteOpen
  /\ LET n == Len(Filtered(view.query))
         m == IF n = 0 THEN 1 ELSE n
         i == view.selectedIndex
     IN \E to \in {(i + 1) % m, (i + n + m - 1) % m} \cup 0 .. n - 1 :
          to # i /\ ShellStep([view EXCEPT !.selectedIndex = to])

\* Enter, or a click.
RunAction ==
  /\ view.isCommandPaletteOpen
  /\ \E i \in DOMAIN Filtered(view.query) :
       LET to == PaletteActions[Filtered(view.query)[i]]
       IN ShellStep([PaletteOpen(view, FALSE) EXCEPT
                       !.currentTab = IF to = "export" THEN @ ELSE to])

\* The first event of the telemetry stream.
StreamEvent ==
  /\ ~view.isStreaming
  /\ view' = [view EXCEPT !.isStreaming = TRUE]
  /\ UNCHANGED <<calls, acts, calm, storeVars>>

\* The answer to getSystemInfo; a failure leaves what is known.
OnInfo ==
  \E i \in DOMAIN calls, ok \in BOOLEAN :
    /\ calls[i].op = "info"
    /\ Outcome(ok)
    /\ Land([view EXCEPT !.systemInfo = IF ok THEN "info" ELSE @],
            RemoveAt(calls, i), <<>>)
    /\ UNCHANGED <<calm, storeVars>>

-----------------------------------------------------------------------------
(* ProfileManager. *)

ProfilesStep(v, op, edit, list) ==
  /\ UserActs
  /\ \E h \in Handlers :
       Submit(h, op, list) /\ Land(v, calls, StoreCall(op, edit, h))

\* Every opening loads the list.
OpenProfiles ==
  /\ ~view.isProfilesOpen
  /\ ProfilesStep([view EXCEPT !.isProfilesOpen = TRUE], "load", "none", Defaults)
  /\ UNCHANGED calm

CloseProfiles ==
  view.isProfilesOpen /\ ShellStep([view EXCEPT !.isProfilesOpen = FALSE])

\* "Connect" closes the list and asks for the system status again: the server
\* keeps the connection it has.
Connect ==
  /\ view.isProfilesOpen /\ view.profiles # <<>>
  /\ UserActs
  /\ Land([view EXCEPT !.isProfilesOpen = FALSE], calls, <<Request("info", [key |-> Null])>>)
  /\ UNCHANGED <<calm, storeVars>>

ToggleAdd ==
  view.isProfilesOpen /\ ShellStep([view EXCEPT !.showAdd = ~@])

\* A slip: the list of the last render is saved, not the edited one.
SaveListStale(edit, list) ==
  ProfilesStep([view EXCEPT !.profiles = list], "save", edit, view.profiles)

SaveList(edit, list) ==
  ProfilesStep([view EXCEPT !.profiles = list], "save", edit, list)

\* calm ends with an edit of a list that has not been loaded, or is awaited.
Edit(edit, list) ==
  /\ view.isProfilesOpen
  /\ list \in Lists
  /\ SaveList(edit, list)
  /\ calm' = (calm /\ view.loaded /\ ~InFlight(calls, {"load"}))

AddProfile ==
  /\ view.showAdd
  /\ \E p \in ProfileIds : Edit("add", Append(view.profiles, p))

\* All profiles with the id go.
DeleteProfile ==
  \E p \in ToSet(view.profiles) :
    Edit("delete",
         Picked(view.profiles, {i \in DOMAIN view.profiles : view.profiles[i] # p}))

\* Request i is the one that h handles.
HandledBy(i, h) == calls[i].op \in {"load", "save"} /\ calls[i].reply = h

Pending(i) == \E h \in Handlers : HandledBy(i, h) /\ job[h].pc = "waiting"

\* The server works; calm ends when a request gets the lock before an older
\* one.
ServerStep ==
  \E i \in DOMAIN calls, h \in Handlers :
    /\ HandledBy(i, h)
    /\ Work(h)
    /\ calm' = (calm /\ ~(Pending(i) /\ \E j \in 1 .. i - 1 : Pending(j)))
    /\ UNCHANGED <<view, calls, acts>>

ServerFails ==
  /\ Act
  /\ Crash \/ \E h \in Handlers : WriteFails(h)
  /\ calm' = FALSE
  /\ UNCHANGED <<view, calls>>

\* The answers to getProfiles and saveProfiles; an addition that is saved
\* closes the form, a deletion leaves it.
OnProfiles ==
  \E i \in DOMAIN calls, h \in Handlers :
    /\ HandledBy(i, h)
    /\ Finish(h)
    /\ LET list == job[h].reply
           v == IF list = Error THEN view
                ELSE IF calls[i].op = "load"
                THEN [view EXCEPT !.profiles = list, !.loaded = TRUE]
                ELSE [view EXCEPT !.showAdd = @ /\ calls[i].edit # "add"]
       IN Land(v, RemoveAt(calls, i), <<>>)
    /\ UNCHANGED <<acts, calm>>

StudioNext ==
  \/ SelectTab \/ TogglePalette \/ TypeQuery \/ MoveCursor \/ RunAction
  \/ StreamEvent \/ OnInfo
  \/ OpenProfiles \/ CloseProfiles \/ Connect \/ ToggleAdd
  \/ AddProfile \/ DeleteProfile
  \/ ServerStep \/ ServerFails \/ OnProfiles

StudioSpec == StudioInit /\ [][StudioNext]_studioVars

-----------------------------------------------------------------------------
\* The palette's cursor is on a line of the list, whatever was typed, reopened
\* or moved: Enter always has the highlighted action to run.
PaletteCursor ==
  view.isCommandPaletteOpen =>
    \/ view.selectedIndex < Len(Filtered(view.query))
    \/ view.selectedIndex = 0 /\ Filtered(view.query) = <<>>

\* Once nothing is in flight, the list on the screen is the list in the file,
\* if it had been loaded before it was edited, the requests were served in
\* their order and the server did not fail.
CalmStore ==
  calm /\ view.loaded /\ calls = <<>> => view.profiles = Contents
=============================================================================
