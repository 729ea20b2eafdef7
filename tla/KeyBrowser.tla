----------------------------- MODULE KeyBrowser -----------------------------
(***************************************************************************)
(* The key explorer of the browser: KeyExplorer with its list, its search  *)
(* and its two forms, KeyDetailView beside it and the view of the key's    *)
(* type in it.  The server is what its handlers make of a call on a real   *)
(* Valkey server: it answers any call that has reached it, in any order,   *)
(* and a call that fails may have taken effect.                            *)
(*                                                                         *)
(* A handler goes on after its answer with the closures of the render it   *)
(* was started in: the pattern and the selected key of then ("at").  The   *)
(* forms are not assumed to cover what is behind them.                     *)
(***************************************************************************)
EXTENDS ApiClient

CONSTANTS
  Names,        \* key names
  Absent,       \* no key under a name
  Patterns,     \* what may stand in the search field: the names it matches
  JsonKeys,     \* the names whose string is a JSON object
  Servers       \* servers to start with: their keys, and whether read-only

\* The types whose views keep state; those of lists and sets only show.
Types == {"string", "hash", "stream"}

ASSUME BrowserAssumption ==
  /\ Absent \notin Types
  /\ Null \notin Names \cup {Absent} \cup Types
  /\ Null \notin BOOLEAN
  /\ Null # "ok"
  /\ Null \notin [name : Names, type : Types]
  /\ \A S \in SUBSET Names : Null \notin [S -> Types]
  /\ Failed \notin {Absent} \cup Types
  /\ Names \in Patterns
  /\ Patterns \subseteq SUBSET Names
  /\ JsonKeys \subseteq Names
  /\ Servers \subseteq [db : [Names -> Types \cup {Absent}], guarded : BOOLEAN]

VARIABLES
  db,           \* the server's keys and their types
  guarded       \* the server runs in read-only mode

browserVars == <<db, guarded>>

allVars == <<apiVars, browserVars>>

PageForms == {"showCreateModal", "showDeletePatternModal"}
PaneForms == {"editingTTL", "isDuplicating"}
HashForms == {"editingField", "showAdd"}
Forms == PageForms \cup PaneForms \cup HashForms

Refreshing == {"save", "ttl", "duplicate", "hset", "hdel"}
Writes == Refreshing \cup {"create", "delete", "deletePattern"}

-----------------------------------------------------------------------------
(* The pane: the detail of a key and the view of its type. *)

NoChild == [kind |-> "none"]

PaneShown(v) == v.keyDetail # Null /\ ~v.detailLoading

\* A slip: the effect that fills the editor runs on mounting only.
ChildOfMountedOnce(old, d) ==
  IF old.kind = d.type THEN old
  ELSE CASE d.type = "string" ->
         [kind |-> "string", content |-> [of |-> d.name, via |-> "load"],
          parsedJson |-> Null, viewMode |-> "raw", saving |-> FALSE]
    [] d.type = "stream" -> [kind |-> "stream", loading |-> TRUE, streamData |-> Null]
    [] OTHER -> [kind |-> "hash"]

\* The view inside the pane once detail d is shown: the one that was there,
\* its effects run again, or one that is mounted anew.
ChildOf(old, d) ==
  CASE d.type = "string" ->
         LET json == d.name \in JsonKeys
             kept == old.kind = "string"
         IN [kind |-> "string",
             content |-> [of |-> d.name, via |-> "load"],
             parsedJson |-> IF json THEN d.name
                            ELSE IF kept THEN old.parsedJson ELSE Null,
             viewMode |-> IF json THEN "tree" ELSE "raw",
             saving |-> kept /\ old.saving]
    [] d.type = "stream" ->
         [kind |-> "stream", loading |-> TRUE,
          streamData |-> IF old.kind = "stream" THEN old.streamData ELSE Null]
    [] OTHER -> [kind |-> "hash"]

\* A slip: the view of the type stays mounted behind the spinner.
ShowDetailBehind(v, d) ==
  [v EXCEPT !.keyDetail = d, !.child = IF d = Null THEN NoChild ELSE ChildOf(@, d)]

\* The view v with this detail (Null: none).
ShowDetail(v, d) ==
  LET next == [v EXCEPT !.keyDetail = d]
      child == IF PaneShown(next) THEN ChildOf(v.child, d) ELSE NoChild
  IN [next EXCEPT !.child = child,
                  !.open = IF child.kind = "hash" THEN @ ELSE @ \ HashForms]

\* A new detail makes a mounted stream view load its entries.
DetailCalls(v) ==
  IF v.child.kind = "stream"
  THEN <<Request("stream", [key |-> v.keyDetail.name, live |-> TRUE])>>
  ELSE <<>>

\* The requests of a child that is gone no longer set its state.
Orphaned(cs, v) ==
  IF v.child.kind = view.child.kind THEN cs
  ELSE [i \in DOMAIN cs |->
          IF "live" \in DOMAIN cs[i] THEN [cs[i] EXCEPT !.live = FALSE]
          ELSE cs[i]]

-----------------------------------------------------------------------------
(* The list and the selection. *)

Closure(v) == [pattern |-> v.pattern, selectedKey |-> v.selectedKey]

\* loadKeys of the render whose closure is at; then is the key to select
\* when it is done.
LoadKeys(at, then) ==
  <<Request("list", [pattern |-> at.pattern, had |-> at.selectedKey # Null,
                     then |-> then])>>

Loading(v) == [v EXCEPT !.loading = TRUE]

\* A slip: the detail's spinner is started ahead of "if (!selectedKey)".
SelectSpinning(v, k) ==
  IF k = v.selectedKey THEN v
  ELSE ShowDetail([v EXCEPT !.selectedKey = k, !.detailLoading = TRUE,
                            !.loading = TRUE],
                  IF k = Null THEN Null ELSE v.keyDetail)

\* setSelectedKey(k) and the two effects that depend on the selection.
Select(v, k) ==
  IF k = v.selectedKey THEN v
  ELSE LET moved == Loading([v EXCEPT !.selectedKey = k,
                                      !.detailLoading = @ \/ k # Null])
       IN ShowDetail(moved, IF k = Null THEN Null ELSE v.keyDetail)

SelectCalls(v, k) ==
  IF k = v.selectedKey THEN <<>>
  ELSE LoadKeys([pattern |-> v.pattern, selectedKey |-> k], Null)
       \o (IF k = Null THEN <<>> ELSE <<Request("detail", [key |-> k])>>)

\* The listed keys of the type that is picked.
FilteredKeys(v) == {k \in DOMAIN v.keys : v.typeFilter \in {"all", v.keys[k]}}

\* The keys one can click: none while the list loads, when a notice takes its
\* place, and none in tree mode while their folder is shut.
Offered(v) ==
  IF v.loading \/ (v.viewMode = "tree" /\ v.openFolder = "shut") THEN {}
  ELSE FilteredKeys(v)

\* calm ends when the selection or the pattern changes under a write, whose
\* handler will go on with the old ones, and when the selection is dropped while
\* a detail is awaited, which will be shown for none.
StaysCalm(v, cs) ==
  /\ Closure(v) = Closure(view) \/ ~InFlight(cs, Writes)
  /\ v.selectedKey = Null /\ view.selectedKey # Null
       => ~InFlight(cs, {"detail", "refresh"})

-----------------------------------------------------------------------------
BrowserTypeOK ==
  /\ view.keys \in UNION {[S -> Types] : S \in SUBSET Names}
  /\ view.listedFor \in Patterns \cup {Null}
  /\ view.pattern \in Patterns
  /\ view.selectedKey \in Names \cup {Null}
  /\ view.keyDetail \in [name : Names, type : Types] \cup {Null}
  /\ {view.loading, view.detailLoading, view.dupLoading, view.readOnly,
      guarded, calm} \subseteq BOOLEAN
  /\ view.typeFilter \in Types \cup {"all"}
  /\ view.viewMode \in {"tree", "flat"}
  /\ view.openFolder \in {"unset", "open", "shut"}
  /\ view.open \subseteq Forms
  /\ view.child.kind = IF PaneShown(view) THEN view.keyDetail.type ELSE "none"
  /\ db \in [Names -> Types \cup {Absent}]
  /\ acts \in 0 .. MaxActs

BrowserInit ==
  /\ \E s \in Servers : db = s.db /\ guarded = s.guarded
  /\ acts = 0
  /\ calm = TRUE
  /\ view = [keys |-> <<>>, listedFor |-> Null, loading |-> TRUE,
             pattern |-> Names, typeFilter |-> "all", viewMode |-> "tree",
             openFolder |-> "unset", selectedKey |-> Null, keyDetail |-> Null,
             detailLoading |-> FALSE, dupLoading |-> FALSE,
             readOnly |-> FALSE, open |-> {}, child |-> NoChild]
  /\ calls = <<[op |-> "info", reply |-> guarded]>> \o LoadKeys(Closure(view), Null)

-----------------------------------------------------------------------------
(* The user at the list. *)

UserStep(v, sent) ==
  /\ UserActs
  /\ Land(v, Orphaned(calls, v), sent)
  /\ calm' = (calm /\ StaysCalm(v, calls))
  /\ UNCHANGED browserVars

SetPattern ==
  \E p \in Patterns \ {view.pattern} :
    LET v == Loading([view EXCEPT !.pattern = p])
    IN UserStep(v, LoadKeys(Closure(v), Null))

\* Enter in the search field, or the button.
Reload == UserStep(Loading(view), LoadKeys(Closure(view), Null))

SetTypeFilter ==
  \E t \in (Types \cup {"all"}) \ {view.typeFilter} :
    UserStep([view EXCEPT !.typeFilter = t], <<>>)

ToggleViewMode ==
  UserStep([view EXCEPT !.viewMode = IF @ = "tree" THEN "flat" ELSE "tree"], <<>>)

\* The folder counts as open until it is set to false, but it is the value
\* that is toggled: the first click sets true.
ToggleFolder ==
  /\ view.viewMode = "tree" /\ ~view.loading
  /\ UserStep([view EXCEPT !.openFolder = IF @ = "open" THEN "shut" ELSE "open"], <<>>)

SelectKey ==
  \E k \in Offered(view) : UserStep(Select(view, k), SelectCalls(view, k))

\* Some other client of the server, or a deadline, changes a key.
OtherClient ==
  /\ Act
  /\ \E k \in Names, t \in Types \cup {Absent} :
       t # db[k] /\ db' = [db EXCEPT ![k] = t]
  /\ UNCHANGED <<view, calls, calm, guarded>>

-----------------------------------------------------------------------------
(* The forms and the buttons that write. *)

\* Whether a form can be opened: its button is on the screen.
Openable(form) ==
  /\ ~view.readOnly
  /\ form \in PaneForms => PaneShown(view)
  /\ form \in HashForms => view.child.kind = "hash"

Visible(form) ==
  form \in view.open /\ (form \in PaneForms => PaneShown(view))

OpenForm ==
  \E f \in Forms \ view.open :
    Openable(f) /\ UserStep([view EXCEPT !.open = @ \cup {f}], <<>>)

CancelForm ==
  \E f \in view.open :
    Visible(f) /\ UserStep([view EXCEPT !.open = @ \ {f}], <<>>)

Write(op, key, arg) ==
  <<Request(op, [key |-> key, arg |-> arg, at |-> Closure(view)])>>

ChildWrite(op, arg) ==
  <<Request(op, [key |-> view.keyDetail.name, arg |-> arg,
                 at |-> Closure(view), live |-> TRUE])>>

SubmitCreate ==
  /\ Visible("showCreateModal")
  /\ \E k \in Names : UserStep(view, Write("create", k, Null))

SubmitDeletePattern ==
  /\ Visible("showDeletePatternModal")
  /\ \E p \in Patterns : UserStep(view, Write("deletePattern", Null, p))

SubmitTTL ==
  /\ Visible("editingTTL")
  /\ UserStep(view, Write("ttl", view.keyDetail.name, Null))

SubmitDuplicate ==
  /\ Visible("isDuplicating")
  /\ ~view.dupLoading
  /\ \E k \in Names :
       UserStep([view EXCEPT !.dupLoading = TRUE],
                Write("duplicate", view.keyDetail.name, k))

DeleteKey ==
  /\ PaneShown(view) /\ ~view.readOnly
  /\ UserStep(view, Write("delete", view.keyDetail.name, Null))

\* Typing in the text area, which shows the parsed object in JSON mode.
TypeText ==
  /\ view.child.kind = "string" /\ ~view.readOnly
  /\ LET json == view.child.viewMode = "json" /\ view.child.parsedJson # Null
     IN /\ view.child.viewMode = "tree" => view.child.parsedJson = Null
        /\ UserStep([view EXCEPT !.child.content =
                       [of |-> IF json THEN view.child.parsedJson ELSE @.of,
                        via |-> IF json THEN "json" ELSE @.via]], <<>>)

SetStringMode ==
  /\ view.child.kind = "string"
  /\ view.child.parsedJson # Null
  /\ \E m \in {"tree", "json", "raw"} \ {view.child.viewMode} :
       UserStep([view EXCEPT !.child.viewMode = m], <<>>)

SaveString ==
  /\ view.child.kind = "string" /\ ~view.readOnly
  /\ view.child.viewMode # "tree" /\ ~view.child.saving
  /\ UserStep([view EXCEPT !.child.saving = TRUE], ChildWrite("save", Null))

SaveField ==
  \E f \in HashForms : Visible(f) /\ UserStep(view, ChildWrite("hset", f))

DeleteField ==
  /\ view.child.kind = "hash" /\ ~view.readOnly
  /\ UserStep(view, ChildWrite("hdel", Null))

-----------------------------------------------------------------------------
(* The server. *)

\* What a call makes of the keys: the sets it may leave.
Effect(c) ==
  CASE c.op \in {"create", "save"} -> {[db EXCEPT ![c.key] = "string"]}
    [] c.op = "duplicate" -> {[db EXCEPT ![c.arg] = db[c.key]]}
    [] c.op = "delete" -> {[db EXCEPT ![c.key] = Absent]}
    [] c.op = "deletePattern" ->
         {[k \in Names |-> IF k \in c.arg THEN Absent ELSE db[k]]}
    [] c.op = "hset" -> {[db EXCEPT ![c.key] = "hash"]}
    [] c.op = "hdel" -> {db, [db EXCEPT ![c.key] = Absent]}
    [] OTHER -> {db}

\* Whether the server can do what the call asks.
Accepted(c) ==
  /\ c.op \in Writes => ~guarded
  /\ c.op \in {"detail", "refresh", "duplicate"} => db[c.key] # Absent
  /\ c.op = "hset" => db[c.key] \in {"hash", Absent}
  /\ c.op = "hdel" => db[c.key] = "hash"
  /\ c.op = "stream" => db[c.key] = "stream"

ReplyTo(c) ==
  CASE c.op = "list" ->
         [k \in {n \in c.pattern : db[n] # Absent} |-> db[k]]
    [] c.op \in {"detail", "refresh"} -> [name |-> c.key, type |-> db[c.key]]
    [] c.op = "stream" -> c.key
    [] OTHER -> "ok"

Serve ==
  \E i \in DOMAIN calls :
    /\ Unserved(i)
    /\ calls' = [calls EXCEPT ![i].reply =
                   IF Accepted(calls[i]) THEN ReplyTo(calls[i]) ELSE Failed]
    /\ db' \in IF Accepted(calls[i]) THEN Effect(calls[i]) ELSE {db}
    /\ UNCHANGED <<view, calm, acts, guarded>>

\* The connection breaks, before the server acts or after.
Lose ==
  \E i \in DOMAIN calls :
    /\ Act
    /\ calls[i].reply # Failed
    /\ calls' = [calls EXCEPT ![i].reply = Failed]
    /\ UNCHANGED <<view, calm, browserVars>>

-----------------------------------------------------------------------------
(* The answers. *)

\* Request i is answered: v is the view it leaves, sent what is sent next.
Answer(i, v, sent) ==
  LET rest == RemoveAt(calls, i)
  IN /\ Land(v, Orphaned(rest, v), sent)
     /\ calm' = (/\ calm
                 /\ StaysCalm(v, rest)
                 /\ ~Overtakes(i, {"list"})
                 /\ ~Overtakes(i, {"detail", "refresh"})
                 /\ ~Overtakes(i, {"stream"})
                 /\ ~(calls[i].op \in {"list", "stream"} /\ calls[i].reply = Failed))
     /\ UNCHANGED <<acts, db, guarded>>

Answered(i, op) == ~Unserved(i) /\ calls[i].op = op

Succeeded(i) == calls[i].reply # Failed

\* A slip: the list moves the selection whether or not there is one.
ChosenAlways(c) ==
  IF c.then # Null THEN {c.then}
  ELSE IF c.reply # Failed /\ DOMAIN c.reply # {} THEN DOMAIN c.reply
  ELSE {view.selectedKey}

\* The selection a finished loadKeys leaves: the key just created, or the
\* first of the list where its closure had none.
Chosen(c) ==
  IF c.then # Null THEN {c.then}
  ELSE IF c.reply # Failed /\ ~c.had /\ DOMAIN c.reply # {} THEN DOMAIN c.reply
  ELSE {view.selectedKey}

OnList ==
  \E i \in DOMAIN calls :
    /\ Answered(i, "list")
    /\ LET c == calls[i]
           done == [view EXCEPT !.loading = FALSE]
           listed == IF Succeeded(i)
                     THEN [done EXCEPT !.keys = c.reply, !.listedFor = c.pattern]
                     ELSE done
       IN \E k \in Chosen(c) : Answer(i, Select(listed, k), SelectCalls(listed, k))

\* A slip: the detail that is there stays when the new one fails.
LoadedOrKept(c) == IF c.reply # Failed THEN c.reply ELSE view.keyDetail

Loaded(c) == IF c.reply # Failed THEN c.reply ELSE Null

OnDetail ==
  \E i \in DOMAIN calls :
    /\ Answered(i, "detail")
    /\ LET v == ShowDetail([view EXCEPT !.detailLoading = FALSE],
                           Loaded(calls[i]))
       IN Answer(i, v, DetailCalls(v))

\* The answer to onRefresh; nobody catches its failure.
OnRefresh ==
  \E i \in DOMAIN calls :
    /\ Answered(i, "refresh")
    /\ LET v == ShowDetail(view, calls[i].reply)
       IN IF Succeeded(i) THEN Answer(i, v, DetailCalls(v)) ELSE Answer(i, view, <<>>)

OnStream ==
  \E i \in DOMAIN calls :
    /\ Answered(i, "stream")
    /\ LET loaded == [view.child EXCEPT !.loading = FALSE,
                        !.streamData = IF Succeeded(i) THEN calls[i].reply ELSE @]
       IN Answer(i, IF calls[i].live THEN [view EXCEPT !.child = loaded] ELSE view, <<>>)

\* onRefresh as the render saw it that the write was started in.
RefreshCalls(at) ==
  IF at.selectedKey = Null THEN <<>>
  ELSE <<Request("refresh", [key |-> at.selectedKey])>>

\* What a write does to the view besides asking for the detail again.
AfterWrite(c, ok) ==
  LET closed == [save |-> {}, ttl |-> {"editingTTL"},
                 duplicate |-> {"isDuplicating"}, hset |-> {c.arg}, hdel |-> {}]
      mine == "live" \in DOMAIN c => c.live
      v == IF ok /\ mine THEN [view EXCEPT !.open = @ \ closed[c.op]] ELSE view
  IN CASE c.op = "duplicate" -> [v EXCEPT !.dupLoading = FALSE]
       [] c.op = "save" /\ mine -> [v EXCEPT !.child.saving = FALSE]
       [] OTHER -> v

OnWrite ==
  \E i \in DOMAIN calls :
    /\ ~Unserved(i) /\ calls[i].op \in Refreshing
    /\ Answer(i, AfterWrite(calls[i], Succeeded(i)),
              IF Succeeded(i) THEN RefreshCalls(calls[i].at) ELSE <<>>)

\* handleCreateKey and handleDeletePattern: close the form, load the list.
OnPageWrite ==
  \E i \in DOMAIN calls, op \in {"create", "deletePattern"} :
    /\ Answered(i, op)
    /\ LET form == [create |-> "showCreateModal",
                    deletePattern |-> "showDeletePatternModal"]
           v == Loading([view EXCEPT !.open = @ \ {form[op]}])
       IN IF Succeeded(i)
          THEN Answer(i, v, LoadKeys(calls[i].at, calls[i].key))
          ELSE Answer(i, view, <<>>)

\* onKeyDeleted: no selection, and the list twice if there was one.
OnDelete ==
  \E i \in DOMAIN calls :
    /\ Answered(i, "delete")
    /\ IF Succeeded(i)
       THEN Answer(i, Loading(Select(view, Null)),
                   LoadKeys(calls[i].at, Null) \o SelectCalls(view, Null))
       ELSE Answer(i, view, <<>>)

\* App learns the mode of the server; until then it takes it as read-write.
OnInfo ==
  \E i \in DOMAIN calls :
    /\ Answered(i, "info")
    /\ Answer(i, [view EXCEPT !.readOnly = calls[i].reply = TRUE], <<>>)

-----------------------------------------------------------------------------
BrowserNext ==
  \/ SetPattern \/ Reload \/ SetTypeFilter \/ ToggleViewMode \/ ToggleFolder
  \/ SelectKey \/ OpenForm \/ CancelForm
  \/ SubmitCreate \/ SubmitDeletePattern \/ SubmitTTL \/ SubmitDuplicate
  \/ DeleteKey \/ TypeText \/ SetStringMode \/ SaveString \/ SaveField
  \/ DeleteField \/ OtherClient \/ Serve \/ Lose
  \/ OnList \/ OnDetail \/ OnRefresh \/ OnStream \/ OnWrite \/ OnPageWrite
  \/ OnDelete \/ OnInfo

BrowserSpec == BrowserInit /\ [][BrowserNext]_allVars

-----------------------------------------------------------------------------
(* Properties. *)

\* How many steps a request may still cause, itself and its successors.
Cost(c) ==
  CASE c.op \in {"info", "stream"} -> 1
    [] c.op \in {"detail", "refresh"} -> 2
    [] c.op = "list" -> IF c.had /\ c.then = Null THEN 1 ELSE 4
    [] c.op \in Refreshing -> 3
    [] c.op \in {"create", "deletePattern"} -> 5
    [] OTHER -> 9

Outstanding(cs) ==
  LET sum[i \in 0 .. Len(cs)] ==
        IF i = 0 THEN 0
        ELSE sum[i - 1] + 2 * Cost(cs[i]) - (IF cs[i].reply = Null THEN 0 ELSE 1)
  IN sum[Len(cs)]

\* The string editor is one component for all keys, filled by an effect: text
\* that is not its key's own came in through the JSON mode, whose object is
\* never forgotten (StringView.tsx:27).
EditorBelongs ==
  LET c == view.child
  IN c.kind = "string" /\ c.content.via # "json"
       => c.content.of = view.keyDetail.name

\* When nothing is in flight, no answer came out of turn, no selection moved
\* under a write and none was dropped while a detail was awaited, the screen is
\* of one piece: what the pane shows is the key that is selected, the list is
\* that of the search field, and a stream view shows the entries of its key.
CalmPane ==
  calm /\ calls = <<>> =>
    /\ view.keyDetail # Null => view.keyDetail.name = view.selectedKey
    /\ view.listedFor = view.pattern
    /\ view.child.kind = "stream" => view.child.streamData = view.keyDetail.name

\* "Loading", "Saving" and "Cloning" are shown only while the request they
\* stand for is in flight, whatever failed or was overtaken meanwhile: no
\* button stays disabled for good.
SpinnerHasCause ==
  /\ view.loading => InFlight(calls, {"list"})
  /\ view.detailLoading => InFlight(calls, {"detail"})
  /\ view.dupLoading => InFlight(calls, {"duplicate"})
  /\ view.child.kind = "string" /\ view.child.saving
       => \E i \in DOMAIN calls : calls[i].op = "save" /\ calls[i].live

\* The selection makes the list load and the list may set the selection; a
\* write loads the detail and a detail loads its stream. None of this goes
\* round in a circle: unless the user acts, every step leaves less to come.
AnswersRunOut ==
  [][acts' = acts => Outstanding(calls') < Outstanding(calls)]_allVars
=============================================================================
