# A TLA+ development for ValkeyLens

ValkeyLens is a browser studio for Valkey and Redis: a Go server that talks to one
database (or, with `--demo`, to an engine embedded in it), and a React application
that talks to the Go server over HTTP and event streams. This directory models the
parts of it whose correctness depends on the order in which things happen, checks
the models with TLC and proves the most important results with TLAPS.

Paths below are relative to the repository. Module names are in `code`.

## 1. Inventory

| Component | State | Operations | What makes it correct |
|---|---|---|---|
| Command guard, `pkg/client/guard.go` | none (two tables) | a verdict on every command | read-only mode lets no write through, whoever sends it |
| In-memory engine, `pkg/client/mock.go` | the map of keys, a read-write lock, the read-only flag | the commands of `Do`, `Scan`, `Type`, `PTTL`, `GetKeyDetail`, ... | expired data is never seen again; what a read says of the remaining time is true |
| Key explorer, `pkg/explorer/crud.go` | none between requests; a request holds a pointer into the engine | show, set, delete, TTL, hash fields, duplicate | a duplicate has type, payload and TTL of its source; a request ends and hurts nobody else |
| Scanner, `pkg/explorer/scanner.go` | a cursor per request | one page, delete by pattern, scan all | nothing is missed that was there all along; the count is right; the loop ends |
| Key handlers and middleware, `server/handlers/keys_handler.go`, `server/middleware/readonly.go` | none | HTTP to explorer calls | read-only mode refuses every mutating request |
| Profiler, `pkg/profiler` | cursor, heap and prefix tree of one run | `RunProfile` | no key missed, none counted twice, the N largest are the N largest, sums add up |
| Slow-log tracker, `pkg/telemetry/slowlog.go`, `server/handlers/telemetry_handler.go` | the id last seen, a mutex; a ticker per stream | one check per second and stream | each entry reported once, none skipped, to every stream |
| Telemetry monitor, `pkg/telemetry/monitor.go` | a ring of 300 points, a goroutine, a stop channel | start, stop, poll, snapshot | ring bounded and in order; stops and can start again |
| Valkey client, `pkg/client/valkey.go` | the library's connections | the client interface over a server | errors are reported; replies keep their kinds |
| Pub/sub, `pkg/pubsub`, `server/handlers/pubsub_handler.go` | a channel of 100 messages and a goroutine per stream | subscribe, publish | in order, and both goroutines end when the browser leaves |
| Traffic sampler, `pkg/traffic` | a channel of 100 events, a timer, counters | one bounded sample | at most the limit, counters agree, both goroutines end |
| Server life cycle, `cmd/server.go`, `server/router.go` | contexts, deferred closes, the signal channel | start, shut down | nothing uses the client after it is closed; shutdown ends |
| Connection profiles, `server/handlers/system_handler.go` | one JSON file | load, save | a save is not lost and never half there |
| Script export, `pkg/explorer/export_script.go` | none | keys to a script | reading the script back gives the keys |
| Console, `pkg/repl` | none | split, execute, format, complete | quoting; the guard sees what is executed |
| Streams, clients, cluster: `pkg/streams`, `pkg/clients`, `pkg/cluster` | none | parse replies | slots by CRC16 and hash tag |
| Audit, `cmd/audit.go` | none | one profile, one report | as the profiler |
| Browser: key explorer, `ui/src/components/KeyTree`, `KeyDetail` | list, selection, detail, the view of its type, forms; closures of writes under way | search, select, create, write, delete | the screen ends up of one piece; no text of another key is saved; nothing spins for ever |
| Browser: panels, `Profiler`, `Traffic`, `Cluster`, `Clients`, `Streams`, `REPL` | what was asked and answered; timers; cursors | ask, poll, kill, choose, type, run | an older answer never replaces a newer one, or not for long; signs and cursors are true |
| Browser: shell, `App.tsx`, `Navbar.tsx`, `CommandPalette`, `Profiles` | the tab, the palette, the list of profiles | navigate, run an action, edit the profiles | the cursor is in the list; the list shown is the list stored |
| Browser: feeds, `Telemetry`, `PubSub` | a snapshot, a slow log, messages; an event stream each | fetch, listen, pause, publish | the newest point in the end; each message once, in order |

How they interact. Every component of the server calls the database through one
`client.Client`, from one goroutine per HTTP request, one per event stream and one
for the monitor. The engine's only lock covers one call, so any two calls of a
request can have calls of other requests between them; the engine also gives out
pointers to entries that are used after the lock is gone. Streams share the
tracker and the monitor. The browser holds two telemetry streams (`App.tsx` and
the dashboard). Every component of the browser calls the server through
`ui/src/api/client.ts`; a handler is suspended at its await and goes on with the
values its closure captured, while the user and other answers change the state.
`App` mounts one tab at a time; unmounting drops the tab's state and answers.

The hard behaviours: interleaving between the calls of one request; entries that
expire between them; pages of a cursor over data that changes; failed calls after
part of the work is done; a server that restarts under a tracker that remembers;
browsers that leave while something is being sent to them; answers that fail,
arrive after the selection moved or overtake each other; effects that set what
other effects depend on; event streams that break and are opened again. `PROJECT.json` lists
each hazard at its line with the properties that cover it.

## 2. Modules

| Module | What it models | Extends |
|---|---|---|
| `CommandGuard` | `guard.go`: the tables and the verdict | |
| `Keyspace` | the engine's entries and every command that writes | `CommandGuard` |
| `Explorer` | `GetKeyDetail` and `DuplicateKey`, call by call, over `Keyspace`, with the one-call handlers, the console and Go's shared maps | `Keyspace` |
| `KeySweep` | the cursor loops over the engine's positions or a server's SCAN | |
| `SlowlogFeed` | the tracker, its streams and the server's slow log | |
| `ApiClient` | requests as promises: what a handler captured, the reply, and what is in flight | |
| `KeyBrowser` | the key explorer of the browser against a server with keys | `ApiClient` |
| `ReportPanels`, `ClientPanel`, `StreamPanel`, `TerminalPanel` | the panels, one module each kind | `ApiClient` |
| `FreshView` | abstract: what a panel that shows one report promises | |
| `Panels` | the panels under the tabs of `App`; refines `FreshView` | the four panels |
| `ProfileStore` | abstract and server side: the profiles file, its lock, crashes | |
| `Studio` | shell, palette and profile list over the store; refines `ProfileStore` | `ApiClient`, `ProfileStore` |
| `TelemetryFeed` | monitor, telemetry stream and dashboard | |
| `PubSubFeed` | console, event stream, subscriber goroutine, both clients | |
| `Feeds` | the two feeds, one to a behaviour | `TelemetryFeed`, `PubSubFeed` |
| `KeyspaceProofs`, `ExplorerProofs`, `KeySweepProofs`, `PanelsProofs`, `BrowserProofs`, `StudioProofs` | theorems about the module of that name (`BrowserProofs`: `KeyBrowser`) | the module, `TLAPS` |
| `FeedsProofs` | theorems about `Feeds` and `SlowlogFeed`, whose streams are the same | both |
| `RequestProofs` | lemmas about requests in flight, for the three about the browser | `ApiClient`, `TLAPS` |
| `MCKeyspace`, `MCExplorer`, `MCKeySweep`, `MCSlowlogFeed`, `MCKeyBrowser`, `MCPanels`, `MCStudio`, `MCFeeds` | small instances | the module |

Definitions introduced by a comment "A slip" are not used by any specification:
each is a plausible mistake in the definition that follows it, and TLC finds a
property violated when it takes that definition's place. They show that the
property is about the code.

### `Keyspace` and the engine

`db` is `MockClient.keys`, with `Absent` for a name that is not in the Go map; `now`
is the clock and `readOnly` the flag. One command is one action, because `Do` holds
the lock from its first read to its last write; the guard is consulted first.
An entry is its type, the set of what it holds and its deadline. TTL and CreatedAt
occur in the code only as their sum. Lazy expiry is kept as it is: an expired
entry stays in the map, each command decides for itself whether it looks at
`Expired`, and HSET, RPUSH, LPUSH, SADD and ZADD do not. `PTTL` divides, because
its rounding matters: a clock tick is a fraction of a millisecond.

Abstracted: the order of lists and the repetitions that ZADD leaves, HSET with
several pairs at once, memory sizes, arity errors, the text of replies.

### `Explorer`

A request is a record with a place (`pc`) and the locals of the code. `ReadType`,
`ReadTTL` and `Fetch` are the three calls whose answers matter; `Extract` is the
type assertion and, for what is copied at once, the copy; `CopyMember` and
`MembersDone` are the loop that copies a set out of the engine's live map, member by
member and without its lock; `CommandRead` is the branch
meant for a real server, which the engine reaches when the entry is gone by then;
`Clear`, `WriteString`, `WriteAll`, `WriteMember`, `WriteField` (a loop over the live
hash), `WriteDone` and `SetExpiry` are `DuplicateKey`. `attached` says that the request still holds the
entry that is in the map: then writes in place reach its value (`Track`), and a
write to a Go map that it iterates may end the process (`fatal`, a
nondeterministic choice, because the runtime detects it or not). The one-call
handlers and the console are the commands of `Keyspace`, each with its effect on
pointer holders. History variables `seen` and `disturbed` are what the
properties compare a clone with.

### `KeySweep`

One page and what is done with it are two steps of `DeleteByPattern` and one of the
collecting loops. `OffsetPage` is the engine's `Scan`: the positions after the
cursor in the sorted list of visible keys as it is now. `BucketPage` is the
guarantee of a server's SCAN: the cursor passes buckets, a page has at least the
matching keys of those it passes, and may have others. Others insert and remove
keys, keys expire, and calls to a server fail before or after it acted.
`stable` is the history the guarantees are about: the matching keys that were
there from the start.

### `SlowlogFeed`

`Lock`, `Fetch`, `Compare` are `CheckNewEntries`, whose mutex is held over the
call to the server; `TickerFires`, `Write` and `Close` are the stream's loop. The
server keeps the newest `MaxLen` entries, answers the newest `Window`, counts from
0 and starts over when it restarts, so that an id alone does not name an entry;
the model does (`<<run, id>>`), the code does not.

### `ApiClient` and the browser's modules

`calls` is the sequence of requests in flight, oldest first; an action takes any
of them, so answers come in any order. A request keeps what the code's closure
captured: the pattern and the key that were selected when a write was started, the
number of a report, the word a completion is for. `Join` puts the captured values
into the record of the request, and `Picked` is what a `filter` leaves of a list.
From React are taken, and
stated in the module's head: handlers run one at a time, effects run before the
next event, equal state changes nothing, an unmounted component's answers set
nothing. `acts` bounds what the user, other clients and failures do; `calm` is a
history variable that is true until something happens that the code does not guard
against (an answer overtakes an older one of its kind, the selection moves under
a write, or is dropped while a detail is awaited). Properties that need `calm` say where the code stops being right.

### `KeyBrowser`

`Select` is `setSelectedKey` with the two effects that depend on it: the detail is
fetched and the list is loaded again, whose handler may set the selection in its
turn. `ShowDetail` mounts, feeds or drops the view of the type; `ChildOf` is the
effect of `StringView` with the two things it does not reset. The forms of
`KeyDetailView` outlive the key they were opened for, as in the code. The server
does what its handlers do to the keys (`Effect`), refuses in read-only mode and
answers with its state at the time of serving; a call that fails may have taken
effect. Abstracted: payloads (a text is the key it came from), TTLs, the many
folders of the tree (one), pages beyond the first.

### `Panels` and `FreshView`

A behaviour is a sequence of mounted panels. In the report panels a request is its
number, and the button that asks is disabled while one is in flight; that this
suffices is the refinement `Panels` => `FreshView`, under
`asked <- view.asked, shown <- view.report`. `ClientPanel` polls without waiting,
so there a newer list can be replaced for a while. `ServeClient` answers a kill
with success whether or not it ended anything, because `KillClient` does not look at
the count: CLIENT KILL passes over the connection it is asked on (`Own`), and the
demo client (`Demo`) lists connections that no kill ends; together these are
`Spared`. `StreamPanel` has two effects
on overlapping dependencies. In `TerminalPanel` a line is a word and how it goes on,
which is all the suggestions and the history look at.

### `ProfileStore` and `Studio`

The store is `Profiles` and `SaveProfiles` with their RWMutex: `Acquire`, `Read`,
`Truncate`, `WriteOut`. `os.WriteFile` truncates first, so a failure or a crash
between the two leaves `Torn`, which no longer parses. `Studio` submits requests to
the store and reads the replies from it; the rest of it is tabs and the palette.

### `TelemetryFeed` and `PubSubFeed`

Points are numbered; a snapshot is the newest `Ring` of them, the dashboard keeps
`Cap`. The dashboard asks for a snapshot and a slow log and listens at once, and
`wire` is what the stream has flushed and the browser has not handled. The tracker
of `SlowlogFeed` is one atomic mark here, which the shell's own stream moves too; a
check answers the newest `Checked` entries above it, the first request the newest
`SlowCap`, and `AddSlow` puts what a check found before the list and cuts it there.
In `PubSubFeed` a slot is a stream at the server: the handler's loop, the subscriber's
goroutine and the bounded channel between them, which may outlive the browser's
side and each other. The demo client makes its messages up and looks at the
context while it sends; the real one does not, and drops the patterns.

## 3. Runs

| Run | Question | Instance | States |
|---|---|---|---|
| `keyspace` | Does every order of commands on two keys respect read-only mode, expiry and leases? | 2 keys, 2 values, 1 field, 2 ticks a millisecond; EXPIRE of -1, 0, 1; PEXPIRE of 0, 2; clock to 4 | 76 544 |
| `explorer` | What does a duplicate hold, how long does it live, and does every request end, with another client's write and the clock between any two calls? | 1 request, 1 foreign write, a seed of each of the six types, permanent or due at tick 2; 3 values, clock to 3 | 512 894 |
| `sweep` | What do the loops guarantee over either store? | 4 names, 3 matching, 3 buckets of which one is shared, pages of 2, a limit of 4, 2 steps of others | 22 096 |
| `slowlog` | Are entries reported once, none skipped, and all in the end? | 2 streams, ids to 2, a window of 1 over a log of 2, 1 restart, 1 failing call | 523 778 |
| `browser` | Is the key explorer of one piece, whatever order answers come in? | 2 keys, 3 servers (two strings; one hash; a hash and a stream, guarded), 3 acts of user, others and failures, a user act only with fewer than 2 requests in flight | 2 776 366 |
| `panels` | Do the panels show what they asked for, last things last? | 2 or 3 of everything, one connection the server's own, 5 acts, 3 requests in flight | 151 981 |
| `studio` | Is the list of profiles shown the list stored? | 2 ids, lists of up to three, 2 requests at the server, 4 acts with crashes | 654 000 |
| `feeds` | Do dashboard and console keep up with streams that break? | 3 points (rings of 3 and 2), 2 slow entries (a list of 1, checks of 2), 1 trouble; 2 messages, 2 channels, 2 streams, a channel of 1, 2 moves | 847 165 |
| `explorer_copy` | crud.go:260, "preserving its type, payload, and TTL" | as `explorer` | violated |
| `explorer_safe` | crud.go:12, "safe data manipulation and inspection" | as `explorer` | violated |
| `sweep_engine` | KeyExplorer.tsx:110, "delete ALL keys matching" | as `sweep` | violated |
| `slowlog_broadcast` | ARCHITECTURE.md:71, "broadcasts" | as `slowlog` | violated |

Why the bounds are enough. The properties of `Keyspace` are about one key and one
step, so two keys show what a step does to the other one; four ticks with a
millisecond of two put every comparison of `Expired` and `PTTL` below, at and above
its boundary. In `Explorer` one foreign write can fall between any two calls of
the request, a hash of two fields lets it fall inside the loop, and a set of one
out of three values lets an SADD of two members fall inside its copy. In `KeySweep` pages smaller than the
matches and a shared bucket make every loop take several rounds; what holds for
every size there is proved. In `SlowlogFeed` three ids give one below, at and
above the mark, and a window smaller than the log makes entries scroll.
In `KeyBrowser` three acts are the fewest
for a write under which the selection moves and one failure; two requests in
flight when the user acts become five when effects and writes have sent theirs.
The client panel needs one connection that a kill ends and one that it passes over, the inspector
two streams with different groups and a name that is none, the store one reader
beside one writer. In the feeds the ring, the dashboard's list and the channel are
full after one to three items, so that dropping and blocking happen; a stream
that is replaced overlaps its successor in the second slot.
`CHECK_DEADLOCK FALSE` stands where the clock or the budget of foreign steps ends.

Fairness. `FairExplorerSpec`, `KeySweep!Spec` and `FairSpec` of `SlowlogFeed` assume
weak fairness of the steps of each goroutine and nothing else: the Go scheduler
runs a goroutine that can run, a call to the database returns (with an error
if need be, which the client's timeouts see to), a ticker fires. No fairness is
assumed of other clients, of the clock, of browsers, or of who gets a mutex.
`PanelsSpec` assumes that the interval ticks and that the oldest request of the
client panel is answered in the end; `FeedsSpec` that tickers fire, requests are
answered, events on an open stream arrive, a broken stream is opened again (which
`EventSource` does) and a goroutine that can go on does. `BrowserSpec` and `StudioSpec`
need none: `AnswersRunOut` is a measure that falls with every step.

### What the passing runs show

* `ReadOnlyFrozen`: in read-only mode no step changes data, be it a handler's,
  a duplicate's or the console's.
* `NoResurrection`: no command makes expired data readable again, although five
  of them write into expired entries.
* `LeaseHonoured`: PTTL and the expiry test agree, to the millisecond.
* `ClonePayload`, `CloneExpiry`: a duplicate made from the entry itself onto a name
  nobody else touched has the payload the source had at some moment of the
  request (a hash or a set, read from a live map in a loop: every pair or member
  was there, none that stayed is missing; the whole may be of no single moment), and
  the source's remaining life up to a millisecond and the time the request took.
* `EveryRequestEnds`, `SweepEnds`, `NewsReported`: liveness under the fairness
  above.
* `DeletesAll`, `CollectsAll`: over a server's SCAN nothing that was there all along
  is missed. `OffsetExact`: nor over the engine's positions, if nobody writes.
* `CountSound`: the count a delete answers is what it removed, or less after an
  error.
* `ReportedOnce`, `NothingSkipped`: the tracker's mark.
* `CalmPane`: with answers in turn, no selection moved under a write and none dropped
  while a detail was awaited, pane, selection, list, search field and stream entries
  agree in the end; with nothing selected the pane is empty. `EditorBelongs`: another key's
  text gets into the editor through the JSON mode only. `SpinnerHasCause`,
  `IndicatorsTrue`: no busy sign or disabled button is left behind on any path.
* `AnswersRunOut`: the effects that load what the loads set never go round in a
  circle.
* `AnswersAreFresh`: the report panels implement `FreshView`.
* `GoneClientsLeave`: a connection that is gone leaves the list in the end, although
  polls overlap and fail. `KillMessageTrue`: "terminated" is true when it is said of a
  connection other than the server's own, and not in demo mode.
* `CalmInspector`, `SuggestionsFit`, `CursorsInRange`, `PaletteCursor`: what is marked,
  suggested or pointed at is about what is shown.
* `LoadsAreWhole`, `CalmStore`: nobody reads a file that is being written; the list
  shown is the list stored, if it was loaded before it was edited.
* `ShownOnce`: pausing, resubscribing and broken streams bring no message twice, out
  of order or from a subscription that was replaced. `SubscriberEnds`: the goroutine
  behind a stream that was left ends, with one exception that the property names.
* `DashboardCatchesUp`: a dashboard that stays open shows the newest point in the
  end, whatever the fetches and the stream bring in which order. It says nothing of
  the slow-log list, which may lose entries and show others twice, as in the code.

### Disagreements between the code and its documentation

The four violated runs, and what TLC shows in each:

* `ClonePreserves`. The source is deleted after TYPE was read: GetKeyDetail falls to
  GET, whose nil is printed as `<nil>`, and the duplicate is a permanent key with
  that text. Also: in the source's last millisecond PTTL is 0 and the duplicate
  never expires; and a rewrite between PTTL and the read pairs one value with the
  TTL of another.
* `SafeInspection`. Iterating a live map after the lock is gone; asserting a type
  that was read earlier.
* `EngineDeletesAll`. After a page is deleted the next positions name other keys:
  with pages of 100, `DeleteByPattern` leaves about half of them.
* `Broadcast`. One mark for all streams: an entry goes to whichever ticks first.

Seen while modelling and not a run of its own: HDEL, SREM, ZREM and XADD have no
case in the engine, answer success and change nothing, against the comments of
`crud.go` (206, 219, 246); an HSET into an expired hash is acknowledged and
cannot be read; the first slow-log entry of a server, id 0, is never reported,
and after a restart none is until the ids pass the old mark (which is why
`NothingSkipped` speaks of the first life); the tracker asks for 20 entries, not
50; KEYS is refused, where `docs/PRODUCTION_SAFETY.md` says it becomes SCAN.

Seen in the browser: `KillClient` drops the number of connections that CLIENT KILL ended,
so the panel says "Successfully terminated" of the connection the kill was asked on,
which the server passes over, and of every connection of the demo client, against
`manager.go`, line 54 ("terminates a client connection"); a detail that arrives late, or the refresh after a write under
which the selection moved, is shown beside another selection; if a key is deleted
while its detail or refresh is awaited, the pane rests on the deleted key with
nothing selected; in JSON mode the
editor shows, and saves, the last object that parsed, also under a key whose value
is no object; the first click on a folder leaves it open, because it is the unset
value that is toggled; "Create" ignores the type that was picked; a profile added
before the list has loaded is saved as the whole list; profiles whose names give
the same id are deleted together; "Connect" on a profile only asks for the system
status again, "Sample traffic now" only opens the tab; the editing controls are
offered until the system status has arrived (`docs/PRODUCTION_SAFETY.md`, line 43,
says they are disabled); the terminal's history is not kept in local storage
(`docs/REPL_AND_CLI.md`, line 19). On a real server the console's default topic
subscribes to nothing and stays silent, because patterns are dropped, against
`README.md`, line 105; in the demo a publication is answered "3 receivers" and
delivered to nobody. When a stream is left with its channel full, the real client's
callback stays blocked for good.

## 4. Proofs

Every invariant and every action property that a passing run checks is a theorem
as well, for all values of the constants that their assumptions admit: any number
of names, values, durations, requests, streams and profiles, any table, page size,
window, ring and list length, any resolution of the clock. (The
bounds `Max...` are among those constants.) The assumptions:

* `ConstantsAssumption`, `SeedsAssumption`, `ExplorerAssumption`: the engine's units are
  positive, the seeds are databases and hold no empty value (the engine never
  makes one); there is a key, and the text `<nil>` is a value.
* `SweepAssumption`, `SlowlogAssumption`, `StoreAssumption`: finitely many keys, pages
  and windows of at least one; the default list is a list, a torn file is none.
* `ApiAssumption`, `BrowserAssumption`, `ClientsAssumption`, `StreamsAssumption`,
  `TerminalAssumption`, `StudioAssumption`: null is no value of the types it stands
  beside (no name, no reply of the server); an empty search matches all names; what the server offers (streams,
  groups, completions, palette actions) is well-typed; an empty query matches
  every palette action.
* `ClientsAssumption` also: the server's own connection is one of the connections.
* `TelemetryAssumption`, `PubSubAssumption`: the monitor's ring, the dashboard's list
  and the wire hold two points at least, the slow-log list, a check, the channel and
  the console's list one; to choose no topic is possible.

TLC evaluates them on the runs' instances.

### The server

| Module | Theorem | States |
|---|---|---|
| `KeyspaceProofs` | `TypeCorrect`, `ReadOnlyCorrect`, `NoResurrectionCorrect`, `LeaseCorrect` | `TypeOK`, `ReadOnlyFrozen`, `NoResurrection`, `LeaseHonoured` |
| `ExplorerProofs` | `ExplorerTypeCorrect`, `ClonePayloadCorrect`, `CloneExpiryCorrect` | `ExplorerTypeOK`, `ClonePayload`, `CloneExpiry` |
| | `ExplorerImplementsEngine`, `ExplorerKeepsPromises` | the explorer refines the engine and inherits its promises |
| `KeySweepProofs` | `SweepTypeCorrect`, `DeletesAllCorrect`, `CollectsAllCorrect`, `CountCorrect`, `OffsetExactCorrect` | `TypeOK`, `DeletesAll`, `CollectsAll`, `CountSound`, `OffsetExact` |
| `FeedsProofs` | `FeedTypeCorrect`, `ReportedOnceCorrect`, `NothingSkippedCorrect` | of `SlowlogFeed`: `TypeOK`, `ReportedOnce`, `NothingSkipped` |
| `StudioProofs` | `StoreLoadsWhole`, `StudioImplementsStore`, `LoadsAreWholeCorrect` | `LoadsAreWhole`, of the store and of the application over it |

`Keyspace`'s type invariant is inductive; each command has a lemma for what it does
to a database of the right type, and HSET's rests on `MergeHash` (a merged hash
has one value for a field). Read-only mode follows from the table of names, action
by action. `NoResurrection` needs the type invariant and a case for each command
that meets an expired entry. `LeaseHonoured` is a fact about division
(`DivisionBounds`).

What a duplicate is in the end is not inductive. `Explorer`'s `IInv` says of every
request, whatever the others do, what its locals are at its place in the code
(`LocalInv`), that an entry it holds is the one in the map (`Attach`, which is part of
`ExplorerTypeOK`), that the history
has what the source was (`Remembers`), that the remaining time it read is that of
such an entry (`TtlInv`), and how far the copy has come (`CloneInv`: `Partial` in the
middle of a loop, `CopyOf` after it, `Expiring` with its deadline). Each step of the
request has a lemma for the request itself; `Bystander` says what a step leaves of
the others. That a bystander's hash or set may change under it is `Tracked`; of a set's
loop `CloneInv` says that it began with a value the source had and has visited only
members that it had. For
`ExplorerImplementsEngine` each step is a command, the clock or a stutter; the engine
is instantiated with all durations in milliseconds, because a duplicate sends
what PTTL answered, and `ExplorerKeepsPromises` carries over `ReadOnlyFrozen`,
`NoResurrection` and `LeaseHonoured`.

That a sweep misses nothing is not inductive either. The strengthening, `IInv`, says where
the keys that are still owed are: `DeleteInv`, not behind the cursor, or between a
Scan and its DEL in the page or not behind the cursor that came with it;
`CollectInv`, found or not behind the cursor. `PagePasses` is the one fact about a
server's SCAN it needs. Over the engine's positions `OffsetInv` says that, if nobody
writes, what was found is what stands up to the cursor.

`SlowlogFeed`'s types hold with its mutex (`Exclusive` says it stream by stream).
`ReportedOnce` rests on `MarkInv`: what was reported is not above the mark, in
whichever life of the server it was logged. In `NothingSkipped`
a Compare needs to know that the answer in its hands has no gap
(`ReplyInv`), and a Fetch that every entry logged is still answered, pushed out or
reported (`LogInv`). `HasMaximum` is the fact about naturals the new mark needs.

`LoadsAreWhole` needs `LockInv`: who holds the lock in which place of
the code, that readers and a writer exclude each other, and that a torn file has
its writer in the middle of the write or lost it there. `StudioImplementsStore` maps
every step of the application to a step of the store or a stutter, so what is
proved of the store holds of the application (`LoadsAreWholeCorrect`).

### The browser

| Module | Theorem | States |
|---|---|---|
| `FeedsProofs` | `FeedsTypeCorrect`, `ShownOnceCorrect` | `FeedsTypeOK`, `ShownOnce` |
| `PanelsProofs` | `PanelsInvCorrect`, `PanelsTypeCorrect`, `IndicatorsTrueCorrect`, `KillMessageTrueCorrect`, `CalmInspectorCorrect`, `CursorsInRangeCorrect`, `SuggestionsFitCorrect` | `PanelsInv`, and the properties of those names |
| | `PanelsAreFresh` | the panels refine `FreshView` (`AnswersAreFresh`) |
| `StudioProofs` | `StudioTypeCorrect`, `PaletteCursorCorrect`, `CalmStoreCorrect` | `StudioTypeOK`, `PaletteCursor`, `CalmStore` |
| `BrowserProofs` | `BrowserTypeCorrect`, `EditorBelongsCorrect`, `SpinnerHasCauseCorrect`, `CalmPaneCorrect`, `AnswersRunOutCorrect` | `BrowserTypeOK`, `EditorBelongs`, `SpinnerHasCause`, `CalmPane`, `AnswersRunOut` |

What these share is the sequence of requests in flight, from whose middle an answer
takes one and to whose end a handler adds some. `RequestProofs` says what that
leaves: `Removed`, `RestOf`, `SentSet` for its elements, `SingleSent` where a button
admits one request of a kind, `EndsRemoved` and `EndsSent` for the youngest of a kind;
`Ranked` and `PickedIs` say what a `filter` keeps.

`PubSubInv`: the numbers of messages rise along the subscriber's inbox, the channel,
the wire and the console's list (`SlotInv`, `Ahead`), none is above the last
published, only the stream that is connected is heard, and it carries the topics
chosen. `TelemetryInv`: a snapshot on its way or shown is one the monitor had
(`Sound`).

`PanelsInv` is one of four invariants, told apart by the tab. In `ReportInv` there is
at most one report in flight (`Single`), the last that was asked for, and every sign
has its request; in `ClientsInv` at most one kill, of the client the panel names,
whose connection is off or spared once the server has answered it, and every message
its timer. `StreamsInv`
and `TerminalInv` say that with answers in turn the
youngest request of each kind is for what is chosen or typed (`EndsIn`), and so is what
is shown once none is in flight. Each step does to the two numbers of a report what
`FreshView` allows (`FreshStep`).

`CalmStore` follows the requests through the server: each has one handler (`Handling`),
and on that line (`InOrder`) the lock is given in the order of the requests, no save
comes after a load, the youngest save that is not written has the list on the screen,
and if all are written the file has it.

`BrowserInv` has `Sound`: a detail, its view and its forms belong together (`Pane`), what
spins has its request (`Causes`), and what a view will still be told was asked by
it (`Owned`). While `calm` holds, `InTurn` adds that with nothing selected the pane is
empty and no detail is awaited (`Unselected`), that the youngest list is for the search field,
that every detail or refresh from the youngest detail on is for the selection, and
every stream request from the youngest on for the stream that is shown
(`Trailing`), and that a write's closure is that of the screen.
`AnswersRunOut` needs the sum over a sequence of the weights of its requests. The sum
is a recursive function; `Induction` (on a set of naturals, from the least element it
misses) shows that any function with the sums' equations is the sum, and `SumOfBoth`,
`SumOfServed`, `SumOfRest` what it makes of a step. Each answer then sends less than it
weighed: a list that loses the selection may set it again, which is why the
deletion of the selected key weighs most.

### Only model-checked

Liveness is out of the provers' reach: `EveryRequestEnds`, `SweepEnds`, `NewsReported`,
`GoneClientsLeave`, `SubscriberEnds`, `DashboardCatchesUp`. Where a bounded measure does the
work, as `AnswersRunOut`, the fall of the measure is proved. The four disagreements
with the documentation are counterexamples that TLC found.

## 5. Plan

In order of importance; what is done is marked.

1. done: `CommandGuard`, `Keyspace`, `Explorer`, `KeySweep`, `SlowlogFeed`; the
   browser: `KeyBrowser`, `Panels`, `Studio`, `Feeds`; a theorem for every invariant
   and action property that a run checks, and for the refinements.
2. `Lifecycle`: shutdown and its deadline against open streams, the monitor's
   goroutine and stop channel, the sampler's producer with its bounded channel.
3. `Profiler`: the bounded heap against the N largest entries (refinement), the
   prefix tree's sums, big keys that SCAN repeats; `ClusterSlots` (CRC16, hash tags),
   `SplitCommand`, export quoting, against reference definitions.
4. Theorems that could still be stated: that the shell's mark in `TelemetryFeed` is a
   refinement of the tracker in `SlowlogFeed`; that `KeySweep` over positions is the
   engine's `Scan`, with the commands of `Keyspace` as the others.

Not modelled and why: rendering (reports, charts, the JSON tree, views that only
draw), parsing of INFO, CLIENT LIST and CLUSTER NODES, completion, headers and
static files are text without state; TLS, reconnecting and topology refresh are the
client library's; the server's life cycle and the sampler's goroutines are in the
plan; the scripts that draw the logo are no part of the running system.
