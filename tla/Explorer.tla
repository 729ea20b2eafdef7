------------------------------ MODULE Explorer ------------------------------
(***************************************************************************)
(* The key explorer of pkg/explorer/crud.go over the in-memory engine, as  *)
(* the HTTP server runs it: each request is a goroutine, and the only lock *)
(* is the engine's own, taken and released in every client call.  Showing  *)
(* a key takes four calls (TYPE, PTTL, MEMORY USAGE, GetKeyDetail) and     *)
(* duplicating one takes those and then a command for each piece it        *)
(* writes, so other requests, the REPL and the clock step in between.      *)
(*                                                                         *)
(* What GetKeyDetail hands out is a pointer to the live entry.  "attached" *)
(* says that a request still holds the entry the map holds; a write in     *)
(* place is then seen by the request, which reads without the lock.  Go    *)
(* ends the process when it catches a map written under an iteration: the  *)
(* write that meets one may or may not be caught.                          *)
(*                                                                         *)
(* The single-call handlers (set, ttl, delete, hset, hdel) and the REPL    *)
(* are the commands of Keyspace.  MEMORY USAGE is left out: its answer is  *)
(* shown and steers nothing.                                               *)
(***************************************************************************)
EXTENDS Keyspace, FiniteSets

CONSTANTS
  Reqs,         \* the requests that show or duplicate a key
  Nobody,       \* who sends a single command: not one of Reqs
  NilText,      \* the string "<nil>"
  MaxWrites     \* bound: single commands sent by others in a behaviour

\* seedData loads no empty value, and the commands make none.
ASSUME ExplorerAssumption ==
  /\ Keys # {}
  /\ \A d \in Seeds : \A k \in Keys : d[k] # Absent => d[k].val # {}
  /\ Nobody \notin Reqs
  /\ NilText \in Vals
  /\ MaxWrites \in Nat

VARIABLES
  req,          \* each request: its place in the code and its locals
  fatal,        \* the process died of a concurrent map access
  writes,       \* single commands sent so far
  seen,         \* history: the entries the source key had during the request
  disturbed     \* history: someone else wrote the target during the request

reqVars == <<req, fatal, writes, seen, disturbed>>

allVars == <<vars, reqVars>>

Places == {"idle", "type", "pttl", "fetch", "extract", "members", "command",
           "encode", "clear", "write", "expire", "done"}

Results == {"none", "ok", "not found", "panic", "wrong type", "unsupported"}

Request ==
  [pc : Places, op : {"detail", "duplicate"}, src : Keys, dst : Keys,
   type : Types \cup {"none"},  \* what TYPE answered
   ttl : Int,                   \* what PTTL answered
   since : Nat,                 \* history: when it did
   got : Types \cup {"none"},   \* the type of the entry GetKeyDetail returned
   attached : BOOLEAN,          \* that entry is still the one in the map
   via : {"none", "pointer", "command"}, \* history: where the value is from
   val : SUBSET Items,          \* the value it holds
   left : SUBSET Items,         \* what the loop it is in is certain to visit
   visited : SUBSET (Fields \cup Vals), \* fields or members it has visited
   fresh : BOOLEAN,             \* history: there was no target at the start
   result : Results]

Active(r) == req[r].pc \notin {"idle", "done"}

-----------------------------------------------------------------------------
(* Shared memory: what a write to the map means for pointer holders. *)

\* "mutated": a Go map is written in place.  "kept": the entry stays, a slice
\* or a deadline in it is replaced.  "replaced": another entry, or none.
AddKind(k, type) ==
  IF ~Holds(db, k, type) THEN "replaced"
  ELSE IF type \in {"hash", "set"} THEN "mutated" ELSE "kept"

ReadsLiveMap(q) ==
  /\ q.attached
  /\ \/ q.pc = "members"
     \/ q.pc \in {"encode", "write"} /\ q.type = "hash"

\* A pointer holder after the keys ks were written, kind telling how.
Track(q, ks, kind) ==
  IF q.attached /\ q.src \in ks
  THEN IF kind = "replaced" THEN [q EXCEPT !.attached = FALSE]
       ELSE [q EXCEPT !.val = db'[q.src].val]
  ELSE q

\* A write by self (a request or Nobody); rs is the requests before tracking.
Wrote(self, rs, ks, kind) ==
  /\ req' = [r \in Reqs |-> Track(rs[r], ks, kind)]
  /\ fatal' \in {FALSE} \cup
       {kind = "mutated" /\ \E r \in Reqs \ {self} :
                              ReadsLiveMap(req[r]) /\ req[r].src \in ks}
  /\ seen' = [r \in Reqs |->
                IF Active(r) THEN seen[r] \cup ({db'[req[r].src]} \ {Absent})
                ELSE seen[r]]
  /\ disturbed' = [r \in Reqs |->
                     \/ disturbed[r]
                     \/ r # self /\ req[r].pc # "idle" /\ req[r].dst \in ks]

\* A step of r that writes nothing.
Only(r, q) ==
  /\ req' = [req EXCEPT ![r] = q]
  /\ UNCHANGED <<vars, fatal, writes, seen, disturbed>>

Finish(q, result) ==
  [q EXCEPT !.pc = "done", !.result = result, !.attached = FALSE]
-----------------------------------------------------------------------------
(* Single commands: the one-call handlers and the REPL. *)

Foreign(ks, kind) ==
  /\ writes < MaxWrites
  /\ writes' = writes + 1
  /\ Wrote(Nobody, req, ks, kind)

\* ReadOnlyGuard, server/middleware: in read-only mode a POST or DELETE of a
\* handler is refused; the REPL's path is let through to the guard of Do.
HandlerAllowed == ~readOnly

HandleSetString(k, v, sec) ==
  HandlerAllowed /\ Set(k, v, IF sec > 0 THEN sec ELSE 0) /\ Foreign({k}, "replaced")

HandleUpdateTTL(k, sec) ==
  /\ HandlerAllowed
  /\ IF sec <= 0 THEN Persist(k) ELSE Expire(k, sec)
  /\ Foreign({k}, "kept")

HandleDeleteKey(k) == HandlerAllowed /\ Del({k}) /\ Foreign({k}, "replaced")

HandleHSet(k, f, v) ==
  HandlerAllowed /\ HSet(k, f, v) /\ Foreign({k}, AddKind(k, "hash"))

\* The engine has no case for HDEL: it answers success and changes nothing.
HandleHDel(k, f) ==
  /\ HandlerAllowed
  /\ Command("HDEL", db)
  /\ Foreign({}, "kept")

\* /api/repl/exec: any command.
Repl ==
  \/ \E k \in Keys, v \in Vals, sec \in Secs \cup {0} :
       Set(k, v, sec) /\ Foreign({k}, "replaced")
  \/ \E ks \in (SUBSET Keys) \ {{}} : Del(ks) /\ Foreign(ks, "replaced")
  \/ \E k \in Keys, sec \in Secs : Expire(k, sec) /\ Foreign({k}, "kept")
  \/ \E k \in Keys, ms \in Millis : PExpire(k, ms) /\ Foreign({k}, "kept")
  \/ \E k \in Keys, f \in Fields, v \in Vals :
       HSet(k, f, v) /\ Foreign({k}, AddKind(k, "hash"))
  \/ \E k \in Keys, vs \in (SUBSET Vals) \ {{}} :
       \/ Push(k, vs) /\ Foreign({k}, AddKind(k, "list"))
       \/ SAdd(k, vs) /\ Foreign({k}, AddKind(k, "set"))
  \/ \E k \in Keys, v \in Vals : ZAdd(k, v) /\ Foreign({k}, AddKind(k, "zset"))
-----------------------------------------------------------------------------
(* GetKeyDetail, the reading half of both requests. *)

Start(r, op, src, dst) ==
  /\ req[r].pc = "idle"
  /\ op = "duplicate" => HandlerAllowed
  /\ req' = [req EXCEPT ![r].pc = "type", ![r].op = op, ![r].src = src,
                        ![r].dst = dst, ![r].fresh = (db[dst] = Absent)]
  /\ seen' = [seen EXCEPT ![r] = {db[src]} \ {Absent}]
  /\ UNCHANGED <<vars, fatal, writes, disturbed>>

\* A slip: the answer "none" is not looked at.
ReadTypeBlindly(r) ==
  /\ req[r].pc = "type"
  /\ Only(r, [req[r] EXCEPT !.pc = "pttl", !.type = TypeOf(db, now, req[r].src)])

ReadType(r) ==
  LET type == TypeOf(db, now, req[r].src) IN
  /\ req[r].pc = "type"
  /\ Only(r, IF type = "none" THEN Finish(req[r], "not found")
             ELSE [req[r] EXCEPT !.pc = "pttl", !.type = type])

ReadTTL(r) ==
  /\ req[r].pc = "pttl"
  /\ Only(r, [req[r] EXCEPT !.pc = "fetch", !.since = now,
                            !.ttl = PTTL(db, now, req[r].src)])

\* mock.GetKeyDetail: the pointer, or, when the key is gone by now, the
\* commands that are meant for a real server.
Fetch(r) ==
  LET k == req[r].src IN
  /\ req[r].pc = "fetch"
  /\ Only(r, IF Live(db, now, k)
             THEN [req[r] EXCEPT !.pc = "extract", !.attached = TRUE,
                     !.via = "pointer", !.got = db[k].type, !.val = db[k].val]
             ELSE [req[r] EXCEPT !.pc = "command", !.via = "command"])

\* Where a request goes once it has its value.
AfterRead(q) ==
  IF q.op = "detail" THEN [q EXCEPT !.pc = "encode"]
  ELSE CASE q.type = "stream" -> Finish(q, "unsupported")
         [] q.type \in {"list", "set", "zset"} ->
              [q EXCEPT !.pc = "clear", !.left = q.val]
         [] OTHER -> [q EXCEPT !.pc = "write", !.left = q.val]

\* The value is asserted to have the type TYPE answered; when it has not, the
\* goroutine panics and net/http drops the request.  A hash keeps the live map,
\* a set is copied out of it in a loop, every other type is copied at once.
Extract(r) ==
  LET q == req[r] IN
  /\ q.pc = "extract"
  /\ Only(r, IF q.got # q.type THEN Finish(q, "panic")
             ELSE IF q.type = "set"
             THEN [q EXCEPT !.pc = "members", !.left = q.val]
             ELSE AfterRead([q EXCEPT !.attached = @ /\ q.type = "hash"]))

\* The loop ranges over the live map without the lock.  A member added
\* meanwhile may be visited or not, whatever becomes of those added before it
\* or by the same SADD.
CopyMember(r) ==
  LET q == req[r] IN
  /\ q.pc = "members"
  /\ \E m \in q.val \ q.visited :
       Only(r, [q EXCEPT !.visited = @ \cup {m}])

\* A slip: the loop is left when the copy is as long as the set was.
MembersFull(r) ==
  LET q == req[r] IN
  /\ q.pc = "members"
  /\ Cardinality(q.visited) = Cardinality(q.left)
  /\ Only(r, AfterRead([q EXCEPT !.val = q.visited, !.visited = {},
                                 !.attached = FALSE]))

\* What was there when the loop began has been visited: none of it can have
\* left the map, only the whole map can be replaced.
MembersDone(r) ==
  LET q == req[r] IN
  /\ q.pc = "members"
  /\ q.left \subseteq q.visited
  /\ Only(r, AfterRead([q EXCEPT !.val = q.visited, !.visited = {},
                                 !.attached = FALSE]))

\* What the command for q.type reads at the source.  GET answers nil for a key
\* that is gone, which is printed; the others answer an empty list.  ZRANGE of
\* the engine sends no scores, and its members are paired up as if it had.
CommandValues(q) ==
  LET k == q.src IN
  IF ~Live(db, now, k)
  THEN {IF q.type = "string" THEN {NilText} ELSE {}}
  ELSE IF q.type = "zset"
  THEN {s \in SUBSET db[k].val : Cardinality(s) = Cardinality(db[k].val) \div 2}
  ELSE {db[k].val}

CommandRead(r) ==
  LET q == req[r] IN
  /\ q.pc = "command"
  /\ IF q.type # "stream" /\ Live(db, now, q.src) /\ db[q.src].type # q.type
     THEN Only(r, Finish(q, "wrong type"))
     ELSE \E val \in IF q.type = "stream" THEN {{}} ELSE CommandValues(q) :
            Only(r, AfterRead([q EXCEPT !.val = val]))

\* The answer of a detail request is encoded, a hash from the live map.
Encode(r) == req[r].pc = "encode" /\ Only(r, Finish(req[r], "ok"))
-----------------------------------------------------------------------------
(* DuplicateKey, the writing half. *)

Own(r, q, kind) ==
  Wrote(r, [req EXCEPT ![r] = q], {req[r].dst}, kind) /\ UNCHANGED writes

Clear(r) ==
  /\ req[r].pc = "clear"
  /\ Del({req[r].dst})
  /\ Own(r, [req[r] EXCEPT !.pc = "write"], "replaced")

WriteString(r) ==
  /\ req[r].pc = "write" /\ req[r].type = "string"
  /\ \E v \in req[r].val : Set(req[r].dst, v, 0)
  /\ Own(r, [req[r] EXCEPT !.pc = "expire"], "replaced")

\* One RPUSH, or one SADD, with all the values.
WriteAll(r) ==
  LET q == req[r] IN
  /\ q.pc = "write" /\ q.type \in {"list", "set"} /\ q.val # {}
  /\ IF q.type = "list" THEN Push(q.dst, q.val) ELSE SAdd(q.dst, q.val)
  /\ Own(r, [q EXCEPT !.pc = "expire"], AddKind(q.dst, q.type))

WriteMember(r) ==
  LET q == req[r] IN
  /\ q.pc = "write" /\ q.type = "zset"
  /\ \E v \in q.left :
       /\ ZAdd(q.dst, v)
       /\ Own(r, [q EXCEPT !.left = @ \ {v}], AddKind(q.dst, "zset"))

\* A slip: a loop that does not remember what it has visited.
WriteFieldAgain(r) ==
  LET q == req[r] IN
  /\ q.pc = "write" /\ q.type = "hash"
  /\ \E p \in q.val : HSet(q.dst, p[1], p[2]) /\ Own(r, q, AddKind(q.dst, "hash"))

\* The loop ranges over the live map: a field written meanwhile has its new
\* value, one added meanwhile may be visited or not.
WriteField(r) ==
  LET q == req[r] IN
  /\ q.pc = "write" /\ q.type = "hash"
  /\ \E p \in q.val :
       /\ p[1] \notin q.visited
       /\ HSet(q.dst, p[1], p[2])
       /\ Own(r, [q EXCEPT !.visited = @ \cup {p[1]}], AddKind(q.dst, "hash"))

WriteDone(r) ==
  LET q == req[r] IN
  /\ q.pc = "write"
  /\ \/ q.type = "zset" /\ q.left = {}
     \/ q.type = "hash" /\ \A p \in q.left : p[1] \in q.visited
     \/ q.type \in {"list", "set"} /\ q.val = {}
  /\ Only(r, [q EXCEPT !.pc = "expire", !.attached = FALSE])

\* A slip: a duplicate that forgets the TTL.
NoExpiry(r) == req[r].pc = "expire" /\ Only(r, Finish(req[r], "ok"))

\* The TTL is set when the one that was read is positive; an error is ignored.
SetExpiry(r) ==
  LET q == req[r] IN
  /\ q.pc = "expire"
  /\ IF q.ttl > 0
     THEN PExpire(q.dst, q.ttl) /\ Own(r, Finish(q, "ok"), "kept")
     ELSE Only(r, Finish(q, "ok"))
-----------------------------------------------------------------------------
NewRequest ==
  [pc |-> "idle", op |-> "detail", src |-> CHOOSE k \in Keys : TRUE,
   dst |-> CHOOSE k \in Keys : TRUE, type |-> "none", ttl |-> 0, since |-> 0,
   got |-> "none", attached |-> FALSE, via |-> "none", val |-> {},
   left |-> {}, visited |-> {}, fresh |-> FALSE, result |-> "none"]

ExplorerInit ==
  /\ Init
  /\ req = [r \in Reqs |-> NewRequest]
  /\ fatal = FALSE
  /\ writes = 0
  /\ seen = [r \in Reqs |-> {}]
  /\ disturbed = [r \in Reqs |-> FALSE]

Single ==
  \/ \E k \in Keys, v \in Vals, sec \in Secs \cup {0} : HandleSetString(k, v, sec)
  \/ \E k \in Keys, sec \in Secs \cup {0} : HandleUpdateTTL(k, sec)
  \/ \E k \in Keys : HandleDeleteKey(k)
  \/ \E k \in Keys, f \in Fields, v \in Vals : HandleHSet(k, f, v)
  \/ \E k \in Keys, f \in Fields : HandleHDel(k, f)
  \/ Repl

\* What the goroutine of r does next.
Step(r) ==
  \/ ReadType(r) \/ ReadTTL(r) \/ Fetch(r) \/ Extract(r)
  \/ CopyMember(r) \/ MembersDone(r) \/ CommandRead(r) \/ Encode(r)
  \/ Clear(r) \/ WriteString(r) \/ WriteAll(r) \/ WriteMember(r)
  \/ WriteField(r) \/ WriteDone(r) \/ SetExpiry(r)

ExplorerNext ==
  /\ ~fatal
  /\ \/ Single
     \/ \E r \in Reqs, src, dst \in Keys :
          Start(r, "duplicate", src, dst) \/ (src = dst /\ Start(r, "detail", src, dst))
     \/ \E r \in Reqs : Step(r)
     \/ Tick /\ UNCHANGED reqVars

ExplorerSpec == ExplorerInit /\ [][ExplorerNext]_allVars

\* The Go scheduler runs every runnable goroutine in the end.
FairExplorerSpec ==
  ExplorerSpec /\ \A r \in Reqs : WF_allVars(~fatal /\ Step(r))
-----------------------------------------------------------------------------
ExplorerTypes ==
  /\ TypeOK
  /\ req \in [Reqs -> Request]
  /\ fatal \in BOOLEAN
  /\ writes \in 0 .. MaxWrites
  /\ seen \in [Reqs -> SUBSET Entry]
  /\ disturbed \in [Reqs -> BOOLEAN]

\* Types, and what ties the places to the locals and to the map: a request that
\* goes on after TYPE knows a type; one that holds a live entry, whoever writes
\* to it or replaces it, holds exactly what the map has under its source.
ExplorerTypeOK ==
  /\ ExplorerTypes
  /\ \A r \in Reqs :
       LET q == req[r] IN
       /\ q.pc \notin {"idle", "type", "done"} => q.type # "none"
       /\ q.attached => /\ db[q.src] # Absent
                        /\ db[q.src].type = q.got
                        /\ db[q.src].val = q.val

\* A duplicate onto a name that was free, that nobody else wrote to, answered
\* with success and copied from the entry itself.
Cloned(r) ==
  /\ req[r].op = "duplicate" /\ req[r].result = "ok"
  /\ req[r].src # req[r].dst /\ req[r].fresh /\ ~disturbed[r]

Clone(r) == db[req[r].dst]

\* The fields of a hash, the members of anything else.
Names(type, val) == IF type = "hash" THEN {p[1] : p \in val} ELSE val

\* What a loop over a live map makes of the values vals that the map had: every
\* item was in one of them, and no name is missing that was in all of them.
PiecesOf(val, type, vals) ==
  /\ val \subseteq UNION vals
  /\ \A n \in Fields \cup Vals :
       (\A v \in vals : n \in Names(type, v)) => n \in Names(type, val)

\* Same type, and the payload of one entry the source had meanwhile.  A hash and
\* a set are copied piece by piece out of the live map: if it is written in that
\* time, the copy may be of no single moment.
CopiedFrom(r) ==
  LET type == req[r].type
      vals == {e.val : e \in {x \in seen[r] : x.type = type}}
  IN  /\ Clone(r) # Absent
      /\ Clone(r).type = type
      /\ IF type \in {"hash", "set"} THEN PiecesOf(Clone(r).val, type, vals)
         ELSE Clone(r).val \in vals

\* Whatever the others do to the source while DuplicateKey runs, a clone made
\* from the entry itself has the source's type and its payload; a hash or a set
\* that was written meanwhile is there in pieces, each of which the source had.
ClonePayload ==
  \A r \in Reqs : Cloned(r) /\ req[r].via = "pointer" => CopiedFrom(r)

\* When the source did not change and had a whole millisecond left, the clone
\* lives as long as the source, give or take that millisecond and the time the
\* request took; the clone of a permanent key is permanent.
CloneExpiry ==
  \A r \in Reqs : \A e \in seen[r] :
    Cloned(r) /\ req[r].via = "pointer" /\ seen[r] = {e} =>
      IF e.deadline = Never THEN Clone(r).deadline = Never
      ELSE req[r].ttl > 0 =>
             /\ Clone(r).deadline # Never
             /\ Clone(r).deadline > e.deadline - TicksPerMs
             /\ Clone(r).deadline - e.deadline <= now - req[r].since

\* Every request that was started is answered, or dropped by its panic, unless
\* the whole process dies.
EveryRequestEnds ==
  \A r \in Reqs : (req[r].pc = "type") ~> (req[r].pc = "done" \/ fatal)
-----------------------------------------------------------------------------
(* What comments of the source say and the code does not do. *)

\* A key that expires stays one.  In its last millisecond it does not: PTTL
\* answers 0, which is taken for no TTL.
CloneStaysVolatile(r) ==
  \A e \in seen[r] :
    req[r].via = "pointer" /\ seen[r] = {e} /\ e.deadline # Never
      => Clone(r).deadline # Never

\* Payload and expiry belong to one entry the source had.
CloneNotTorn(r) ==
  /\ req[r].via = "pointer" /\ req[r].type \notin {"hash", "set"}
  /\ req[r].ttl = -1 \/ req[r].ttl > 0
  => \E e \in seen[r] : /\ e.val = Clone(r).val
                        /\ e.deadline = Never <=> Clone(r).deadline = Never

\* crud.go, "DuplicateKey clones an existing key to a new target name,
\* preserving its type, payload, and TTL": a duplicate that answered success
\* made a copy of its source.
ClonePreserves ==
  \A r \in Reqs :
    Cloned(r) => CopiedFrom(r) /\ CloneStaysVolatile(r) /\ CloneNotTorn(r)

\* crud.go, "CRUDManager executes safe data manipulation and inspection": no
\* request panics on the type it asserts, and the process is not ended by a
\* concurrent map access.
SafeInspection == ~fatal /\ \A r \in Reqs : req[r].result # "panic"
=============================================================================
