------------------------------ MODULE Keyspace ------------------------------
(***************************************************************************)
(* The embedded in-memory engine (MockClient, pkg/client/mock.go) that     *)
(* --demo and the tests run on: a Go map from key names to entries, a lock *)
(* around every command, and lazy expiry: an entry whose time has passed   *)
(* stays in the map and is hidden by the reads, which each test isExpired. *)
(*                                                                         *)
(* One command runs under the lock from its first read to its last write,  *)
(* so one action is one command.  The guard of CommandGuard comes first.   *)
(*                                                                         *)
(* Data.  A payload is the set of what the key holds: {v} for a string,    *)
(* <<field, value>> pairs for a hash, members for the other types.  The    *)
(* order of a list and the repetitions of a zset are not kept.  TTL and    *)
(* CreatedAt only ever appear as their sum, the deadline, Never when TTL   *)
(* is 0.  MemoryBytes and opsCount, that nothing here reads, are left out. *)
(***************************************************************************)
EXTENDS Integers, CommandGuard

CONSTANTS
  Keys,         \* key names
  Vals,         \* string values, hash values, list items, set members
  Fields,       \* hash field names
  Absent,       \* what db maps a name to that is not in the Go map
  Never,        \* the deadline of an entry whose TTL is 0
  TicksPerMs,   \* clock ticks in a millisecond
  MsPerSec,     \* milliseconds in a second, scaled down
  Secs,         \* the durations in seconds that EX and EXPIRE are given
  Millis,       \* the durations in milliseconds that PEXPIRE is given
  Seeds,        \* the data sets that seedData may have loaded
  MaxNow        \* bound: the clock stops here

Types == {"string", "hash", "list", "set", "zset", "stream"}

Items == Vals \cup (Fields \X Vals)

\* A Go map holds one value for a field.
Functional(h) == \A p, q \in h : p[1] = q[1] => p = q

Payload(type) ==
  CASE type = "string" -> {{v} : v \in Vals}
    [] type = "hash"   -> {h \in SUBSET (Fields \X Vals) : Functional(h)}
    [] OTHER           -> SUBSET Vals

Entry ==
  {e \in [type : Types, val : SUBSET Items, deadline : Int \cup {Never}] :
     e.val \in Payload(e.type)}

Database == [Keys -> Entry \cup {Absent}]

ASSUME ConstantsAssumption ==
  /\ Never \notin Int
  /\ Absent \notin Entry
  /\ TicksPerMs \in Nat \ {0}
  /\ MsPerSec \in Nat \ {0}
  /\ Secs \subseteq Int
  /\ Millis \subseteq Int
  /\ MaxNow \in Nat

ASSUME SeedsAssumption == Seeds \subseteq Database

VARIABLES
  db,           \* MockClient.keys
  now,          \* time.Now(), in ticks
  readOnly      \* MockClient.readOnly, the --read-only flag

vars == <<db, now, readOnly>>

-----------------------------------------------------------------------------
(* What one entry, and one key, look like to a read at time t. *)

Expired(e, t) == e.deadline # Never /\ t > e.deadline

Live(d, t, k) == d[k] # Absent /\ ~Expired(d[k], t)

Holds(d, k, type) == d[k] # Absent /\ d[k].type = type

TypeOf(d, t, k) == IF Live(d, t, k) THEN d[k].type ELSE "none"

\* A slip: the remaining time rounded up.
RoundedPTTL(d, t, k) ==
  IF ~Live(d, t, k) THEN -2
  ELSE IF d[k].deadline = Never THEN -1
  ELSE (d[k].deadline - t + TicksPerMs - 1) \div TicksPerMs

\* Remaining milliseconds: -1 without a deadline, -2 when there is no key, and
\* the quotient, so 0 in the last millisecond.  At the deadline itself the
\* entry is not expired yet and the answer is -2 already.
PTTL(d, t, k) ==
  IF ~Live(d, t, k) THEN -2
  ELSE IF d[k].deadline = Never THEN -1
  ELSE IF d[k].deadline - t <= 0 THEN -2
  ELSE (d[k].deadline - t) \div TicksPerMs

-----------------------------------------------------------------------------
(* The effect of each command on the map, at time t. *)

MsTicks(ms) == ms * TicksPerMs

SecTicks(sec) == sec * MsPerSec * TicksPerMs

\* A zero duration, asked for or left by a number that does not parse, is no
\* expiry at all.
DeadlineAfter(t, ticks) == IF ticks = 0 THEN Never ELSE t + ticks

Put(d, k, e) == [d EXCEPT ![k] = e]

DoSet(d, t, k, v, ticks) ==
  Put(d, k, [type |-> "string", val |-> {v},
             deadline |-> DeadlineAfter(t, ticks)])

DoDel(d, ks) == [k \in Keys |-> IF k \in ks THEN Absent ELSE d[k]]

\* A slip: EXPIRE without the isExpired test.
BlindExpire(d, t, k, ticks) ==
  IF d[k] # Absent
  THEN Put(d, k, [d[k] EXCEPT !.deadline = DeadlineAfter(t, ticks)])
  ELSE d

DoExpire(d, t, k, ticks) ==
  IF Live(d, t, k)
  THEN Put(d, k, [d[k] EXCEPT !.deadline = DeadlineAfter(t, ticks)])
  ELSE d

DoPersist(d, t, k) ==
  IF Live(d, t, k) THEN Put(d, k, [d[k] EXCEPT !.deadline = Never]) ELSE d

\* The entry a collection command writes into: the one that is there when its
\* type is right, expired or not, else a new one in the place of whatever was.
Collection(d, k, type) ==
  IF Holds(d, k, type) THEN d[k]
  ELSE [type |-> type, val |-> {}, deadline |-> Never]

\* A slip: a hash that keeps the old value of a field that is set.
KeepBoth(type, old, new) == old \cup new

Merge(type, old, new) ==
  IF type = "hash"
  THEN {p \in old : \A q \in new : q[1] # p[1]} \cup new
  ELSE old \cup new

\* HSET, RPUSH, LPUSH, SADD and ZADD.
DoAdd(d, k, type, new) ==
  LET e == Collection(d, k, type)
  IN  Put(d, k, [e EXCEPT !.val = Merge(type, @, new)])
-----------------------------------------------------------------------------
(* The commands.  Do rejects, or takes the lock and executes. *)

Allowed(name) == CheckCommand(readOnly, name, "") = "ok"

Command(name, d) == Allowed(name) /\ db' = d /\ UNCHANGED <<now, readOnly>>

Set(k, v, sec) == Command("SET", DoSet(db, now, k, v, SecTicks(sec)))

Del(ks) == Command("DEL", DoDel(db, ks))

Expire(k, sec) == Command("EXPIRE", DoExpire(db, now, k, SecTicks(sec)))

PExpire(k, ms) == Command("PEXPIRE", DoExpire(db, now, k, MsTicks(ms)))

Persist(k) == Command("PERSIST", DoPersist(db, now, k))

HSet(k, f, v) == Command("HSET", DoAdd(db, k, "hash", {<<f, v>>}))

Push(k, vs) ==
  \E name \in {"RPUSH", "LPUSH"} : Command(name, DoAdd(db, k, "list", vs))

SAdd(k, vs) == Command("SADD", DoAdd(db, k, "set", vs))

ZAdd(k, v) == Command("ZADD", DoAdd(db, k, "zset", {v}))

Tick == now < MaxNow /\ now' = now + 1 /\ UNCHANGED <<db, readOnly>>

Init ==
  /\ db \in Seeds
  /\ now = 0
  /\ readOnly \in BOOLEAN

Next ==
  \/ \E k \in Keys, v \in Vals, sec \in Secs \cup {0} : Set(k, v, sec)
  \/ \E ks \in (SUBSET Keys) \ {{}} : Del(ks)
  \/ \E k \in Keys, sec \in Secs : Expire(k, sec)
  \/ \E k \in Keys, ms \in Millis : PExpire(k, ms)
  \/ \E k \in Keys : Persist(k)
  \/ \E k \in Keys, f \in Fields, v \in Vals : HSet(k, f, v)
  \/ \E k \in Keys, vs \in (SUBSET Vals) \ {{}} : Push(k, vs) \/ SAdd(k, vs)
  \/ \E k \in Keys, v \in Vals : ZAdd(k, v)
  \/ Tick

Spec == Init /\ [][Next]_vars
-----------------------------------------------------------------------------
TypeOK ==
  /\ db \in Database
  /\ now \in 0 .. MaxNow
  /\ readOnly \in BOOLEAN

\* --read-only: whatever is sent, and whoever sends it, no step changes the
\* data.  The guard is one table of names; a command it does not list writes.
ReadOnlyFrozen == [][readOnly => UNCHANGED db]_vars

\* Lazy expiry keeps the expired entry in the map, and the writers differ in
\* what they do when they meet one: SET replaces it, EXPIRE and PERSIST refuse
\* it, HSET, RPUSH, SADD and ZADD write into it.  None of them makes expired
\* data readable again: a key comes back as a new string or with another type.
NoResurrection ==
  [][\A k \in Keys :
       db[k] # Absent /\ Expired(db[k], now) /\ Live(db', now', k)
         => db'[k].type = "string" \/ db'[k].type # db[k].type]_vars

\* The remaining time a read reports is a lease that the expiry test honours:
\* the key is readable that many milliseconds from now, if nobody writes it,
\* and gone one millisecond later.
LeaseHonoured ==
  \A k \in Keys :
    LET p == PTTL(db, now, k) IN
    p >= 0 => /\ Live(db, now + MsTicks(p), k)
              /\ ~Live(db, now + MsTicks(p + 1), k)
=============================================================================
