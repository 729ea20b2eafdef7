--------------------------- MODULE KeyspaceProofs ---------------------------
(***************************************************************************)
(* Theorems about Keyspace, for all keys, values, durations and data sets. *)
(* TypeOK is inductive as it stands; what is to be shown for it is that    *)
(* each command leaves a well-formed entry, which the lemmas say one by    *)
(* one.  The action properties need no more than TypeOK.                   *)
(***************************************************************************)
EXTENDS Keyspace, TLAPS

-----------------------------------------------------------------------------
(* The entries that the commands make. *)

\* Deadlines are integers or Never, for every duration that can be asked for.
LEMMA DeadlineType ==
  ASSUME NEW t \in Int, NEW ticks \in Int
  PROVE  DeadlineAfter(t, ticks) \in Int \cup {Never}
BY DEF DeadlineAfter

\* Storing an entry, or nothing, under a key gives a database.
LEMMA PutType ==
  ASSUME NEW d \in Database, NEW k \in Keys, NEW e \in Entry \cup {Absent}
  PROVE  Put(d, k, e) \in Database
BY DEF Put, Database

\* SET makes a string.
LEMMA SetType ==
  ASSUME NEW d \in Database, NEW k \in Keys, NEW v \in Vals,
         NEW t \in Int, NEW ticks \in Int
  PROVE  DoSet(d, t, k, v, ticks) \in Database
<1> DEFINE e == [type |-> "string", val |-> {v},
                 deadline |-> DeadlineAfter(t, ticks)]
<1>1. {v} \in Payload("string")
  BY DEF Payload
<1>2. {v} \in SUBSET Items
  BY DEF Items
<1>3. e \in Entry
  BY <1>1, <1>2, DeadlineType DEF Entry, Types
<1> QED
  BY <1>3, PutType DEF DoSet

\* DEL leaves holes.
LEMMA DelType ==
  ASSUME NEW d \in Database, NEW ks \in SUBSET Keys
  PROVE  DoDel(d, ks) \in Database
BY DEF DoDel, Database

\* A new deadline is all that EXPIRE, PEXPIRE and PERSIST change.
LEMMA DeadlineChangeType ==
  ASSUME NEW e \in Entry, NEW dl \in Int \cup {Never}
  PROVE  [e EXCEPT !.deadline = dl] \in Entry
BY DEF Entry

LEMMA ExpireType ==
  ASSUME NEW d \in Database, NEW k \in Keys, NEW t \in Int, NEW ticks \in Int
  PROVE  DoExpire(d, t, k, ticks) \in Database
<1>1. CASE Live(d, t, k)
  <2>1. d[k] \in Entry
    BY <1>1 DEF Live, Database
  <2>2. [d[k] EXCEPT !.deadline = DeadlineAfter(t, ticks)] \in Entry
    BY <2>1, DeadlineType, DeadlineChangeType
  <2> QED
    BY <1>1, <2>2, PutType DEF DoExpire
<1>2. CASE ~Live(d, t, k)
  BY <1>2 DEF DoExpire
<1> QED
  BY <1>1, <1>2

LEMMA PersistType ==
  ASSUME NEW d \in Database, NEW k \in Keys, NEW t \in Int
  PROVE  DoPersist(d, t, k) \in Database
<1>1. CASE Live(d, t, k)
  <2>1. d[k] \in Entry
    BY <1>1 DEF Live, Database
  <2>2. [d[k] EXCEPT !.deadline = Never] \in Entry
    BY <2>1, DeadlineChangeType
  <2> QED
    BY <1>1, <2>2, PutType DEF DoPersist
<1>2. CASE ~Live(d, t, k)
  BY <1>2 DEF DoPersist
<1> QED
  BY <1>1, <1>2

\* Merging keeps a hash functional: the old pairs of the new fields go.
LEMMA MergeHash ==
  ASSUME NEW old \in Payload("hash"), NEW new \in Payload("hash")
  PROVE  Merge("hash", old, new) \in Payload("hash")
BY DEF Merge, Payload, Functional

LEMMA MergeValues ==
  ASSUME NEW type \in {"list", "set", "zset"},
         NEW old \in SUBSET Vals, NEW new \in SUBSET Vals
  PROVE  Merge(type, old, new) \in Payload(type)
BY DEF Merge, Payload

LEMMA CollectionType ==
  ASSUME NEW d \in Database, NEW k \in Keys,
         NEW type \in {"hash", "list", "set", "zset"}
  PROVE  /\ Collection(d, k, type) \in Entry
         /\ Collection(d, k, type).type = type
<1>1. CASE Holds(d, k, type)
  BY <1>1 DEF Holds, Collection, Database
<1>2. CASE ~Holds(d, k, type)
  <2>1. {} \in Payload(type)
    BY DEF Payload, Functional
  <2>2. [type |-> type, val |-> {}, deadline |-> Never] \in Entry
    BY <2>1 DEF Entry, Types
  <2> QED
    BY <1>2, <2>2 DEF Collection
<1> QED
  BY <1>1, <1>2

\* The collection commands keep the payload right for the type.
LEMMA AddType ==
  ASSUME NEW d \in Database, NEW k \in Keys,
         NEW type \in {"hash", "list", "set", "zset"},
         NEW new \in Payload(type)
  PROVE  DoAdd(d, k, type, new) \in Database
<1> DEFINE e == Collection(d, k, type)
<1>1. e \in Entry /\ e.type = type
  BY CollectionType
<1>2. e.val \in Payload(type) /\ e.val \in SUBSET Items
  BY <1>1 DEF Entry
<1>3. Merge(type, e.val, new) \in Payload(type)
  <2>1. CASE type = "hash"
    BY <1>2, <2>1, MergeHash
  <2>2. CASE type # "hash"
    <3>1. e.val \in SUBSET Vals /\ new \in SUBSET Vals
      BY <1>2, <2>2 DEF Payload
    <3> QED
      BY <2>2, <3>1, MergeValues
  <2> QED
    BY <2>1, <2>2
<1>4. Merge(type, e.val, new) \in SUBSET Items
  BY <1>3 DEF Payload, Items
<1>5. [e EXCEPT !.val = Merge(type, e.val, new)] \in Entry
  BY <1>1, <1>3, <1>4 DEF Entry
<1> QED
  BY <1>5, PutType DEF DoAdd
-----------------------------------------------------------------------------
(* TypeOK *)

LEMMA InitType == Init => TypeOK
BY ConstantsAssumption, SeedsAssumption DEF Init, TypeOK

\* Durations are integers once they are ticks.
LEMMA TicksType ==
  /\ \A sec \in Int : SecTicks(sec) \in Int
  /\ \A ms \in Int : MsTicks(ms) \in Int
BY ConstantsAssumption DEF SecTicks, MsTicks

\* A command that computes a database leaves one; the rest is untouched.
LEMMA CommandType ==
  ASSUME TypeOK, NEW name, NEW d \in Database, Command(name, d)
  PROVE  TypeOK'
BY DEF TypeOK, Command

LEMMA NextType ==
  ASSUME TypeOK, Next
  PROVE  TypeOK'
<1> USE DEF TypeOK
<1>0. now \in Int
  BY ConstantsAssumption
<1>1. ASSUME NEW k \in Keys, NEW v \in Vals, NEW sec \in Secs \cup {0},
             Set(k, v, sec)
      PROVE  TypeOK'
  <2>1. DoSet(db, now, k, v, SecTicks(sec)) \in Database
    BY <1>0, TicksType, SetType, ConstantsAssumption
  <2> QED
    BY <1>1, <2>1, CommandType DEF Set
<1>2. ASSUME NEW ks \in SUBSET Keys, Del(ks)
      PROVE  TypeOK'
  BY <1>2, DelType, CommandType DEF Del
<1>3. ASSUME NEW k \in Keys, NEW sec \in Secs, Expire(k, sec)
      PROVE  TypeOK'
  <2>1. DoExpire(db, now, k, SecTicks(sec)) \in Database
    BY <1>0, TicksType, ExpireType, ConstantsAssumption
  <2> QED
    BY <1>3, <2>1, CommandType DEF Expire
<1>4. ASSUME NEW k \in Keys, NEW ms \in Millis, PExpire(k, ms)
      PROVE  TypeOK'
  <2>1. DoExpire(db, now, k, MsTicks(ms)) \in Database
    BY <1>0, TicksType, ExpireType, ConstantsAssumption
  <2> QED
    BY <1>4, <2>1, CommandType DEF PExpire
<1>5. ASSUME NEW k \in Keys, Persist(k)
      PROVE  TypeOK'
  BY <1>0, <1>5, PersistType, CommandType DEF Persist
<1>6. ASSUME NEW k \in Keys, NEW f \in Fields, NEW v \in Vals, HSet(k, f, v)
      PROVE  TypeOK'
  <2>1. {<<f, v>>} \in Payload("hash")
    BY DEF Payload, Functional
  <2>2. DoAdd(db, k, "hash", {<<f, v>>}) \in Database
    BY <2>1, AddType
  <2> QED
    BY <1>6, <2>2, CommandType DEF HSet
<1>7. ASSUME NEW k \in Keys, NEW vs \in SUBSET Vals, Push(k, vs) \/ SAdd(k, vs)
      PROVE  TypeOK'
  <2>1. vs \in Payload("list") /\ vs \in Payload("set")
    BY DEF Payload
  <2>2. /\ DoAdd(db, k, "list", vs) \in Database
        /\ DoAdd(db, k, "set", vs) \in Database
    BY <2>1, AddType
  <2> QED
    BY <1>7, <2>2, CommandType DEF Push, SAdd
<1>8. ASSUME NEW k \in Keys, NEW v \in Vals, ZAdd(k, v)
      PROVE  TypeOK'
  <2>1. {v} \in Payload("zset")
    BY DEF Payload
  <2>2. DoAdd(db, k, "zset", {v}) \in Database
    BY <2>1, AddType
  <2> QED
    BY <1>8, <2>2, CommandType DEF ZAdd
<1>9. CASE Tick
  BY <1>9, ConstantsAssumption DEF Tick
<1> QED
  BY <1>1, <1>2, <1>3, <1>4, <1>5, <1>6, <1>7, <1>8, <1>9 DEF Next

\* Every command leaves a well-typed database: in particular a hash never has
\* two values for a field, and the payload always suits the type.
THEOREM TypeCorrect == Spec => []TypeOK
<1>1. TypeOK /\ [Next]_vars => TypeOK'
  <2>1. TypeOK /\ UNCHANGED vars => TypeOK'
    BY DEF TypeOK, vars
  <2> QED
    BY <2>1, NextType
<1> QED
  BY <1>1, InitType, PTL DEF Spec
-----------------------------------------------------------------------------
(* Read-only mode *)

\* Every command the engine executes is in the guard's table, so in read-only
\* mode none is allowed and only the clock moves.
THEOREM ReadOnlyCorrect == Spec => ReadOnlyFrozen
<1>1. ASSUME Next, readOnly
      PROVE  UNCHANGED db
  <2>1. \A name \in {"SET", "DEL", "EXPIRE", "PEXPIRE", "PERSIST", "HSET",
                     "RPUSH", "LPUSH", "SADD", "ZADD"} : ~Allowed(name)
    BY <1>1 DEF Allowed, CheckCommand, MutatingCommands
  <2>2. Tick
    BY <1>1, <2>1 DEF Next, Command, Set, Del, Expire, PExpire, Persist, HSet,
                      Push, SAdd, ZAdd
  <2> QED
    BY <2>2 DEF Tick
<1>2. [Next]_vars => [readOnly => UNCHANGED db]_vars
  BY <1>1
<1> QED
  BY <1>2, PTL DEF Spec, ReadOnlyFrozen
-----------------------------------------------------------------------------
(* Expired data *)

\* What a command can make of a key whose entry has expired: nothing, a hole, a
\* string (SET), a fresh entry of another type, or the entry with the deadline
\* it had.
NotRevived(d, k, e) ==
  \/ d[k] = Absent
  \/ d[k].type = "string"
  \/ d[k].type # e.type
  \/ d[k].deadline = e.deadline

LEMMA AddNotRevived ==
  ASSUME NEW d \in Database, NEW j \in Keys, NEW k \in Keys,
         NEW type \in {"hash", "list", "set", "zset"}, NEW new,
         d[k] # Absent
  PROVE  NotRevived(DoAdd(d, j, type, new), k, d[k])
<1>1. CASE j # k
  BY <1>1 DEF DoAdd, Put, NotRevived, Database
<1>2. CASE j = k /\ Holds(d, k, type)
  <2>1. d[k] \in Entry
    BY DEF Database
  <2>2. DoAdd(d, j, type, new)[k]
          = [d[k] EXCEPT !.val = Merge(type, d[k].val, new)]
    BY <1>2 DEF DoAdd, Put, Collection, Database
  <2> QED
    BY <2>1, <2>2 DEF NotRevived, Entry
<1>3. CASE j = k /\ ~Holds(d, k, type)
  <2>1. DoAdd(d, j, type, new)[k].type = type
    BY <1>3 DEF DoAdd, Put, Collection, Database
  <2> QED
    BY <1>3, <2>1 DEF NotRevived, Holds
<1> QED
  BY <1>1, <1>2, <1>3

LEMMA StepNotRevived ==
  ASSUME TypeOK, Next, NEW k \in Keys, db[k] # Absent, Expired(db[k], now)
  PROVE  NotRevived(db', k, db[k])
<1> USE DEF TypeOK
<1>0. ~Live(db, now, k)
  BY DEF Live
<1>1. ASSUME NEW j \in Keys, NEW v \in Vals, NEW sec, Set(j, v, sec)
      PROVE  NotRevived(db', k, db[k])
  BY <1>1 DEF Set, Command, DoSet, Put, NotRevived, Database
<1>2. ASSUME NEW ks \in SUBSET Keys, Del(ks)
      PROVE  NotRevived(db', k, db[k])
  BY <1>2 DEF Del, Command, DoDel, NotRevived, Database
<1>3. ASSUME NEW j \in Keys, NEW ticks, db' = DoExpire(db, now, j, ticks)
      PROVE  NotRevived(db', k, db[k])
  BY <1>0, <1>3 DEF DoExpire, Put, NotRevived, Database
<1>4. ASSUME NEW j \in Keys, db' = DoPersist(db, now, j)
      PROVE  NotRevived(db', k, db[k])
  BY <1>0, <1>4 DEF DoPersist, Put, NotRevived, Database
<1>5. CASE Tick
  BY <1>5 DEF Tick, NotRevived
<1> QED
  BY <1>1, <1>2, <1>3, <1>4, <1>5, AddNotRevived
  DEF Next, Command, Expire, PExpire, Persist, HSet, Push, SAdd, ZAdd

\* The clock never goes back, so an entry that keeps its deadline stays expired.
LEMMA StaysExpired ==
  ASSUME TypeOK, Next, NEW k \in Keys, db[k] # Absent, Expired(db[k], now),
         db'[k] # Absent, db'[k].deadline = db[k].deadline
  PROVE  ~Live(db', now', k)
<1>1. now' = now \/ now' = now + 1
  BY DEF Next, Tick, Command, Set, Del, Expire, PExpire, Persist, HSet, Push,
         SAdd, ZAdd
<1>2. now \in Int /\ db[k].deadline \in Int
  BY ConstantsAssumption DEF TypeOK, Database, Entry, Expired
<1> QED
  BY <1>1, <1>2, ConstantsAssumption DEF Live, Expired

\* No command makes expired data readable again.
THEOREM NoResurrectionCorrect == Spec => NoResurrection
<1> DEFINE P == \A k \in Keys :
                  db[k] # Absent /\ Expired(db[k], now) /\ Live(db', now', k)
                    => db'[k].type = "string" \/ db'[k].type # db[k].type
<1>1. ASSUME TypeOK, [Next]_vars
      PROVE  [P]_vars
  <2>1. ASSUME Next, NEW k \in Keys, db[k] # Absent, Expired(db[k], now),
               Live(db', now', k)
        PROVE  db'[k].type = "string" \/ db'[k].type # db[k].type
    <3>1. db'[k] # Absent
      BY <2>1 DEF Live
    <3> QED
      BY <1>1, <2>1, <3>1, StepNotRevived, StaysExpired DEF NotRevived
  <2> QED
    BY <1>1, <2>1
<1> QED
  BY <1>1, TypeCorrect, PTL DEF Spec, NoResurrection
-----------------------------------------------------------------------------
(* Remaining time *)

\* Division rounds down.
LEMMA DivisionBounds ==
  ASSUME NEW a \in Nat, NEW b \in Nat \ {0}
  PROVE  /\ a \div b \in Nat
         /\ (a \div b) * b <= a
         /\ a < (a \div b + 1) * b
OBVIOUS

\* The answer of PTTL and the expiry test agree to the millisecond.
THEOREM LeaseCorrect == Spec => []LeaseHonoured
<1>1. ASSUME TypeOK, NEW k \in Keys, PTTL(db, now, k) >= 0
      PROVE  LET p == PTTL(db, now, k) IN
             Live(db, now + MsTicks(p), k) /\ ~Live(db, now + MsTicks(p + 1), k)
  <2> DEFINE e == db[k]
             rest == e.deadline - now
             p == PTTL(db, now, k)
  <2>1. Live(db, now, k) /\ e.deadline # Never /\ ~(rest <= 0)
        /\ p = rest \div TicksPerMs
    BY <1>1 DEF PTTL
  <2>2. now \in Int /\ e.deadline \in Int
    BY <1>1, <2>1, ConstantsAssumption DEF TypeOK, Database, Entry, Live
  <2>3. rest \in Nat
    BY <2>1, <2>2
  <2>4. p \in Nat /\ p * TicksPerMs <= rest /\ rest < (p + 1) * TicksPerMs
    BY <2>1, <2>3, DivisionBounds, ConstantsAssumption
  <2>5. MsTicks(p) = p * TicksPerMs /\ MsTicks(p + 1) = (p + 1) * TicksPerMs
    BY DEF MsTicks
  <2>6. p * TicksPerMs \in Int /\ (p + 1) * TicksPerMs \in Int
    BY <2>4, ConstantsAssumption
  <2>7. Live(db, now + MsTicks(p), k)
    <3> HIDE DEF p
    <3> QED
      BY <2>1, <2>2, <2>4, <2>5, <2>6 DEF Live, Expired
  <2>8. ~Live(db, now + MsTicks(p + 1), k)
    <3> HIDE DEF p
    <3> QED
      BY <2>1, <2>2, <2>4, <2>5, <2>6 DEF Live, Expired
  <2> QED
    BY <2>7, <2>8
<1>2. TypeOK => LeaseHonoured
  BY <1>1 DEF LeaseHonoured
<1> QED
  BY <1>2, TypeCorrect, PTL
=============================================================================
