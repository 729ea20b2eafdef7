--------------------------- MODULE ExplorerProofs ---------------------------
(***************************************************************************)
(* Theorems about Explorer, for any number of requests, foreign writes,    *)
(* keys, values and data sets: that its steps are steps of the engine, and *)
(* what a duplicate holds and how long it lives.                           *)
(*                                                                         *)
(* What a clone is in the end is not inductive.  IInv says of every        *)
(* request what its locals are at its place in the code, that the entry it *)
(* holds is the one in the map, that the history has what the source was,  *)
(* and how far the copy has come.                                          *)
(***************************************************************************)
EXTENDS Explorer, KeyspaceProofs

Payloads == {"string", "hash", "list", "set", "zset"}

\* What the items of a value are.
ItemsOf(type) == IF type = "hash" THEN Fields \X Vals ELSE Vals

\* The locals of a request at its place.
LocalInv(q) ==
  /\ q.result # "none" => q.pc = "done"
  /\ q.attached => /\ q.pc \in {"extract", "members", "encode", "write"}
                   /\ q.pc \in {"encode", "write"} =>
                        q.type = "hash" /\ q.got = "hash"
  /\ q.pc \in {"idle", "type", "pttl", "fetch"} => q.via = "none"
  /\ q.pc \in {"idle", "type", "pttl", "fetch", "extract", "command", "clear"}
       => q.visited = {}
  /\ q.pc \in {"pttl", "fetch", "extract", "command", "encode"} => q.type # "none"
  /\ q.pc \in {"idle", "type", "pttl"} => q.ttl = 0
  /\ q.pc = "extract" => q.got # "none" /\ q.val \in Payload(q.got)
  /\ q.pc = "members" => /\ q.type = "set" /\ q.got = "set"
                         /\ q.val \subseteq Vals /\ q.visited \subseteq Vals
  /\ q.pc = "command" => q.via = "command"
  /\ q.pc = "encode" => q.op = "detail"
  /\ q.pc \in {"clear", "write", "expire"} =>
       q.op = "duplicate" /\ q.type \in Payloads
  /\ q.pc = "clear" => q.type \in {"list", "set", "zset"} /\ q.left = q.val
  /\ q.pc \in {"clear", "write"} => q.val \subseteq ItemsOf(q.type)
  /\ q.pc = "write" /\ q.type = "zset" => q.left \subseteq q.val

\* A request that holds a live entry holds what the map has.
Attach(q, d) ==
  q.attached => /\ d[q.src] # Absent
                /\ d[q.src].type = q.got
                /\ d[q.src].val = q.val

\* The history S has what the source is while the request runs.
Remembers(q, S, d) ==
  /\ q.pc \notin {"idle", "done"} /\ d[q.src] # Absent => d[q.src] \in S
  /\ \A e \in S : e.val # {}

\* The remaining time that was read is that of an entry the source had.
TtlInv(q, S, t) ==
  /\ q.since <= t
  /\ q.ttl > 0 =>
       \E e \in S : /\ e.deadline # Never
                    /\ MsTicks(q.ttl) <= e.deadline - q.since
                    /\ e.deadline - q.since < MsTicks(q.ttl) + TicksPerMs

-----------------------------------------------------------------------------
(* How far the copy has come. *)

From(S, type, val) == \E e \in S : e.type = type /\ e.val = val

ValsOf(S, type) == {e.val : e \in {x \in S : x.type = type}}

\* The value val that was read is one that is in S, or, for a set, put together
\* from those that are.
Read(S, type, val) ==
  IF type = "set" THEN val # {} /\ PiecesOf(val, type, ValsOf(S, type))
  ELSE From(S, type, val)

\* The copy c is of this type and has the payload of what is in S.
CopyOf(c, type, S) ==
  /\ c # Absent
  /\ c.type = type
  /\ IF type \in {"hash", "set"} THEN PiecesOf(c.val, type, ValsOf(S, type))
     ELSE From(S, type, c.val)

\* The target in the middle of the writing loop of q.
Partial(c, q, S) ==
  /\ q.type \in {"string", "list", "set"} => c = Absent
  /\ q.type = "zset" =>
       IF c = Absent THEN q.left = q.val
       ELSE c.type = "zset" /\ c.val = q.val \ q.left /\ c.deadline = Never
  /\ q.type = "hash" =>
       /\ From(S, "hash", q.left)
       /\ IF c = Absent THEN q.visited = {}
          ELSE /\ c.type = "hash" /\ c.deadline = Never
               /\ c.val \subseteq UNION ValsOf(S, "hash")
               /\ \A f \in q.visited : \E p \in c.val : p[1] = f
               /\ \A p \in c.val : p[1] \in q.visited

\* The deadline of a finished clone at time t: when it was set, the request
\* had read the remaining time some time ago.
Expiring(c, q, t) ==
  IF q.ttl > 0
  THEN /\ c.deadline # Never
       /\ q.since + MsTicks(q.ttl) <= c.deadline
       /\ c.deadline <= t + MsTicks(q.ttl)
  ELSE c.deadline = Never

Undisturbed(q, dist) ==
  /\ q.op = "duplicate" /\ q.src # q.dst /\ q.fresh
  /\ ~dist /\ q.via # "command"

CloneInv(q, S, dist, c, t) ==
  Undisturbed(q, dist) =>
    /\ q.pc \in {"type", "pttl", "fetch", "extract", "members", "clear"}
         => c = Absent
    /\ q.pc \in {"extract", "members"} => From(S, q.got, q.val)
    /\ q.pc = "members" => /\ From(S, "set", q.left)
                           /\ q.visited \subseteq UNION ValsOf(S, "set")
    /\ q.pc \in {"clear", "write"} => Read(S, q.type, q.val)
    /\ q.pc = "write" => Partial(c, q, S)
    /\ q.pc = "expire" => CopyOf(c, q.type, S) /\ c.deadline = Never
    /\ q.pc = "done" /\ q.result = "ok" => CopyOf(c, q.type, S) /\ Expiring(c, q, t)

RequestInv(r) ==
  /\ LocalInv(req[r])
  /\ Attach(req[r], db)
  /\ Remembers(req[r], seen[r], db)
  /\ TtlInv(req[r], seen[r], now)
  /\ CloneInv(req[r], seen[r], disturbed[r], Clone(r), now)

NothingEmpty(d) == \A k \in Keys : d[k] # Absent => d[k].val # {}

IInv ==
  /\ ExplorerTypes
  /\ NothingEmpty(db)
  /\ \A r \in Reqs : RequestInv(r)

-----------------------------------------------------------------------------
(* What a command does to the map. *)

\* A command changes the keys ks only; unless it replaces entries, an entry
\* that is there stays and keeps its type; no value gets empty.
Changes(ks, kind) ==
  /\ db' \in Database /\ now' = now
  /\ \A k \in Keys \ ks : db'[k] = db[k]
  /\ kind # "replaced" =>
       \A k \in Keys : db[k] # Absent => db'[k] # Absent /\ db'[k].type = db[k].type
  /\ NothingEmpty(db) => NothingEmpty(db')

LEMMA TimeType ==
  ASSUME TypeOK
  PROVE  now \in Nat /\ db \in Database
BY ConstantsAssumption DEF TypeOK

LEMMA SetChanges ==
  ASSUME TypeOK, NEW k \in Keys, NEW v \in Vals, NEW sec \in Int, Set(k, v, sec)
  PROVE  Changes({k}, "replaced")
<1>1. db' \in Database
  BY TimeType, TicksType, SetType DEF Set, Command
<1>2. db' = Put(db, k, db'[k]) /\ db'[k].val = {v}
  BY TimeType DEF Set, Command, DoSet, Put, Database
<1> QED
  BY <1>1, <1>2, TimeType DEF Set, Command, Changes, NothingEmpty, Put, Database

LEMMA DelChanges ==
  ASSUME TypeOK, NEW ks \in SUBSET Keys, Del(ks)
  PROVE  Changes(ks, "replaced")
<1>1. db' \in Database
  BY TimeType, DelType DEF Del, Command
<1> QED
  BY <1>1, TimeType DEF Del, Command, Changes, NothingEmpty, DoDel, Database

LEMMA DeadlineChanges ==
  ASSUME TypeOK, NEW k \in Keys, NEW ticks \in Int, UNCHANGED now,
         db' = DoExpire(db, now, k, ticks) \/ db' = DoPersist(db, now, k)
  PROVE  Changes({k}, "kept")
<1>1. db' \in Database
  BY TimeType, ExpireType, PersistType
<1>2. db[k] # Absent => db[k] \in Entry
  BY TimeType DEF Database
<1>3. /\ \A j \in Keys \ {k} : db'[j] = db[j]
      /\ db[k] = Absent => db'[k] = Absent
      /\ db[k] # Absent => db'[k].type = db[k].type /\ db'[k].val = db[k].val
  BY <1>2, TimeType DEF DoExpire, DoPersist, Put, Live, Database, Entry
<1>4. db[k] # Absent => db'[k] # Absent
  <2>1. ASSUME db[k] # Absent, NEW dl \in Int \cup {Never}
        PROVE  [db[k] EXCEPT !.deadline = dl] # Absent
    BY <1>2, <2>1, DeadlineChangeType, ConstantsAssumption
  <2> QED
    BY <2>1, TimeType, DeadlineType DEF DoExpire, DoPersist, Put, Live, Database
<1> QED
  BY <1>1, <1>3, <1>4, TimeType DEF Changes, NothingEmpty

LEMMA AddChanges ==
  ASSUME TypeOK, NEW k \in Keys, NEW type \in {"hash", "list", "set", "zset"},
         NEW new \in Payload(type), new # {}, UNCHANGED now,
         db' = DoAdd(db, k, type, new)
  PROVE  /\ Changes({k}, AddKind(k, type))
         /\ db'[k] # Absent
         /\ db'[k].type = type
         /\ db'[k].val = Merge(type, Collection(db, k, type).val, new)
         /\ db'[k].deadline = Collection(db, k, type).deadline
<1>1. db' \in Database
  BY TimeType, AddType
<1>2. Collection(db, k, type) \in Entry /\ Collection(db, k, type).type = type
  BY TimeType, CollectionType
<1>3. /\ \A j \in Keys \ {k} : db'[j] = db[j]
      /\ db'[k].type = type
      /\ db'[k].val = Merge(type, Collection(db, k, type).val, new)
      /\ db'[k].deadline = Collection(db, k, type).deadline
  BY <1>2, TimeType DEF DoAdd, Put, Database, Entry
<1>4. db'[k].val # {}
  BY <1>3 DEF Merge
<1>5. db'[k] # Absent
  <2>1. db'[k] = [Collection(db, k, type) EXCEPT !.val = db'[k].val]
    BY <1>2, <1>3, TimeType DEF DoAdd, Put, Database
  <2>2. db'[k].val \in Payload(type) /\ db'[k].val \in SUBSET Items
    <3>1. Collection(db, k, type).val \in Payload(type)
      BY <1>2 DEF Entry
    <3>2. CASE type = "hash"
      BY <1>3, <3>1, <3>2, MergeHash DEF Payload, Items
    <3>3. CASE type # "hash"
      <4>1. Collection(db, k, type).val \in SUBSET Vals /\ new \in SUBSET Vals
        BY <3>1, <3>3 DEF Payload
      <4> QED
        BY <1>3, <3>3, <4>1, MergeValues DEF Payload, Items
    <3> QED
      BY <3>2, <3>3
  <2>3. db'[k] \in Entry
    BY <1>2, <2>1, <2>2 DEF Entry
  <2> QED
    BY <2>3, ConstantsAssumption
<1>6. AddKind(k, type) # "replaced" => db[k] # Absent /\ db[k].type = type
  BY DEF AddKind, Holds
<1>7. Changes({k}, AddKind(k, type))
  BY <1>1, <1>3, <1>4, <1>5, <1>6 DEF Changes, NothingEmpty
<1> QED
  BY <1>3, <1>5, <1>7
-----------------------------------------------------------------------------
(* A request that watches a write. *)

\* Two requests that differ in the value they hold at most.
SameBut(p, q) ==
  /\ p.pc = q.pc /\ p.op = q.op /\ p.src = q.src /\ p.dst = q.dst
  /\ p.type = q.type /\ p.ttl = q.ttl /\ p.since = q.since
  /\ p.got = q.got /\ p.via = q.via /\ p.left = q.left
  /\ p.visited = q.visited /\ p.fresh = q.fresh /\ p.result = q.result

\* The request keeps its place and its locals; what it holds is what the map
\* has now, or it holds no live entry any more.
LEMMA Tracked ==
  ASSUME TypeOK, NEW ks \in SUBSET Keys, NEW kind, Changes(ks, kind),
         NEW q \in Request, LocalInv(q), Attach(q, db),
         NEW p, p = Track(q, ks, kind)
  PROVE  /\ p \in Request /\ LocalInv(p) /\ Attach(p, db')
         /\ SameBut(p, q)
         /\ p.attached => q.attached
         /\ \/ p.val = q.val
            \/ /\ q.attached /\ db'[q.src] # Absent
               /\ db'[q.src].type = q.got /\ db'[q.src].val = p.val
         /\ q.src \notin ks => p = q
<1>1. CASE ~(q.attached /\ q.src \in ks)
  <2>1. p = q
    BY <1>1 DEF Track
  <2>2. Attach(q, db')
    BY <1>1 DEF Attach, Changes, Request
  <2> QED
    BY <2>1, <2>2 DEF SameBut
<1>2. CASE q.attached /\ q.src \in ks /\ kind = "replaced"
  <2>1. p = [q EXCEPT !.attached = FALSE]
    BY <1>2 DEF Track
  <2>2. SameBut(p, q) /\ ~p.attached
    BY <2>1 DEF Request, SameBut
  <2>3. p \in Request /\ p.val = q.val
    BY <2>1 DEF Request
  <2>4. LocalInv(p) /\ Attach(p, db')
    BY <2>1 DEF Request, LocalInv, Attach
  <2> QED
    BY <1>2, <2>2, <2>3, <2>4
<1>3. CASE q.attached /\ q.src \in ks /\ kind # "replaced"
  <2> DEFINE e == db'[q.src]
  <2>1. p = [q EXCEPT !.val = e.val]
    BY <1>3 DEF Track
  <2>2. e # Absent /\ e.type = q.got /\ e \in Entry
    BY <1>3 DEF Attach, Changes, Database, Request
  <2>3. e.val \in Payload(q.got) /\ e.val \in SUBSET Items
    BY <2>2 DEF Entry
  <2> HIDE DEF e
  <2>4. p \in Request /\ p.val = e.val /\ p.attached = q.attached
    BY <2>1, <2>3 DEF Request
  <2>5. SameBut(p, q)
    BY <2>1 DEF Request, SameBut
  <2>6. /\ q.pc \in {"encode", "write"} =>
             q.type = "hash" /\ p.val \subseteq Fields \X Vals
        /\ q.pc = "members" => p.val \subseteq Vals
    BY <1>3, <2>3, <2>4 DEF LocalInv, Payload
  <2>7. LocalInv(p)
    BY <1>3, <2>1, <2>3, <2>4, <2>6 DEF LocalInv, ItemsOf, Request, Payloads
  <2>8. Attach(p, db')
    BY <2>1, <2>2, <2>4 DEF Attach, Request, e
  <2> QED
    BY <1>3, <2>2, <2>4, <2>5, <2>7, <2>8 DEF e
<1> QED
  BY <1>1, <1>2, <1>3

\* What the copy has of a history it has of a longer one.
LEMMA CopyMonotone ==
  ASSUME NEW S, NEW T, S \subseteq T
  PROVE  /\ \A type : UNION ValsOf(S, type) \subseteq UNION ValsOf(T, type)
         /\ \A type, val : From(S, type, val) => From(T, type, val)
         /\ \A type, val : Read(S, type, val) => Read(T, type, val)
         /\ \A c, type : CopyOf(c, type, S) => CopyOf(c, type, T)
         /\ \A c, q : Partial(c, q, S) => Partial(c, q, T)
<1>1. \A type : /\ ValsOf(S, type) \subseteq ValsOf(T, type)
                /\ UNION ValsOf(S, type) \subseteq UNION ValsOf(T, type)
  BY DEF ValsOf
<1>2. \A type, val : From(S, type, val) => From(T, type, val)
  BY DEF From
<1>3. \A type, val : PiecesOf(val, type, ValsOf(S, type))
                       => PiecesOf(val, type, ValsOf(T, type))
  BY <1>1 DEF PiecesOf
<1>4. \A type, val : Read(S, type, val) => Read(T, type, val)
  BY <1>2, <1>3 DEF Read
<1>5. \A c, type : CopyOf(c, type, S) => CopyOf(c, type, T)
  BY <1>2, <1>3 DEF CopyOf
<1>6. \A c, q : Partial(c, q, S) => Partial(c, q, T)
  BY <1>1, <1>2 DEF Partial
<1> QED
  BY <1>1, <1>2, <1>4, <1>5, <1>6

\* Histories grow.
SeenMore(r, ks) ==
  /\ seen[r] \subseteq seen'[r]
  /\ seen'[r] \in SUBSET Entry
  /\ \A e \in seen'[r] : e.val # {}
  /\ Active(r) /\ db'[req[r].src] # Absent => db'[req[r].src] \in seen'[r]
  /\ disturbed'[r] \in BOOLEAN
  /\ ~disturbed'[r] => ~disturbed[r]

LEMMA WroteSeen ==
  ASSUME IInv, NEW ks \in SUBSET Keys, NEW kind, Changes(ks, kind), NEW self,
         NEW rs, Wrote(self, rs, ks, kind), NEW r \in Reqs
  PROVE  SeenMore(r, ks)
<1>1. req[r] \in Request /\ seen[r] \in SUBSET Entry /\ disturbed[r] \in BOOLEAN
  BY DEF IInv, ExplorerTypes
<1>2. \A e \in seen[r] : e.val # {}
  BY DEF IInv, RequestInv, Remembers
<1>3. seen'[r] = IF Active(r) THEN seen[r] \cup ({db'[req[r].src]} \ {Absent})
                 ELSE seen[r]
  BY DEF Wrote
<1>4. disturbed'[r] = \/ disturbed[r]
                      \/ r # self /\ req[r].pc # "idle" /\ req[r].dst \in ks
  BY DEF Wrote
<1>5. /\ db'[req[r].src] \in Entry \cup {Absent}
      /\ db'[req[r].src] # Absent => db'[req[r].src].val # {}
  BY <1>1 DEF Changes, Database, NothingEmpty, Request, IInv
<1>6. disturbed'[r] \in BOOLEAN /\ (~disturbed'[r] => ~disturbed[r])
  BY <1>4, <1>1
<1>7. /\ seen[r] \subseteq seen'[r]
      /\ seen'[r] \in SUBSET Entry
      /\ \A e \in seen'[r] : e.val # {}
      /\ Active(r) /\ db'[req[r].src] # Absent => db'[req[r].src] \in seen'[r]
  BY <1>1, <1>2, <1>3, <1>5
<1> QED
  BY <1>6, <1>7 DEF SeenMore

\* Time that was read stays read, and the history keeps its entry.
LEMMA TtlKept ==
  ASSUME NEW q, NEW S, NEW T, NEW t \in Int, NEW u \in Int, NEW p,
         q.since \in Int, TtlInv(q, S, t), S \subseteq T, t <= u,
         p.since = q.since, p.ttl = q.ttl
  PROVE  TtlInv(p, T, u)
BY DEF TtlInv

\* A request that does not write: what it knows and what it copied so far
\* stays true whatever the others write.
LEMMA Bystander ==
  ASSUME IInv, NEW ks \in SUBSET Keys, NEW kind, Changes(ks, kind), NEW self,
         NEW rs, Wrote(self, rs, ks, kind), NEW r \in Reqs, r # self,
         rs[r] = req[r]
  PROVE  req'[r] \in Request /\ RequestInv(r)'
<1> DEFINE q == req[r]
           p == Track(q, ks, kind)
<1>1. req'[r] = p
  BY DEF Wrote
<1>2. TypeOK /\ q \in Request /\ LocalInv(q) /\ Attach(q, db)
  BY DEF IInv, ExplorerTypes, RequestInv
<1>3. SeenMore(r, ks)
  BY WroteSeen
<1>4. /\ p \in Request /\ LocalInv(p) /\ Attach(p, db') /\ SameBut(p, q)
      /\ \/ p.val = q.val
         \/ /\ q.attached /\ db'[q.src] # Absent
            /\ db'[q.src].type = q.got /\ db'[q.src].val = p.val
  BY <1>2, Tracked
<1> HIDE DEF p
<1>6. Remembers(p, seen'[r], db')
  BY <1>3, <1>4 DEF SameBut, Remembers, SeenMore, Active
<1>7. TtlInv(p, seen'[r], now')
  <2>1. TtlInv(q, seen[r], now) /\ now \in Int /\ now' = now /\ q.since \in Int
    BY <1>2, ConstantsAssumption DEF IInv, RequestInv, Changes, TypeOK, Request
  <2> QED
    BY <1>3, <1>4, <2>1, TtlKept DEF SameBut, SeenMore
<1>8. CloneInv(p, seen'[r], disturbed'[r], db'[p.dst], now')
  <2> SUFFICES ASSUME Undisturbed(p, disturbed'[r]), q.pc # "idle"
               PROVE  /\ q.pc \in {"type", "pttl", "fetch", "extract",
                                   "members", "clear"}
                           => db'[q.dst] = Absent
                      /\ q.pc \in {"extract", "members"}
                           => From(seen'[r], q.got, p.val)
                      /\ q.pc = "members" =>
                           /\ From(seen'[r], "set", q.left)
                           /\ q.visited \subseteq UNION ValsOf(seen'[r], "set")
                      /\ q.pc \in {"clear", "write"} => Read(seen'[r], q.type, p.val)
                      /\ q.pc = "write" => Partial(db'[q.dst], p, seen'[r])
                      /\ q.pc = "expire" =>
                           CopyOf(db'[q.dst], q.type, seen'[r])
                             /\ db'[q.dst].deadline = Never
                      /\ q.pc = "done" /\ q.result = "ok" =>
                           CopyOf(db'[q.dst], q.type, seen'[r])
                             /\ Expiring(db'[q.dst], p, now')
    BY <1>4 DEF SameBut, CloneInv
  <2>1. Undisturbed(q, disturbed[r])
    BY <1>3, <1>4 DEF SameBut, Undisturbed, SeenMore
  <2>2. q.dst \notin ks /\ q.dst \in Keys
    BY <1>2 DEF Wrote, Undisturbed, Request
  <2>3. db'[q.dst] = db[q.dst] /\ now' = now
    BY <2>2 DEF Changes
  <2>4. CloneInv(q, seen[r], disturbed[r], db[q.dst], now)
    BY DEF IInv, RequestInv, Clone
  <2>5. ASSUME q.pc \in {"extract", "members", "write"}, p.val # q.val, NEW type,
               type = q.got
        PROVE  From(seen'[r], type, p.val)
    <3>1. db'[q.src] \in seen'[r]
      BY <1>3, <1>4, <2>5 DEF SeenMore, Active
    <3> QED
      BY <1>4, <2>5, <3>1 DEF From
  <2>6. \A type, val : From(seen[r], type, val) => From(seen'[r], type, val)
    BY <1>3, CopyMonotone DEF SeenMore
  <2>7. \A c, type : CopyOf(c, type, seen[r]) => CopyOf(c, type, seen'[r])
    BY <1>3, CopyMonotone DEF SeenMore
  <2>8. \A c : Partial(c, q, seen[r]) => Partial(c, q, seen'[r])
    BY <1>3, CopyMonotone DEF SeenMore
  <2>9. q.attached => /\ q.pc \in {"extract", "members", "encode", "write"}
                      /\ q.pc \in {"encode", "write"} =>
                           q.type = "hash" /\ q.got = "hash"
    BY <1>2 DEF LocalInv
  <2>10. q.pc \in {"extract", "members"} => From(seen'[r], q.got, p.val)
    BY <2>1, <2>4, <2>5, <2>6 DEF CloneInv
  <2>14. q.pc = "members" => /\ From(seen'[r], "set", q.left)
                             /\ q.visited \subseteq UNION ValsOf(seen'[r], "set")
    <3>1. UNION ValsOf(seen[r], "set") \subseteq UNION ValsOf(seen'[r], "set")
      BY <1>3, CopyMonotone DEF SeenMore
    <3> QED
      BY <2>1, <2>4, <2>6, <3>1 DEF CloneInv
  <2>11. q.pc \in {"clear", "write"} => Read(seen'[r], q.type, p.val)
    <3>1. CASE q.pc = "write" /\ p.val # q.val
      <4>1. q.type = "hash" /\ q.got = "hash"
        BY <1>4, <2>9, <3>1
      <4> QED
        BY <2>5, <3>1, <4>1 DEF Read
    <3>2. CASE ~(q.pc = "write" /\ p.val # q.val)
      <4>1. q.pc \in {"clear", "write"} => p.val = q.val
        BY <1>4, <2>9, <3>2
      <4>2. \A type, val : Read(seen[r], type, val) => Read(seen'[r], type, val)
        BY <1>3, CopyMonotone DEF SeenMore
      <4> QED
        BY <2>1, <2>4, <4>1, <4>2 DEF CloneInv
    <3> QED
      BY <3>1, <3>2
  <2>12. q.pc = "write" => Partial(db'[q.dst], p, seen'[r])
    <3> SUFFICES ASSUME q.pc = "write"
                 PROVE  Partial(db[q.dst], p, seen'[r])
      BY <2>3
    <3>1. Partial(db[q.dst], q, seen'[r])
      BY <2>1, <2>4, <2>8 DEF CloneInv
    <3>2. q.type = "zset" => p.val = q.val
      BY <1>4, <2>9
    <3> QED
      BY <1>4, <3>1, <3>2 DEF SameBut, Partial
  <2>13. Expiring(db[q.dst], q, now) => Expiring(db'[q.dst], p, now')
    BY <1>4, <2>3 DEF SameBut, Expiring
  <2> QED
    BY <2>1, <2>3, <2>4, <2>7, <2>10, <2>11, <2>12, <2>13, <2>14 DEF CloneInv
<1> QED
  BY <1>1, <1>4, <1>6, <1>7, <1>8 DEF RequestInv, Clone

\* A write step keeps the invariant when it does for the one who writes.
LEMMA WriteStep ==
  ASSUME IInv, NEW ks \in SUBSET Keys, NEW kind, Changes(ks, kind), NEW self,
         NEW rs, Wrote(self, rs, ks, kind),
         UNCHANGED readOnly, writes' \in 0 .. MaxWrites,
         \A r \in Reqs \ {self} : rs[r] = req[r],
         self \in Reqs => req'[self] \in Request /\ RequestInv(self)'
  PROVE  IInv'
<1>1. \A r \in Reqs : req'[r] \in Request /\ RequestInv(r)'
  BY Bystander
<1>2. req' \in [Reqs -> Request]
  BY <1>1 DEF Wrote
<1>3. TypeOK'
  BY DEF IInv, ExplorerTypes, TypeOK, Changes
<1>4. fatal' \in BOOLEAN
  BY DEF Wrote
<1>5. seen' \in [Reqs -> SUBSET Entry] /\ disturbed' \in [Reqs -> BOOLEAN]
  <2>1. \A r \in Reqs : seen'[r] \in SUBSET Entry /\ disturbed'[r] \in BOOLEAN
    BY WroteSeen DEF SeenMore
  <2> QED
    BY <2>1 DEF Wrote
<1>6. NothingEmpty(db)'
  BY DEF IInv, Changes
<1> QED
  BY <1>1, <1>2, <1>3, <1>4, <1>5, <1>6 DEF IInv, ExplorerTypes

\* A command of somebody else.
LEMMA ForeignStep ==
  ASSUME IInv, NEW ks \in SUBSET Keys, NEW kind, Changes(ks, kind),
         Foreign(ks, kind), UNCHANGED readOnly
  PROVE  IInv'
<1>1. writes' \in 0 .. MaxWrites
  BY ExplorerAssumption DEF IInv, ExplorerTypes, Foreign
<1> QED
  BY <1>1, WriteStep, ExplorerAssumption DEF Foreign

\* A command of the request itself, after which its locals are q: q may hold
\* the entry it holds now, and says how far the copy has come.
LEMMA OwnStep ==
  ASSUME IInv, NEW r \in Reqs, NEW q \in Request, NEW kind,
         Changes({req[r].dst}, kind), Own(r, q, kind), UNCHANGED readOnly,
         Active(r), q.src = req[r].src, q.dst = req[r].dst,
         q.since = req[r].since, q.ttl = req[r].ttl,
         LocalInv(q), Attach(q, db),
         CloneInv(q, seen'[r], disturbed[r], db'[q.dst], now)
  PROVE  IInv'
<1> DEFINE ks == {req[r].dst}
           p == Track(q, ks, kind)
<1>1. req[r] \in Request /\ TypeOK
  BY DEF IInv, ExplorerTypes
<1>2. ks \in SUBSET Keys
  BY <1>1 DEF Request
<1>3. /\ req'[r] = p
      /\ disturbed'[r] = disturbed[r]
  <2>1. disturbed[r] \in BOOLEAN
    BY DEF IInv, ExplorerTypes
  <2> QED
    BY <2>1 DEF Own, Wrote, IInv, ExplorerTypes
<1>4. /\ p \in Request /\ LocalInv(p) /\ Attach(p, db') /\ SameBut(p, q)
      /\ q.src \notin ks => p = q
  BY <1>1, <1>2, Tracked
<1> HIDE DEF p
<1>5. SeenMore(r, ks)
  BY <1>2, WroteSeen DEF Own
<1>6. Remembers(p, seen'[r], db')
  BY <1>4, <1>5 DEF Remembers, SeenMore, SameBut
<1>7. TtlInv(p, seen'[r], now')
  <2>1. /\ TtlInv(req[r], seen[r], now) /\ now \in Int /\ now' = now
        /\ req[r].since \in Int
    BY <1>1, ConstantsAssumption DEF IInv, RequestInv, Changes, TypeOK, Request
  <2> QED
    BY <1>4, <1>5, <2>1, TtlKept DEF SameBut, SeenMore
<1>8. CloneInv(p, seen'[r], disturbed'[r], db'[p.dst], now')
  <2>1. Undisturbed(p, disturbed'[r]) => p = q
    BY <1>4 DEF Undisturbed, SameBut
  <2> QED
    BY <1>3, <2>1 DEF CloneInv, Changes
<1>9. RequestInv(r)'
  BY <1>3, <1>4, <1>6, <1>7, <1>8 DEF RequestInv, Clone
<1>10. writes' \in 0 .. MaxWrites
  BY DEF Own, IInv, ExplorerTypes
<1>11. req'[r] \in Request
  BY <1>3, <1>4
<1> DEFINE rs == [req EXCEPT ![r] = q]
<1>12. \A o \in Reqs \ {r} : rs[o] = req[o]
  BY DEF IInv, ExplorerTypes
<1>13. Wrote(r, rs, ks, kind)
  BY DEF Own
<1> HIDE DEF rs, ks
<1> QED
  BY <1>2, <1>9, <1>10, <1>11, <1>12, <1>13, WriteStep DEF ks

\* A step that writes nothing.
LEMMA OnlyStep ==
  ASSUME IInv, NEW r \in Reqs, NEW q \in Request, Only(r, q),
         LocalInv(q), Attach(q, db), Remembers(q, seen[r], db),
         TtlInv(q, seen[r], now),
         CloneInv(q, seen[r], disturbed[r], db[q.dst], now)
  PROVE  IInv'
<1>1. req' = [req EXCEPT ![r] = q] /\ req \in [Reqs -> Request]
  BY DEF Only, IInv, ExplorerTypes
<1>2. /\ db' = db /\ now' = now /\ readOnly' = readOnly
      /\ UNCHANGED <<fatal, writes, seen, disturbed>>
  BY DEF Only, vars
<1>3. ExplorerTypes'
  BY <1>1, <1>2 DEF IInv, ExplorerTypes, TypeOK
<1>4. RequestInv(r)'
  BY <1>1, <1>2 DEF RequestInv, Clone
<1>5. ASSUME NEW o \in Reqs, o # r
      PROVE  RequestInv(o)'
  BY <1>1, <1>2, <1>5 DEF IInv, RequestInv, Clone
<1> QED
  BY <1>2, <1>3, <1>4, <1>5 DEF IInv
-----------------------------------------------------------------------------
(* GetKeyDetail *)

\* What is known of a request before its step.
LEMMA Known ==
  ASSUME IInv, NEW r \in Reqs
  PROVE  /\ req[r] \in Request /\ seen[r] \in SUBSET Entry
         /\ TypeOK /\ now \in Nat /\ db \in Database
         /\ LocalInv(req[r]) /\ Attach(req[r], db)
         /\ Remembers(req[r], seen[r], db) /\ TtlInv(req[r], seen[r], now)
         /\ CloneInv(req[r], seen[r], disturbed[r], db[req[r].dst], now)
BY TimeType DEF IInv, ExplorerTypes, RequestInv, Clone

\* A request that ends without success leaves nothing to be said.
LEMMA Failed ==
  ASSUME IInv, NEW r \in Reqs, NEW result \in {"not found", "panic",
         "wrong type", "unsupported"}, Only(r, Finish(req[r], result))
  PROVE  IInv'
<1> DEFINE q == Finish(req[r], result)
<1>1. /\ req[r] \in Request /\ Remembers(req[r], seen[r], db)
      /\ TtlInv(req[r], seen[r], now)
  BY Known
<1>2. /\ q \in Request /\ q.pc = "done" /\ q.result = result /\ ~q.attached
      /\ q.since = req[r].since /\ q.ttl = req[r].ttl
  BY <1>1 DEF Finish, Request, Places, Results
<1> HIDE DEF q
<1>3. LocalInv(q) /\ Attach(q, db)
  BY <1>2 DEF LocalInv, Attach
<1>4. Remembers(q, seen[r], db) /\ TtlInv(q, seen[r], now)
  BY <1>1, <1>2 DEF Remembers, TtlInv
<1>5. CloneInv(q, seen[r], disturbed[r], db[q.dst], now)
  BY <1>2 DEF CloneInv
<1> QED
  BY <1>2, <1>3, <1>4, <1>5, OnlyStep DEF q

LEMMA StartStep ==
  ASSUME IInv, NEW r \in Reqs, NEW op \in {"detail", "duplicate"},
         NEW src \in Keys, NEW dst \in Keys, Start(r, op, src, dst)
  PROVE  IInv'
<1> DEFINE q == [req[r] EXCEPT !.pc = "type", !.op = op, !.src = src,
                               !.dst = dst, !.fresh = (db[dst] = Absent)]
           S == {db[src]} \ {Absent}
<1>1. /\ req[r] \in Request /\ LocalInv(req[r]) /\ db \in Database
      /\ TtlInv(req[r], seen[r], now) /\ req[r].pc = "idle"
  BY Known DEF Start
<1>2. /\ q \in Request /\ q.pc = "type" /\ q.src = src /\ q.dst = dst
      /\ q.fresh = (db[dst] = Absent) /\ q.since = req[r].since
      /\ q.ttl = req[r].ttl /\ q.via = req[r].via
      /\ q.visited = req[r].visited /\ q.attached = req[r].attached
      /\ q.result = req[r].result
  BY <1>1 DEF Request, Places
<1>3. req' = [req EXCEPT ![r] = q] /\ seen' = [seen EXCEPT ![r] = S]
  <2>1. req \in [Reqs -> Request]
    BY DEF IInv, ExplorerTypes
  <2> QED
    BY <2>1 DEF Start
<1>4. UNCHANGED <<db, now, readOnly, fatal, writes, disturbed>>
  BY DEF Start, vars
<1> HIDE DEF q
<1>5. /\ S \in SUBSET Entry
      /\ \A e \in S : e.val # {}
      /\ db[src] # Absent => db[src] \in S
  BY <1>1 DEF Database, IInv, NothingEmpty
<1> HIDE DEF S
<1>6. ExplorerTypes'
  BY <1>2, <1>3, <1>4, <1>5 DEF IInv, ExplorerTypes, TypeOK
<1>7. RequestInv(r)'
  <2>1. LocalInv(q) /\ Attach(q, db)
    BY <1>1, <1>2 DEF LocalInv, Attach
  <2>2. Remembers(q, S, db)
    BY <1>2, <1>5 DEF Remembers
  <2>3. TtlInv(q, S, now)
    BY <1>1, <1>2 DEF TtlInv, LocalInv
  <2>4. CloneInv(q, S, disturbed[r], db[q.dst], now)
    BY <1>2 DEF CloneInv, Undisturbed
  <2>5. req'[r] = q /\ seen'[r] = S
    BY <1>3 DEF IInv, ExplorerTypes
  <2> QED
    BY <1>4, <2>1, <2>2, <2>3, <2>4, <2>5 DEF RequestInv, Clone
<1>8. ASSUME NEW o \in Reqs, o # r
      PROVE  RequestInv(o)'
  <2>1. req'[o] = req[o] /\ seen'[o] = seen[o]
    BY <1>3, <1>8 DEF IInv, ExplorerTypes
  <2> QED
    BY <1>4, <2>1 DEF IInv, RequestInv, Clone
<1> QED
  BY <1>4, <1>6, <1>7, <1>8 DEF IInv

LEMMA ReadTypeStep ==
  ASSUME IInv, NEW r \in Reqs, ReadType(r)
  PROVE  IInv'
<1> DEFINE type == TypeOf(db, now, req[r].src)
           q == [req[r] EXCEPT !.pc = "pttl", !.type = type]
<1>1. CASE type = "none"
  BY <1>1, Failed DEF ReadType
<1>2. CASE type # "none"
  <2>1. /\ req[r] \in Request /\ LocalInv(req[r]) /\ Attach(req[r], db)
        /\ Remembers(req[r], seen[r], db) /\ TtlInv(req[r], seen[r], now)
        /\ CloneInv(req[r], seen[r], disturbed[r], db[req[r].dst], now)
        /\ db \in Database /\ req[r].pc = "type"
    BY Known DEF ReadType
  <2>2. type \in Types
    BY <1>2, <2>1 DEF TypeOf, Live, Database, Entry, Request
  <2> HIDE DEF type
  <2>3. /\ q \in Request /\ q.pc = "pttl" /\ q.type = type /\ q.src = req[r].src
        /\ q.dst = req[r].dst /\ q.fresh = req[r].fresh /\ q.since = req[r].since
        /\ q.ttl = req[r].ttl /\ q.via = req[r].via /\ q.op = req[r].op
        /\ q.visited = req[r].visited /\ q.attached = req[r].attached
        /\ q.result = req[r].result
    BY <2>1, <2>2 DEF Request, Places
  <2>4. Only(r, q)
    BY <1>2 DEF ReadType, type
  <2> HIDE DEF q
  <2>5. LocalInv(q) /\ Attach(q, db)
    BY <1>2, <2>1, <2>3 DEF LocalInv, Attach
  <2>6. Remembers(q, seen[r], db) /\ TtlInv(q, seen[r], now)
    BY <2>1, <2>3 DEF Remembers, TtlInv
  <2>7. CloneInv(q, seen[r], disturbed[r], db[q.dst], now)
    BY <2>1, <2>3 DEF CloneInv, Undisturbed
  <2> QED
    BY <2>3, <2>4, <2>5, <2>6, <2>7, OnlyStep
<1> QED
  BY <1>1, <1>2

\* What PTTL answers is, to the millisecond, the time the entry had left.
LEMMA PTTLBounds ==
  ASSUME NEW d \in Database, NEW t \in Int, NEW k \in Keys
  PROVE  /\ PTTL(d, t, k) \in Int
         /\ PTTL(d, t, k) > 0 =>
              /\ d[k] # Absent /\ d[k].deadline \in Int
              /\ MsTicks(PTTL(d, t, k)) <= d[k].deadline - t
              /\ d[k].deadline - t < MsTicks(PTTL(d, t, k)) + TicksPerMs
<1> DEFINE rest == d[k].deadline - t
           p == PTTL(d, t, k)
<1>1. CASE Live(d, t, k) /\ d[k].deadline # Never /\ ~(rest <= 0)
  <2>1. d[k].deadline \in Int /\ rest \in Nat
    BY <1>1 DEF Live, Database, Entry
  <2>2. p = rest \div TicksPerMs
    BY <1>1 DEF PTTL
  <2>3. /\ p \in Nat /\ p * TicksPerMs <= rest
        /\ rest < (p + 1) * TicksPerMs
    BY <2>1, <2>2, DivisionBounds, ConstantsAssumption
  <2> HIDE DEF p
  <2>4. (p + 1) * TicksPerMs = MsTicks(p) + TicksPerMs /\ p * TicksPerMs = MsTicks(p)
    BY <2>3, ConstantsAssumption DEF MsTicks
  <2> QED
    BY <1>1, <2>1, <2>3, <2>4 DEF Live, p
<1>2. CASE ~(Live(d, t, k) /\ d[k].deadline # Never /\ ~(rest <= 0))
  BY <1>2 DEF PTTL
<1> QED
  BY <1>1, <1>2

LEMMA ReadTTLStep ==
  ASSUME IInv, NEW r \in Reqs, ReadTTL(r)
  PROVE  IInv'
<1> DEFINE ttl == PTTL(db, now, req[r].src)
           q == [req[r] EXCEPT !.pc = "fetch", !.since = now, !.ttl = ttl]
<1>1. /\ req[r] \in Request /\ LocalInv(req[r]) /\ Attach(req[r], db)
      /\ Remembers(req[r], seen[r], db) /\ seen[r] \in SUBSET Entry
      /\ CloneInv(req[r], seen[r], disturbed[r], db[req[r].dst], now)
      /\ now \in Nat /\ db \in Database /\ req[r].pc = "pttl"
  BY Known DEF ReadTTL
<1>2. /\ ttl \in Int /\ req[r].src \in Keys
      /\ ttl > 0 =>
           /\ db[req[r].src] # Absent /\ db[req[r].src].deadline \in Int
           /\ MsTicks(ttl) <= db[req[r].src].deadline - now
           /\ db[req[r].src].deadline - now < MsTicks(ttl) + TicksPerMs
  BY <1>1, PTTLBounds DEF Request
<1> HIDE DEF ttl
<1>3. /\ q \in Request /\ q.pc = "fetch" /\ q.type = req[r].type
      /\ q.src = req[r].src /\ q.dst = req[r].dst /\ q.fresh = req[r].fresh
      /\ q.since = now /\ q.ttl = ttl /\ q.via = req[r].via /\ q.op = req[r].op
      /\ q.visited = req[r].visited /\ q.attached = req[r].attached
      /\ q.result = req[r].result
  BY <1>1, <1>2 DEF Request, Places
<1>4. Only(r, q)
  BY DEF ReadTTL, ttl
<1> HIDE DEF q
<1>5. LocalInv(q) /\ Attach(q, db)
  BY <1>1, <1>3 DEF LocalInv, Attach
<1>6. Remembers(q, seen[r], db)
  BY <1>1, <1>3 DEF Remembers
<1>7. TtlInv(q, seen[r], now)
  <2>1. db[req[r].src] # Absent => db[req[r].src] \in seen[r]
    BY <1>1 DEF Remembers
  <2> QED
    BY <1>1, <1>2, <1>3, <2>1, ConstantsAssumption DEF TtlInv
<1>8. CloneInv(q, seen[r], disturbed[r], db[q.dst], now)
  BY <1>1, <1>3 DEF CloneInv, Undisturbed
<1> QED
  BY <1>3, <1>4, <1>5, <1>6, <1>7, <1>8, OnlyStep

LEMMA FetchStep ==
  ASSUME IInv, NEW r \in Reqs, Fetch(r)
  PROVE  IInv'
<1> DEFINE k == req[r].src
           e == db[k]
<1>1. /\ req[r] \in Request /\ LocalInv(req[r]) /\ Attach(req[r], db)
      /\ Remembers(req[r], seen[r], db) /\ seen[r] \in SUBSET Entry
      /\ TtlInv(req[r], seen[r], now)
      /\ CloneInv(req[r], seen[r], disturbed[r], db[req[r].dst], now)
      /\ db \in Database /\ req[r].pc = "fetch" /\ k \in Keys
  BY Known DEF Fetch, Request
<1>2. CASE Live(db, now, k)
  <2> DEFINE q == [req[r] EXCEPT !.pc = "extract", !.attached = TRUE,
                     !.via = "pointer", !.got = e.type, !.val = e.val]
  <2>1. e \in Entry /\ e # Absent /\ e \in seen[r]
    BY <1>1, <1>2 DEF Live, Database, Remembers
  <2>2. e.type \in Types /\ e.val \in SUBSET Items /\ e.val \in Payload(e.type)
    BY <2>1 DEF Entry
  <2>3. Only(r, q)
    BY <1>2 DEF Fetch
  <2> HIDE DEF e
  <2>4. /\ q \in Request /\ q.pc = "extract" /\ q.type = req[r].type
        /\ q.src = k /\ q.dst = req[r].dst /\ q.fresh = req[r].fresh
        /\ q.since = req[r].since /\ q.ttl = req[r].ttl /\ q.via = "pointer"
        /\ q.op = req[r].op /\ q.visited = req[r].visited /\ q.attached
        /\ q.result = req[r].result /\ q.got = e.type /\ q.val = e.val
    BY <1>1, <2>2 DEF Request, Places
  <2> HIDE DEF q
  <2>5. LocalInv(q)
    BY <1>1, <2>2, <2>4 DEF LocalInv, Types
  <2>6. Attach(q, db)
    BY <2>1, <2>4 DEF Attach, e
  <2>7. Remembers(q, seen[r], db) /\ TtlInv(q, seen[r], now)
    BY <1>1, <2>4 DEF Remembers, TtlInv
  <2>8. CloneInv(q, seen[r], disturbed[r], db[q.dst], now)
    BY <1>1, <2>1, <2>4 DEF CloneInv, Undisturbed, From, LocalInv
  <2> QED
    BY <2>3, <2>4, <2>5, <2>6, <2>7, <2>8, OnlyStep
<1>3. CASE ~Live(db, now, k)
  <2> DEFINE q == [req[r] EXCEPT !.pc = "command", !.via = "command"]
  <2>1. Only(r, q)
    BY <1>3 DEF Fetch
  <2>2. /\ q \in Request /\ q.pc = "command" /\ q.type = req[r].type
        /\ q.src = k /\ q.since = req[r].since /\ q.ttl = req[r].ttl
        /\ q.via = "command" /\ q.visited = req[r].visited
        /\ q.attached = req[r].attached /\ q.result = req[r].result
    BY <1>1 DEF Request, Places
  <2> HIDE DEF q
  <2>3. LocalInv(q) /\ Attach(q, db)
    BY <1>1, <2>2 DEF LocalInv, Attach
  <2>4. Remembers(q, seen[r], db) /\ TtlInv(q, seen[r], now)
    BY <1>1, <2>2 DEF Remembers, TtlInv
  <2>5. CloneInv(q, seen[r], disturbed[r], db[q.dst], now)
    BY <2>2 DEF CloneInv, Undisturbed
  <2> QED
    BY <2>1, <2>2, <2>3, <2>4, <2>5, OnlyStep
<1> QED
  BY <1>2, <1>3

\* With its value a request goes on to answer or to write.  From here on the
\* value of a hash alone may be the live one.
LEMMA AfterReadStep ==
  ASSUME IInv, NEW r \in Reqs, NEW q \in Request, Only(r, AfterRead(q)),
         q.src = req[r].src, q.dst = req[r].dst, Active(r),
         q.since = req[r].since, q.ttl = req[r].ttl, q.visited = {},
         q.result = "none", q.type # "none", Attach(q, db),
         q.attached => q.type = "hash" /\ q.got = "hash",
         q.val \subseteq ItemsOf(q.type),
         Undisturbed(q, disturbed[r]) =>
           Read(seen[r], q.type, q.val) /\ db[q.dst] = Absent
  PROVE  IInv'
<1> DEFINE p == AfterRead(q)
<1>1. Remembers(req[r], seen[r], db) /\ TtlInv(req[r], seen[r], now)
  BY Known
<1>2. \/ q.op = "detail" /\ p = [q EXCEPT !.pc = "encode"]
      \/ q.op = "duplicate" /\ q.type = "stream" /\ p = Finish(q, "unsupported")
      \/ /\ q.op = "duplicate" /\ q.type \in {"list", "set", "zset"}
         /\ p = [q EXCEPT !.pc = "clear", !.left = q.val]
      \/ /\ q.op = "duplicate" /\ q.type \in {"string", "hash"}
         /\ p = [q EXCEPT !.pc = "write", !.left = q.val]
  BY DEF AfterRead, Request, Types
<1>3. /\ p \in Request /\ p.src = q.src /\ p.dst = q.dst /\ p.since = q.since
      /\ p.ttl = q.ttl /\ p.visited = {} /\ p.type = q.type /\ p.got = q.got
      /\ p.val = q.val /\ p.op = q.op /\ p.via = q.via /\ p.fresh = q.fresh
      /\ p.attached => q.attached
  BY <1>2 DEF Request, Places, Results, Finish
<1>4. \/ p.op = "detail" /\ p.pc = "encode" /\ p.result = "none"
      \/ p.pc = "done" /\ p.result = "unsupported" /\ ~p.attached
      \/ /\ p.op = "duplicate" /\ p.type \in {"list", "set", "zset"}
         /\ p.pc = "clear" /\ p.left = p.val /\ p.result = "none"
      \/ /\ p.op = "duplicate" /\ p.type \in {"string", "hash"}
         /\ p.pc = "write" /\ p.left = p.val /\ p.result = "none"
  BY <1>2 DEF Request, Finish
<1> HIDE DEF p
<1>5. LocalInv(p)
  BY <1>3, <1>4 DEF LocalInv, Payloads
<1>6. Attach(p, db)
  BY <1>3 DEF Attach
<1>7. Remembers(p, seen[r], db) /\ TtlInv(p, seen[r], now)
  BY <1>1, <1>3 DEF Remembers, TtlInv, Active
<1>8. CloneInv(p, seen[r], disturbed[r], db[p.dst], now)
  <2>1. p.type = "hash" /\ Read(seen[r], p.type, p.val) => From(seen[r], "hash", p.val)
    BY DEF Read
  <2> QED
    BY <1>3, <1>4, <2>1 DEF CloneInv, Undisturbed, Partial
<1> QED
  BY <1>3, <1>5, <1>6, <1>7, <1>8, OnlyStep DEF p

\* What a payload holds.
LEMMA PayloadItems ==
  ASSUME NEW type \in Types
  PROVE  \A val \in Payload(type) : val \subseteq ItemsOf(type)
BY DEF Types, Payload, ItemsOf

LEMMA ExtractStep ==
  ASSUME IInv, NEW r \in Reqs, Extract(r)
  PROVE  IInv'
<1>1. /\ req[r] \in Request /\ LocalInv(req[r]) /\ Attach(req[r], db)
      /\ Remembers(req[r], seen[r], db) /\ TtlInv(req[r], seen[r], now)
      /\ CloneInv(req[r], seen[r], disturbed[r], db[req[r].dst], now)
      /\ req[r].pc = "extract"
  BY Known DEF Extract
<1>2. CASE req[r].got # req[r].type
  BY <1>2, Failed DEF Extract
<1>3. CASE req[r].got = req[r].type /\ req[r].type # "set"
  <2> DEFINE q == [req[r] EXCEPT !.attached = @ /\ req[r].type = "hash"]
  <2>1. Only(r, AfterRead(q))
    BY <1>3 DEF Extract
  <2>2. /\ q \in Request /\ q.pc = "extract" /\ q.type = req[r].type
        /\ q.src = req[r].src /\ q.dst = req[r].dst /\ q.fresh = req[r].fresh
        /\ q.since = req[r].since /\ q.ttl = req[r].ttl /\ q.via = req[r].via
        /\ q.op = req[r].op /\ q.visited = req[r].visited
        /\ q.attached = (req[r].attached /\ req[r].type = "hash")
        /\ q.result = req[r].result /\ q.got = req[r].got /\ q.val = req[r].val
    BY <1>1 DEF Request
  <2> HIDE DEF q
  <2>3. /\ q.visited = {} /\ q.result = "none" /\ q.type # "none"
        /\ q.type \in Types
        /\ q.attached => q.type = "hash" /\ q.got = "hash"
        /\ q.val \in Payload(q.type)
    BY <1>1, <1>3, <2>2 DEF LocalInv, Request, Results
  <2>4. q.val \subseteq ItemsOf(q.type)
    BY <2>3, PayloadItems
  <2>5. Attach(q, db)
    BY <1>1, <2>2 DEF Attach
  <2>6. Undisturbed(q, disturbed[r]) =>
           Read(seen[r], q.type, q.val) /\ db[q.dst] = Absent
    BY <1>1, <1>3, <2>2 DEF CloneInv, Undisturbed, Read
  <2>7. Active(r)
    BY <1>1 DEF Active
  <2> QED
    BY <2>1, <2>2, <2>3, <2>4, <2>5, <2>6, <2>7, AfterReadStep
<1>4. CASE req[r].got = req[r].type /\ req[r].type = "set"
  <2> DEFINE q == [req[r] EXCEPT !.pc = "members", !.left = req[r].val]
  <2>1. Only(r, q)
    BY <1>4 DEF Extract
  <2>2. /\ q \in Request /\ q.pc = "members" /\ q.type = "set" /\ q.got = "set"
        /\ q.src = req[r].src /\ q.dst = req[r].dst /\ q.fresh = req[r].fresh
        /\ q.since = req[r].since /\ q.ttl = req[r].ttl /\ q.via = req[r].via
        /\ q.op = req[r].op /\ q.visited = {} /\ q.attached = req[r].attached
        /\ q.result = req[r].result /\ q.val = req[r].val /\ q.left = req[r].val
    BY <1>1, <1>4 DEF Request, Places, LocalInv
  <2> HIDE DEF q
  <2>3. q.val \subseteq Vals
    BY <1>1, <1>4, <2>2 DEF LocalInv, Payload
  <2>4. LocalInv(q) /\ Attach(q, db)
    <3>1. req[r].result = "none" /\ req[r].got = "set"
      BY <1>1, <1>4 DEF LocalInv
    <3>2. LocalInv(q)
      BY <2>2, <2>3, <3>1 DEF LocalInv
    <3> QED
      BY <1>1, <2>2, <3>1, <3>2 DEF Attach
  <2>5. Remembers(q, seen[r], db) /\ TtlInv(q, seen[r], now)
    BY <1>1, <2>2 DEF Remembers, TtlInv
  <2>6. CloneInv(q, seen[r], disturbed[r], db[q.dst], now)
    BY <1>1, <1>4, <2>2 DEF CloneInv, Undisturbed
  <2> QED
    BY <2>1, <2>2, <2>4, <2>5, <2>6, OnlyStep
<1> QED
  BY <1>2, <1>3, <1>4

\* One more member: the source has it now, so the history has it.
LEMMA CopyMemberStep ==
  ASSUME IInv, NEW r \in Reqs, CopyMember(r)
  PROVE  IInv'
<1>1. /\ req[r] \in Request /\ LocalInv(req[r]) /\ Attach(req[r], db)
      /\ Remembers(req[r], seen[r], db) /\ TtlInv(req[r], seen[r], now)
      /\ CloneInv(req[r], seen[r], disturbed[r], db[req[r].dst], now)
      /\ req[r].pc = "members"
  BY Known DEF CopyMember
<1>2. PICK m \in req[r].val \ req[r].visited :
        Only(r, [req[r] EXCEPT !.visited = @ \cup {m}])
  BY DEF CopyMember
<1> DEFINE q == [req[r] EXCEPT !.visited = @ \cup {m}]
<1>3. m \in Vals
  BY <1>1 DEF LocalInv
<1>4. /\ q \in Request /\ q.pc = "members" /\ q.type = req[r].type
      /\ q.got = req[r].got /\ q.src = req[r].src /\ q.dst = req[r].dst
      /\ q.fresh = req[r].fresh /\ q.since = req[r].since /\ q.ttl = req[r].ttl
      /\ q.via = req[r].via /\ q.op = req[r].op /\ q.attached = req[r].attached
      /\ q.result = req[r].result /\ q.val = req[r].val /\ q.left = req[r].left
      /\ q.visited = req[r].visited \cup {m}
  BY <1>1, <1>3 DEF Request
<1>5. Only(r, q)
  BY <1>2
<1> HIDE DEF q
<1>6. LocalInv(q) /\ Attach(q, db)
  BY <1>1, <1>3, <1>4 DEF LocalInv, Attach
<1>7. Remembers(q, seen[r], db) /\ TtlInv(q, seen[r], now)
  BY <1>1, <1>4 DEF Remembers, TtlInv
<1>8. CloneInv(q, seen[r], disturbed[r], db[q.dst], now)
  <2>1. ASSUME Undisturbed(q, disturbed[r])
        PROVE  /\ From(seen[r], "set", q.val) /\ From(seen[r], "set", q.left)
               /\ q.visited \subseteq UNION ValsOf(seen[r], "set")
               /\ db[q.dst] = Absent
    <3>1. /\ From(seen[r], "set", req[r].val) /\ From(seen[r], "set", req[r].left)
          /\ req[r].visited \subseteq UNION ValsOf(seen[r], "set")
          /\ db[q.dst] = Absent
      BY <1>1, <1>4, <2>1 DEF CloneInv, Undisturbed, LocalInv
    <3>2. m \in UNION ValsOf(seen[r], "set")
      BY <3>1 DEF From, ValsOf
    <3> QED
      BY <1>4, <3>1, <3>2
  <2> QED
    BY <1>1, <1>4, <2>1 DEF CloneInv, LocalInv
<1> QED
  BY <1>4, <1>5, <1>6, <1>7, <1>8, OnlyStep

\* The loop has passed all that was there when it began, so all that was there
\* the whole time.
LEMMA MembersDoneStep ==
  ASSUME IInv, NEW r \in Reqs, MembersDone(r)
  PROVE  IInv'
<1> DEFINE q == [req[r] EXCEPT !.val = req[r].visited, !.visited = {},
                               !.attached = FALSE]
           S == seen[r]
<1>1. /\ req[r] \in Request /\ LocalInv(req[r])
      /\ Remembers(req[r], S, db)
      /\ CloneInv(req[r], S, disturbed[r], db[req[r].dst], now)
      /\ req[r].pc = "members" /\ req[r].left \subseteq req[r].visited
  BY Known DEF MembersDone
<1>2. Only(r, AfterRead(q))
  BY DEF MembersDone
<1>3. req[r].visited \in SUBSET Items /\ req[r].type = "set"
  BY <1>1 DEF LocalInv, Items
<1>4. /\ q \in Request /\ q.type = "set"
      /\ q.src = req[r].src /\ q.dst = req[r].dst /\ q.fresh = req[r].fresh
      /\ q.since = req[r].since /\ q.ttl = req[r].ttl /\ q.via = req[r].via
      /\ q.op = req[r].op /\ q.visited = {} /\ ~q.attached
      /\ q.result = req[r].result /\ q.val = req[r].visited
  BY <1>1, <1>3 DEF Request
<1> HIDE DEF q
<1>5. q.val \subseteq ItemsOf(q.type) /\ q.result = "none"
  BY <1>1, <1>4 DEF LocalInv, ItemsOf, Request, Results
<1>6. ASSUME Undisturbed(q, disturbed[r])
      PROVE  Read(S, "set", q.val) /\ db[q.dst] = Absent
  <2>1. /\ From(S, "set", req[r].left)
        /\ req[r].visited \subseteq UNION ValsOf(S, "set")
        /\ db[q.dst] = Absent
    BY <1>1, <1>4, <1>6 DEF CloneInv, Undisturbed
  <2>2. req[r].left \in ValsOf(S, "set") /\ req[r].left # {}
    BY <1>1, <2>1 DEF From, ValsOf, Remembers
  <2>3. PiecesOf(q.val, "set", ValsOf(S, "set"))
    BY <1>1, <1>4, <2>1, <2>2 DEF PiecesOf, Names
  <2> QED
    BY <1>1, <1>4, <2>1, <2>2, <2>3 DEF Read
<1>7. Attach(q, db) /\ Active(r)
  BY <1>1, <1>4 DEF Attach, Active
<1> QED
  BY <1>2, <1>4, <1>5, <1>6, <1>7, AfterReadStep

LEMMA CommandReadStep ==
  ASSUME IInv, NEW r \in Reqs, CommandRead(r)
  PROVE  IInv'
<1> DEFINE k == req[r].src
           type == req[r].type
<1>1. /\ req[r] \in Request /\ LocalInv(req[r]) /\ Attach(req[r], db)
      /\ req[r].pc = "command" /\ db \in Database /\ k \in Keys
      /\ type \in Types
  BY Known DEF CommandRead, Request, LocalInv
<1>2. CASE type # "stream" /\ Live(db, now, k) /\ db[k].type # type
  BY <1>2, Failed DEF CommandRead
<1>3. CASE ~(type # "stream" /\ Live(db, now, k) /\ db[k].type # type)
  <2>1. PICK val \in IF type = "stream" THEN {{}} ELSE CommandValues(req[r]) :
               Only(r, AfterRead([req[r] EXCEPT !.val = val]))
    BY <1>3 DEF CommandRead
  <2> DEFINE q == [req[r] EXCEPT !.val = val]
  <2>2. val \subseteq ItemsOf(type)
    <3>1. CASE type = "stream" \/ ~Live(db, now, k)
      <4>1. val = {} \/ (type = "string" /\ val = {NilText})
        BY <2>1, <3>1 DEF CommandValues
      <4> QED
        BY <4>1, ExplorerAssumption DEF ItemsOf
    <3>2. CASE type # "stream" /\ Live(db, now, k)
      <4>1. val \subseteq db[k].val
        BY <2>1, <3>2 DEF CommandValues
      <4>2. db[k].val \in Payload(type)
        BY <1>1, <1>3, <3>2 DEF Live, Database, Entry
      <4> QED
        BY <1>1, <4>1, <4>2, PayloadItems
    <3> QED
      BY <3>1, <3>2
  <2>3. val \in SUBSET Items
    BY <2>2 DEF ItemsOf, Items
  <2>4. /\ q \in Request /\ q.type = type /\ q.src = k /\ q.dst = req[r].dst
        /\ q.since = req[r].since /\ q.ttl = req[r].ttl /\ q.via = req[r].via
        /\ q.visited = req[r].visited /\ q.attached = req[r].attached
        /\ q.result = req[r].result /\ q.val = val
    BY <1>1, <2>3 DEF Request
  <2> HIDE DEF q
  <2>5. /\ q.visited = {} /\ q.result = "none" /\ q.type # "none"
        /\ ~q.attached /\ q.via = "command"
    BY <1>1, <2>4 DEF LocalInv, Request, Results
  <2>6. Attach(q, db) /\ ~Undisturbed(q, disturbed[r])
    BY <2>5 DEF Attach, Undisturbed
  <2>7. Active(r)
    BY <1>1 DEF Active
  <2>8. Only(r, AfterRead(q))
    BY <2>1 DEF q
  <2> QED
    BY <2>2, <2>4, <2>5, <2>6, <2>7, <2>8, AfterReadStep
<1> QED
  BY <1>2, <1>3

\* The answer to a request that shows a key says nothing about a clone.
LEMMA EncodeStep ==
  ASSUME IInv, NEW r \in Reqs, Encode(r)
  PROVE  IInv'
<1> DEFINE q == Finish(req[r], "ok")
<1>1. /\ req[r] \in Request /\ LocalInv(req[r]) /\ Remembers(req[r], seen[r], db)
      /\ TtlInv(req[r], seen[r], now) /\ req[r].pc = "encode"
  BY Known DEF Encode
<1>2. /\ q \in Request /\ q.pc = "done" /\ q.result = "ok" /\ ~q.attached
      /\ q.since = req[r].since /\ q.ttl = req[r].ttl /\ q.op = req[r].op
  BY <1>1 DEF Finish, Request, Places, Results
<1>3. Only(r, q)
  BY DEF Encode
<1> HIDE DEF q
<1>4. LocalInv(q) /\ Attach(q, db)
  BY <1>2 DEF LocalInv, Attach
<1>5. Remembers(q, seen[r], db) /\ TtlInv(q, seen[r], now)
  BY <1>1, <1>2 DEF Remembers, TtlInv
<1>6. CloneInv(q, seen[r], disturbed[r], db[q.dst], now)
  BY <1>1, <1>2 DEF CloneInv, Undisturbed, LocalInv
<1> QED
  BY <1>2, <1>3, <1>4, <1>5, <1>6, OnlyStep
-----------------------------------------------------------------------------
(* DuplicateKey *)

LEMMA ClearStep ==
  ASSUME IInv, NEW r \in Reqs, Clear(r)
  PROVE  IInv'
<1> DEFINE q == [req[r] EXCEPT !.pc = "write"]
           dst == req[r].dst
<1>1. /\ req[r] \in Request /\ LocalInv(req[r]) /\ Attach(req[r], db)
      /\ CloneInv(req[r], seen[r], disturbed[r], db[dst], now)
      /\ TypeOK /\ db \in Database /\ req[r].pc = "clear" /\ dst \in Keys
  BY Known DEF Clear, Request
<1>2. /\ q \in Request /\ q.pc = "write" /\ q.type = req[r].type
      /\ q.src = req[r].src /\ q.dst = dst /\ q.fresh = req[r].fresh
      /\ q.since = req[r].since /\ q.ttl = req[r].ttl /\ q.via = req[r].via
      /\ q.op = req[r].op /\ q.attached = req[r].attached /\ q.left = req[r].left
      /\ q.visited = req[r].visited /\ q.result = req[r].result
      /\ q.val = req[r].val
  BY <1>1 DEF Request, Places
<1>3. Own(r, q, "replaced") /\ UNCHANGED readOnly
  BY DEF Clear, Del, Command
<1> HIDE DEF q
<1>4. Changes({dst}, "replaced")
  BY <1>1, DelChanges DEF Clear
<1>5. db'[dst] = Absent
  BY <1>1 DEF Clear, Del, Command, DoDel
<1>6. LocalInv(q) /\ Attach(q, db)
  BY <1>1, <1>2 DEF LocalInv, Attach
<1>7. seen[r] \subseteq seen'[r]
  BY <1>1, <1>3, <1>4, WroteSeen DEF Own, SeenMore
<1>8. CloneInv(q, seen'[r], disturbed[r], db'[q.dst], now)
  <2>1. ASSUME Undisturbed(q, disturbed[r])
        PROVE  Read(seen'[r], q.type, q.val)
    <3>1. Read(seen[r], q.type, q.val)
      BY <1>1, <1>2, <2>1 DEF CloneInv, Undisturbed
    <3> QED
      BY <1>7, <3>1, CopyMonotone
  <2>2. q.type \in {"list", "set", "zset"} /\ q.left = q.val
    BY <1>1, <1>2 DEF LocalInv
  <2> QED
    BY <1>2, <1>5, <2>1, <2>2 DEF CloneInv, Partial
<1>9. Active(r)
  BY <1>1 DEF Active
<1> QED
  BY <1>2, <1>3, <1>4, <1>6, <1>8, <1>9, OwnStep

LEMMA WriteStringStep ==
  ASSUME IInv, NEW r \in Reqs, WriteString(r)
  PROVE  IInv'
<1> DEFINE q == [req[r] EXCEPT !.pc = "expire"]
           dst == req[r].dst
<1>1. /\ req[r] \in Request /\ LocalInv(req[r]) /\ Attach(req[r], db)
      /\ CloneInv(req[r], seen[r], disturbed[r], db[dst], now)
      /\ TypeOK /\ db \in Database /\ req[r].pc = "write" /\ dst \in Keys
      /\ req[r].type = "string" /\ seen[r] \in SUBSET Entry /\ now \in Nat
  BY Known DEF WriteString, Request
<1>2. /\ q \in Request /\ q.pc = "expire" /\ q.type = req[r].type
      /\ q.src = req[r].src /\ q.dst = dst /\ q.fresh = req[r].fresh
      /\ q.since = req[r].since /\ q.ttl = req[r].ttl /\ q.via = req[r].via
      /\ q.op = req[r].op /\ q.attached = req[r].attached
      /\ q.result = req[r].result /\ q.val = req[r].val
  BY <1>1 DEF Request, Places
<1>3. PICK v \in req[r].val : Set(dst, v, 0)
  BY DEF WriteString
<1>4. v \in Vals
  BY <1>1 DEF LocalInv, ItemsOf
<1>5. Own(r, q, "replaced") /\ UNCHANGED readOnly
  BY <1>3 DEF WriteString, Set, Command
<1> HIDE DEF q
<1>6. Changes({dst}, "replaced")
  BY <1>1, <1>3, <1>4, SetChanges
<1>7. db'[dst] = [type |-> "string", val |-> {v}, deadline |-> Never]
  <2>1. SecTicks(0) = 0
    BY ConstantsAssumption DEF SecTicks
  <2> QED
    BY <1>1, <1>3, <2>1 DEF Set, Command, DoSet, Put, DeadlineAfter, Database
<1>8. LocalInv(q) /\ Attach(q, db)
  <2>1. ~q.attached
    BY <1>1, <1>2 DEF LocalInv
  <2> QED
    BY <1>1, <1>2, <2>1 DEF LocalInv, Attach
<1>9. seen[r] \subseteq seen'[r]
  BY <1>1, <1>5, <1>6, WroteSeen DEF Own, SeenMore
<1>10. CloneInv(q, seen'[r], disturbed[r], db'[q.dst], now)
  <2>1. ASSUME Undisturbed(q, disturbed[r])
        PROVE  CopyOf(db'[dst], "string", seen'[r])
    <3>1. PICK e \in seen[r] : e.type = "string" /\ e.val = req[r].val
      BY <1>1, <1>2, <2>1 DEF CloneInv, Undisturbed, Read, From
    <3>2. e.val \in Payload("string")
      BY <1>1, <3>1 DEF Entry
    <3>3. e.val = {v}
      BY <1>3, <3>1, <3>2 DEF Payload
    <3>4. db'[dst] # Absent
      <4>1. {v} \in Payload("string") /\ {v} \in SUBSET Items
        BY <1>4 DEF Payload, Items
      <4>2. db'[dst] \in Entry
        BY <1>7, <4>1 DEF Entry, Types
      <4> QED
        BY <4>2, ConstantsAssumption
    <3> QED
      BY <1>7, <1>9, <3>1, <3>3, <3>4 DEF CopyOf, From
  <2> QED
    BY <1>1, <1>2, <1>7, <2>1 DEF CloneInv
<1>11. Active(r)
  BY <1>1 DEF Active
<1> QED
  BY <1>2, <1>5, <1>6, <1>8, <1>10, <1>11, OwnStep

\* RPUSH or SADD of everything onto a name that is free makes the copy.
LEMMA WriteAllStep ==
  ASSUME IInv, NEW r \in Reqs, WriteAll(r)
  PROVE  IInv'
<1> DEFINE q == [req[r] EXCEPT !.pc = "expire"]
           dst == req[r].dst
           type == req[r].type
           val == req[r].val
<1>1. /\ req[r] \in Request /\ LocalInv(req[r]) /\ Attach(req[r], db)
      /\ CloneInv(req[r], seen[r], disturbed[r], db[dst], now)
      /\ TypeOK /\ db \in Database /\ req[r].pc = "write" /\ dst \in Keys
      /\ type \in {"list", "set"} /\ val # {}
  BY Known DEF WriteAll, Request
<1>2. /\ q \in Request /\ q.pc = "expire" /\ q.type = type
      /\ q.src = req[r].src /\ q.dst = dst /\ q.fresh = req[r].fresh
      /\ q.since = req[r].since /\ q.ttl = req[r].ttl /\ q.via = req[r].via
      /\ q.op = req[r].op /\ q.attached = req[r].attached
      /\ q.result = req[r].result /\ q.val = val
  BY <1>1 DEF Request, Places
<1>3. /\ db' = DoAdd(db, dst, type, val) /\ UNCHANGED <<now, readOnly>>
  BY <1>1 DEF WriteAll, Push, SAdd, Command
<1>4. Own(r, q, AddKind(dst, type))
  BY DEF WriteAll
<1> HIDE DEF q
<1>5. val \in Payload(type)
  BY <1>1 DEF LocalInv, ItemsOf, Payload
<1>6. /\ Changes({dst}, AddKind(dst, type)) /\ db'[dst] # Absent
      /\ db'[dst].type = type
      /\ db'[dst].val = Merge(type, Collection(db, dst, type).val, val)
      /\ db'[dst].deadline = Collection(db, dst, type).deadline
  <2>1. /\ type \in {"hash", "list", "set", "zset"} /\ val # {} /\ now' = now
        /\ TypeOK /\ dst \in Keys
    BY <1>1, <1>3
  <2> HIDE DEF type, val, dst
  <2> QED
    BY <1>3, <1>5, <2>1, AddChanges
<1>7. LocalInv(q) /\ Attach(q, db)
  <2>1. ~q.attached
    BY <1>1, <1>2 DEF LocalInv
  <2> QED
    BY <1>1, <1>2, <2>1 DEF LocalInv, Attach, Payloads
<1>8. seen[r] \subseteq seen'[r]
  BY <1>1, <1>4, <1>6, WroteSeen DEF Own, SeenMore
<1>9. CloneInv(q, seen'[r], disturbed[r], db'[q.dst], now)
  <2>1. ASSUME Undisturbed(q, disturbed[r])
        PROVE  CopyOf(db'[dst], type, seen'[r]) /\ db'[dst].deadline = Never
    <3>1. Read(seen[r], type, val) /\ db[dst] = Absent
      BY <1>1, <1>2, <2>1 DEF CloneInv, Undisturbed, Partial
    <3>2. Collection(db, dst, type) = [type |-> type, val |-> {}, deadline |-> Never]
      BY <3>1 DEF Collection, Holds
    <3>3. db'[dst].val = val /\ db'[dst].deadline = Never
      BY <1>1, <1>6, <3>2 DEF Merge
    <3>4. Read(seen'[r], type, val)
      BY <1>8, <3>1, CopyMonotone
    <3> QED
      BY <1>1, <1>6, <3>3, <3>4 DEF CopyOf, Read
  <2> QED
    BY <1>2, <2>1 DEF CloneInv
<1>10. Active(r)
  BY <1>1 DEF Active
<1> QED
  BY <1>2, <1>3, <1>4, <1>6, <1>7, <1>9, <1>10, OwnStep

\* One ZADD: the target has what has left the list.
LEMMA WriteMemberStep ==
  ASSUME IInv, NEW r \in Reqs, WriteMember(r)
  PROVE  IInv'
<1> DEFINE dst == req[r].dst
           c == Collection(db, dst, "zset")
<1>1. /\ req[r] \in Request /\ LocalInv(req[r]) /\ Attach(req[r], db)
      /\ CloneInv(req[r], seen[r], disturbed[r], db[dst], now)
      /\ TypeOK /\ db \in Database /\ req[r].pc = "write" /\ dst \in Keys
      /\ req[r].type = "zset"
  BY Known DEF WriteMember, Request
<1>2. PICK v \in req[r].left :
        /\ ZAdd(dst, v)
        /\ Own(r, [req[r] EXCEPT !.left = @ \ {v}], AddKind(dst, "zset"))
  BY DEF WriteMember
<1> DEFINE q == [req[r] EXCEPT !.left = @ \ {v}]
<1>3. /\ q \in Request /\ q.pc = "write" /\ q.type = "zset"
      /\ q.src = req[r].src /\ q.dst = dst /\ q.fresh = req[r].fresh
      /\ q.since = req[r].since /\ q.ttl = req[r].ttl /\ q.via = req[r].via
      /\ q.op = req[r].op /\ q.attached = req[r].attached
      /\ q.visited = req[r].visited /\ q.result = req[r].result
      /\ q.val = req[r].val /\ q.left = req[r].left \ {v}
  BY <1>1 DEF Request
<1>4. Own(r, q, AddKind(dst, "zset"))
  BY <1>2
<1> HIDE DEF q
<1>5. v \in Vals /\ v \in req[r].val /\ req[r].left \subseteq req[r].val
  BY <1>1 DEF LocalInv, ItemsOf
<1>6. db' = DoAdd(db, dst, "zset", {v}) /\ now' = now /\ readOnly' = readOnly
  BY <1>2 DEF ZAdd, Command
<1>7. {v} \in Payload("zset") /\ {v} # {}
  BY <1>5 DEF Payload
<1>8. /\ Changes({dst}, AddKind(dst, "zset")) /\ db'[dst] # Absent
      /\ db'[dst].type = "zset"
      /\ db'[dst].val = c.val \cup {v}
      /\ db'[dst].deadline = c.deadline
  <2>1. Merge("zset", c.val, {v}) = c.val \cup {v}
    BY DEF Merge
  <2> HIDE DEF dst
  <2> QED
    BY <1>1, <1>6, <1>7, <2>1, AddChanges
<1>9. LocalInv(q) /\ Attach(q, db)
  <2>1. ~q.attached
    BY <1>1, <1>3 DEF LocalInv
  <2> QED
    BY <1>1, <1>3, <2>1 DEF LocalInv, Attach
<1>10. seen[r] \subseteq seen'[r]
  BY <1>1, <1>4, <1>8, WroteSeen DEF Own, SeenMore
<1>11. CloneInv(q, seen'[r], disturbed[r], db'[q.dst], now)
  <2>1. ASSUME Undisturbed(q, disturbed[r])
        PROVE  From(seen'[r], "zset", q.val) /\ Partial(db'[dst], q, seen'[r])
    <3>1. From(seen[r], "zset", req[r].val) /\ Partial(db[dst], req[r], seen[r])
      BY <1>1, <1>3, <2>1 DEF CloneInv, Undisturbed, Read
    <3>2. /\ c.val = req[r].val \ req[r].left
          /\ c.deadline = Never
      BY <1>1, <3>1 DEF Partial, Collection, Holds
    <3>3. db'[dst].val = q.val \ q.left /\ db'[dst].deadline = Never
      BY <1>3, <1>5, <1>8, <3>2
    <3>4. Partial(db'[dst], q, seen'[r])
      BY <1>3, <1>8, <3>3 DEF Partial
    <3>5. From(seen'[r], "zset", q.val)
      BY <1>3, <1>10, <3>1, CopyMonotone
    <3> QED
      BY <3>4, <3>5
  <2> QED
    BY <1>3, <2>1 DEF CloneInv, Read
<1>12. Active(r)
  BY <1>1 DEF Active
<1> QED
  BY <1>3, <1>4, <1>6, <1>8, <1>9, <1>11, <1>12, OwnStep

\* One HSET: the target has the visited fields, each with a value it had.
LEMMA WriteFieldStep ==
  ASSUME IInv, NEW r \in Reqs, WriteField(r)
  PROVE  IInv'
<1> DEFINE dst == req[r].dst
           c == Collection(db, dst, "hash")
<1>1. /\ req[r] \in Request /\ LocalInv(req[r]) /\ Attach(req[r], db)
      /\ CloneInv(req[r], seen[r], disturbed[r], db[dst], now)
      /\ TypeOK /\ db \in Database /\ req[r].pc = "write" /\ dst \in Keys
      /\ req[r].type = "hash"
  BY Known DEF WriteField, Request
<1>2. PICK p \in req[r].val :
        /\ p[1] \notin req[r].visited
        /\ HSet(dst, p[1], p[2])
        /\ Own(r, [req[r] EXCEPT !.visited = @ \cup {p[1]}],
               AddKind(dst, "hash"))
  BY DEF WriteField
<1> DEFINE q == [req[r] EXCEPT !.visited = @ \cup {p[1]}]
<1>3. p \in Fields \X Vals
  BY <1>1 DEF LocalInv, ItemsOf
<1>4. p[1] \in Fields /\ p = <<p[1], p[2]>>
  BY <1>3
<1>5. /\ q \in Request /\ q.pc = "write" /\ q.type = "hash"
      /\ q.src = req[r].src /\ q.dst = dst /\ q.fresh = req[r].fresh
      /\ q.since = req[r].since /\ q.ttl = req[r].ttl /\ q.via = req[r].via
      /\ q.op = req[r].op /\ q.attached = req[r].attached
      /\ q.got = req[r].got
      /\ q.visited = req[r].visited \cup {p[1]} /\ q.result = req[r].result
      /\ q.val = req[r].val /\ q.left = req[r].left
  BY <1>1, <1>4 DEF Request
<1>6. Own(r, q, AddKind(dst, "hash"))
  BY <1>2
<1> HIDE DEF q
<1>7. db' = DoAdd(db, dst, "hash", {p}) /\ now' = now /\ readOnly' = readOnly
  BY <1>2, <1>4 DEF HSet, Command
<1>8. {p} \in Payload("hash") /\ {p} # {}
  BY <1>3 DEF Payload, Functional
<1>9. /\ Changes({dst}, AddKind(dst, "hash")) /\ db'[dst] # Absent
      /\ db'[dst].type = "hash"
      /\ db'[dst].val = {x \in c.val : p[1] # x[1]} \cup {p}
      /\ db'[dst].deadline = c.deadline
  <2>1. Merge("hash", c.val, {p}) = {x \in c.val : p[1] # x[1]} \cup {p}
    BY DEF Merge
  <2> HIDE DEF dst
  <2> QED
    BY <1>1, <1>7, <1>8, <2>1, AddChanges
<1>10. LocalInv(q) /\ Attach(q, db)
  BY <1>1, <1>5 DEF LocalInv, Attach
<1>11. seen[r] \subseteq seen'[r]
  BY <1>1, <1>6, <1>9, WroteSeen DEF Own, SeenMore
<1>12. CloneInv(q, seen'[r], disturbed[r], db'[q.dst], now)
  <2>1. ASSUME Undisturbed(q, disturbed[r])
        PROVE  From(seen'[r], "hash", q.val) /\ Partial(db'[dst], q, seen'[r])
    <3>1. From(seen[r], "hash", req[r].val) /\ Partial(db[dst], req[r], seen[r])
      BY <1>1, <1>5, <2>1 DEF CloneInv, Undisturbed, Read
    <3>2. From(seen'[r], "hash", req[r].val) /\ Partial(db[dst], req[r], seen'[r])
      BY <1>11, <3>1, CopyMonotone
    <3>3. /\ c.deadline = Never
          /\ c.val \subseteq UNION ValsOf(seen'[r], "hash")
          /\ \A f \in req[r].visited : \E x \in c.val : x[1] = f
          /\ \A x \in c.val : x[1] \in req[r].visited
      BY <1>1, <3>2 DEF Partial, Collection, Holds
    <3>4. p \in UNION ValsOf(seen'[r], "hash")
      BY <3>2 DEF From, ValsOf
    <3>5. /\ db'[dst].val \subseteq UNION ValsOf(seen'[r], "hash")
          /\ \A f \in q.visited : \E x \in db'[dst].val : x[1] = f
          /\ \A x \in db'[dst].val : x[1] \in q.visited
      <4>1. \A f \in q.visited : \E x \in db'[dst].val : x[1] = f
        <5> TAKE f \in q.visited
        <5>1. CASE f = p[1]
          BY <1>9, <5>1
        <5>2. CASE f # p[1]
          <6>1. PICK x \in c.val : x[1] = f
            BY <1>5, <3>3, <5>2
          <6> QED
            BY <1>9, <5>2, <6>1
        <5> QED
          BY <5>1, <5>2
      <4> QED
        BY <1>5, <1>9, <3>3, <3>4, <4>1
    <3>6. From(seen'[r], "hash", q.left)
      BY <1>1, <1>5, <3>2 DEF Partial
    <3>7. Partial(db'[dst], q, seen'[r])
      BY <1>5, <1>9, <3>3, <3>5, <3>6 DEF Partial
    <3> QED
      BY <1>5, <3>2, <3>7
  <2> QED
    BY <1>5, <2>1 DEF CloneInv, Read
<1>13. Active(r)
  BY <1>1 DEF Active
<1> QED
  BY <1>5, <1>6, <1>7, <1>9, <1>10, <1>12, <1>13, OwnStep

\* When the loop is through, the target is the copy: nothing the source has is
\* empty, so the loop has made at least one round.
LEMMA WriteDoneStep ==
  ASSUME IInv, NEW r \in Reqs, WriteDone(r)
  PROVE  IInv'
<1> DEFINE q == [req[r] EXCEPT !.pc = "expire", !.attached = FALSE]
           c == db[req[r].dst]
           S == seen[r]
           type == req[r].type
           val == req[r].val
<1>1. /\ req[r] \in Request /\ LocalInv(req[r])
      /\ Remembers(req[r], S, db) /\ TtlInv(req[r], S, now)
      /\ CloneInv(req[r], S, disturbed[r], c, now)
      /\ req[r].pc = "write"
  BY Known DEF WriteDone
<1>2. /\ q \in Request /\ q.pc = "expire" /\ q.type = type
      /\ q.src = req[r].src /\ q.dst = req[r].dst /\ q.fresh = req[r].fresh
      /\ q.since = req[r].since /\ q.ttl = req[r].ttl /\ q.via = req[r].via
      /\ q.op = req[r].op /\ ~q.attached /\ q.result = req[r].result
  BY <1>1 DEF Request, Places
<1>3. Only(r, q)
  BY DEF WriteDone
<1> HIDE DEF q
<1>4. LocalInv(q) /\ Attach(q, db)
  BY <1>1, <1>2 DEF LocalInv, Attach
<1>5. Remembers(q, S, db) /\ TtlInv(q, S, now)
  BY <1>1, <1>2 DEF Remembers, TtlInv
<1>6. CloneInv(q, S, disturbed[r], db[q.dst], now)
  <2>1. ASSUME Undisturbed(q, disturbed[r])
        PROVE  CopyOf(c, type, S) /\ c.deadline = Never
    <3>1. Read(S, type, val) /\ Partial(c, req[r], S)
      BY <1>1, <1>2, <2>1 DEF CloneInv, Undisturbed
    <3>2. \A e \in S : e.val # {}
      BY <1>1 DEF Remembers
    <3>3. val # {}
      BY <3>1, <3>2 DEF Read, From
    <3>4. CASE type = "zset" /\ req[r].left = {}
      <4>1. /\ c # Absent /\ c.type = "zset" /\ c.val = val
            /\ c.deadline = Never
        BY <3>1, <3>3, <3>4 DEF Partial
      <4> QED
        BY <3>1, <3>4, <4>1 DEF CopyOf, Read
    <3>5. CASE type = "hash" /\ \A p \in req[r].left : p[1] \in req[r].visited
      <4>1. PICK e \in S : e.type = "hash" /\ e.val = req[r].left
        BY <3>1, <3>5 DEF Partial, From
      <4>2. req[r].visited # {}
        BY <3>2, <3>5, <4>1
      <4>3. /\ c # Absent /\ c.type = "hash" /\ c.deadline = Never
            /\ c.val \subseteq UNION ValsOf(S, "hash")
            /\ \A f \in req[r].visited : \E p \in c.val : p[1] = f
        BY <3>1, <3>5, <4>2 DEF Partial
      <4>4. ASSUME NEW n, \A v \in ValsOf(S, "hash") : n \in Names("hash", v)
            PROVE  n \in Names("hash", c.val)
        <5>1. n \in Names("hash", req[r].left)
          BY <4>1, <4>4 DEF ValsOf
        <5>2. n \in req[r].visited
          BY <3>5, <5>1 DEF Names
        <5> QED
          BY <4>3, <5>2 DEF Names
      <4>5. PiecesOf(c.val, "hash", ValsOf(S, "hash"))
        BY <4>3, <4>4 DEF PiecesOf
      <4> QED
        BY <3>5, <4>3, <4>5 DEF CopyOf
    <3> QED
      BY <3>3, <3>4, <3>5 DEF WriteDone
  <2> QED
    BY <1>2, <2>1 DEF CloneInv
<1> QED
  BY <1>2, <1>3, <1>4, <1>5, <1>6, OnlyStep

\* The clone gets its deadline when it is complete; it was permanent till then,
\* so it is there to be given one.
LEMMA SetExpiryStep ==
  ASSUME IInv, NEW r \in Reqs, SetExpiry(r)
  PROVE  IInv'
<1> DEFINE q == Finish(req[r], "ok")
           dst == req[r].dst
           ttl == req[r].ttl
           ticks == MsTicks(ttl)
<1>1. /\ req[r] \in Request /\ LocalInv(req[r])
      /\ Remembers(req[r], seen[r], db) /\ TtlInv(req[r], seen[r], now)
      /\ CloneInv(req[r], seen[r], disturbed[r], db[dst], now)
      /\ TypeOK /\ db \in Database /\ now \in Nat
      /\ req[r].pc = "expire" /\ dst \in Keys /\ ttl \in Int
      /\ req[r].since \in Nat
  BY Known DEF SetExpiry, Request
<1>2. /\ q \in Request /\ q.pc = "done" /\ q.type = req[r].type
      /\ q.src = req[r].src /\ q.dst = dst /\ q.fresh = req[r].fresh
      /\ q.since = req[r].since /\ q.ttl = ttl /\ q.via = req[r].via
      /\ q.op = req[r].op /\ ~q.attached /\ q.result = "ok"
  BY <1>1 DEF Request, Places, Results, Finish
<1>3. LocalInv(q) /\ Attach(q, db)
  BY <1>2 DEF LocalInv, Attach
<1>4. CASE ttl > 0
  <2>1. PExpire(dst, ttl) /\ Own(r, q, "kept")
    BY <1>4 DEF SetExpiry
  <2> HIDE DEF q
  <2>2. /\ db' = DoExpire(db, now, dst, ticks)
        /\ now' = now /\ readOnly' = readOnly
    BY <2>1 DEF PExpire, Command
  <2>3. ticks \in Int /\ ticks > 0
    BY <1>1, <1>4, ConstantsAssumption DEF MsTicks
  <2> HIDE DEF ticks
  <2>4. Changes({dst}, "kept")
    BY <1>1, <2>2, <2>3, DeadlineChanges
  <2>5. seen[r] \subseteq seen'[r]
    BY <1>1, <2>1, <2>4, WroteSeen DEF Own, SeenMore
  <2>6. CloneInv(q, seen'[r], disturbed[r], db'[q.dst], now)
    <3>1. ASSUME Undisturbed(q, disturbed[r])
          PROVE  /\ CopyOf(db'[dst], q.type, seen'[r])
                 /\ Expiring(db'[dst], q, now)
      <4>1. CopyOf(db[dst], q.type, seen[r]) /\ db[dst].deadline = Never
        BY <1>1, <1>2, <3>1 DEF CloneInv, Undisturbed
      <4>2. db[dst] # Absent /\ db[dst] \in Entry /\ Live(db, now, dst)
        BY <1>1, <4>1 DEF CopyOf, Database, Live, Expired
      <4>3. db'[dst] = [db[dst] EXCEPT !.deadline = now + ticks]
        BY <1>1, <2>2, <2>3, <4>2 DEF DoExpire, DeadlineAfter, Put, Database
      <4>4. /\ db'[dst].type = db[dst].type /\ db'[dst].val = db[dst].val
            /\ db'[dst].deadline = now + ticks
        BY <4>2, <4>3 DEF Entry
      <4>5. db'[dst] # Absent
        BY <1>1, <2>4, <4>2 DEF Changes
      <4>6. CopyOf(db[dst], q.type, seen'[r])
        BY <2>5, <4>1, CopyMonotone
      <4>7. CopyOf(db'[dst], q.type, seen'[r])
        BY <4>4, <4>5, <4>6 DEF CopyOf
      <4>8. req[r].since <= now
        BY <1>1 DEF TtlInv
      <4>9. now + ticks \in Int
        BY <1>1, <2>3
      <4>10. Expiring(db'[dst], q, now)
        BY <1>1, <1>2, <1>4, <2>3, <4>4, <4>8, <4>9, ConstantsAssumption
        DEF Expiring, ticks
      <4> QED
        BY <4>7, <4>10
    <3> QED
      BY <1>2, <3>1 DEF CloneInv
  <2>7. Active(r)
    BY <1>1 DEF Active
  <2> QED
    BY <1>2, <1>3, <2>1, <2>2, <2>4, <2>6, <2>7, OwnStep
<1>5. CASE ~(ttl > 0)
  <2>1. Only(r, q)
    BY <1>5 DEF SetExpiry
  <2> HIDE DEF q
  <2>2. Remembers(q, seen[r], db) /\ TtlInv(q, seen[r], now)
    BY <1>1, <1>2 DEF Remembers, TtlInv
  <2>3. CloneInv(q, seen[r], disturbed[r], db[q.dst], now)
    BY <1>1, <1>2, <1>5 DEF CloneInv, Undisturbed, Expiring
  <2> QED
    BY <1>2, <1>3, <2>1, <2>2, <2>3, OnlyStep
<1> QED
  BY <1>4, <1>5
-----------------------------------------------------------------------------
(* The others *)

LEMMA SingleStep ==
  ASSUME IInv, Single
  PROVE  IInv'
<1>0. TypeOK /\ now \in Nat /\ db \in Database
  BY TimeType DEF IInv, ExplorerTypes
<1>1. ASSUME NEW k \in Keys, NEW v \in Vals, NEW sec \in Int, Set(k, v, sec),
             Foreign({k}, "replaced")
      PROVE  IInv'
  BY <1>0, <1>1, SetChanges, ForeignStep DEF Set, Command
<1>2. ASSUME NEW ks \in SUBSET Keys, Del(ks), Foreign(ks, "replaced")
      PROVE  IInv'
  BY <1>0, <1>2, DelChanges, ForeignStep DEF Del, Command
<1>3. ASSUME NEW k \in Keys, NEW n \in Int,
             Expire(k, n) \/ PExpire(k, n) \/ Persist(k), Foreign({k}, "kept")
      PROVE  IInv'
  <2>1. UNCHANGED <<now, readOnly>>
    BY <1>3 DEF Expire, PExpire, Persist, Command
  <2>2. Changes({k}, "kept")
    <3>1. CASE Expire(k, n)
      BY <1>0, <2>1, <3>1, TicksType, DeadlineChanges DEF Expire, Command
    <3>2. CASE PExpire(k, n)
      BY <1>0, <2>1, <3>2, TicksType, DeadlineChanges DEF PExpire, Command
    <3>3. CASE Persist(k)
      BY <1>0, <2>1, <3>3, DeadlineChanges DEF Persist, Command
    <3> QED
      BY <1>3, <3>1, <3>2, <3>3
  <2> QED
    BY <1>3, <2>1, <2>2, ForeignStep
<1>4. ASSUME NEW k \in Keys, NEW type \in {"hash", "list", "set", "zset"},
             NEW new \in Payload(type), new # {}, UNCHANGED <<now, readOnly>>,
             db' = DoAdd(db, k, type, new), Foreign({k}, AddKind(k, type))
      PROVE  IInv'
  BY <1>0, <1>4, AddChanges, ForeignStep
<1>5. ASSUME NEW k \in Keys, NEW f \in Fields, NEW v \in Vals, HSet(k, f, v),
             Foreign({k}, AddKind(k, "hash"))
      PROVE  IInv'
  <2>1. {<<f, v>>} \in Payload("hash")
    BY DEF Payload, Functional
  <2> QED
    BY <1>4, <1>5, <2>1 DEF HSet, Command
<1>6. ASSUME NEW k \in Keys, NEW vs \in (SUBSET Vals) \ {{}},
             \/ Push(k, vs) /\ Foreign({k}, AddKind(k, "list"))
             \/ SAdd(k, vs) /\ Foreign({k}, AddKind(k, "set"))
      PROVE  IInv'
  <2>1. vs \in Payload("list") /\ vs \in Payload("set") /\ vs # {}
    BY DEF Payload
  <2> QED
    BY <1>4, <1>6, <2>1 DEF Push, SAdd, Command
<1>13. ASSUME NEW k \in Keys, NEW v \in Vals, ZAdd(k, v),
              Foreign({k}, AddKind(k, "zset"))
       PROVE  IInv'
  <2>1. {v} \in Payload("zset") /\ {v} # {}
    BY DEF Payload
  <2> QED
    BY <1>4, <1>13, <2>1 DEF ZAdd, Command
<1>7. ASSUME NEW k \in Keys, NEW v \in Vals, NEW sec \in Secs \cup {0},
             HandleSetString(k, v, sec)
      PROVE  IInv'
  BY <1>1, <1>7, ConstantsAssumption DEF HandleSetString
<1>8. ASSUME NEW k \in Keys, NEW sec \in Secs \cup {0}, HandleUpdateTTL(k, sec)
      PROVE  IInv'
  <2>1. sec \in Int /\ Foreign({k}, "kept") /\ (Expire(k, sec) \/ Persist(k))
    BY <1>8, ConstantsAssumption DEF HandleUpdateTTL
  <2> QED
    BY <1>3, <2>1
<1>9. ASSUME NEW k \in Keys, HandleDeleteKey(k)
      PROVE  IInv'
  BY <1>2, <1>9 DEF HandleDeleteKey
<1>10. ASSUME NEW k \in Keys, NEW f \in Fields, NEW v \in Vals,
              HandleHSet(k, f, v)
       PROVE  IInv'
  BY <1>5, <1>10 DEF HandleHSet
<1>11. ASSUME NEW k \in Keys, NEW f \in Fields, HandleHDel(k, f)
       PROVE  IInv'
  <2>1. UNCHANGED vars /\ Foreign({}, "kept")
    BY <1>11 DEF HandleHDel, Command, vars
  <2>2. Changes({}, "kept")
    BY <1>0, <2>1 DEF Changes, vars, NothingEmpty
  <2> QED
    BY <2>1, <2>2, ForeignStep DEF vars
<1>12. CASE Repl
  <2>1. CASE \E k \in Keys, v \in Vals, sec \in Secs \cup {0} :
               Set(k, v, sec) /\ Foreign({k}, "replaced")
    <3>1. Secs \cup {0} \subseteq Int
      BY ConstantsAssumption
    <3> QED
      BY <1>1, <2>1, <3>1
  <2>2. CASE \E ks \in (SUBSET Keys) \ {{}} : Del(ks) /\ Foreign(ks, "replaced")
    BY <1>2, <2>2
  <2>3. CASE \/ \E k \in Keys, sec \in Secs :
                  Expire(k, sec) /\ Foreign({k}, "kept")
             \/ \E k \in Keys, ms \in Millis :
                  PExpire(k, ms) /\ Foreign({k}, "kept")
    <3>1. Secs \subseteq Int /\ Millis \subseteq Int
      BY ConstantsAssumption
    <3> QED
      BY <1>3, <2>3, <3>1
  <2>4. CASE \E k \in Keys, f \in Fields, v \in Vals :
               HSet(k, f, v) /\ Foreign({k}, AddKind(k, "hash"))
    BY <1>5, <2>4
  <2>5. CASE \E k \in Keys, vs \in (SUBSET Vals) \ {{}} :
               \/ Push(k, vs) /\ Foreign({k}, AddKind(k, "list"))
               \/ SAdd(k, vs) /\ Foreign({k}, AddKind(k, "set"))
    BY <1>6, <2>5
  <2>6. CASE \E k \in Keys, v \in Vals :
               ZAdd(k, v) /\ Foreign({k}, AddKind(k, "zset"))
    BY <1>13, <2>6
  <2> QED
    BY <1>12, <2>1, <2>2, <2>3, <2>4, <2>5, <2>6 DEF Repl
<1> QED
  BY <1>7, <1>8, <1>9, <1>10, <1>11, <1>12 DEF Single

\* The clock moves away from what was read, and never back.
LEMMA TickStep ==
  ASSUME IInv, Tick, UNCHANGED reqVars
  PROVE  IInv'
<1>1. TypeOK'
  BY ConstantsAssumption DEF IInv, ExplorerTypes, TypeOK, Tick
<1>2. /\ UNCHANGED <<req, fatal, writes, seen, disturbed, db>>
      /\ now' = now + 1 /\ now \in Nat
  BY TimeType DEF Tick, reqVars, IInv, ExplorerTypes
<1>3. ASSUME NEW r \in Reqs
      PROVE  RequestInv(r)'
  <2>1. /\ req[r] \in Request /\ seen[r] \in SUBSET Entry /\ RequestInv(r)
        /\ db \in Database
    BY TimeType DEF IInv, ExplorerTypes
  <2>2. TtlInv(req[r], seen[r], now + 1)
    BY <1>2, <2>1 DEF RequestInv, TtlInv, Request
  <2>3. CloneInv(req[r], seen[r], disturbed[r], Clone(r), now + 1)
    <3>1. ASSUME Clone(r) # Absent, Expiring(Clone(r), req[r], now)
          PROVE  Expiring(Clone(r), req[r], now + 1)
      <4>1. Clone(r).deadline \in Int \cup {Never}
        BY <2>1, <3>1 DEF Clone, Database, Entry, Request
      <4>2. MsTicks(req[r].ttl) \in Int
        BY <2>1, TicksType DEF Request
      <4> QED
        BY <1>2, <3>1, <4>1, <4>2 DEF Expiring
    <3>2. CloneInv(req[r], seen[r], disturbed[r], Clone(r), now)
      BY <2>1 DEF RequestInv
    <3> QED
      BY <3>1, <3>2 DEF CloneInv, CopyOf
  <2> QED
    BY <1>2, <2>1, <2>2, <2>3 DEF RequestInv, Clone
<1> QED
  BY <1>1, <1>2, <1>3 DEF IInv, ExplorerTypes, NothingEmpty
-----------------------------------------------------------------------------
(* The invariant *)

LEMMA ExplorerInitInv == ExplorerInit => IInv
<1> SUFFICES ASSUME ExplorerInit
             PROVE  IInv
  OBVIOUS
<1>1. TypeOK
  BY InitType DEF ExplorerInit
<1>2. NothingEmpty(db)
  BY ExplorerAssumption DEF ExplorerInit, Init, NothingEmpty
<1>3. NewRequest \in Request
  BY ExplorerAssumption DEF NewRequest, Request, Places, Results
<1>4. ExplorerTypes
  <2>1. req \in [Reqs -> Request] /\ seen \in [Reqs -> SUBSET Entry]
    BY <1>3 DEF ExplorerInit
  <2>2. fatal \in BOOLEAN
    BY DEF ExplorerInit
  <2>3. disturbed \in [Reqs -> BOOLEAN]
    BY Zenon DEF ExplorerInit
  <2>4. writes \in 0 .. MaxWrites
    BY ExplorerAssumption DEF ExplorerInit
  <2> QED
    BY <1>1, <2>1, <2>2, <2>3, <2>4 DEF ExplorerTypes
<1>5. ASSUME NEW r \in Reqs
      PROVE  RequestInv(r)
  <2>1. /\ req[r] = NewRequest /\ seen[r] = {} /\ now = 0
    BY DEF ExplorerInit, Init
  <2>2. /\ NewRequest.pc = "idle" /\ NewRequest.ttl = 0 /\ NewRequest.since = 0
        /\ ~NewRequest.attached /\ NewRequest.visited = {}
        /\ NewRequest.via = "none" /\ NewRequest.result = "none"
    BY DEF NewRequest
  <2>3. LocalInv(req[r]) /\ Attach(req[r], db)
    BY <2>1, <2>2 DEF LocalInv, Attach
  <2>4. Remembers(req[r], seen[r], db) /\ TtlInv(req[r], seen[r], now)
    BY <2>1, <2>2 DEF Remembers, TtlInv
  <2>5. CloneInv(req[r], seen[r], disturbed[r], Clone(r), now)
    BY <2>1, <2>2 DEF CloneInv
  <2> QED
    BY <2>3, <2>4, <2>5 DEF RequestInv
<1> QED
  BY <1>2, <1>4, <1>5 DEF IInv

LEMMA ExplorerNextInv ==
  ASSUME IInv, [ExplorerNext]_allVars
  PROVE  IInv'
<1>1. ASSUME NEW r \in Reqs, Step(r)
      PROVE  IInv'
  BY <1>1, ReadTypeStep, ReadTTLStep, FetchStep, ExtractStep,
     CopyMemberStep, MembersDoneStep, CommandReadStep, EncodeStep,
     ClearStep, WriteStringStep, WriteAllStep, WriteMemberStep,
     WriteFieldStep, WriteDoneStep, SetExpiryStep DEF Step
<1>2. CASE ExplorerNext
  BY <1>1, <1>2, SingleStep, StartStep, TickStep DEF ExplorerNext
<1>3. CASE UNCHANGED allVars
  <2>1. UNCHANGED <<db, now, readOnly, req, fatal, writes, seen, disturbed>>
    BY <1>3 DEF allVars, vars, reqVars
  <2> QED
    BY <2>1 DEF IInv, ExplorerTypes, TypeOK, NothingEmpty, RequestInv, Clone
<1> QED
  BY <1>2, <1>3

LEMMA ExplorerInv == ExplorerSpec => []IInv
BY ExplorerInitInv, ExplorerNextInv, PTL DEF ExplorerSpec

\* Whatever the requests, the single commands and the clock interleave, a
\* request past TYPE knows a type, and one that holds a live entry holds what
\* the map has.
THEOREM ExplorerTypeCorrect == ExplorerSpec => []ExplorerTypeOK
<1>1. ASSUME IInv, NEW r \in Reqs
      PROVE  /\ req[r].pc \notin {"idle", "type", "done"} => req[r].type # "none"
             /\ req[r].attached => /\ db[req[r].src] # Absent
                                   /\ db[req[r].src].type = req[r].got
                                   /\ db[req[r].src].val = req[r].val
  <2>1. req[r] \in Request /\ LocalInv(req[r]) /\ Attach(req[r], db)
    BY <1>1, Known
  <2> QED
    BY <2>1 DEF LocalInv, Attach, Request, Places, Payloads
<1>2. IInv => ExplorerTypeOK
  BY <1>1 DEF IInv, ExplorerTypeOK
<1> QED
  BY <1>2, ExplorerInv, PTL

\* A duplicate that answers success, made from the entry itself onto a name
\* nobody else wrote to, has the source's type and payload: of one entry the
\* source had, or, for a hash or a set, piece by piece.
THEOREM ClonePayloadCorrect == ExplorerSpec => []ClonePayload
<1>1. ASSUME IInv, NEW r \in Reqs, Cloned(r), req[r].via = "pointer"
      PROVE  CopiedFrom(r)
  <2>1. /\ LocalInv(req[r])
        /\ CloneInv(req[r], seen[r], disturbed[r], Clone(r), now)
    BY <1>1 DEF IInv, RequestInv
  <2>2. CopyOf(Clone(r), req[r].type, seen[r])
    BY <1>1, <2>1 DEF Cloned, LocalInv, CloneInv, Undisturbed
  <2> QED
    BY <2>2 DEF CopiedFrom, CopyOf, ValsOf, From
<1>2. IInv => ClonePayload
  BY <1>1 DEF ClonePayload
<1> QED
  BY <1>2, ExplorerInv, PTL

\* When the source did not change meanwhile, the clone expires within a
\* millisecond and the time the request took of when the source does, and the
\* clone of a permanent key is permanent.
THEOREM CloneExpiryCorrect == ExplorerSpec => []CloneExpiry
<1>1. ASSUME IInv, NEW r \in Reqs, NEW e \in seen[r], Cloned(r),
             req[r].via = "pointer", seen[r] = {e}
      PROVE  IF e.deadline = Never THEN Clone(r).deadline = Never
             ELSE req[r].ttl > 0 =>
                    /\ Clone(r).deadline # Never
                    /\ Clone(r).deadline > e.deadline - TicksPerMs
                    /\ Clone(r).deadline - e.deadline <= now - req[r].since
  <2> DEFINE c == Clone(r)
             ticks == MsTicks(req[r].ttl)
  <2>1. /\ LocalInv(req[r]) /\ TtlInv(req[r], seen[r], now)
        /\ CloneInv(req[r], seen[r], disturbed[r], c, now)
        /\ req[r] \in Request /\ db \in Database /\ now \in Nat
    BY <1>1, Known DEF IInv, RequestInv
  <2>2. CopyOf(c, req[r].type, seen[r]) /\ Expiring(c, req[r], now)
    BY <1>1, <2>1 DEF Cloned, LocalInv, CloneInv, Undisturbed
  <2>3. /\ c.deadline \in Int \cup {Never} /\ e.deadline \in Int \cup {Never}
        /\ req[r].since \in Int /\ ticks \in Int /\ TicksPerMs \in Int
    <3>1. c \in Entry /\ e \in Entry
      BY <1>1, <2>1, <2>2
      DEF CopyOf, Clone, Database, Request, IInv, ExplorerTypes
    <3> QED
      BY <2>1, <3>1, TicksType, ConstantsAssumption DEF Entry, Request
  <2> HIDE DEF c
  <2>4. CASE e.deadline = Never
    <3>1. ~(req[r].ttl > 0)
      BY <1>1, <2>1, <2>4 DEF TtlInv
    <3> QED
      BY <2>2, <2>4, <3>1 DEF Expiring, c
  <2>5. CASE e.deadline # Never /\ req[r].ttl > 0
    <3>1. ticks <= e.deadline - req[r].since
          /\ e.deadline - req[r].since < ticks + TicksPerMs
      BY <1>1, <2>1, <2>5 DEF TtlInv
    <3>2. /\ c.deadline # Never /\ req[r].since + ticks <= c.deadline
          /\ c.deadline <= now + ticks
      BY <2>2, <2>5 DEF Expiring
    <3> HIDE DEF ticks
    <3>3. /\ c.deadline > e.deadline - TicksPerMs
          /\ c.deadline - e.deadline <= now - req[r].since
      BY <2>1, <2>3, <2>5, <3>1, <3>2
    <3> QED
      BY <2>5, <3>2, <3>3 DEF c
  <2> QED
    BY <2>4, <2>5
<1>2. IInv => CloneExpiry
  BY <1>1 DEF CloneExpiry
<1> QED
  BY <1>2, ExplorerInv, PTL
-----------------------------------------------------------------------------
(* The engine below *)

\* The engine for requests that send any number of milliseconds: DuplicateKey
\* sends what PTTL answered.
Engine == INSTANCE KeyspaceProofs WITH Millis <- Int

LEMMA EngineAssumptions == Engine!ConstantsAssumption!: /\ Engine!SeedsAssumption!:
<1>1. Engine!Entry = Entry
  BY DEF Engine!Entry, Engine!Types, Engine!Items, Engine!Payload,
         Engine!Functional, Entry, Types, Items, Payload, Functional
<1> QED
  BY <1>1, ConstantsAssumption, SeedsAssumption DEF Engine!Database, Database

\* The commands do not depend on what the requests send.
LEMMA SameCommands ==
  /\ \A k, v, sec : Set(k, v, sec) => Engine!Set(k, v, sec)
  /\ \A ks : Del(ks) => Engine!Del(ks)
  /\ \A k, sec : Expire(k, sec) => Engine!Expire(k, sec)
  /\ \A k, ms : PExpire(k, ms) => Engine!PExpire(k, ms)
  /\ \A k : Persist(k) => Engine!Persist(k)
  /\ \A k, f, v : HSet(k, f, v) => Engine!HSet(k, f, v)
  /\ \A k, vs : Push(k, vs) => Engine!Push(k, vs)
  /\ \A k, vs : SAdd(k, vs) => Engine!SAdd(k, vs)
  /\ \A k, v : ZAdd(k, v) => Engine!ZAdd(k, v)
<1>1. \A name, d : Command(name, d) => Engine!Command(name, d)
  BY DEF Command, Allowed, CheckCommand, MutatingCommands, BlockedCommands,
         Engine!Command, Engine!Allowed, Engine!CheckCommand,
         Engine!MutatingCommands, Engine!BlockedCommands
<1> USE DEF Put, DeadlineAfter, Engine!Put, Engine!DeadlineAfter
<1>2. \A k, v, sec : DoSet(db, now, k, v, SecTicks(sec))
                       = Engine!DoSet(db, now, k, v, Engine!SecTicks(sec))
  BY DEF DoSet, SecTicks, Engine!DoSet, Engine!SecTicks
<1>3. \A ks : DoDel(db, ks) = Engine!DoDel(db, ks)
  BY DEF DoDel, Engine!DoDel
<1>4. \A k, ticks : DoExpire(db, now, k, ticks) = Engine!DoExpire(db, now, k, ticks)
  BY DEF DoExpire, Live, Expired, Engine!DoExpire, Engine!Live, Engine!Expired
<1>5. \A k : DoPersist(db, now, k) = Engine!DoPersist(db, now, k)
  BY DEF DoPersist, Live, Expired, Engine!DoPersist, Engine!Live, Engine!Expired
<1>6. \A k, type, new : DoAdd(db, k, type, new) = Engine!DoAdd(db, k, type, new)
  BY DEF DoAdd, Collection, Holds, Merge, Engine!DoAdd, Engine!Collection,
         Engine!Holds, Engine!Merge
<1>7. \A n : SecTicks(n) = Engine!SecTicks(n) /\ MsTicks(n) = Engine!MsTicks(n)
  BY DEF SecTicks, MsTicks, Engine!SecTicks, Engine!MsTicks
<1> QED
  BY <1>1, <1>2, <1>3, <1>4, <1>5, <1>6, <1>7
  DEF Set, Del, Expire, PExpire, Persist, HSet, Push, SAdd, ZAdd,
      Engine!Set, Engine!Del, Engine!Expire, Engine!PExpire, Engine!Persist,
      Engine!HSet, Engine!Push, Engine!SAdd, Engine!ZAdd

LEMMA SingleImplements ==
  ASSUME Single
  PROVE  Engine!Next \/ UNCHANGED vars
<1>1. ASSUME NEW k \in Keys, NEW sec \in Secs \cup {0}, HandleUpdateTTL(k, sec)
      PROVE  Engine!Next
  <2>1. Persist(k) \/ (sec \in Secs /\ Expire(k, sec))
    BY <1>1, ConstantsAssumption DEF HandleUpdateTTL
  <2> QED
    BY <2>1, SameCommands DEF Engine!Next
<1>2. ASSUME NEW k \in Keys, NEW v \in Vals, NEW sec \in Secs \cup {0},
             HandleSetString(k, v, sec)
      PROVE  Engine!Next
  BY <1>2, SameCommands DEF HandleSetString, Engine!Next
<1>3. ASSUME NEW k \in Keys, HandleDeleteKey(k)
      PROVE  Engine!Next
  <2>1. {k} \in (SUBSET Keys) \ {{}}
    OBVIOUS
  <2> QED
    BY <1>3, <2>1, SameCommands DEF HandleDeleteKey, Engine!Next
<1>4. ASSUME NEW k \in Keys, NEW f \in Fields, NEW v \in Vals,
             HandleHSet(k, f, v)
      PROVE  Engine!Next
  BY <1>4, SameCommands DEF HandleHSet, Engine!Next
<1>5. ASSUME NEW k \in Keys, NEW f \in Fields, HandleHDel(k, f)
      PROVE  UNCHANGED vars
  BY <1>5 DEF HandleHDel, Command, vars
<1>6. CASE Repl
  <2>1. Millis \subseteq Int
    BY ConstantsAssumption
  <2> QED
    BY <1>6, <2>1, SameCommands DEF Repl, Engine!Next
<1> QED
  BY <1>1, <1>2, <1>3, <1>4, <1>5, <1>6 DEF Single

LEMMA StepImplements ==
  ASSUME IInv, NEW r \in Reqs, Step(r)
  PROVE  Engine!Next \/ UNCHANGED vars
<1> DEFINE dst == req[r].dst
<1>1. /\ dst \in Keys /\ req[r].ttl \in Int /\ req[r].left \in SUBSET Items
      /\ LocalInv(req[r])
  BY Known DEF Request
<1>2. CASE \/ ReadType(r) \/ ReadTTL(r) \/ Fetch(r) \/ Extract(r)
           \/ CopyMember(r) \/ MembersDone(r) \/ CommandRead(r) \/ Encode(r)
           \/ WriteDone(r)
  BY <1>2 DEF ReadType, ReadTTL, Fetch, Extract, CopyMember, MembersDone,
              CommandRead, Encode, WriteDone, Only, vars
<1>3. CASE Clear(r)
  <2>1. {dst} \in (SUBSET Keys) \ {{}}
    BY <1>1
  <2> QED
    BY <1>3, <2>1, SameCommands DEF Clear, Engine!Next
<1>4. CASE WriteString(r)
  <2>1. req[r].val \subseteq Vals
    BY <1>1, <1>4 DEF WriteString, LocalInv, ItemsOf
  <2> QED
    BY <1>1, <1>4, <2>1, SameCommands DEF WriteString, Engine!Next
<1>5. CASE WriteAll(r)
  <2>1. req[r].val \in (SUBSET Vals) \ {{}}
    BY <1>1, <1>5 DEF WriteAll, LocalInv, ItemsOf
  <2> QED
    BY <1>1, <1>5, <2>1, SameCommands DEF WriteAll, Engine!Next
<1>6. CASE WriteMember(r)
  <2>1. req[r].left \subseteq Vals
    BY <1>1, <1>6 DEF WriteMember, LocalInv, ItemsOf
  <2> QED
    BY <1>1, <1>6, <2>1, SameCommands DEF WriteMember, Engine!Next
<1>7. CASE WriteField(r)
  <2>1. \A p \in req[r].val : p[1] \in Fields /\ p[2] \in Vals
    BY <1>1, <1>7 DEF WriteField, LocalInv, ItemsOf
  <2> QED
    BY <1>1, <1>7, <2>1, SameCommands DEF WriteField, Engine!Next
<1>8. CASE SetExpiry(r)
  BY <1>1, <1>8, SameCommands DEF SetExpiry, Only, vars, Engine!Next
<1> QED
  BY <1>2, <1>3, <1>4, <1>5, <1>6, <1>7, <1>8 DEF Step

\* Each step of a request is one engine command or none: the explorer adds no
\* access to the data that does not go through the engine's lock and guard.
THEOREM ExplorerImplementsEngine == ExplorerSpec => Engine!Spec
<1>1. ExplorerInit => Engine!Init
  BY DEF ExplorerInit, Init, Engine!Init
<1>2. ASSUME IInv, [ExplorerNext]_allVars
      PROVE  [Engine!Next]_Engine!vars
  <2>1. CASE ExplorerNext
    <3>1. ASSUME NEW r \in Reqs, NEW op, NEW src, NEW dst, Start(r, op, src, dst)
          PROVE  UNCHANGED vars
      BY <3>1 DEF Start
    <3>2. Tick => Engine!Next
      BY DEF Tick, Engine!Tick, Engine!Next
    <3> QED
      BY <1>2, <2>1, <3>1, <3>2, SingleImplements, StepImplements
      DEF ExplorerNext, vars, Engine!vars
  <2>2. CASE UNCHANGED allVars
    BY <2>2 DEF allVars, vars, Engine!vars
  <2> QED
    BY <1>2, <2>1, <2>2
<1> QED
  BY <1>1, <1>2, ExplorerInv, PTL DEF ExplorerSpec, Engine!Spec

\* So what the engine promises holds with any number of requests in between:
\* read-only data is frozen, expired data stays gone, and PTTL is to be trusted.
THEOREM ExplorerKeepsPromises ==
  ExplorerSpec => ReadOnlyFrozen /\ NoResurrection /\ []LeaseHonoured
<1>1. Engine!Spec => Engine!ReadOnlyFrozen
  BY EngineAssumptions, Engine!ReadOnlyCorrect, PTL
<1>2. Engine!Spec => Engine!NoResurrection
  BY EngineAssumptions, Engine!NoResurrectionCorrect, PTL
<1>3. Engine!Spec => []Engine!LeaseHonoured
  BY EngineAssumptions, Engine!LeaseCorrect, PTL
<1> USE DEF Live, Expired, vars, Engine!Live, Engine!Expired, Engine!vars
<1>4. Engine!ReadOnlyFrozen => ReadOnlyFrozen
  BY DEF ReadOnlyFrozen, Engine!ReadOnlyFrozen
<1>5. Engine!NoResurrection => NoResurrection
  BY DEF NoResurrection, Engine!NoResurrection
<1>6. Engine!LeaseHonoured => LeaseHonoured
  BY DEF LeaseHonoured, PTTL, MsTicks, Engine!LeaseHonoured, Engine!PTTL,
         Engine!MsTicks
<1> QED
  BY <1>1, <1>2, <1>3, <1>4, <1>5, <1>6, ExplorerImplementsEngine, PTL
=============================================================================
