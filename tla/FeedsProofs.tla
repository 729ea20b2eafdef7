---------------------------- MODULE FeedsProofs ----------------------------
(***************************************************************************)
(* Theorems about the event streams of the server.                         *)
(*                                                                         *)
(* Feeds: the types of both feeds of the console and the dashboard, and    *)
(* that the console shows what was published once, in order and for the    *)
(* topics it applied, for any number of streams, channels, topics and      *)
(* messages and any sizes of the channel and the list.  A message passes   *)
(* four queues: the inbox of the subscription, the channel of the handler, *)
(* the wire and the list of the console.  The invariant is that the        *)
(* numbers rise along the four, and that no number is beyond the last one  *)
(* published: a stream opened later starts empty, so that it cannot bring  *)
(* what an earlier one has brought.                                        *)
(*                                                                         *)
(* SlowlogFeed: its types with the mutex, that no entry is reported twice, *)
(* and that the mark passes none by, for any number of streams, any        *)
(* window, any length of the log and any number of restarts and failures.  *)
(***************************************************************************)
EXTENDS Feeds, SlowlogFeed, FiniteSetTheorems, WellFoundedInduction, TLAPS

-----------------------------------------------------------------------------
(* The console and the dashboard *)

Message == [id : Nat, channel : Channels]

Slot ==
  [handler : {"none", "running"},
   sub : {"starting", "listening", "holding", "ended"},
   topics : SUBSET Channels, done : BOOLEAN,
   inbox : Seq(Message), msgChan : Seq(Message), wire : Seq(Message)]

Console ==
  [mounted : BOOLEAN, isListening : BOOLEAN, activeChannels : Topics,
   messages : Seq(Message), isPublishing : BOOLEAN,
   publishStatus : {"none", "published", "failed"}]

-----------------------------------------------------------------------------
(* Queues *)

Rising(q) == \A i, j \in DOMAIN q : i < j => q[i].id < q[j].id

\* Everything in p was published before everything in q.
Before(p, q) == \A i \in DOMAIN p, j \in DOMAIN q : p[i].id < q[j].id

UpTo(q, n) == \A i \in DOMAIN q : q[i].id <= n

OnTopic(q, topics) == \A i \in DOMAIN q : q[i].channel \in topics

LEMMA EmptyQueue ==
  /\ <<>> \in Seq(Message) /\ Rising(<<>>)
  /\ \A q : Before(<<>>, q) /\ Before(q, <<>>)
  /\ \A n : UpTo(<<>>, n) /\ OnTopic(<<>>, n)
BY DEF Rising, Before, UpTo, OnTopic

\* The newest message goes to the end.
LEMMA Appended ==
  ASSUME NEW q \in Seq(Message), NEW m \in Message, Rising(q),
         \A i \in DOMAIN q : q[i].id < m.id
  PROVE  /\ Append(q, m) \in Seq(Message) /\ Rising(Append(q, m))
         /\ Append(q, m) # <<>> /\ Len(Append(q, m)) = Len(q) + 1
         /\ \A p : Before(p, q) /\ (\A i \in DOMAIN p : p[i].id < m.id)
                     => Before(p, Append(q, m))
         /\ \A p \in Seq(Message) :
              Before(q, p) /\ (\A i \in DOMAIN p : m.id < p[i].id)
                => Before(Append(q, m), p)
         /\ \A n : UpTo(q, n) /\ m.id <= n => UpTo(Append(q, m), n)
         /\ \A t : OnTopic(q, t) /\ m.channel \in t => OnTopic(Append(q, m), t)
<1> DEFINE a == Append(q, m)
<1>1. /\ a \in Seq(Message) /\ DOMAIN q = 1 .. Len(q)
      /\ DOMAIN a = 1 .. Len(q) + 1
      /\ \A i \in 1 .. Len(q) : a[i] = q[i]
      /\ a[Len(q) + 1] = m /\ Len(q) \in Nat
      /\ a # <<>> /\ Len(a) = Len(q) + 1
  OBVIOUS
<1> HIDE DEF a
<1>2. \A i \in DOMAIN a : \/ i \in 1 .. Len(q) /\ a[i] = q[i]
                          \/ i = Len(q) + 1 /\ a[i] = m
  <2> TAKE i \in DOMAIN a
  <2>1. i \in Nat /\ 1 <= i /\ i <= Len(q) + 1
    BY <1>1
  <2>2. i \in 1 .. Len(q) \/ i = Len(q) + 1
    BY <1>1, <2>1
  <2> QED
    BY <1>1, <2>2
<1>3. Rising(a)
  BY <1>1, <1>2 DEF Rising
<1> QED
  BY <1>1, <1>2, <1>3 DEF a, Before, UpTo, OnTopic

\* The oldest message goes.
LEMMA Taken ==
  ASSUME NEW q \in Seq(Message), q # <<>>
  PROVE  /\ Head(q) \in Message /\ Tail(q) \in Seq(Message)
         /\ 1 \in DOMAIN q /\ Head(q) = q[1] /\ Len(Tail(q)) < Len(q)
         /\ Rising(q) => Rising(Tail(q))
         /\ Rising(q) => \A i \in DOMAIN Tail(q) : Head(q).id < Tail(q)[i].id
         /\ \A p : Before(p, q) => Before(p, Tail(q))
         /\ \A p : Before(q, p) => Before(Tail(q), p)
         /\ \A n : UpTo(q, n) => UpTo(Tail(q), n)
         /\ \A t : OnTopic(q, t) => OnTopic(Tail(q), t)
<1> DEFINE t == Tail(q)
<1>1. /\ Head(q) \in Message /\ t \in Seq(Message) /\ 1 \in DOMAIN q
      /\ Head(q) = q[1] /\ Len(t) < Len(q)
      /\ \A i \in DOMAIN t : /\ i \in Nat /\ i > 0 /\ i + 1 \in DOMAIN q
                             /\ t[i] = q[i + 1]
  OBVIOUS
<1> HIDE DEF t
<1>2. Rising(q) => Rising(t)
  BY <1>1 DEF Rising
<1>3. Rising(q) => \A i \in DOMAIN t : Head(q).id < t[i].id
  BY <1>1 DEF Rising
<1> QED
  BY <1>1, <1>2, <1>3 DEF t, Before, UpTo, OnTopic

\* What is known of a queue is known of its head and of the rest.
LEMMA HeadOfAll ==
  ASSUME NEW q \in Seq(Message), q # <<>>, NEW n, NEW topics,
         Rising(q), UpTo(q, n), demo \/ OnTopic(q, topics)
  PROVE  /\ Head(q) \in Message /\ Tail(q) \in Seq(Message)
         /\ Head(q) = q[1] /\ 1 \in DOMAIN q /\ Len(Tail(q)) < Len(q)
         /\ Rising(Tail(q)) /\ UpTo(Tail(q), n) /\ Head(q).id <= n
         /\ \A i \in DOMAIN Tail(q) : Head(q).id < Tail(q)[i].id
         /\ demo \/ (OnTopic(Tail(q), topics) /\ Head(q).channel \in topics)
         /\ \A p : Before(p, q) => Before(p, Tail(q))
         /\ \A p : Before(q, p) => Before(Tail(q), p)
<1>1. Head(q) = q[1] /\ 1 \in DOMAIN q
  BY Taken
<1>2. Head(q).id <= n /\ (demo \/ Head(q).channel \in topics)
  BY <1>1 DEF UpTo, OnTopic
<1>3. /\ Head(q) \in Message /\ Tail(q) \in Seq(Message)
      /\ Len(Tail(q)) < Len(q) /\ Rising(Tail(q)) /\ UpTo(Tail(q), n)
      /\ \A i \in DOMAIN Tail(q) : Head(q).id < Tail(q)[i].id
  BY Taken
<1>4. demo \/ OnTopic(Tail(q), topics)
  BY Taken
<1>5. /\ \A p : Before(p, q) => Before(p, Tail(q))
      /\ \A p : Before(q, p) => Before(Tail(q), p)
  BY Taken
<1>6. demo \/ (OnTopic(Tail(q), topics) /\ Head(q).channel \in topics)
  BY <1>2, <1>4
<1> QED
  BY <1>1, <1>2, <1>3, <1>5, <1>6
-----------------------------------------------------------------------------
(* The invariant of the console *)

\* One stream of the server, n messages having been published.
SlotInv(r, n) ==
  /\ Rising(r.wire) /\ Rising(r.msgChan) /\ Rising(r.inbox)
  /\ Before(r.wire, r.msgChan) /\ Before(r.wire, r.inbox)
  /\ Before(r.msgChan, r.inbox)
  /\ UpTo(r.wire, n) /\ UpTo(r.msgChan, n) /\ UpTo(r.inbox, n)
  /\ demo \/ /\ OnTopic(r.wire, r.topics) /\ OnTopic(r.msgChan, r.topics)
             /\ OnTopic(r.inbox, r.topics)
  /\ r.sub = "holding" => r.inbox # <<>>
  /\ Len(r.msgChan) <= Buffer

\* What is on its way to the console comes after what it shows.
Ahead(messages, r) ==
  Before(messages, r.wire) /\ Before(messages, r.msgChan) /\ Before(messages, r.inbox)

Heard(r) == r.handler = "running" /\ ~r.done

PubSubInv ==
  /\ demo \in BOOLEAN
  /\ published \in 0 .. MaxMessage
  /\ conn \in Slots \cup {NoSlot}
  /\ slot \in [Slots -> Slot]
  /\ console \in Console
  /\ \A s \in Slots : SlotInv(slot[s], published)
  /\ \A s \in Slots : Heard(slot[s]) => s = conn
  /\ conn # NoSlot =>
       /\ console.mounted /\ console.isListening /\ Heard(slot[conn])
       /\ slot[conn].topics = console.activeChannels
       /\ Ahead(console.messages, slot[conn])
  /\ Len(console.messages) <= Kept
  /\ UpTo(console.messages, published)

LEMMA PubSubInvType == PubSubInv => PubSubTypeOK
BY DEF PubSubInv, PubSubTypeOK, Heard, SlotInv, Slot, Console

LEMMA FreeSlot == Free \in Slot /\ \A n \in Nat : SlotInv(Free, n)
<1>1. Free \in Slot
  BY EmptyQueue DEF Free, Slot
<1>2. /\ Free.wire = <<>> /\ Free.msgChan = <<>> /\ Free.inbox = <<>>
      /\ Free.sub = "ended"
  BY DEF Free
<1> QED
  BY <1>1, <1>2, EmptyQueue, PubSubAssumption DEF SlotInv

LEMMA PubSubInitInv == PubSubInit => PubSubInv
<1> SUFFICES ASSUME PubSubInit
             PROVE  PubSubInv
  OBVIOUS
<1>1. published \in 0 .. MaxMessage /\ published = 0 /\ conn = NoSlot /\ demo \in BOOLEAN
  BY PubSubAssumption DEF PubSubInit
<1>2. \A s \in Slots : slot[s] = Free
  BY DEF PubSubInit
<1>3. slot \in [Slots -> Slot] /\ \A s \in Slots : SlotInv(slot[s], published)
  BY <1>1, <1>2, FreeSlot DEF PubSubInit
<1>4. /\ console \in Console /\ console.messages = <<>>
      /\ Len(console.messages) <= Kept
  <2>1. FreshConsole \in Console /\ FreshConsole.messages = <<>>
    BY PubSubAssumption, EmptyQueue DEF FreshConsole, Console
  <2>2. console = [FreshConsole EXCEPT !.mounted = FALSE]
    BY DEF PubSubInit
  <2>3. console \in Console /\ console.messages = <<>>
    BY <2>1, <2>2 DEF Console
  <2> QED
    BY <2>3, PubSubAssumption
<1>5. \A s \in Slots : ~Heard(slot[s])
  BY <1>2 DEF Heard, Free
<1> QED
  BY <1>1, <1>3, <1>4, <1>5, EmptyQueue DEF PubSubInv

\* A step of one stream: it is heard if it was, and it keeps its topics and
\* the order.
LEMMA SlotStep ==
  ASSUME PubSubInv, NEW s \in Slots, NEW r \in Slot, Becomes(s, r),
         UNCHANGED <<demo, conn, console>>,
         published' \in published .. MaxMessage, SlotInv(r, published'),
         Heard(r) <=> Heard(slot[s]), r.topics = slot[s].topics,
         s = conn => Ahead(console.messages, r)
  PROVE  PubSubInv'
<1> DEFINE new == IF r.handler = "none" /\ r.sub = "ended" THEN Free ELSE r
<1>1. slot' = [slot EXCEPT ![s] = new] /\ slot \in [Slots -> Slot]
  BY DEF Becomes, PubSubInv
<1>2. published \in Nat /\ published' \in Nat /\ published <= published'
  BY PubSubAssumption DEF PubSubInv
<1>3. /\ new \in Slot /\ SlotInv(new, published')
      /\ Heard(new) <=> Heard(slot[s])
      /\ Heard(new) => new = r
  BY <1>2, FreeSlot DEF Heard, Free
<1> HIDE DEF new
<1>4. slot' \in [Slots -> Slot] /\ slot'[s] = new
  BY <1>1, <1>3
<1>6. ASSUME NEW q \in Seq(Message), UpTo(q, published)
      PROVE  UpTo(q, published')
  <2> SUFFICES \A i \in DOMAIN q : q[i].id <= published'
    BY DEF UpTo
  <2> TAKE i \in DOMAIN q
  <2>1. q[i] \in Message
    OBVIOUS
  <2>2. q[i].id \in Nat
    BY <2>1 DEF Message
  <2> QED
    BY <1>2, <1>6, <2>2 DEF UpTo
<1>7. ASSUME NEW t \in Slots
      PROVE  SlotInv(slot'[t], published') /\ (Heard(slot'[t]) => t = conn)
  <2>1. CASE t = s
    BY <1>3, <1>4, <2>1 DEF PubSubInv
  <2>2. CASE t # s
    <3>1. slot'[t] = slot[t] /\ slot[t] \in Slot
      BY <1>1, <2>2
    <3>2. SlotInv(slot[t], published) /\ (Heard(slot[t]) => t = conn)
      BY DEF PubSubInv
    <3>3. SlotInv(slot[t], published')
      BY <1>6, <3>1, <3>2 DEF SlotInv, Slot
    <3> QED
      BY <3>1, <3>2, <3>3
  <2> QED
    BY <2>1, <2>2
<1>8. UpTo(console.messages, published')
  BY <1>6 DEF PubSubInv, Console
<1>9. conn # NoSlot =>
        /\ Heard(slot'[conn])
        /\ slot'[conn].topics = console.activeChannels
        /\ Ahead(console.messages, slot'[conn])
  <2>1. CASE conn = s
    BY <1>3, <1>4, <2>1 DEF PubSubInv
  <2>2. CASE conn # s
    BY <1>1, <2>2 DEF PubSubInv
  <2> QED
    BY <2>1, <2>2
<1>10. published' \in 0 .. MaxMessage
  BY <1>2, PubSubAssumption
<1>11. \A t \in Slots : SlotInv(slot[t], published)'
  BY <1>7 DEF SlotInv
<1> QED
  BY <1>4, <1>7, <1>8, <1>9, <1>10, <1>11 DEF PubSubInv

\* The console changes, and not the stream.
LEMMA ConsoleStep ==
  ASSUME PubSubInv, NEW c \in Console, console' = c,
         UNCHANGED <<demo, published, slot, conn>>,
         conn # NoSlot => /\ c.mounted /\ c.isListening
                          /\ c.activeChannels = console.activeChannels,
         c.messages = console.messages \/ c.messages = <<>>
  PROVE  PubSubInv'
<1>1. Len(c.messages) <= Kept /\ UpTo(c.messages, published)
  BY EmptyQueue, PubSubAssumption DEF PubSubInv
<1>2. conn # NoSlot => Ahead(c.messages, slot[conn])
  BY EmptyQueue DEF PubSubInv, Ahead
<1> QED
  BY <1>1, <1>2 DEF PubSubInv, SlotInv

\* The stream is closed, and the console has changed before.
LEMMA HangupStep ==
  ASSUME PubSubInv, NEW c \in Console, console' = c, Hangup,
         UNCHANGED <<demo, published>>,
         c.messages = console.messages \/ c.messages = <<>>
  PROVE  PubSubInv'
<1>1. Len(c.messages) <= Kept /\ UpTo(c.messages, published)
  BY EmptyQueue, PubSubAssumption DEF PubSubInv
<1>2. slot \in [Slots -> Slot]
  BY DEF PubSubInv
<1>3. ASSUME NEW s \in Slots
      PROVE  /\ slot'[s] \in Slot /\ SlotInv(slot'[s], published)
             /\ ~Heard(slot'[s])
  <2>1. CASE s = conn
    <3>1. conn # NoSlot
      BY <2>1, PubSubAssumption
    <3>2. slot'[s] = [slot[s] EXCEPT !.done = TRUE]
      BY <1>2, <2>1, <3>1 DEF Hangup
    <3>3. slot[s] \in Slot /\ SlotInv(slot[s], published)
      BY DEF PubSubInv
    <3> QED
      BY <3>2, <3>3 DEF Slot, SlotInv, Heard
  <2>2. CASE s # conn
    <3>1. slot'[s] = slot[s]
      BY <1>2, <2>2 DEF Hangup
    <3> QED
      BY <2>2, <3>1 DEF PubSubInv
  <2> QED
    BY <2>1, <2>2
<1>4. slot' \in [Slots -> Slot]
  <2>1. \/ slot' = slot
        \/ slot' = [slot EXCEPT ![conn].done = TRUE]
    BY DEF Hangup
  <2> QED
    BY <1>2, <1>3, <2>1
<1>5. \A s \in Slots : SlotInv(slot[s], published)'
  BY <1>3 DEF SlotInv
<1> QED
  BY <1>1, <1>3, <1>4, <1>5 DEF PubSubInv, Hangup

LEMMA ConnectStep ==
  ASSUME PubSubInv, Connect
  PROVE  PubSubInv'
<1>1. PICK s \in Slots :
        /\ slot[s] = Free
        /\ slot' = [slot EXCEPT ![s] =
                      [Free EXCEPT !.handler = "running", !.sub = "starting",
                                   !.topics = console.activeChannels]]
        /\ conn' = s
  BY DEF Connect
<1> DEFINE r == [Free EXCEPT !.handler = "running", !.sub = "starting",
                             !.topics = console.activeChannels]
<1>2. /\ r \in Slot /\ r.wire = <<>> /\ r.msgChan = <<>> /\ r.inbox = <<>>
      /\ r.sub = "starting" /\ Heard(r) /\ r.topics = console.activeChannels
  BY FreeSlot, EmptyQueue, PubSubAssumption
  DEF Free, Slot, Heard, PubSubInv, Console
<1>3. slot' = [slot EXCEPT ![s] = r] /\ conn = NoSlot /\ conn' = s
  BY <1>1 DEF Connect
<1> HIDE DEF r
<1>4. SlotInv(r, published) /\ Ahead(console.messages, r)
  BY <1>2, EmptyQueue, PubSubAssumption DEF SlotInv, Ahead
<1>5. slot' \in [Slots -> Slot] /\ slot'[s] = r
      /\ \A t \in Slots : t # s => slot'[t] = slot[t]
  BY <1>2, <1>3 DEF PubSubInv
<1>6. \A t \in Slots : ~Heard(slot[t])
  BY <1>3, PubSubAssumption DEF PubSubInv
<1>7. \A t \in Slots : SlotInv(slot'[t], published) /\ (Heard(slot'[t]) => t = s)
  BY <1>4, <1>5, <1>6 DEF PubSubInv
<1>8. \A t \in Slots : SlotInv(slot[t], published)'
  BY <1>7 DEF SlotInv, Connect
<1> QED
  BY <1>1, <1>2, <1>3, <1>4, <1>5, <1>7, <1>8 DEF PubSubInv, Connect

\* The oldest event of the wire becomes the newest of the list.
LEMMA OnMessageStep ==
  ASSUME PubSubInv, OnMessage
  PROVE  PubSubInv'
<1> DEFINE r == slot[conn]
           old == console.messages
           kept == IF Len(old) < Kept THEN old ELSE SubSeq(old, 1, Kept - 1)
           m == Head(r.wire)
           new == <<m>> \o kept
           p == [r EXCEPT !.wire = Tail(@)]
<1>1. /\ conn \in Slots /\ r \in Slot /\ SlotInv(r, published) /\ Heard(r)
      /\ Ahead(old, r) /\ r.topics = console.activeChannels
      /\ r.wire \in Seq(Message) /\ r.wire # <<>>
      /\ old \in Seq(Message) /\ Len(old) <= Kept /\ UpTo(old, published)
      /\ slot \in [Slots -> Slot] /\ console \in Console
  BY DEF PubSubInv, OnMessage, Slot, Console
<1>2. /\ m \in Message /\ Tail(r.wire) \in Seq(Message)
      /\ m = r.wire[1] /\ 1 \in DOMAIN r.wire
      /\ \A i \in DOMAIN Tail(r.wire) : m.id < Tail(r.wire)[i].id
  BY <1>1, Taken DEF SlotInv
<1>3. /\ kept \in Seq(Message) /\ Len(kept) < Kept
      /\ \A i \in DOMAIN kept : i \in DOMAIN old /\ kept[i] = old[i]
  BY <1>1, PubSubAssumption
<1> HIDE DEF kept, m
<1>4. /\ new \in Seq(Message) /\ Len(new) <= Kept
      /\ \A i \in DOMAIN new : new[i] = m \/ \E j \in DOMAIN old : new[i] = old[j]
  <2>1. /\ new \in Seq(Message) /\ Len(new) = Len(kept) + 1 /\ new[1] = m
        /\ \A i \in DOMAIN new : i = 1 \/ (i - 1 \in DOMAIN kept /\ new[i] = kept[i - 1])
    BY <1>2, <1>3
  <2> HIDE DEF new
  <2> QED
    BY <1>3, <2>1, PubSubAssumption
<1> HIDE DEF new
<1>5. /\ p \in Slot /\ p.wire = Tail(r.wire) /\ p.msgChan = r.msgChan
      /\ p.inbox = r.inbox /\ p.sub = r.sub /\ p.topics = r.topics
      /\ p.handler = r.handler /\ p.done = r.done
  BY <1>1, <1>2 DEF Slot
<1> HIDE DEF p
<1>6. SlotInv(p, published)
  BY <1>1, <1>5, Taken DEF SlotInv
<1>7. Ahead(new, p)
  <2>1. \A i \in DOMAIN p.wire : m.id < p.wire[i].id
    BY <1>2, <1>5
  <2>2. \A i \in DOMAIN p.msgChan : m.id < p.msgChan[i].id
    BY <1>1, <1>2, <1>5 DEF SlotInv, Before
  <2>3. \A i \in DOMAIN p.inbox : m.id < p.inbox[i].id
    BY <1>1, <1>2, <1>5 DEF SlotInv, Before
  <2>4. Ahead(old, p)
    BY <1>1, <1>5, Taken DEF Ahead
  <2> QED
    BY <1>4, <2>1, <2>2, <2>3, <2>4 DEF Ahead, Before
<1>8. UpTo(new, published)
  BY <1>1, <1>2, <1>4 DEF UpTo, SlotInv
<1>9. /\ slot' = [slot EXCEPT ![conn] = p]
      /\ console' = [console EXCEPT !.messages = new]
      /\ UNCHANGED <<demo, published, conn>>
  BY <1>1 DEF OnMessage, p, new, m, kept
<1>10. /\ console' \in Console /\ console'.messages = new
       /\ console'.mounted = console.mounted
       /\ console'.isListening = console.isListening
       /\ console'.activeChannels = console.activeChannels
  BY <1>1, <1>4, <1>9 DEF Console
<1>11. /\ slot' \in [Slots -> Slot] /\ slot'[conn] = p
       /\ \A s \in Slots : s # conn => slot'[s] = slot[s]
  BY <1>1, <1>5, <1>9
<1>12. \A s \in Slots : SlotInv(slot'[s], published) /\ (Heard(slot'[s]) => s = conn)
  BY <1>6, <1>11 DEF PubSubInv
<1>13. \A s \in Slots : SlotInv(slot[s], published)'
  BY <1>9, <1>12 DEF SlotInv
<1>14. Heard(slot'[conn])
  BY <1>1, <1>5, <1>11 DEF Heard
<1> QED
  BY <1>1, <1>4, <1>5, <1>7, <1>8, <1>9, <1>10, <1>11, <1>12, <1>13, <1>14
  DEF PubSubInv

\* A message with a new number follows everything.
LEMMA NewMessage ==
  ASSUME PubSubInv, NEW m \in Message, m.id = published + 1
  PROVE  /\ \A q \in Seq(Message) : UpTo(q, published) =>
              /\ UpTo(q, published + 1)
              /\ \A i \in DOMAIN q : q[i].id < m.id
         /\ published \in Nat
<1>1. published \in Nat
  BY PubSubAssumption DEF PubSubInv
<1>2. ASSUME NEW q \in Seq(Message), UpTo(q, published)
      PROVE  /\ UpTo(q, published + 1)
             /\ \A i \in DOMAIN q : q[i].id < m.id
  <2>1. ASSUME NEW i \in DOMAIN q
        PROVE  q[i].id \in Nat
    <3>1. q[i] \in Message
      OBVIOUS
    <3> QED
      BY <3>1 DEF Message
  <2> QED
    BY <1>1, <1>2, <2>1 DEF UpTo
<1> QED
  BY <1>1, <1>2

\* A subscription gets it.
LEMMA Delivered ==
  ASSUME PubSubInv, NEW s \in Slots, NEW m \in Message, m.id = published + 1,
         demo \/ m.channel \in slot[s].topics,
         NEW r, r = [slot[s] EXCEPT !.inbox = Append(@, m)]
  PROVE  /\ r \in Slot /\ SlotInv(r, published + 1)
         /\ Heard(r) <=> Heard(slot[s])
         /\ r.topics = slot[s].topics
         /\ s = conn => Ahead(console.messages, r)
<1>1. slot[s] \in Slot /\ SlotInv(slot[s], published) /\ demo \in BOOLEAN
  BY DEF PubSubInv
<1>2. /\ slot[s].inbox \in Seq(Message) /\ slot[s].wire \in Seq(Message)
      /\ slot[s].msgChan \in Seq(Message)
  BY <1>1 DEF Slot
<1>3. /\ r.inbox = Append(slot[s].inbox, m) /\ r.wire = slot[s].wire
      /\ r.msgChan = slot[s].msgChan /\ r.sub = slot[s].sub
      /\ r.topics = slot[s].topics /\ r.done = slot[s].done
      /\ r.handler = slot[s].handler
  BY <1>1 DEF Slot
<1> DEFINE q == slot[s].inbox
<1>a. /\ q \in Seq(Message) /\ Rising(q) /\ \A i \in DOMAIN q : q[i].id < m.id
  BY <1>1, <1>2, NewMessage DEF SlotInv
<1>4. /\ Append(q, m) \in Seq(Message) /\ Append(q, m) # <<>>
      /\ Rising(Append(q, m))
      /\ \A p : Before(p, q) /\ (\A i \in DOMAIN p : p[i].id < m.id)
                  => Before(p, Append(q, m))
      /\ \A n : UpTo(q, n) /\ m.id <= n => UpTo(Append(q, m), n)
      /\ \A t : OnTopic(q, t) /\ m.channel \in t => OnTopic(Append(q, m), t)
  <2> HIDE DEF q
  <2> QED
    BY <1>a, Appended
<1>5. r \in Slot
  BY <1>1, <1>4 DEF Slot
<1>6. /\ Rising(r.inbox)
      /\ Before(r.wire, r.inbox) /\ Before(r.msgChan, r.inbox)
      /\ UpTo(r.inbox, published + 1)
      /\ demo \/ OnTopic(r.inbox, r.topics)
  <2>1. /\ \A i \in DOMAIN r.wire : r.wire[i].id < m.id
        /\ \A i \in DOMAIN r.msgChan : r.msgChan[i].id < m.id
        /\ UpTo(q, published + 1) /\ m.id <= published + 1
    BY <1>1, <1>2, <1>3, NewMessage DEF SlotInv
  <2>2. /\ Before(r.wire, q) /\ Before(r.msgChan, q)
        /\ demo \/ OnTopic(q, r.topics)
    BY <1>1, <1>3 DEF SlotInv
  <2> QED
    BY <1>3, <1>4, <2>1, <2>2
<1>7. SlotInv(r, published + 1)
  <2>1. UpTo(r.wire, published + 1) /\ UpTo(r.msgChan, published + 1)
    BY <1>1, <1>2, <1>3, NewMessage DEF SlotInv
  <2> QED
    BY <1>1, <1>3, <1>4, <1>6, <2>1 DEF SlotInv
<1>8. s = conn => Ahead(console.messages, r)
  <2>1. console.messages \in Seq(Message) /\ UpTo(console.messages, published)
    BY DEF PubSubInv, Console
  <2>2. \A i \in DOMAIN console.messages : console.messages[i].id < m.id
    BY <2>1, NewMessage
  <2>3. s = conn => Ahead(console.messages, slot[s])
    BY PubSubAssumption DEF PubSubInv
  <2> QED
    BY <1>3, <1>4, <2>2, <2>3 DEF Ahead
<1> QED
  BY <1>3, <1>5, <1>7, <1>8 DEF Heard

LEMMA PublishStep ==
  ASSUME PubSubInv, PublishMessage
  PROVE  PubSubInv'
<1>1. /\ published' = published + 1 /\ published \in Nat
      /\ published' \in 0 .. MaxMessage
      /\ UNCHANGED <<demo, conn, console>>
  BY PubSubAssumption DEF PublishMessage, PubSubInv
<1>2. PICK c \in Channels :
        slot' = [s \in Slots |->
                   IF slot[s].sub \in {"listening", "holding"} /\ c \in slot[s].topics
                   THEN [slot[s] EXCEPT !.inbox =
                           Append(@, [id |-> published', channel |-> c])]
                   ELSE slot[s]]
  BY DEF PublishMessage
<1> DEFINE m == [id |-> published + 1, channel |-> c]
<1>3. m \in Message /\ m.id = published + 1 /\ m.channel = c
  BY <1>1 DEF Message
<1> HIDE DEF m
<1>4. ASSUME NEW s \in Slots
      PROVE  /\ slot'[s] \in Slot /\ SlotInv(slot'[s], published + 1)
             /\ Heard(slot'[s]) <=> Heard(slot[s])
             /\ slot'[s].topics = slot[s].topics
             /\ s = conn => Ahead(console.messages, slot'[s])
  <2>1. CASE slot[s].sub \in {"listening", "holding"} /\ c \in slot[s].topics
    <3>1. slot'[s] = [slot[s] EXCEPT !.inbox = Append(@, m)]
      BY <1>1, <1>2, <2>1 DEF m
    <3>2. m.channel \in slot[s].topics
      BY <1>3, <2>1
    <3> HIDE <1>2
    <3> QED
      BY <1>3, <3>1, <3>2, Delivered
  <2>2. CASE ~(slot[s].sub \in {"listening", "holding"} /\ c \in slot[s].topics)
    <3>1. slot'[s] = slot[s]
      BY <1>2, <2>2
    <3>2. slot[s] \in Slot /\ SlotInv(slot[s], published)
      BY DEF PubSubInv
    <3>3. SlotInv(slot[s], published + 1)
      BY <1>3, <3>2, NewMessage DEF SlotInv, Slot
    <3>4. s = conn => Ahead(console.messages, slot[s])
      BY PubSubAssumption DEF PubSubInv
    <3> QED
      BY <3>1, <3>2, <3>3, <3>4
  <2> QED
    BY <2>1, <2>2
<1>5. slot' \in [Slots -> Slot]
  BY <1>2, <1>4
<1>6. \A s \in Slots : SlotInv(slot[s], published)'
  BY <1>1, <1>4 DEF SlotInv
<1>7. UpTo(console.messages, published + 1)
  BY <1>3, NewMessage DEF PubSubInv, Console
<1> QED
  BY <1>1, <1>4, <1>5, <1>6, <1>7 DEF PubSubInv

\* The steps of a stream that publish nothing.
LEMMA ServerSideStep ==
  ASSUME PubSubInv, NEW s \in Slots,
         Goroutine(s) \/ SubscribeFails(s) \/ Forward(s) \/ EndHandler(s)
  PROVE  PubSubInv'
<1> DEFINE o == slot[s]
<1>1. /\ o \in Slot /\ SlotInv(o, published) /\ (Heard(o) => s = conn)
      /\ s = conn => Ahead(console.messages, o) /\ Heard(o)
      /\ o.inbox \in Seq(Message) /\ o.msgChan \in Seq(Message)
      /\ o.wire \in Seq(Message) /\ console.messages \in Seq(Message)
      /\ published \in published .. MaxMessage
  BY PubSubAssumption DEF PubSubInv, Slot, Console
<1>2. ASSUME NEW r \in Slot, Becomes(s, r),
             UNCHANGED <<demo, published, conn, console>>,
             SlotInv(r, published), Heard(r) <=> Heard(o), r.topics = o.topics,
             s = conn => Ahead(console.messages, r)
      PROVE  PubSubInv'
  <2>1. SlotInv(r, published') /\ published' \in published .. MaxMessage
    BY <1>1, <1>2
  <2> QED
    BY <1>2, <2>1, SlotStep
<1> HIDE DEF o
<1> USE DEF ServerSide
<1>3. ASSUME NEW sub \in {"listening", "ended"}, UNCHANGED <<demo, published, conn, console>>,
             Becomes(s, [o EXCEPT !.sub = sub])
      PROVE  PubSubInv'
  <2> DEFINE r == [o EXCEPT !.sub = sub]
  <2>1. /\ r \in Slot /\ r.inbox = o.inbox /\ r.msgChan = o.msgChan
        /\ r.wire = o.wire /\ r.topics = o.topics /\ r.sub = sub
        /\ r.handler = o.handler /\ r.done = o.done
    BY <1>1 DEF Slot
  <2> HIDE DEF r
  <2>2. SlotInv(r, published) /\ (s = conn => Ahead(console.messages, r))
    BY <1>1, <2>1 DEF SlotInv, Ahead
  <2> QED
    BY <1>2, <1>3, <2>1, <2>2 DEF Heard, r
<1>4. ASSUME UNCHANGED <<demo, published, conn, console>>,
             Becomes(s, [o EXCEPT !.sub = "ended", !.inbox = <<>>])
      PROVE  PubSubInv'
  <2> DEFINE r == [o EXCEPT !.sub = "ended", !.inbox = <<>>]
  <2>1. /\ r \in Slot /\ r.inbox = <<>> /\ r.msgChan = o.msgChan
        /\ r.wire = o.wire /\ r.topics = o.topics /\ r.sub = "ended"
        /\ r.handler = o.handler /\ r.done = o.done
    BY <1>1, EmptyQueue DEF Slot
  <2> HIDE DEF r
  <2>2. SlotInv(r, published) /\ (s = conn => Ahead(console.messages, r))
    BY <1>1, <2>1, EmptyQueue DEF SlotInv, Ahead
  <2> QED
    BY <1>2, <1>4, <2>1, <2>2 DEF Heard, r
<1>5. CASE Take(s)
  <2> DEFINE r == [o EXCEPT !.sub = "holding"]
  <2>1. /\ r \in Slot /\ r.inbox = o.inbox /\ r.msgChan = o.msgChan
        /\ r.wire = o.wire /\ r.topics = o.topics /\ r.sub = "holding"
        /\ r.handler = o.handler /\ r.done = o.done /\ o.inbox # <<>>
    BY <1>1, <1>5 DEF Slot, Take, o
  <2>2. Becomes(s, r) /\ UNCHANGED <<demo, published, conn, console>>
    BY <1>5 DEF Take, o
  <2> HIDE DEF r
  <2>3. SlotInv(r, published) /\ (s = conn => Ahead(console.messages, r))
    BY <1>1, <2>1 DEF SlotInv, Ahead
  <2> QED
    BY <1>2, <2>1, <2>2, <2>3 DEF Heard
<1>6. CASE Push(s)
  <2> DEFINE m == Head(o.inbox)
             r == [o EXCEPT !.sub = "listening", !.msgChan = Append(@, m),
                            !.inbox = Tail(@)]
  <2>1. o.inbox # <<>> /\ Len(o.msgChan) < Buffer
    BY <1>1, <1>6 DEF SlotInv, Push, o
  <2>2. /\ m \in Message /\ Tail(o.inbox) \in Seq(Message)
        /\ m = o.inbox[1] /\ 1 \in DOMAIN o.inbox
        /\ Rising(Tail(o.inbox))
        /\ \A i \in DOMAIN Tail(o.inbox) : m.id < Tail(o.inbox)[i].id
        /\ UpTo(Tail(o.inbox), published) /\ m.id <= published
        /\ demo \/ (OnTopic(Tail(o.inbox), o.topics) /\ m.channel \in o.topics)
        /\ \A p : Before(p, o.inbox) => Before(p, Tail(o.inbox))
    BY <1>1, <2>1, HeadOfAll DEF SlotInv
  <2>3. Becomes(s, r) /\ UNCHANGED <<demo, published, conn, console>>
    BY <1>6 DEF Push, o
  <2> HIDE DEF m
  <2>4. /\ Append(o.msgChan, m) \in Seq(Message)
        /\ Len(Append(o.msgChan, m)) <= Buffer
    BY <1>1, <2>1, <2>2, PubSubAssumption
  <2>5. /\ r \in Slot /\ r.inbox = Tail(o.inbox)
        /\ r.msgChan = Append(o.msgChan, m)
        /\ r.wire = o.wire /\ r.topics = o.topics /\ r.sub = "listening"
        /\ r.handler = o.handler /\ r.done = o.done
    BY <1>1, <2>2, <2>4 DEF Slot
  <2> HIDE DEF r
  <2>6. \A i \in DOMAIN o.msgChan : o.msgChan[i].id < m.id
    BY <1>1, <2>2 DEF SlotInv, Before
  <2>7. \A i \in DOMAIN o.wire : o.wire[i].id < m.id
    BY <1>1, <2>2 DEF SlotInv, Before
  <2>8. s = conn => \A i \in DOMAIN console.messages :
                      console.messages[i].id < m.id
    BY <1>1, <2>2 DEF Ahead, Before
  <2>9. /\ Rising(r.msgChan) /\ Before(r.wire, r.msgChan)
        /\ Before(r.msgChan, r.inbox) /\ UpTo(r.msgChan, published)
        /\ demo \/ OnTopic(r.msgChan, r.topics)
    <3> DEFINE q == o.msgChan
    <3>1. /\ Before(q, Tail(o.inbox)) /\ Before(o.wire, q)
          /\ UpTo(q, published) /\ (demo \/ OnTopic(q, o.topics))
          /\ q \in Seq(Message) /\ Rising(q)
      BY <1>1, <2>2 DEF SlotInv
    <3>2. \A i \in DOMAIN q : q[i].id < m.id
      BY <2>6
    <3> HIDE DEF q
    <3>3. /\ Rising(Append(q, m)) /\ Before(o.wire, Append(q, m))
          /\ Before(Append(q, m), Tail(o.inbox))
          /\ UpTo(Append(q, m), published)
          /\ demo \/ OnTopic(Append(q, m), o.topics)
      BY <2>2, <2>7, <3>1, <3>2, Appended
    <3> QED
      BY <2>5, <3>3 DEF q
  <2>10. Before(r.wire, r.inbox)
    BY <1>1, <2>1, <2>5, Taken DEF SlotInv
  <2>11. SlotInv(r, published)
    BY <1>1, <2>2, <2>4, <2>5, <2>9, <2>10 DEF SlotInv
  <2>12. s = conn => Ahead(console.messages, r)
    <3> SUFFICES ASSUME s = conn
                 PROVE  Ahead(console.messages, r)
      OBVIOUS
    <3>1. /\ Before(console.messages, o.msgChan) /\ Rising(o.msgChan)
          /\ o.msgChan \in Seq(Message)
      BY <1>1 DEF Ahead, SlotInv
    <3>2. Before(console.messages, Append(o.msgChan, m))
      BY <2>2, <2>6, <2>8, <3>1, Appended
    <3> QED
      BY <1>1, <2>2, <2>5, <3>2 DEF Ahead
  <2> QED
    BY <1>2, <2>3, <2>5, <2>11, <2>12 DEF Heard
<1>7. CASE Forward(s)
  <2> DEFINE m == Head(o.msgChan)
             w == IF o.done THEN <<>> ELSE Append(o.wire, m)
             r == [o EXCEPT !.wire = w, !.msgChan = Tail(@)]
  <2>1. o.msgChan # <<>>
    BY <1>7 DEF Forward, o
  <2>2. /\ m \in Message /\ Tail(o.msgChan) \in Seq(Message)
        /\ m = o.msgChan[1] /\ 1 \in DOMAIN o.msgChan
        /\ Rising(Tail(o.msgChan)) /\ Len(Tail(o.msgChan)) < Len(o.msgChan)
        /\ \A i \in DOMAIN Tail(o.msgChan) : m.id < Tail(o.msgChan)[i].id
        /\ UpTo(Tail(o.msgChan), published) /\ m.id <= published
        /\ demo \/ (OnTopic(Tail(o.msgChan), o.topics) /\ m.channel \in o.topics)
        /\ Before(o.wire, Tail(o.msgChan)) /\ Before(Tail(o.msgChan), o.inbox)
    BY <1>1, <2>1, HeadOfAll DEF SlotInv
  <2>3. Becomes(s, r) /\ UNCHANGED <<demo, published, conn, console>>
    BY <1>7 DEF Forward, o
  <2> HIDE DEF m
  <2>4. /\ \A i \in DOMAIN o.wire : o.wire[i].id < m.id
        /\ \A i \in DOMAIN o.inbox : m.id < o.inbox[i].id
        /\ s = conn => \A i \in DOMAIN console.messages :
                         console.messages[i].id < m.id
    BY <1>1, <2>2 DEF SlotInv, Ahead, Before
  <2>5. /\ w \in Seq(Message) /\ Rising(w) /\ UpTo(w, published)
        /\ Before(w, Tail(o.msgChan)) /\ Before(w, o.inbox)
        /\ demo \/ OnTopic(w, o.topics)
        /\ s = conn => Before(console.messages, w)
    <3>1. CASE o.done
      BY <3>1, EmptyQueue
    <3>2. CASE ~o.done
      BY <1>1, <2>2, <2>4, <3>2, Appended DEF SlotInv, Ahead
    <3> QED
      BY <3>1, <3>2
  <2> HIDE DEF w
  <2>6. /\ r \in Slot /\ r.inbox = o.inbox /\ r.msgChan = Tail(o.msgChan)
        /\ r.wire = w /\ r.topics = o.topics /\ r.sub = o.sub
        /\ r.handler = o.handler /\ r.done = o.done
    BY <1>1, <2>2, <2>5 DEF Slot
  <2> HIDE DEF r
  <2>7. Len(r.msgChan) <= Buffer
    BY <1>1, <2>2, <2>6, PubSubAssumption DEF SlotInv
  <2>8. SlotInv(r, published)
    BY <1>1, <2>2, <2>5, <2>6, <2>7 DEF SlotInv
  <2>9. s = conn => Ahead(console.messages, r)
    BY <1>1, <2>1, <2>5, <2>6, Taken DEF Ahead
  <2> QED
    BY <1>2, <2>3, <2>6, <2>8, <2>9 DEF Heard
<1>8. CASE EndHandler(s)
  <2> DEFINE r == [o EXCEPT !.handler = "none"]
  <2>1. /\ r \in Slot /\ r.inbox = o.inbox /\ r.msgChan = o.msgChan
        /\ r.wire = o.wire /\ r.topics = o.topics /\ r.sub = o.sub
        /\ r.handler = "none" /\ o.done
    BY <1>1, <1>8 DEF Slot, EndHandler, o
  <2>2. Becomes(s, r) /\ UNCHANGED <<demo, published, conn, console>>
    BY <1>8 DEF EndHandler, o
  <2> HIDE DEF r
  <2>3. SlotInv(r, published) /\ (s = conn => Ahead(console.messages, r))
    BY <1>1, <2>1 DEF SlotInv, Ahead
  <2> QED
    BY <1>2, <2>1, <2>2, <2>3 DEF Heard
<1>9. CASE Subscribe(s)
  BY <1>3, <1>9 DEF Subscribe, o
<1>10. CASE EndSubscription(s)
  BY <1>4, <1>10 DEF EndSubscription, o
<1>11. CASE SubscribeFails(s)
  BY <1>4, <1>11 DEF SubscribeFails, o
<1> QED
  BY <1>5, <1>6, <1>7, <1>8, <1>9, <1>10, <1>11 DEF Goroutine

\* What the demo makes up comes in the place of what it had.
LEMMA MakeUpStep ==
  ASSUME PubSubInv, NEW s \in Slots, MakeUp(s)
  PROVE  PubSubInv'
<1>1. /\ published' = published + 1 /\ published \in Nat /\ demo
      /\ published' \in published .. MaxMessage
      /\ UNCHANGED <<demo, conn, console>>
      /\ slot[s] \in Slot /\ SlotInv(slot[s], published)
      /\ s = conn => Ahead(console.messages, slot[s])
  BY PubSubAssumption DEF MakeUp, PubSubInv
<1>2. PICK c \in Channels :
        slot' = [slot EXCEPT ![s].sub = "holding",
                             ![s].inbox = <<[id |-> published', channel |-> c]>>]
  BY DEF MakeUp
<1> DEFINE m == [id |-> published + 1, channel |-> c]
           q == <<m>>
           r == [slot[s] EXCEPT !.sub = "holding", !.inbox = q]
<1>3. slot' = [slot EXCEPT ![s] = r]
  BY <1>1, <1>2 DEF PubSubInv
<1>4. m \in Message /\ m.id = published + 1
  BY <1>1 DEF Message
<1> HIDE DEF m
<1>5. /\ q \in Seq(Message) /\ q # <<>> /\ Rising(q) /\ UpTo(q, published + 1)
      /\ \A p \in Seq(Message) : UpTo(p, published) =>
           UpTo(p, published + 1) /\ Before(p, q)
  <2>1. /\ q \in Seq(Message) /\ q # <<>> /\ \A i \in DOMAIN q : i = 1 /\ q[i] = m
    BY <1>4
  <2> HIDE DEF q
  <2>2. Rising(q) /\ UpTo(q, published + 1)
    BY <1>1, <1>4, <2>1 DEF Rising, UpTo
  <2>3. ASSUME NEW p \in Seq(Message), UpTo(p, published)
        PROVE  UpTo(p, published + 1) /\ Before(p, q)
    <3>1. \A i \in DOMAIN p : p[i].id < m.id
      BY <1>4, <2>3, NewMessage
    <3> QED
      BY <1>4, <2>1, <2>3, <3>1, NewMessage DEF Before
  <2> QED
    BY <2>1, <2>2, <2>3
<1> HIDE DEF q
<1>6. /\ r \in Slot /\ r.inbox = q /\ r.msgChan = slot[s].msgChan
      /\ r.wire = slot[s].wire /\ r.topics = slot[s].topics
      /\ r.sub = "holding" /\ r.handler = slot[s].handler
      /\ r.done = slot[s].done
      /\ slot[s].wire \in Seq(Message) /\ slot[s].msgChan \in Seq(Message)
  BY <1>1, <1>5 DEF Slot
<1>7. Becomes(s, r)
  BY <1>3, <1>6 DEF Becomes
<1> HIDE DEF r
<1>8. SlotInv(r, published + 1)
  BY <1>1, <1>5, <1>6 DEF SlotInv
<1>9. s = conn => Ahead(console.messages, r)
  BY <1>1, <1>5, <1>6 DEF Ahead, PubSubInv, Console
<1> QED
  BY <1>1, <1>6, <1>7, <1>8, <1>9, SlotStep DEF Heard

LEMMA PubSubNextInv ==
  ASSUME PubSubInv, [PubSubNext]_pubsubVars
  PROVE  PubSubInv'
<1>1. console \in Console /\ conn \in Slots \cup {NoSlot} /\ published \in Nat
  BY PubSubAssumption DEF PubSubInv
<1>2. /\ FreshConsole \in Console
      /\ [FreshConsole EXCEPT !.mounted = FALSE] \in Console
      /\ FreshConsole.messages = <<>>
      /\ [FreshConsole EXCEPT !.mounted = FALSE].messages = <<>>
  BY PubSubAssumption, EmptyQueue DEF FreshConsole, Console
<1>3. ASSUME NEW c \in Console, Resubscribe(c),
             c.messages = console.messages \/ c.messages = <<>>
      PROVE  PubSubInv'
  BY <1>3, HangupStep DEF Resubscribe
<1>4. CASE StreamBreaks
  BY <1>1, <1>4, HangupStep DEF StreamBreaks
<1>5. CASE OpenConsole
  <2>1. conn = NoSlot
    BY <1>5 DEF OpenConsole, PubSubInv
  <2> QED
    BY <1>2, <1>5, <2>1, ConsoleStep DEF OpenConsole
<1>6. CASE LeaveConsole
  BY <1>2, <1>3, <1>6 DEF LeaveConsole
<1>7. CASE TogglePause
  <2> DEFINE c == [console EXCEPT !.isListening = ~@]
  <2>1. c \in Console /\ c.messages = console.messages
    BY <1>1 DEF Console
  <2>2. Resubscribe(c)
    BY <1>7 DEF TogglePause
  <2> QED
    BY <1>3, <2>1, <2>2
<1>8. CASE ApplySubscription
  <2>1. PICK ts \in Topics : Resubscribe([console EXCEPT !.activeChannels = ts])
    BY <1>8 DEF ApplySubscription
  <2> DEFINE c == [console EXCEPT !.activeChannels = ts]
  <2>2. c \in Console /\ c.messages = console.messages
    BY <1>1 DEF Console
  <2> QED
    BY <1>3, <2>1, <2>2
<1>9. ASSUME NEW c \in Console, console' = c,
             UNCHANGED <<demo, published, slot, conn>>,
             c.mounted = console.mounted, c.isListening = console.isListening,
             c.activeChannels = console.activeChannels,
             c.messages = console.messages \/ c.messages = <<>>
      PROVE  PubSubInv'
  <2>1. conn # NoSlot => console.mounted /\ console.isListening
    BY DEF PubSubInv
  <2> QED
    BY <1>9, <2>1, ConsoleStep
<1>10. CASE ClearMessages
  <2> DEFINE c == [console EXCEPT !.messages = <<>>]
  <2>1. /\ c \in Console /\ c.messages = <<>> /\ c.mounted = console.mounted
        /\ c.isListening = console.isListening
        /\ c.activeChannels = console.activeChannels
    BY <1>1, EmptyQueue DEF Console
  <2>2. console' = c /\ UNCHANGED <<demo, published, slot, conn>>
    BY <1>10 DEF ClearMessages
  <2> HIDE DEF c
  <2> QED
    BY <1>9, <2>1, <2>2
<1>11. ASSUME NEW p \in BOOLEAN, NEW status \in {"none", "published", "failed"},
              UNCHANGED <<demo, published, slot, conn>>,
              console' = [console EXCEPT !.isPublishing = p, !.publishStatus = status]
       PROVE  PubSubInv'
  <2> DEFINE c == [console EXCEPT !.isPublishing = p, !.publishStatus = status]
  <2>1. /\ c \in Console /\ c.messages = console.messages
        /\ c.mounted = console.mounted
        /\ c.isListening = console.isListening
        /\ c.activeChannels = console.activeChannels
    BY <1>1 DEF Console
  <2>2. console' = c
    BY <1>11
  <2> HIDE DEF c
  <2> QED
    BY <1>9, <1>11, <2>1, <2>2
<1>12. CASE SubmitPublish \/ OnPublished
  BY <1>11, <1>12 DEF SubmitPublish, OnPublished
<1>13. CASE ClearStatus
  <2>1. /\ console.isPublishing \in BOOLEAN
        /\ [console EXCEPT !.publishStatus = "none"]
             = [console EXCEPT !.isPublishing = console.isPublishing,
                               !.publishStatus = "none"]
    BY <1>1 DEF Console
  <2> QED
    BY <1>11, <1>13, <2>1 DEF ClearStatus
<1>14. CASE UNCHANGED pubsubVars
  BY <1>14 DEF pubsubVars, PubSubInv, SlotInv
<1> QED
  BY <1>4, <1>5, <1>6, <1>7, <1>8, <1>10, <1>12, <1>13, <1>14, ConnectStep,
     OnMessageStep, PublishStep, ServerSideStep, MakeUpStep DEF PubSubNext

\* What a step adds to the list comes from the console's stream.
LEMMA ShownFromStream ==
  ASSUME PubSubInv, [PubSubNext]_pubsubVars,
         console'.messages # console.messages, console'.messages # <<>>
  PROVE  OnMessage
<1>1. console \in Console
  BY DEF PubSubInv
<1>2. CASE \/ Connect \/ StreamBreaks \/ PublishMessage \/ UNCHANGED pubsubVars
           \/ \E s \in Slots : \/ Goroutine(s) \/ SubscribeFails(s) \/ MakeUp(s)
                               \/ Forward(s) \/ EndHandler(s)
  BY <1>2 DEF Connect, StreamBreaks, PublishMessage, pubsubVars, Goroutine,
       Subscribe, Take, Push, EndSubscription, SubscribeFails, MakeUp, Forward,
       EndHandler, ServerSide
<1>3. CASE OpenConsole \/ LeaveConsole
  BY <1>3 DEF OpenConsole, LeaveConsole, Resubscribe, FreshConsole
<1>4. CASE \/ TogglePause \/ ApplySubscription \/ SubmitPublish \/ OnPublished
           \/ ClearStatus \/ ClearMessages
  BY <1>1, <1>4 DEF TogglePause, ApplySubscription, Resubscribe, SubmitPublish,
       OnPublished, ClearStatus, ClearMessages, Console
<1> QED
  BY <1>2, <1>3, <1>4 DEF PubSubNext

LEMMA ShownOnceStep ==
  ASSUME PubSubInv, [PubSubNext]_pubsubVars,
         console'.messages # console.messages, console'.messages # <<>>
  PROVE  /\ console.isListening
         /\ demo \/ console'.messages[1].channel \in console.activeChannels
         /\ \A i \in DOMAIN console.messages :
              console.messages[i].id < console'.messages[1].id
<1> DEFINE r == slot[conn]
           old == console.messages
<1>1. OnMessage
  BY ShownFromStream
<1>2. /\ conn \in Slots /\ r \in Slot /\ SlotInv(r, published)
      /\ Ahead(old, r) /\ r.topics = console.activeChannels
      /\ r.wire \in Seq(Message) /\ r.wire # <<>> /\ console.isListening
      /\ console \in Console /\ old \in Seq(Message) /\ demo \in BOOLEAN
  BY <1>1 DEF PubSubInv, OnMessage, Slot, Console
<1>3. /\ Head(r.wire) = r.wire[1] /\ 1 \in DOMAIN r.wire
      /\ Head(r.wire) \in Message
  BY <1>2, Taken
<1>4. console'.messages[1] = Head(r.wire)
  <2> DEFINE kept == IF Len(old) < Kept THEN old ELSE SubSeq(old, 1, Kept - 1)
  <2>1. kept \in Seq(Message)
    BY <1>2, PubSubAssumption
  <2>2. console'.messages = <<Head(r.wire)>> \o kept
    BY <1>1, <1>2 DEF OnMessage, Console
  <2> HIDE DEF kept
  <2> QED
    BY <1>3, <2>1, <2>2
<1> QED
  BY <1>2, <1>3, <1>4 DEF SlotInv, Ahead, Before, OnTopic
-----------------------------------------------------------------------------
(* The invariant of the dashboard *)

\* A snapshot the monitor had when its last point was p or an older one, with
\* what has come since.
Sound(x, p) ==
  /\ x \in Snapshots
  /\ x.current <= p
  /\ Len(x.history) <= IF Ring < Cap THEN Cap ELSE Ring

SoundEvent(e, p, l) ==
  /\ e.event = "snapshot" => Sound(e.data, p)
  /\ e.event = "metric" => e.data \in 0 .. p
  /\ e.event = "slowlog" => e.data \in Seq(1 .. l)

Reply ==
  [status : {"none", "asked", "answered"},
   reply : Snapshots \cup {None} \cup Seq(Nat)]

\* A list of slow entries up to number l, as long as the dashboard keeps it.
ShortList(q, l) == q \in Seq(1 .. l) /\ Len(q) <= SlowCap

TelemetryInv ==
  /\ point \in 0 .. MaxPoint
  /\ slow \in 0 .. MaxSlow /\ mark \in 0 .. slow
  /\ board \in Boards \cup {None}
  /\ board = None => first = NoRequests /\ wire = None
  /\ board # None =>
       /\ ShortList(board.slowlogs, slow)
       /\ board.snapshot # None => Sound(board.snapshot, point)
  /\ first \in [Requests -> Reply]
  /\ first["snapshot"].status = "answered" => Sound(first["snapshot"].reply, point)
  /\ first["slowlogs"].status = "answered" =>
       ShortList(first["slowlogs"].reply, slow)
  /\ wire \in Seq(Events) \cup {None}
  /\ wire # None => /\ Len(wire) <= MaxWire
                    /\ \A i \in DOMAIN wire : SoundEvent(wire[i], point, slow)

LEMMA TelemetryInvType == TelemetryInv => TelemetryTypeOK
<1> SUFFICES ASSUME TelemetryInv
             PROVE  TelemetryTypeOK
  OBVIOUS
<1>1. board # None /\ board.snapshot # None =>
        /\ board.snapshot.current \in 0 .. point
        /\ Len(board.snapshot.history) <= IF Ring < Cap THEN Cap ELSE Ring
  BY DEF TelemetryInv, Sound, Snapshots
<1> QED
  BY <1>1 DEF TelemetryInv, TelemetryTypeOK, ShortList

\* The monitor's snapshot has its newest points, as many as the ring holds.
LEMMA SnapshotSound ==
  ASSUME point \in Nat
  PROVE  Sound(Snapshot(point), point) /\ Snapshot(point) \in Snapshots
<1> DEFINE n == IF point < Ring THEN point ELSE Ring
           h == [i \in 1 .. n |-> point - n + i]
<1>1. n \in Nat /\ n <= point /\ n <= Ring
  BY TelemetryAssumption
<1>2. Snapshot(point) = [current |-> point, history |-> h]
  BY DEF Snapshot
<1> HIDE DEF n
<1>3. \A i \in 1 .. n : point - n + i \in Nat
  BY <1>1
<1>4. h \in Seq(Nat) /\ Len(h) = n
  BY <1>1, <1>3
<1> HIDE DEF h
<1> QED
  BY <1>1, <1>2, <1>4, TelemetryAssumption DEF Sound, Snapshots

\* A point that comes takes the place of the oldest when the list is long.
LEMMA AddPointSound ==
  ASSUME NEW x, x # None => Sound(x, point), NEW p \in Nat, p <= point, point \in Nat
  PROVE  AddPoint(x, p) # None => Sound(AddPoint(x, p), point)
<1> SUFFICES ASSUME x # None
             PROVE  Sound(AddPoint(x, p), point)
  BY DEF AddPoint
<1> DEFINE longer == Append(x.history, p)
           h == IF Len(longer) > Cap THEN Tail(longer) ELSE longer
           limit == IF Ring < Cap THEN Cap ELSE Ring
<1>1. x \in Snapshots /\ x.history \in Seq(Nat) /\ Len(x.history) <= limit
  BY DEF Sound, Snapshots
<1>2. limit \in Nat /\ Cap \in Nat /\ Cap <= limit
  BY TelemetryAssumption
<1>3. /\ longer \in Seq(Nat) /\ Len(longer) = Len(x.history) + 1
      /\ longer # <<>> /\ Tail(longer) \in Seq(Nat)
      /\ Len(Tail(longer)) = Len(x.history)
  BY <1>1
<1> HIDE DEF limit, longer
<1>4. h \in Seq(Nat) /\ Len(h) <= limit
  BY <1>1, <1>2, <1>3
<1>5. AddPoint(x, p) = [x EXCEPT !.current = p, !.history = h]
  BY DEF AddPoint, longer
<1> HIDE DEF h
<1> QED
  BY <1>1, <1>4, <1>5 DEF Sound, Snapshots, limit

\* Entries of a shorter log are entries of a longer one.
LEMMA MoreEntries ==
  ASSUME NEW k \in Nat, NEW l \in Nat, k <= l, NEW q \in Seq(1 .. k)
  PROVE  q \in Seq(1 .. l) /\ q \in Seq(Nat)
<1>1. /\ Len(q) \in Nat /\ q \in [1 .. Len(q) -> 1 .. k]
      /\ 1 .. k \subseteq 1 .. l /\ 1 .. k \subseteq Nat
  OBVIOUS
<1>2. q \in [1 .. Len(q) -> 1 .. l] /\ q \in [1 .. Len(q) -> Nat]
  BY <1>1
<1> QED
  BY <1>1, <1>2

\* What is read from the slow log.
LEMMA SlowLogIs ==
  ASSUME NEW above \in Nat, above <= slow, slow \in Nat, NEW n \in Nat
  PROVE  SlowLog(above, n) \in Seq(1 .. slow) /\ Len(SlowLog(above, n)) <= n
<1> DEFINE k == IF slow - above < n THEN slow - above ELSE n
<1>1. k \in Nat /\ k <= n /\ k <= slow
  OBVIOUS
<1>2. SlowLog(above, n) = [i \in 1 .. k |-> slow + 1 - i]
  BY DEF SlowLog
<1> HIDE DEF k
<1>3. \A i \in 1 .. k : slow + 1 - i \in 1 .. slow
  BY <1>1
<1> DEFINE q == [i \in 1 .. k |-> slow + 1 - i]
<1>4. q \in [1 .. k -> 1 .. slow]
  BY <1>3
<1>5. q \in Seq(1 .. slow) /\ Len(q) = k
  BY <1>1, <1>4
<1> QED
  BY <1>1, <1>2, <1>5

\* The list is cut when more is found.
LEMMA AddSlowIs ==
  ASSUME NEW n \in Nat, NEW list \in Seq(1 .. n), NEW found \in Seq(1 .. n)
  PROVE  ShortList(AddSlow(list, found), n)
<1> DEFINE all == found \o list
           cut == SubSeq(all, 1, SlowCap)
<1>1. all \in Seq(1 .. n) /\ Len(all) \in Nat /\ SlowCap \in Nat
  BY TelemetryAssumption
<1>2. AddSlow(list, found) = IF Len(all) > SlowCap THEN cut ELSE all
  BY DEF AddSlow
<1> HIDE DEF all
<1>3. Len(all) > SlowCap => cut \in Seq(1 .. n) /\ Len(cut) = SlowCap
  BY <1>1
<1> HIDE DEF cut
<1> QED
  BY <1>1, <1>2, <1>3 DEF ShortList

\* The figures only grow, and what was sound stays sound.
LEMMA SoundGrows ==
  ASSUME NEW p \in Nat, NEW q \in Nat, p <= q,
         NEW k \in Nat, NEW l \in Nat, k <= l
  PROVE  /\ \A x : Sound(x, p) => Sound(x, q)
         /\ \A e : SoundEvent(e, p, k) => SoundEvent(e, q, l)
         /\ \A s : ShortList(s, k) => ShortList(s, l)
<1>1. \A x : Sound(x, p) => Sound(x, q)
  BY DEF Sound, Snapshots
<1>2. 0 .. p \subseteq 0 .. q
  OBVIOUS
<1>3. \A s \in Seq(1 .. k) : s \in Seq(1 .. l)
  BY MoreEntries
<1>4. \A s : ShortList(s, k) => ShortList(s, l)
  BY <1>3 DEF ShortList
<1>5. \A e : SoundEvent(e, p, k) => SoundEvent(e, q, l)
  BY <1>1, <1>2, <1>3 DEF SoundEvent
<1> QED
  BY <1>1, <1>4, <1>5

\* The monitor polls, a command is slow, the shell takes the news.
LEMMA ServerGrows ==
  ASSUME TelemetryInv, point' \in point .. MaxPoint, slow' \in slow .. MaxSlow,
         mark' \in 0 .. slow', UNCHANGED <<board, first, wire>>
  PROVE  TelemetryInv'
<1>1. /\ point \in Nat /\ point' \in 0 .. MaxPoint /\ point <= point'
      /\ slow \in Nat /\ slow' \in 0 .. MaxSlow /\ slow <= slow'
      /\ point' \in Nat /\ slow' \in Nat
  BY TelemetryAssumption DEF TelemetryInv
<1>2. /\ \A x : Sound(x, point) => Sound(x, point')
      /\ \A e : SoundEvent(e, point, slow) => SoundEvent(e, point', slow')
      /\ \A q : ShortList(q, slow) => ShortList(q, slow')
  BY <1>1, SoundGrows
<1>3. board # None =>
        /\ ShortList(board.slowlogs, slow')
        /\ board.snapshot # None => Sound(board.snapshot, point')
  BY <1>2 DEF TelemetryInv
<1>4. /\ first["snapshot"].status = "answered" => Sound(first["snapshot"].reply, point')
      /\ first["slowlogs"].status = "answered" =>
           ShortList(first["slowlogs"].reply, slow')
  BY <1>2 DEF TelemetryInv
<1>5. wire # None => \A i \in DOMAIN wire : SoundEvent(wire[i], point', slow')
  BY <1>2 DEF TelemetryInv
<1> QED
  BY <1>1, <1>3, <1>4, <1>5 DEF TelemetryInv, Sound, SoundEvent

LEMMA AllRequests ==
  /\ NoRequests \in [Requests -> Reply] /\ All("asked") \in [Requests -> Reply]
  /\ \A r \in Requests : /\ NoRequests[r] \in Reply
                          /\ NoRequests[r].status = "none"
                          /\ All("asked")[r].status = "asked"
<1>1. ASSUME NEW status \in {"none", "asked"}
      PROVE  /\ All(status) \in [Requests -> Reply]
             /\ \A r \in Requests : All(status)[r].status = status
  <2> DEFINE v == [status |-> status, reply |-> None]
  <2>1. v \in Reply /\ v.status = status
    <3>1. status \in {"none", "asked", "answered"}
      OBVIOUS
    <3>2. None \in Snapshots \cup {None} \cup Seq(Nat)
      OBVIOUS
    <3> QED
      BY <3>1, <3>2 DEF Reply
  <2>2. All(status) = [r \in Requests |-> v]
    BY DEF All
  <2> HIDE DEF v
  <2> QED
    BY <2>1, <2>2
<1>2. NoRequests = All("none")
  BY DEF NoRequests
<1> QED
  BY <1>1, <1>2

LEMMA EmptyBoardSound ==
  /\ EmptyBoard \in Boards /\ EmptyBoard # None
  /\ EmptyBoard.snapshot = None
  /\ \A n \in Nat : ShortList(EmptyBoard.slowlogs, n)
<1>1. EmptyBoard \in Boards
  BY DEF EmptyBoard, Boards
<1>2. \A n \in Nat : ShortList(<<>>, n)
  BY TelemetryAssumption DEF ShortList
<1> QED
  BY <1>1, <1>2, TelemetryAssumption DEF EmptyBoard

LEMMA TelemetryInitInv == TelemetryInit => TelemetryInv
BY AllRequests, TelemetryAssumption DEF TelemetryInit, TelemetryInv, Requests

\* The first requests change, and no board.
LEMMA RequestsStep ==
  ASSUME TelemetryInv, UNCHANGED <<point, slow, mark, board, wire>>,
         NEW r \in Requests, NEW v \in Reply, board # None,
         first' = [first EXCEPT ![r] = v],
         v.status = "answered" =>
           IF r = "snapshot" THEN Sound(v.reply, point)
                             ELSE ShortList(v.reply, slow)
  PROVE  TelemetryInv'
<1>1. /\ first' \in [Requests -> Reply] /\ first'[r] = v
      /\ \A t \in Requests : t # r => first'[t] = first[t]
  BY DEF TelemetryInv
<1>2. /\ first'["snapshot"].status = "answered" =>
           Sound(first'["snapshot"].reply, point)
      /\ first'["slowlogs"].status = "answered" =>
           ShortList(first'["slowlogs"].reply, slow)
  BY <1>1 DEF TelemetryInv, Requests
<1> QED
  BY <1>1, <1>2 DEF TelemetryInv, Sound, SoundEvent

LEMMA AskedFromBoard ==
  ASSUME TelemetryInv, NEW r \in Requests, first[r].status # "none"
  PROVE  board # None
BY AllRequests DEF TelemetryInv

LEMMA ServeStep ==
  ASSUME TelemetryInv, NEW r \in Requests, Serve(r)
  PROVE  TelemetryInv'
<1> DEFINE v == [status |-> "answered",
                 reply |-> IF r = "snapshot" THEN Snapshot(point)
                           ELSE SlowLog(0, SlowCap)]
<1>1. point \in Nat /\ slow \in Nat
  BY TelemetryAssumption DEF TelemetryInv
<1>2. Sound(Snapshot(point), point) /\ Snapshot(point) \in Snapshots
  BY <1>1, SnapshotSound
<1>s. ShortList(SlowLog(0, SlowCap), slow) /\ SlowLog(0, SlowCap) \in Seq(Nat)
  <2>1. /\ SlowLog(0, SlowCap) \in Seq(1 .. slow)
        /\ Len(SlowLog(0, SlowCap)) <= SlowCap
    BY <1>1, SlowLogIs, TelemetryAssumption
  <2> QED
    BY <1>1, <2>1, MoreEntries DEF ShortList
<1>3. /\ v \in Reply
      /\ IF r = "snapshot" THEN Sound(v.reply, point)
                           ELSE ShortList(v.reply, slow)
  BY <1>1, <1>2, <1>s DEF Reply
<1>4. board # None
  BY AskedFromBoard DEF Serve
<1> QED
  BY <1>3, <1>4, RequestsStep DEF Serve

LEMMA RequestFailsStep ==
  ASSUME TelemetryInv, NEW r \in Requests, RequestFails(r)
  PROVE  TelemetryInv'
<1>1. board # None
  BY AskedFromBoard DEF RequestFails
<1> QED
  BY <1>1, AllRequests, RequestsStep DEF RequestFails

\* What a dashboard shows changes to b, with what is on its way to it.
LEMMA BoardStep ==
  ASSUME TelemetryInv, UNCHANGED <<point, slow>>, mark' \in 0 .. slow,
         NEW b \in Boards, board' = b,
         ShortList(b.slowlogs, slow),
         b.snapshot # None => Sound(b.snapshot, point),
         first' = first \/ \E r \in Requests : first' = [first EXCEPT ![r] = NoRequests[r]],
         NEW w \in Seq(Events) \cup {None}, wire' = w,
         w # None => /\ Len(w) <= MaxWire
                     /\ \A i \in DOMAIN w : SoundEvent(w[i], point, slow)
  PROVE  TelemetryInv'
<1>1. b # None
  BY TelemetryAssumption
<1>2. /\ first' \in [Requests -> Reply]
      /\ first'["snapshot"].status = "answered" =>
           Sound(first'["snapshot"].reply, point)
      /\ first'["slowlogs"].status = "answered" =>
           ShortList(first'["slowlogs"].reply, slow)
  <2>1. CASE first' = first
    BY <2>1 DEF TelemetryInv
  <2>2. ASSUME NEW r \in Requests, first' = [first EXCEPT ![r] = NoRequests[r]]
        PROVE  <1>2
    <3>1. /\ first' \in [Requests -> Reply] /\ first'[r].status = "none"
          /\ \A t \in Requests : t # r => first'[t] = first[t]
      BY <2>2, AllRequests DEF TelemetryInv
    <3> QED
      BY <3>1 DEF TelemetryInv, Requests
  <2> QED
    BY <2>1, <2>2
<1>3. wire' # None => /\ Len(wire') <= MaxWire
                      /\ \A i \in DOMAIN wire' : SoundEvent(wire'[i], point', slow')
  OBVIOUS
<1> QED
  BY <1>1, <1>2, <1>3 DEF TelemetryInv, Sound, SoundEvent

LEMMA WireTyped ==
  ASSUME TelemetryInv, wire # None
  PROVE  /\ wire \in Seq(Events) /\ Len(wire) <= MaxWire /\ board # None
         /\ \A i \in DOMAIN wire : SoundEvent(wire[i], point, slow)
BY DEF TelemetryInv

LEMMA OneEvent ==
  ASSUME NEW e \in Events, SoundEvent(e, point, slow)
  PROVE  /\ <<e>> \in Seq(Events) /\ Len(<<e>>) = 1
         /\ \A i \in DOMAIN <<e>> : SoundEvent(<<e>>[i], point, slow)
OBVIOUS

LEMMA MoreEvents ==
  ASSUME NEW q \in Seq(Events), NEW e \in Events, SoundEvent(e, point, slow),
         \A i \in DOMAIN q : SoundEvent(q[i], point, slow)
  PROVE  /\ Append(q, e) \in Seq(Events) /\ Len(Append(q, e)) = Len(q) + 1
         /\ \A i \in DOMAIN Append(q, e) : SoundEvent(Append(q, e)[i], point, slow)
<1> DEFINE a == Append(q, e)
<1>1. /\ a \in Seq(Events) /\ Len(a) = Len(q) + 1 /\ Len(q) \in Nat
      /\ DOMAIN a = 1 .. Len(q) + 1 /\ DOMAIN q = 1 .. Len(q)
      /\ \A i \in 1 .. Len(q) : a[i] = q[i]
      /\ a[Len(q) + 1] = e
  OBVIOUS
<1> HIDE DEF a
<1>2. ASSUME NEW i \in DOMAIN a
      PROVE  SoundEvent(a[i], point, slow)
  <2>1. i \in 1 .. Len(q) \/ i = Len(q) + 1
    BY <1>1
  <2> QED
    BY <1>1, <2>1
<1> QED
  BY <1>1, <1>2 DEF a

LEMMA OpenStreamStep ==
  ASSUME TelemetryInv, OpenStream
  PROVE  TelemetryInv'
<1> DEFINE e == [event |-> "snapshot", data |-> Snapshot(point)]
<1>1. point \in Nat
  BY TelemetryAssumption DEF TelemetryInv
<1>2. e \in Events /\ SoundEvent(e, point, slow)
  BY <1>1, SnapshotSound DEF Events, SoundEvent
<1>3. /\ board \in Boards /\ wire' = <<e>> /\ mark \in 0 .. slow
      /\ ShortList(board.slowlogs, slow)
      /\ board.snapshot # None => Sound(board.snapshot, point)
      /\ UNCHANGED <<point, slow, mark, board, first>>
  BY DEF TelemetryInv, OpenStream
<1> HIDE DEF e
<1>4. /\ <<e>> \in Seq(Events) /\ Len(<<e>>) <= MaxWire
      /\ \A i \in DOMAIN <<e>> : SoundEvent(<<e>>[i], point, slow)
  BY <1>2, OneEvent, TelemetryAssumption
<1> QED
  BY <1>3, <1>4, BoardStep

LEMMA StreamTickStep ==
  ASSUME TelemetryInv, StreamTick
  PROVE  TelemetryInv'
<1> DEFINE metric == [event |-> "metric", data |-> point]
           found == [event |-> "slowlog", data |-> SlowLog(mark, Checked)]
           q == Append(wire, metric)
<1>1. point \in Nat /\ slow \in Nat /\ mark \in 0 .. slow
  BY TelemetryAssumption DEF TelemetryInv
<1>2. metric \in Events /\ SoundEvent(metric, point, slow)
  BY <1>1 DEF Events, SoundEvent
<1>3. found \in Events /\ SoundEvent(found, point, slow)
  <2>0. mark \in Nat /\ mark <= slow /\ Checked \in Nat
    BY <1>1, TelemetryAssumption
  <2>1. SlowLog(mark, Checked) \in Seq(1 .. slow)
    BY <1>1, <2>0, SlowLogIs
  <2>2. SlowLog(mark, Checked) \in Seq(Nat)
    BY <1>1, <2>1, MoreEntries
  <2> QED
    BY <2>1, <2>2 DEF Events, SoundEvent
<1>4. /\ board \in Boards /\ wire \in Seq(Events) /\ Len(wire) < MaxWire - 1
      /\ ShortList(board.slowlogs, slow)
      /\ board.snapshot # None => Sound(board.snapshot, point)
      /\ \A i \in DOMAIN wire : SoundEvent(wire[i], point, slow)
      /\ UNCHANGED <<point, slow, board, first>> /\ mark' = slow
  BY DEF TelemetryInv, StreamTick
<1>5. wire' = q \o (IF mark < slow THEN <<found>> ELSE <<>>)
  BY DEF StreamTick
<1> HIDE DEF metric, found
<1>6. /\ q \in Seq(Events) /\ Len(q) = Len(wire) + 1
      /\ \A i \in DOMAIN q : SoundEvent(q[i], point, slow)
  BY <1>2, <1>4, MoreEvents
<1> HIDE DEF q
<1>7. /\ wire' \in Seq(Events) /\ Len(wire') <= Len(wire) + 2
      /\ \A i \in DOMAIN wire' : SoundEvent(wire'[i], point, slow)
  <2>1. CASE mark < slow
    <3>1. wire' = Append(q, found)
      BY <1>3, <1>5, <1>6, <2>1
    <3>2. /\ Append(q, found) \in Seq(Events)
          /\ Len(Append(q, found)) = Len(q) + 1
          /\ \A i \in DOMAIN Append(q, found) :
               SoundEvent(Append(q, found)[i], point, slow)
      BY <1>3, <1>6, MoreEvents
    <3>3. Len(wire) \in Nat
      BY <1>4
    <3> QED
      BY <1>6, <3>1, <3>2, <3>3
  <2>2. CASE ~(mark < slow)
    <3>1. wire' = q
      BY <1>5, <1>6, <2>2
    <3>2. Len(wire) \in Nat
      BY <1>4
    <3> QED
      BY <1>6, <3>1, <3>2
  <2> QED
    BY <2>1, <2>2
<1>8. Len(wire') <= MaxWire
  <2>1. Len(wire) \in Nat /\ Len(wire') \in Nat
    BY <1>4, <1>7
  <2> QED
    BY <1>4, <1>7, <2>1, TelemetryAssumption
<1>9. mark' \in 0 .. slow
  BY <1>1, <1>4
<1> QED
  BY <1>4, <1>7, <1>8, <1>9, BoardStep

LEMMA OnFirstStep ==
  ASSUME TelemetryInv, NEW r \in Requests, OnFirst(r)
  PROVE  TelemetryInv'
<1> DEFINE b == IF r = "snapshot"
                THEN [board EXCEPT !.snapshot = first[r].reply]
                ELSE [board EXCEPT !.slowlogs = first[r].reply]
<1>1. board \in Boards
  BY AskedFromBoard DEF OnFirst, TelemetryInv
<1>2. /\ wire \in Seq(Events) \cup {None} /\ mark \in 0 .. slow
      /\ ShortList(board.slowlogs, slow)
      /\ board.snapshot # None => Sound(board.snapshot, point)
      /\ wire # None => /\ Len(wire) <= MaxWire
                        /\ \A i \in DOMAIN wire : SoundEvent(wire[i], point, slow)
      /\ slow \in Nat
  BY <1>1, TelemetryAssumption DEF TelemetryInv
<1>3. IF r = "snapshot" THEN Sound(first[r].reply, point)
                        ELSE ShortList(first[r].reply, slow)
  BY DEF OnFirst, TelemetryInv, Requests
<1>4. /\ b \in Boards
      /\ ShortList(b.slowlogs, slow)
      /\ b.snapshot # None => Sound(b.snapshot, point)
  <2>1. CASE r = "snapshot"
    BY <1>1, <1>2, <1>3, <2>1 DEF Boards, Sound
  <2>2. CASE r # "snapshot"
    <3>1. first[r].reply \in Seq(Nat)
      BY <1>2, <1>3, <2>2, MoreEntries DEF ShortList
    <3> QED
      BY <1>1, <1>2, <1>3, <2>2, <3>1 DEF Boards
  <2> QED
    BY <2>1, <2>2
<1>5. /\ board' = b /\ first' = [first EXCEPT ![r] = NoRequests[r]]
      /\ UNCHANGED <<point, slow, mark, wire>>
  BY DEF OnFirst
<1> HIDE DEF b
<1> QED
  BY <1>2, <1>4, <1>5, BoardStep

LEMMA OnEventStep ==
  ASSUME TelemetryInv, OnEvent
  PROVE  TelemetryInv'
<1> DEFINE e == Head(wire)
           seen == [board EXCEPT !.snapshot = e.data]
           figured == [board EXCEPT !.snapshot = AddPoint(@, e.data)]
           listed == [board EXCEPT !.slowlogs = AddSlow(@, e.data)]
<1>1. /\ board \in Boards /\ mark \in 0 .. slow
      /\ wire \in Seq(Events) /\ wire # <<>> /\ Len(wire) <= MaxWire
      /\ ShortList(board.slowlogs, slow)
      /\ board.snapshot # None => Sound(board.snapshot, point)
      /\ \A i \in DOMAIN wire : SoundEvent(wire[i], point, slow)
      /\ point \in Nat /\ slow \in Nat
  BY TelemetryAssumption DEF TelemetryInv, OnEvent
<1>2. /\ e \in Events /\ SoundEvent(e, point, slow)
      /\ Tail(wire) \in Seq(Events) /\ Len(Tail(wire)) <= MaxWire
      /\ \A i \in DOMAIN Tail(wire) : SoundEvent(Tail(wire)[i], point, slow)
  <2>1. /\ e = wire[1] /\ 1 \in DOMAIN wire /\ Tail(wire) \in Seq(Events)
        /\ Len(Tail(wire)) = Len(wire) - 1 /\ e \in Events
        /\ \A i \in DOMAIN Tail(wire) : /\ i + 1 \in DOMAIN wire
                                         /\ Tail(wire)[i] = wire[i + 1]
    BY <1>1
  <2> HIDE DEF e
  <2>2. Len(Tail(wire)) <= MaxWire
    BY <1>1, <2>1, TelemetryAssumption
  <2> QED
    BY <1>1, <2>1, <2>2
<1>3. \/ e.event = "snapshot" /\ board' = seen
      \/ e.event = "metric" /\ board' = figured
      \/ e.event = "slowlog" /\ board' = listed
  <2>1. e.event \in {"snapshot", "metric", "slowlog"}
    BY <1>2 DEF Events
  <2> QED
    BY <2>1 DEF OnEvent
<1>4. /\ board' \in Boards
      /\ ShortList(board'.slowlogs, slow)
      /\ board'.snapshot # None => Sound(board'.snapshot, point)
  <2> HIDE DEF e
  <2>1. CASE e.event = "snapshot" /\ board' = seen
    BY <1>1, <1>2, <2>1 DEF SoundEvent, Sound, Boards
  <2>2. CASE e.event = "metric" /\ board' = figured
    <3> DEFINE x == AddPoint(board.snapshot, e.data)
    <3>1. e.data \in Nat /\ e.data <= point
      BY <1>1, <1>2, <2>2 DEF SoundEvent
    <3>2. x # None => Sound(x, point)
      BY <1>1, <3>1, AddPointSound
    <3>3. x \in Snapshots \cup {None}
      BY <3>2 DEF Sound
    <3> HIDE DEF x
    <3>4. figured = [board EXCEPT !.snapshot = x]
      BY DEF x
    <3> QED
      BY <1>1, <2>2, <3>2, <3>3, <3>4 DEF Boards
  <2>3. CASE e.event = "slowlog" /\ board' = listed
    <3> DEFINE x == AddSlow(board.slowlogs, e.data)
    <3>1. e.data \in Seq(1 .. slow) /\ board.slowlogs \in Seq(1 .. slow)
      BY <1>1, <1>2, <2>3 DEF SoundEvent, ShortList
    <3>2. ShortList(x, slow)
      BY <1>1, <3>1, AddSlowIs
    <3>3. x \in Seq(Nat)
      BY <1>1, <3>2, MoreEntries DEF ShortList
    <3> HIDE DEF x
    <3>4. listed = [board EXCEPT !.slowlogs = x]
      BY DEF x
    <3> QED
      BY <1>1, <2>3, <3>2, <3>3, <3>4 DEF Boards
  <2> QED
    BY <1>3, <2>1, <2>2, <2>3
<1>5. wire' = Tail(wire) /\ UNCHANGED <<point, slow, mark, first>>
  BY DEF OnEvent
<1> QED
  BY <1>1, <1>2, <1>4, <1>5, BoardStep

LEMMA TelemetryNextInv ==
  ASSUME TelemetryInv, [TelemetryNext]_telemetryVars
  PROVE  TelemetryInv'
<1>1. /\ point \in Nat /\ slow \in Nat /\ point <= MaxPoint /\ slow <= MaxSlow
      /\ mark \in 0 .. slow
  BY TelemetryAssumption DEF TelemetryInv
<1>2. CASE Poll
  BY <1>1, <1>2, ServerGrows, TelemetryAssumption DEF Poll
<1>3. CASE LogSlowCommand
  BY <1>1, <1>3, ServerGrows, TelemetryAssumption DEF LogSlowCommand
<1>4. CASE ShellTick
  BY <1>1, <1>4, ServerGrows, TelemetryAssumption DEF ShellTick
<1>5. CASE EventsBreak
  <2>1. board \in Boards
    BY <1>5 DEF EventsBreak, TelemetryInv
  <2>2. /\ ShortList(board.slowlogs, slow)
        /\ board.snapshot # None => Sound(board.snapshot, point)
    BY <1>5 DEF EventsBreak, TelemetryInv
  <2> QED
    BY <1>1, <1>5, <2>1, <2>2, BoardStep DEF EventsBreak
<1>6. CASE OpenDashboard
  <2>1. wire = None
    BY <1>6 DEF OpenDashboard, TelemetryInv
  <2>2. \A r \in Requests : first'[r].status = "asked"
    BY <1>6, AllRequests DEF OpenDashboard
  <2> QED
    BY <1>6, <2>1, <2>2, AllRequests, EmptyBoardSound
    DEF OpenDashboard, TelemetryInv, Requests
<1>7. CASE LeaveDashboard
  <2>1. \A r \in Requests : first'[r].status = "none"
    BY <1>7, AllRequests DEF LeaveDashboard
  <2> QED
    BY <1>7, <2>1, AllRequests DEF LeaveDashboard, TelemetryInv, Requests
<1>8. CASE UNCHANGED telemetryVars
  BY <1>8 DEF telemetryVars, TelemetryInv, Sound, SoundEvent
<1> QED
  BY <1>2, <1>3, <1>4, <1>5, <1>6, <1>7, <1>8, OpenStreamStep, StreamTickStep,
     OnEventStep, ServeStep, OnFirstStep, RequestFailsStep
  DEF TelemetryNext, TelemetryProgress
-----------------------------------------------------------------------------
(* The theorems *)

FeedsInv == feed \in {"telemetry", "pubsub"} /\ TelemetryInv /\ PubSubInv

LEMMA FeedsInvariant == FeedsSpec => []FeedsInv
<1>1. FeedsInit => FeedsInv
  BY TelemetryInitInv, PubSubInitInv DEF FeedsInit, FeedsInv
<1>2. FeedsInv /\ [FeedsNext]_feedsVars => FeedsInv'
  <2> SUFFICES ASSUME FeedsInv, [FeedsNext]_feedsVars
               PROVE  FeedsInv'
    OBVIOUS
  <2>1. /\ UNCHANGED feed
        /\ [TelemetryNext]_telemetryVars
        /\ [PubSubNext]_pubsubVars
    BY DEF FeedsNext, feedsVars
  <2> QED
    BY <2>1, TelemetryNextInv, PubSubNextInv DEF FeedsInv
<1> QED
  BY <1>1, <1>2, PTL DEF FeedsSpec

\* In every state the feeds hold what their types say: no point or slow-log
\* entry on the dashboard that the server did not have, no list, channel or
\* chart longer than the code cuts it to.
THEOREM FeedsTypeCorrect == FeedsSpec => []FeedsTypeOK
<1>1. FeedsInv => FeedsTypeOK
  BY TelemetryInvType, PubSubInvType DEF FeedsInv, FeedsTypeOK
<1> QED
  BY <1>1, FeedsInvariant, PTL

\* What the console adds to its list is newer than everything it shows, of a
\* topic it applied (unless the demo makes it up), and nothing is added while
\* the console is paused: closing a stream and opening another, whatever the
\* handlers of the closed ones still hold, never shows a message twice.
THEOREM ShownOnceCorrect == FeedsSpec => ShownOnce
<1>1. FeedsInv /\ [FeedsNext]_feedsVars =>
        [console'.messages # console.messages /\ console'.messages # <<>> =>
           /\ console.isListening
           /\ demo \/ console'.messages[1].channel \in console.activeChannels
           /\ \A i \in DOMAIN console.messages :
                console.messages[i].id < console'.messages[1].id]_pubsubVars
  <2> SUFFICES ASSUME FeedsInv, [FeedsNext]_feedsVars,
                      console'.messages # console.messages,
                      console'.messages # <<>>
               PROVE  /\ console.isListening
                      /\ demo \/ console'.messages[1].channel
                                   \in console.activeChannels
                      /\ \A i \in DOMAIN console.messages :
                           console.messages[i].id < console'.messages[1].id
    OBVIOUS
  <2>1. PubSubInv /\ [PubSubNext]_pubsubVars
    BY DEF FeedsInv, FeedsNext, feedsVars
  <2> QED
    BY <2>1, ShownOnceStep
<1> QED
  BY <1>1, FeedsInvariant, PTL DEF FeedsSpec, ShownOnce

-----------------------------------------------------------------------------
(* The slow-log alerts *)

\* A set of naturals with a bound has a greatest member.
LEMMA HasMaximum ==
  ASSUME NEW N \in Nat, NEW S \in SUBSET (0 .. N), S # {}
  PROVE  \E m \in S : \A i \in S : i <= m
<1> DEFINE Bounds == {n \in Nat : \A i \in S : i <= n}
<1> Bounds \subseteq Nat /\ N \in Bounds
  OBVIOUS
<1>1. PICK b \in Bounds : \A c \in Bounds : <<c, b>> \notin OpToRel(<, Nat)
  BY WFMin, NatLessThanWellFounded
<1>2. \A c \in Bounds : ~(c < b)
  BY <1>1 DEF OpToRel
<1> HIDE DEF Bounds
<1>3. b \in S
  <2>1. b \in Nat /\ \A i \in S : i <= b
    BY DEF Bounds
  <2>2. SUFFICES ASSUME b \notin S PROVE FALSE
    OBVIOUS
  <2>3. \A i \in S : i \in Nat /\ i <= b - 1
    BY <2>1, <2>2
  <2>4. b - 1 \in Nat
    <3>1. PICK i \in S : i \in Nat /\ i <= b - 1
      BY <2>3
    <3> QED
      BY <2>1, <3>1
  <2>5. b - 1 \in Bounds
    BY <2>3, <2>4 DEF Bounds
  <2> QED
    BY <2>1, <2>5, <1>2
<1> QED
  BY <1>3 DEF Bounds

\* What Compare leaves as the mark: the old one or an id of the reply, and
\* below none of them.
LEMMA HighestIsMaximum ==
  ASSUME NEW entries \in SUBSET Entry, lastSeen \in 0 .. MaxId, MaxId \in Nat
  PROVE  /\ Highest(entries) \in 0 .. MaxId
         /\ Highest(entries) = lastSeen \/ \E e \in entries : Highest(entries) = e[2]
         /\ lastSeen <= Highest(entries)
         /\ \A e \in entries : e[2] <= Highest(entries)
<1> DEFINE S == {lastSeen} \cup {e[2] : e \in entries}
<1>1. S \in SUBSET (0 .. MaxId) /\ S # {}
  BY DEF Entry
<1>2. Highest(entries) = CHOOSE m \in S : \A i \in S : i <= m
  BY DEF Highest
<1> HIDE DEF S
<1>3. Highest(entries) \in S /\ \A i \in S : i <= Highest(entries)
  BY <1>1, <1>2, HasMaximum
<1> QED
  BY <1>1, <1>3 DEF S
-----------------------------------------------------------------------------
(* Types. *)

\* The mutex, stream by stream.
Inside == {"fetch", "compare"}
Exclusive ==
  /\ holder \in Streams \cup {Nobody}
  /\ \A s \in Streams : pc[s] \in Inside <=> holder = s

\* The last conjunct of TypeOK says the same of the streams as a set.
LEMMA MutexEquiv ==
  ASSUME Nobody \notin Streams
  PROVE  {s \in Streams : pc[s] \in {"fetch", "compare"}} = {holder} \ {Nobody}
           <=> Exclusive
BY Zenon DEF Inside, Exclusive

LEMMA RecentType ==
  ASSUME TypeOK, SlowlogAssumption
  PROVE  Recent \in SUBSET Entry
<1>1. run \in 0 .. MaxRuns /\ \A id \in log : <<run, id>> \in Entry
  BY DEF TypeOK, Entry
<1> QED
  BY <1>1 DEF Recent

LEMMA TypeStep ==
  ASSUME TypeOK, [Next]_vars
  PROVE  TypeOK'
<1> USE SlowlogAssumption DEF SlowlogAssumption, server, tracker, stream, Goto, Inside
<1> DEFINE Places == {"closed", "wait", "lock", "fetch", "compare", "write"}
           Plain == /\ run \in 0 .. MaxRuns /\ nextID \in 0 .. MaxId + 1
                    /\ log \subseteq 0 .. MaxId
                    /\ lastSeen \in 0 .. MaxId
                    /\ pc \in [Streams -> Places]
                    /\ gone \in [Streams -> BOOLEAN]
                    /\ reply \in [Streams -> SUBSET Entry]
                    /\ news \in [Streams -> SUBSET Entry]
                    /\ owed \in [Streams -> SUBSET Entry]
                    /\ fails \in 0 .. MaxFails
                    /\ reported \subseteq Entry /\ scrolled \subseteq Entry
                    /\ Exclusive
<1>1. Plain
  BY MutexEquiv DEF TypeOK
<1>2. Plain => TypeOK
  BY MutexEquiv DEF TypeOK
<1>3. Plain' => TypeOK'
  <2>1. Exclusive' => ({s \in Streams : pc[s] \in {"fetch", "compare"}} = {holder} \ {Nobody})'
    BY Zenon DEF Inside, Exclusive
  <2> QED
    BY <2>1 DEF TypeOK
<1>r. Recent \in SUBSET Entry
  BY RecentType
<1> SUFFICES Plain'
  BY <1>3
<1>4. CASE LogSlow
  <2>1. <<run, nextID>> \in Entry
    BY <1>1, <1>4 DEF LogSlow, Entry
  <2>2. owed' \in [Streams -> SUBSET Entry]
    BY <1>1, <1>4, <2>1 DEF LogSlow
  <2>3. scrolled' \subseteq Entry
    BY <1>1, <1>4, <1>r DEF LogSlow, Scroll
  <2>4. nextID' \in 0 .. MaxId + 1 /\ log' \subseteq 0 .. MaxId
    <3>1. log' \subseteq log \cup {nextID} /\ nextID <= MaxId /\ nextID' = nextID + 1
      BY <1>4 DEF LogSlow
    <3>2. nextID \in 0 .. MaxId /\ log \subseteq 0 .. MaxId
      BY <1>1, <3>1
    <3> QED
      BY <3>1, <3>2
  <2>5. Exclusive'
    BY <1>1, <1>4 DEF LogSlow, Exclusive
  <2>6. UNCHANGED <<run, lastSeen, fails, reported, pc, gone, reply, news>>
    BY <1>4 DEF LogSlow
  <2> QED
    BY <1>1, <2>2, <2>3, <2>4, <2>5, <2>6
<1>5. CASE ResetLog
  BY <1>1, <1>5, <1>r DEF ResetLog, Scroll, Exclusive
<1>6. CASE Restart
  BY <1>1, <1>6 DEF Restart, Exclusive
<1>7. ASSUME NEW s \in Streams, Open(s)
      PROVE  Plain'
  BY <1>1, <1>7 DEF Open, Exclusive
<1>8. ASSUME NEW s \in Streams, Leave(s)
      PROVE  Plain'
  BY <1>1, <1>8 DEF Leave, Exclusive
<1>9. ASSUME NEW s \in Streams, Close(s)
      PROVE  Plain'
  BY <1>1, <1>9 DEF Close, Exclusive
<1>10. ASSUME NEW s \in Streams, TickerFires(s)
       PROVE  Plain'
  BY <1>1, <1>10 DEF TickerFires, Exclusive
<1>11. ASSUME NEW s \in Streams, Lock(s)
       PROVE  Plain'
  BY <1>1, <1>11 DEF Lock, Exclusive
<1>12. ASSUME NEW s \in Streams, Fetch(s)
       PROVE  Plain'
  BY <1>1, <1>12, <1>r DEF Fetch, Exclusive
<1>13. ASSUME NEW s \in Streams, FetchFails(s)
       PROVE  Plain'
  BY <1>1, <1>13 DEF FetchFails, Exclusive
<1>14. ASSUME NEW s \in Streams, Compare(s)
       PROVE  Plain'
  <2>1. lastSeen' \in 0 .. MaxId
    BY <1>1, <1>14, HighestIsMaximum DEF Compare
  <2>2. news' \in [Streams -> SUBSET Entry] /\ news'[s] \subseteq Entry
    BY <1>1, <1>14 DEF Compare
  <2>3. Exclusive'
    BY <1>1, <1>14 DEF Compare, Exclusive
  <2> QED
    BY <1>1, <1>14, <2>1, <2>2, <2>3 DEF Compare
<1>15. ASSUME NEW s \in Streams, Write(s)
       PROVE  Plain'
  BY <1>1, <1>15 DEF Write, Exclusive
<1>16. CASE UNCHANGED vars
  BY <1>1, <1>16 DEF vars, Exclusive
<1> QED
  BY <1>4, <1>5, <1>6, <1>7, <1>8, <1>9, <1>10, <1>11, <1>12, <1>13, <1>14, <1>15, <1>16
     DEF Next, Step

LEMMA TypeInit == Init => TypeOK
BY SlowlogAssumption DEF SlowlogAssumption, Init, TypeOK, Entry

\* The types hold, and one stream at a time is inside the mutex, the one that
\* holds it: CheckNewEntries in slowlog.go, whatever call of it fails.
THEOREM FeedTypeCorrect == Spec => []TypeOK
<1>1. TypeOK /\ [Next]_vars => TypeOK'
  BY TypeStep
<1> QED
  BY <1>1, TypeInit, PTL DEF Spec
-----------------------------------------------------------------------------
(* The mark. *)

\* What was reported has an id up to the mark.
MarkInv == \A e \in reported : e[2] <= lastSeen

\* Nothing is reported twice: what a check finds new is above the mark.
LEMMA MarkStep ==
  ASSUME TypeOK, MarkInv, [Next]_vars
  PROVE  /\ MarkInv'
         /\ \A s \in Streams : news'[s] # news[s] => news'[s] \cap reported = {}
<1> DEFINE Fresh == \A s \in Streams : news'[s] # news[s] => news'[s] \cap reported = {}
<1> USE DEF server, tracker, stream, Goto
<1>1. CASE UNCHANGED <<lastSeen, reported, news>>
  BY <1>1 DEF MarkInv
<1>2. ASSUME NEW s \in Streams, Compare(s)
      PROVE  MarkInv' /\ Fresh
  <2>1. news'[s] = {e \in reply[s] : e[2] > lastSeen} /\ reported' = reported \cup news'[s]
    BY <1>2 DEF Compare, IsNew, TypeOK
  <2>2. \A t \in Streams \ {s} : news'[t] = news[t]
    BY <1>2 DEF Compare, TypeOK
  <2>3. reply[s] \in SUBSET Entry /\ lastSeen \in 0 .. MaxId /\ MaxId \in Nat
    BY SlowlogAssumption DEF SlowlogAssumption, TypeOK
  <2>4. /\ lastSeen' \in 0 .. MaxId /\ lastSeen <= lastSeen'
        /\ \A e \in reply[s] : e[2] <= lastSeen'
    BY <1>2, <2>3, HighestIsMaximum DEF Compare
  <2>5. \A e \in reported : e[2] \in Nat
    BY DEF TypeOK, Entry
  <2>6. MarkInv'
    BY <2>1, <2>3, <2>4, <2>5 DEF MarkInv
  <2>7. news'[s] \cap reported = {}
    BY <2>1, <2>3, <2>5 DEF MarkInv
  <2> QED
    BY <2>2, <2>6, <2>7
<1>3. ASSUME NEW s \in Streams, Write(s)
      PROVE  MarkInv' /\ Fresh
  <2>1. UNCHANGED <<lastSeen, reported>>
    BY <1>3 DEF Write
  <2>2. \A t \in Streams : news'[t] = news[t] \/ news'[t] = {}
    BY <1>3 DEF Write, TypeOK
  <2> QED
    BY <2>1, <2>2 DEF MarkInv
<1>4. CASE LogSlow \/ ResetLog \/ Restart
  BY <1>1, <1>4 DEF LogSlow, ResetLog, Restart
<1>5. ASSUME NEW s \in Streams,
             Open(s) \/ Leave(s) \/ Close(s) \/ TickerFires(s) \/ Lock(s) \/ Fetch(s) \/ FetchFails(s)
      PROVE  UNCHANGED <<lastSeen, reported, news>>
  BY <1>5 DEF Open, Leave, Close, TickerFires, Lock, Fetch, FetchFails
<1>6. CASE UNCHANGED vars
  BY <1>1, <1>6 DEF vars
<1> QED
  BY <1>1, <1>2, <1>3, <1>4, <1>5, <1>6 DEF Next, Step

\* No entry of the slow log is reported twice, in whatever order any number of
\* streams check it and however often the server restarts.
THEOREM ReportedOnceCorrect == Spec => ReportedOnce
<1>1. Init => MarkInv
  BY DEF Init, MarkInv
<1>2. TypeOK /\ MarkInv /\ [Next]_vars
        => MarkInv' /\ [\A s \in Streams : news'[s] # news[s] => news'[s] \cap reported = {}]_vars
  BY MarkStep
<1> QED
  BY <1>1, <1>2, FeedTypeCorrect, PTL DEF Spec, ReportedOnce
-----------------------------------------------------------------------------
(* Nothing is skipped, while the server lives its first life. *)

\* Where an entry of the first life is: still answered, scrolled or reported.
LogInv ==
  /\ log \subseteq 0 .. nextID - 1
  /\ run = 0 => \A id \in 0 .. nextID - 1 : <<0, id>> \in Recent \cup scrolled \cup reported

\* An answer a stream holds leaves no gap below an entry of it.
ReplyInv ==
  run = 0 => \A s \in Streams : \A e \in reply[s] :
    /\ e[1] = 0
    /\ \A id \in 1 .. e[2] : <<0, id>> \in reply[s] \cup scrolled \cup reported

GapInv == LogInv /\ ReplyInv /\ NothingSkipped

\* The entry that is logged is among the newest Window.
LEMMA NewestIsRecent ==
  ASSUME TypeOK, LogInv, LogSlow
  PROVE  <<run, nextID>> \in Recent'
<1> USE SlowlogAssumption DEF SlowlogAssumption
<1>1. nextID \in Nat /\ log \subseteq 0 .. nextID - 1
  BY DEF TypeOK, LogInv
<1>2. nextID \in log' /\ run' = run
  BY <1>1 DEF LogSlow
<1>3. {j \in log' : j >= nextID} = {nextID}
  <2>1. log' \subseteq log \cup {nextID}
    BY DEF LogSlow
  <2>2. \A j \in log : ~(j >= nextID)
    BY <1>1
  <2>3. nextID >= nextID
    BY <1>1
  <2>4. \A j : j \in log' /\ j >= nextID <=> j = nextID
    BY <1>2, <2>1, <2>2, <2>3
  <2> QED
    BY <2>4
<1>4. Cardinality({j \in log' : j >= nextID}) <= Window
  BY <1>3, FS_Singleton
<1> QED
  BY <1>2, <1>4 DEF Recent

\* A step of the server scrolls what it takes out of the newest Window.
LEMMA ScrollKeeps ==
  ASSUME Scroll, UNCHANGED reported
  PROVE  Recent \cup scrolled \cup reported \subseteq Recent' \cup scrolled' \cup reported'
BY DEF Scroll

\* A step that keeps the server and the answers, and forgets nothing.
LEMMA GapKept ==
  ASSUME GapInv, UNCHANGED <<run, nextID, log, lastSeen>>,
         \A s \in Streams : reply'[s] = reply[s],
         scrolled' = scrolled, reported' = reported
  PROVE  GapInv'
BY DEF GapInv, LogInv, ReplyInv, NothingSkipped, Recent

LEMMA GapServer ==
  ASSUME TypeOK, GapInv, LogSlow \/ ResetLog \/ Restart
  PROVE  GapInv'
<1> USE DEF server, tracker, stream
<1>1. CASE Restart
  <2>1. run' # 0 /\ nextID' = 0 /\ log' = {}
    BY <1>1 DEF Restart, TypeOK
  <2> QED
    BY <2>1 DEF GapInv, LogInv, ReplyInv, NothingSkipped
<1>2. CASE LogSlow \/ ResetLog
  <2>1. UNCHANGED <<run, lastSeen, reported, reply>>
    BY <1>2 DEF LogSlow, ResetLog
  <2>2. Recent \cup scrolled \cup reported \subseteq Recent' \cup scrolled' \cup reported'
    BY <1>2, <2>1, ScrollKeeps DEF LogSlow, ResetLog
  <2>3. scrolled \subseteq scrolled'
    BY <1>2 DEF LogSlow, ResetLog, Scroll
  <2>4. LogInv'
    <3>1. CASE ResetLog
      BY <3>1, <2>1, <2>2 DEF ResetLog, GapInv, LogInv
    <3>2. CASE LogSlow
      <4>1. nextID \in Nat /\ log \subseteq 0 .. nextID - 1
        BY DEF TypeOK, GapInv, LogInv
      <4>2. nextID' = nextID + 1 /\ log' \subseteq log \cup {nextID}
        BY <3>2 DEF LogSlow
      <4>3. log' \subseteq 0 .. nextID' - 1
        BY <4>1, <4>2
      <4>4. ASSUME run' = 0, NEW id \in 0 .. nextID' - 1
            PROVE  <<0, id>> \in Recent' \cup scrolled' \cup reported'
        <5>1. CASE id = nextID
          BY <5>1, <4>4, <3>2, <2>1, NewestIsRecent DEF GapInv
        <5>2. CASE id # nextID
          <6>1. id \in 0 .. nextID - 1
            BY <5>2, <4>1, <4>2
          <6> QED
            BY <6>1, <4>4, <2>1, <2>2 DEF GapInv, LogInv
        <5> QED
          BY <5>1, <5>2
      <4> QED
        BY <4>3, <4>4 DEF LogInv
    <3> QED
      BY <1>2, <3>1, <3>2
  <2>5. ReplyInv'
    BY <2>1, <2>3 DEF GapInv, ReplyInv
  <2>6. NothingSkipped'
    BY <2>1, <2>3 DEF GapInv, NothingSkipped
  <2> QED
    BY <2>4, <2>5, <2>6 DEF GapInv
<1> QED
  BY <1>1, <1>2

LEMMA GapFetch ==
  ASSUME TypeOK, GapInv, NEW s \in Streams, Fetch(s)
  PROVE  GapInv'
<1> USE DEF server, tracker, stream
<1>1. UNCHANGED <<run, nextID, log, lastSeen, reported, scrolled>>
  BY DEF Fetch
<1>2. LogInv' /\ NothingSkipped'
  BY <1>1 DEF GapInv, LogInv, NothingSkipped, Recent
<1>3. reply'[s] = Recent /\ \A t \in Streams \ {s} : reply'[t] = reply[t]
  BY DEF Fetch, TypeOK
<1>4. ASSUME run = 0, NEW e \in Recent
      PROVE  e[1] = 0 /\ \A id \in 1 .. e[2] : <<0, id>> \in Recent \cup scrolled \cup reported
  <2>1. PICK n \in log : e = <<0, n>>
    BY <1>4 DEF Recent
  <2>2. log \subseteq 0 .. nextID - 1 /\ nextID \in Nat
    BY DEF GapInv, LogInv, TypeOK
  <2>3. \A id \in 1 .. n : id \in 0 .. nextID - 1
    BY <2>2
  <2>4. e[1] = 0 /\ e[2] = n
    BY <2>1
  <2> QED
    BY <1>4, <2>3, <2>4 DEF GapInv, LogInv
<1>5. ReplyInv'
  BY <1>1, <1>3, <1>4 DEF GapInv, ReplyInv
<1> QED
  BY <1>2, <1>5 DEF GapInv

LEMMA GapCompare ==
  ASSUME TypeOK, GapInv, NEW s \in Streams, Compare(s)
  PROVE  GapInv'
<1> USE DEF server, tracker, stream
<1>1. UNCHANGED <<run, nextID, log, scrolled>> /\ Recent' = Recent
  BY DEF Compare, Recent
<1>2. reported' = reported \cup {e \in reply[s] : e[2] > lastSeen}
  BY DEF Compare, IsNew, TypeOK
<1>3. LogInv'
  BY <1>1, <1>2 DEF GapInv, LogInv
<1>4. \A t \in Streams : reply'[t] = reply[t] \/ reply'[t] = {}
  BY DEF Compare, TypeOK
<1>5. ReplyInv'
  BY <1>1, <1>2, <1>4 DEF GapInv, ReplyInv
<1>6. reply[s] \in SUBSET Entry /\ lastSeen \in 0 .. MaxId /\ MaxId \in Nat
  BY SlowlogAssumption DEF SlowlogAssumption, TypeOK
<1>7. lastSeen' \in 0 .. MaxId /\ (lastSeen' = lastSeen \/ \E e \in reply[s] : lastSeen' = e[2])
  BY <1>6, HighestIsMaximum DEF Compare
<1>8. ASSUME run = 0, NEW id \in 1 .. lastSeen'
      PROVE  <<0, id>> \in reported' \cup scrolled'
  <2>1. CASE id <= lastSeen
    <3>1. id \in 1 .. lastSeen
      BY <2>1, <1>6, <1>7
    <3> QED
      BY <3>1, <1>1, <1>2, <1>8 DEF GapInv, NothingSkipped
  <2>2. CASE id > lastSeen
    <3>1. PICK e \in reply[s] : lastSeen' = e[2]
      BY <2>2, <1>6, <1>7
    <3>2. <<0, id>> \in reply[s] \cup scrolled \cup reported
      BY <3>1, <1>8 DEF GapInv, ReplyInv
    <3> QED
      BY <3>2, <2>2, <1>1, <1>2
  <2> QED
    BY <2>1, <2>2, <1>6, <1>7
<1>9. NothingSkipped'
  BY <1>1, <1>8 DEF NothingSkipped
<1> QED
  BY <1>3, <1>5, <1>9 DEF GapInv

LEMMA GapStep ==
  ASSUME TypeOK, GapInv, [Next]_vars
  PROVE  GapInv'
<1>1. CASE LogSlow \/ ResetLog \/ Restart
  BY <1>1, GapServer
<1>2. ASSUME NEW s \in Streams, Fetch(s)
      PROVE  GapInv'
  BY <1>2, GapFetch
<1>3. ASSUME NEW s \in Streams, Compare(s)
      PROVE  GapInv'
  BY <1>3, GapCompare
<1>4. ASSUME NEW s \in Streams,
             Open(s) \/ Leave(s) \/ Close(s) \/ TickerFires(s) \/ Lock(s) \/ FetchFails(s) \/ Write(s)
      PROVE  GapInv'
  <2>1. UNCHANGED <<run, nextID, log, lastSeen, reported, reply, scrolled>>
    BY <1>4 DEF Open, Leave, Close, TickerFires, Lock, FetchFails, Write, server, tracker, stream
  <2> QED
    BY <2>1, GapKept
<1>5. CASE UNCHANGED vars
  BY <1>5, GapKept DEF vars, server, tracker, stream
<1> QED
  BY <1>1, <1>2, <1>3, <1>4, <1>5 DEF Next, Step

LEMMA GapInit == Init => GapInv
BY DEF Init, GapInv, LogInv, ReplyInv, NothingSkipped

\* The mark passes no entry by, for any window and log, however the checks of
\* the streams and the server's steps interleave and whichever calls fail.
THEOREM NothingSkippedCorrect == Spec => []NothingSkipped
<1>1. TypeOK /\ GapInv /\ [Next]_vars => GapInv'
  BY GapStep
<1>2. GapInv => NothingSkipped
  BY DEF GapInv
<1> QED
  BY <1>1, <1>2, GapInit, FeedTypeCorrect, PTL DEF Spec
=============================================================================
