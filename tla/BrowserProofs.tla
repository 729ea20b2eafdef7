---------------------------- MODULE BrowserProofs ----------------------------
(***************************************************************************)
(* Proofs about KeyBrowser, for any keys, searches and number of requests  *)
(* in flight: the view inside the pane is that of the key in the pane,     *)
(* nothing spins without cause, and with answers in turn the screen ends   *)
(* up of one piece.  For that the youngest request of each kind is         *)
(* followed (Trailing): the list awaited last is for the search field, the *)
(* detail for the selection, the entries for the stream that is shown.     *)
(* That the answers run out is a sum over the requests that falls.         *)
(***************************************************************************)
EXTENDS KeyBrowser, RequestProofs

-----------------------------------------------------------------------------
(* The view and the requests *)

Listings == UNION {[S -> Types] : S \in SUBSET Names}

Details == [name : Names, type : Types]

Closures == [pattern : Patterns, selectedKey : Names \cup {Null}]

Children ==
  [kind : {"none", "hash"}]
    \cup [kind : {"string"}, content : [of : Names, via : {"load", "json"}],
          parsedJson : Names \cup {Null}, viewMode : {"raw", "json", "tree"},
          saving : BOOLEAN]
    \cup [kind : {"stream"}, loading : BOOLEAN, streamData : Names \cup {Null}]

View ==
  [keys : Listings, listedFor : Patterns \cup {Null}, loading : BOOLEAN,
   pattern : Patterns, typeFilter : Types \cup {"all"}, viewMode : {"tree", "flat"},
   openFolder : {"unset", "open", "shut"}, selectedKey : Names \cup {Null},
   keyDetail : Details \cup {Null}, detailLoading : BOOLEAN, dupLoading : BOOLEAN,
   readOnly : BOOLEAN, open : SUBSET Forms, child : Children]

Unread == {Null, Failed}

InfoRequests == [op : {"info"}, reply : BOOLEAN \cup {Failed}]

ListRequests ==
  [op : {"list"}, reply : Listings \cup Unread, pattern : Patterns,
   had : BOOLEAN, then : Names \cup {Null}]

\* A detail is that of the key it was asked for, if it is one.
DetailRequests ==
  {c \in [op : {"detail", "refresh"}, reply : Details \cup Unread, key : Names] :
     c.reply \notin Unread => c.reply.name = c.key}

StreamRequests ==
  {c \in [op : {"stream"}, reply : Names \cup Unread, key : Names, live : BOOLEAN] :
     c.reply \notin Unread => c.reply = c.key}

Done == {"ok"} \cup Unread

WriteRequests ==
  [op : {"create", "ttl", "delete"}, reply : Done, key : Names, arg : {Null},
   at : Closures]
    \cup [op : {"duplicate"}, reply : Done, key : Names, arg : Names, at : Closures]
    \cup [op : {"deletePattern"}, reply : Done, key : {Null}, arg : Patterns,
          at : Closures]

ChildWrites ==
  [op : {"save", "hdel"}, reply : Done, key : Names, arg : {Null}, at : Closures,
   live : BOOLEAN]
    \cup [op : {"hset"}, reply : Done, key : Names, arg : HashForms, at : Closures,
          live : BOOLEAN]

Requests ==
  InfoRequests \cup ListRequests \cup DetailRequests \cup StreamRequests
    \cup WriteRequests \cup ChildWrites

-----------------------------------------------------------------------------
(* The invariant *)

\* The view inside the pane is that of the key in the pane; the forms of a
\* hash are open in that of a hash only.
Pane(v) ==
  /\ v.child.kind = IF PaneShown(v) THEN v.keyDetail.type ELSE "none"
  /\ v.child.kind = "string" /\ v.child.content.via # "json"
       => v.child.content.of = v.keyDetail.name
  /\ v.open \cap HashForms # {} => v.child.kind = "hash"

\* A save that will still be noticed.
Saving(q) == \E i \in DOMAIN q : q[i].op = "save" /\ q[i].live

\* What spins waits for a request in flight.
Causes(v, q) ==
  /\ v.loading => InFlight(q, {"list"})
  /\ v.detailLoading => InFlight(q, {"detail"})
  /\ v.dupLoading => InFlight(q, {"duplicate"})
  /\ v.child.kind = "string" /\ v.child.saving => Saving(q)

\* The request of a child is dropped with the child.
Owned(v, q) ==
  \A i \in DOMAIN q :
    /\ q[i].op = "stream" /\ q[i].live => v.child.kind = "stream"
    /\ q[i].op = "save" /\ q[i].live => v.child.kind = "string"

Sound(v, q) ==
  /\ v \in View /\ q \in Seq(Requests)
  /\ Pane(v) /\ Causes(v, q) /\ Owned(v, q)

\* From the youngest request of kinds A on, those of kinds B are in G.
Trailing(q, A, B, G) ==
  \A i \in DOMAIN q :
    q[i].op \in B /\ (\A j \in DOMAIN q : q[j].op \in A => j <= i) => q[i] \in G

ForPattern(p) == {c \in Requests : c.op = "list" => c.pattern = p}

ForKey(k) == {c \in Requests : c.op \in {"detail", "refresh"} => c.key = k}

ForStream(k) == {c \in Requests : c.op = "stream" => c.live /\ c.key = k}

\* With no key selected none is in the pane, and none is on its way there.
Unselected(v, q) ==
  v.selectedKey = Null => v.keyDetail = Null /\ ~InFlight(q, {"detail", "refresh"})

\* What is awaited last is for what is selected, searched and shown.
InTurn(v, q) ==
  /\ Unselected(v, q)
  /\ \A i \in DOMAIN q : q[i].op \in Writes => q[i].at = Closure(v)
  /\ Trailing(q, {"list"}, {"list"}, ForPattern(v.pattern))
  /\ ~InFlight(q, {"list"}) => v.listedFor = v.pattern
  /\ v.selectedKey # Null =>
       /\ Trailing(q, {"detail"}, {"detail", "refresh"}, ForKey(v.selectedKey))
       /\ ~InFlight(q, {"detail"}) /\ v.keyDetail # Null
            => v.keyDetail.name = v.selectedKey
  /\ v.child.kind = "stream" =>
       /\ Trailing(q, {"stream"}, {"stream"}, ForStream(v.keyDetail.name))
       /\ ~InFlight(q, {"stream"}) => v.child.streamData = v.keyDetail.name

ServerTyped ==
  /\ db \in [Names -> Types \cup {Absent}]
  /\ guarded \in BOOLEAN /\ calm \in BOOLEAN /\ acts \in 0 .. MaxActs

BrowserInv ==
  /\ Sound(view, calls)
  /\ ServerTyped
  /\ calm => InTurn(view, calls)

-----------------------------------------------------------------------------
(* Requests *)

LEMMA Kinds ==
  ASSUME NEW c \in Requests
  PROVE  /\ c.op \in {"info", "list", "detail", "refresh", "stream"} \cup Writes
         /\ c.op = "info" => c \in InfoRequests
         /\ c.op = "list" => c \in ListRequests
         /\ c.op \in {"detail", "refresh"} => c \in DetailRequests
         /\ c.op = "stream" => c \in StreamRequests
         /\ c.op \in {"create", "ttl", "delete", "duplicate", "deletePattern"}
              => c \in WriteRequests
         /\ c.op \in {"save", "hset", "hdel"} => c \in ChildWrites
         /\ "live" \in DOMAIN c <=> c.op \in {"stream", "save", "hset", "hdel"}
<1> USE DEF Writes, Refreshing
<1>1. CASE c \in InfoRequests
  BY <1>1 DEF InfoRequests
<1>2. CASE c \in ListRequests
  BY <1>2 DEF ListRequests
<1>3. CASE c \in DetailRequests
  BY <1>3 DEF DetailRequests
<1>4. CASE c \in StreamRequests
  BY <1>4 DEF StreamRequests
<1>5. CASE c \in WriteRequests
  BY <1>5 DEF WriteRequests
<1>6. CASE c \in ChildWrites
  BY <1>6 DEF ChildWrites
<1> QED
  BY <1>1, <1>2, <1>3, <1>4, <1>5, <1>6 DEF Requests

LEMMA Abandoned ==
  ASSUME NEW c \in Requests, "live" \in DOMAIN c, NEW d, d = [c EXCEPT !.live = FALSE]
  PROVE  /\ d \in Requests /\ d.op = c.op /\ d.live = FALSE
         /\ c.op \in Writes => d.at = c.at
<1>1. CASE c.op = "stream"
  <2>1. c \in StreamRequests
    BY <1>1, Kinds
  <2>2. d \in StreamRequests /\ d.op = c.op /\ d.live = FALSE
    BY <2>1 DEF StreamRequests
  <2> QED
    BY <1>1, <2>2 DEF Requests, Writes, Refreshing
<1>2. CASE c.op \in {"save", "hset", "hdel"}
  <2>1. c \in ChildWrites
    BY <1>2, Kinds
  <2>2. d \in ChildWrites /\ d.op = c.op /\ d.live = FALSE /\ d.at = c.at
    BY <2>1 DEF ChildWrites
  <2> QED
    BY <2>2 DEF Requests
<1> QED
  BY <1>1, <1>2, Kinds

\* The requests r are those of q; a child that is not v's has lost its own.
Dropped(q, v, r) ==
  /\ r \in Seq(Requests) /\ DOMAIN r = DOMAIN q
  /\ v.child.kind = view.child.kind => r = q
  /\ \A i \in DOMAIN q :
       /\ r[i].op = q[i].op
       /\ q[i].op \in Writes => r[i].at = q[i].at
       /\ q[i].op \notin {"stream", "save", "hset", "hdel"} => r[i] = q[i]
       /\ v.child.kind # view.child.kind /\ q[i].op \in {"stream", "save"}
            => r[i].live = FALSE

LEMMA OrphanedIs ==
  ASSUME NEW q \in Seq(Requests), NEW v, NEW r, r = Orphaned(q, v)
  PROVE  Dropped(q, v, r)
<1> USE DEF Dropped
<1>1. CASE v.child.kind = view.child.kind
  BY <1>1 DEF Orphaned
<1>2. CASE v.child.kind # view.child.kind
  <2> DEFINE d(i) == IF "live" \in DOMAIN q[i] THEN [q[i] EXCEPT !.live = FALSE]
                     ELSE q[i]
             dropped == [i \in DOMAIN q |-> d(i)]
  <2>1. r = dropped
    BY <1>2 DEF Orphaned
  <2>2. DOMAIN q = 1 .. Len(q) /\ Len(q) \in Nat
    OBVIOUS
  <2>3. ASSUME NEW i \in DOMAIN q
        PROVE  /\ d(i) \in Requests /\ d(i).op = q[i].op
               /\ q[i].op \in Writes => d(i).at = q[i].at
               /\ q[i].op \notin {"stream", "save", "hset", "hdel"} => d(i) = q[i]
               /\ q[i].op \in {"stream", "save"} => d(i).live = FALSE
    <3>1. q[i] \in Requests
      BY <2>2
    <3>2. CASE "live" \in DOMAIN q[i]
      <4>1. d(i) = [q[i] EXCEPT !.live = FALSE]
        BY <3>2
      <4> HIDE DEF d
      <4>2. /\ d(i) \in Requests /\ d(i).op = q[i].op /\ d(i).live = FALSE
            /\ q[i].op \in Writes => d(i).at = q[i].at
        BY <3>1, <3>2, <4>1, Abandoned
      <4>3. q[i].op \in {"stream", "save", "hset", "hdel"}
        BY <3>1, <3>2, Kinds
      <4> QED
        BY <4>2, <4>3
    <3>3. CASE "live" \notin DOMAIN q[i]
      <4>1. d(i) = q[i]
        BY <3>3
      <4> HIDE DEF d
      <4>2. q[i].op \notin {"stream", "save", "hset", "hdel"}
        BY <3>1, <3>3, Kinds
      <4> QED
        BY <3>1, <4>1, <4>2
    <3> QED
      BY <3>2, <3>3
  <2> HIDE DEF d
  <2>4. /\ dropped \in [1 .. Len(q) -> Requests]
        /\ \A i \in DOMAIN q : dropped[i] = d(i)
    BY <2>2, <2>3
  <2> HIDE DEF dropped
  <2>5. dropped \in Seq(Requests) /\ DOMAIN dropped = DOMAIN q
    BY <2>2, <2>4
  <2> QED
    BY <1>2, <2>1, <2>3, <2>4, <2>5
<1> QED
  BY <1>1, <1>2

-----------------------------------------------------------------------------
(* The youngest requests *)

\* Requests that keep their kinds and stay in G.
LEMMA TrailingSame ==
  ASSUME NEW q, NEW r, DOMAIN r = DOMAIN q, NEW A, NEW B, NEW G, NEW H,
         \A i \in DOMAIN q :
           r[i].op = q[i].op /\ (q[i].op \in B /\ q[i] \in G => r[i] \in H),
         Trailing(q, A, B, G)
  PROVE  Trailing(r, A, B, H)
BY DEF Trailing

\* The oldest request of the kinds in B is answered, or one of another kind.
LEMMA TrailingRest ==
  ASSUME NEW S, NEW q \in Seq(S), NEW i \in DOMAIN q, NEW rest,
         rest = RemoveAt(q, i), NEW A, NEW B, A \subseteq B, NEW G,
         Trailing(q, A, B, G), q[i].op \in B => \A j \in 1 .. i - 1 : q[j].op \notin B
  PROVE  /\ Trailing(rest, A, B, G)
         /\ q[i].op \in B /\ ~InFlight(rest, A) => q[i] \in G
         /\ q[i].op \notin A /\ ~InFlight(rest, A) => ~InFlight(q, A)
<1> DEFINE n == Len(q)
<1>1. /\ DOMAIN q = 1 .. n /\ n \in Nat
      /\ DOMAIN rest = 1 .. n - 1
      /\ \A j \in DOMAIN rest :
           /\ Skip(i, j) \in DOMAIN q /\ Skip(i, j) # i
           /\ rest[j] = q[Skip(i, j)]
      /\ \A j, k \in DOMAIN rest : j < k <=> Skip(i, j) < Skip(i, k)
      /\ \A k \in DOMAIN q : k # i => \E j \in DOMAIN rest : Skip(i, j) = k
  <2>1. rest \in Seq(S) /\ Without(rest, q, i)
    BY Skipping
  <2> QED
    BY <2>1 DEF Without
<1> HIDE DEF n
<1>2. ASSUME NEW j \in DOMAIN rest, rest[j].op \in B,
             \A k \in DOMAIN rest : rest[k].op \in A => k <= j
      PROVE  rest[j] \in G
  <2> DEFINE p == Skip(i, j)
  <2>1. p \in DOMAIN q /\ p # i /\ rest[j] = q[p] /\ p \in Nat /\ i \in Nat
    BY <1>1
  <2>2. ASSUME NEW k \in DOMAIN q, k # i, q[k].op \in A
        PROVE  k <= p
    <3>1. PICK m \in DOMAIN rest : Skip(i, m) = k
      BY <1>1, <2>2
    <3>2. m <= j
      BY <1>1, <1>2, <2>2, <3>1
    <3>3. ~(j < m)
      BY <1>1, <3>2
    <3>4. ~(p < k)
      BY <1>1, <3>1, <3>3
    <3> QED
      BY <1>1, <2>1, <3>4
  <2>3. q[i].op \in A => i <= p
    <3>1. SUFFICES ASSUME q[i].op \in A, p < i PROVE FALSE
      BY <2>1
    <3>2. p \in 1 .. i - 1
      BY <1>1, <2>1, <3>1
    <3> QED
      BY <1>2, <2>1, <3>1, <3>2
  <2>4. \A k \in DOMAIN q : q[k].op \in A => k <= p
    BY <2>2, <2>3
  <2> HIDE DEF p
  <2> QED
    BY <1>2, <2>1, <2>4 DEF Trailing
<1>3. ASSUME q[i].op \in B, ~InFlight(rest, A)
      PROVE  q[i] \in G
  <2>1. ASSUME NEW k \in DOMAIN q, q[k].op \in A
        PROVE  k = i
    BY <1>1, <1>3, <2>1 DEF InFlight
  <2>2. \A k \in DOMAIN q : q[k].op \in A => k <= i
    BY <1>1, <2>1
  <2> QED
    BY <1>3, <2>2 DEF Trailing
<1>4. q[i].op \notin A /\ ~InFlight(rest, A) => ~InFlight(q, A)
  BY <1>1 DEF InFlight
<1> QED
  BY <1>2, <1>3, <1>4 DEF Trailing

\* What is sent comes last.
LEMMA TrailingSent ==
  ASSUME NEW S, NEW q \in Seq(S), NEW s \in Seq(S), NEW A, NEW B, A \subseteq B, NEW G,
         \A c \in ToSet(s) : c \in G, InFlight(s, A) \/ Trailing(q, A, B, G)
  PROVE  /\ Trailing(q \o s, A, B, G)
         /\ InFlight(q \o s, A) <=> InFlight(q, A) \/ InFlight(s, A)
<1> DEFINE r == q \o s
           m == Len(q)
           n == Len(s)
<1>1. /\ DOMAIN q = 1 .. m /\ DOMAIN s = 1 .. n /\ m \in Nat /\ n \in Nat
      /\ DOMAIN r = 1 .. m + n
      /\ \A i \in 1 .. m : r[i] = q[i]
      /\ \A i \in 1 .. m + n : i \notin 1 .. m => i - m \in 1 .. n /\ r[i] = s[i - m]
      /\ \A j \in 1 .. n : m + j \in 1 .. m + n /\ m + j \notin 1 .. m /\ r[m + j] = s[j]
  <2>1. /\ r \in Seq(S) /\ Len(r) = Len(q) + Len(s)
        /\ \A i \in 1 .. Len(q) + Len(s) :
             r[i] = IF i <= Len(q) THEN q[i] ELSE s[i - Len(q)]
    BY ConcatProperties
  <2> HIDE DEF r
  <2> QED
    BY <2>1
<1> HIDE DEF r, m, n
<1>2. \A j \in 1 .. n : s[j] \in ToSet(s)
  BY <1>1 DEF ToSet
<1>3. ASSUME NEW i \in DOMAIN r, r[i].op \in B,
             \A j \in DOMAIN r : r[j].op \in A => j <= i
      PROVE  r[i] \in G
  <2>1. CASE i \in 1 .. m
    <3>1. ~InFlight(s, A)
      <4> SUFFICES ASSUME NEW j \in 1 .. n, s[j].op \in A PROVE FALSE
        BY <1>1 DEF InFlight
      <4>1. m + j <= i
        BY <1>1, <1>3
      <4> QED
        BY <1>1, <2>1, <4>1
    <3>2. Trailing(q, A, B, G)
      BY <3>1
    <3>3. \A j \in DOMAIN q : q[j].op \in A => j <= i
      BY <1>1, <1>3
    <3> QED
      BY <1>1, <1>3, <2>1, <3>2, <3>3 DEF Trailing
  <2>2. CASE i \notin 1 .. m
    BY <1>1, <1>2, <2>2
  <2> QED
    BY <2>1, <2>2
<1>4. InFlight(r, A) <=> InFlight(q, A) \/ InFlight(s, A)
  <2>1. ASSUME InFlight(r, A)
        PROVE  InFlight(q, A) \/ InFlight(s, A)
    <3>1. PICK i \in 1 .. m + n : r[i].op \in A
      BY <1>1, <2>1 DEF InFlight
    <3>2. CASE i \in 1 .. m
      BY <1>1, <3>1, <3>2 DEF InFlight
    <3>3. CASE i \notin 1 .. m
      BY <1>1, <3>1, <3>3 DEF InFlight
    <3> QED
      BY <3>2, <3>3
  <2>2. InFlight(q, A) => InFlight(r, A)
    <3>1. \A i \in 1 .. m : i \in 1 .. m + n
      BY <1>1
    <3> QED
      BY <1>1, <3>1 DEF InFlight
  <2>3. InFlight(s, A) => InFlight(r, A)
    BY <1>1 DEF InFlight
  <2> QED
    BY <2>1, <2>2, <2>3
<1> QED
  BY <1>3, <1>4 DEF Trailing, r

-----------------------------------------------------------------------------
(* The view *)

LEMMA ChildOfIs ==
  ASSUME NEW old \in Children, NEW d \in Details, NEW c, c = ChildOf(old, d)
  PROVE  /\ c \in Children /\ c.kind = d.type
         /\ c.kind = "string" => /\ c.content.of = d.name
                                 /\ c.saving => old.kind = "string" /\ old.saving
<1>0. d.type \in {"string", "hash", "stream"} /\ d.name \in Names
  BY DEF Details, Types
<1>1. CASE d.type = "string"
  <2> DEFINE json == d.name \in JsonKeys
             kept == old.kind = "string"
             parsed == IF json THEN d.name ELSE IF kept THEN old.parsedJson ELSE Null
             mode == IF json THEN "tree" ELSE "raw"
             text == [of |-> d.name, via |-> "load"]
             busy == kept /\ old.saving
  <2>1. c = [kind |-> "string", content |-> text, parsedJson |-> parsed,
             viewMode |-> mode, saving |-> busy]
    BY <1>1 DEF ChildOf
  <2>2. kept => old.parsedJson \in Names \cup {Null} /\ old.saving \in BOOLEAN
    BY DEF Children
  <2>3. parsed \in Names \cup {Null} /\ mode \in {"raw", "json", "tree"}
        /\ text \in [of : Names, via : {"load", "json"}] /\ text.of = d.name
    BY <1>0, <2>2
  <2>4. busy \in BOOLEAN /\ (busy => old.kind = "string" /\ old.saving)
    BY <2>2
  <2> HIDE DEF parsed, mode, text, busy
  <2>5. c \in Children
    BY <2>1, <2>3, <2>4 DEF Children
  <2>6. c.kind = "string" /\ c.content = text /\ c.saving = busy
    BY <2>1
  <2> QED
    BY <1>1, <2>3, <2>4, <2>5, <2>6
<1>2. CASE d.type = "stream"
  <2> DEFINE data == IF old.kind = "stream" THEN old.streamData ELSE Null
  <2>1. c = [kind |-> "stream", loading |-> TRUE, streamData |-> data]
    BY <1>2 DEF ChildOf
  <2>2. data \in Names \cup {Null}
    BY DEF Children
  <2> HIDE DEF data
  <2>3. c \in Children /\ c.kind = "stream"
    BY <2>1, <2>2 DEF Children
  <2> QED
    BY <1>2, <2>3
<1>3. CASE d.type = "hash"
  <2>1. c = [kind |-> "hash"]
    BY <1>3 DEF ChildOf
  <2>2. c \in Children /\ c.kind = "hash"
    BY <2>1 DEF Children
  <2> QED
    BY <1>3, <2>2
<1> QED
  BY <1>0, <1>1, <1>2, <1>3

\* The fields that the pane does not change.
Beside(v, w) ==
  /\ w.loading = v.loading /\ w.detailLoading = v.detailLoading
  /\ w.dupLoading = v.dupLoading /\ w.pattern = v.pattern
  /\ w.selectedKey = v.selectedKey /\ w.listedFor = v.listedFor

LEMMA NoChildIs == NoChild \in Children /\ NoChild.kind = "none"
BY DEF NoChild, Children

LEMMA ShowDetailIs ==
  ASSUME NEW v \in View, NEW d \in Details \cup {Null}, NEW w, w = ShowDetail(v, d)
  PROVE  /\ w \in View /\ Pane(w) /\ Beside(v, w) /\ w.keyDetail = d
         /\ w.child.kind = IF d # Null /\ ~v.detailLoading THEN d.type ELSE "none"
         /\ w.child.kind = "string" /\ w.child.saving
              => v.child.kind = "string" /\ v.child.saving
<1> DEFINE next == [v EXCEPT !.keyDetail = d]
           shown == d # Null /\ ~v.detailLoading
           child == IF shown THEN ChildOf(v.child, d) ELSE NoChild
           forms == IF child.kind = "hash" THEN v.open ELSE v.open \ HashForms
<1>1. PaneShown(next) = shown
  BY DEF PaneShown, View
<1>2. w = [next EXCEPT !.child = child, !.open = forms]
  <2>1. w = [next EXCEPT !.child = IF PaneShown(next) THEN ChildOf(v.child, d) ELSE NoChild,
                         !.open = IF (IF PaneShown(next) THEN ChildOf(v.child, d)
                                      ELSE NoChild).kind = "hash"
                                  THEN @ ELSE @ \ HashForms]
    BY DEF ShowDetail
  <2>2. next.open = v.open
    BY DEF View
  <2> QED
    BY <1>1, <2>1, <2>2
<1>3. v.child \in Children /\ v.open \subseteq Forms
  BY DEF View
<1>4. /\ child \in Children
      /\ child.kind = IF shown THEN d.type ELSE "none"
      /\ child.kind = "string" =>
           shown /\ child.content.of = d.name
             /\ (child.saving => v.child.kind = "string" /\ v.child.saving)
  <2>1. CASE shown
    <3>1. d \in Details
      BY <2>1
    <3> DEFINE c == ChildOf(v.child, d)
    <3>2. c = ChildOf(v.child, d)
      OBVIOUS
    <3>3. child = c
      BY <2>1
    <3> HIDE DEF c, child, shown
    <3>4. /\ c \in Children /\ c.kind = d.type
          /\ c.kind = "string" => /\ c.content.of = d.name
                                  /\ c.saving => v.child.kind = "string" /\ v.child.saving
      BY <1>3, <3>1, <3>2, ChildOfIs
    <3> QED
      BY <2>1, <3>3, <3>4
  <2>2. CASE ~shown
    <3>1. child = NoChild
      BY <2>2
    <3> HIDE DEF child, shown
    <3> QED
      BY <2>2, <3>1, NoChildIs
  <2> QED
    BY <2>1, <2>2
<1>5. forms \subseteq Forms /\ (forms \cap HashForms # {} => child.kind = "hash")
  BY <1>3
<1> HIDE DEF child, forms
<1>6. /\ w \in View /\ Beside(v, w) /\ w.keyDetail = d /\ w.child = child
      /\ w.open = forms
  BY <1>2, <1>4, <1>5 DEF View, Beside
<1>7. PaneShown(w) = shown
  BY <1>6 DEF PaneShown, Beside
<1> HIDE DEF shown
<1>8. Pane(w)
  BY <1>4, <1>5, <1>6, <1>7 DEF Pane
<1> QED
  BY <1>4, <1>6, <1>8 DEF shown

LEMMA SelectIs ==
  ASSUME NEW v \in View, NEW k \in Names \cup {Null}, k # v.selectedKey,
         NEW w, w = Select(v, k)
  PROVE  /\ w \in View /\ Pane(w) /\ w.child.kind = "none"
         /\ w.loading /\ w.detailLoading = (v.detailLoading \/ k # Null)
         /\ w.dupLoading = v.dupLoading /\ w.pattern = v.pattern
         /\ w.selectedKey = k /\ w.listedFor = v.listedFor
         /\ w.keyDetail = IF k = Null THEN Null ELSE v.keyDetail
<1> DEFINE busy == v.detailLoading \/ k # Null
           moved == [v EXCEPT !.selectedKey = k, !.detailLoading = busy, !.loading = TRUE]
           d == IF k = Null THEN Null ELSE v.keyDetail
<1>1. w = ShowDetail(moved, d)
  BY DEF Select, Loading
<1>2. busy \in BOOLEAN /\ d \in Details \cup {Null} /\ (d # Null => busy)
  BY DEF View
<1> HIDE DEF busy, d
<1>3. /\ moved \in View /\ moved.selectedKey = k /\ moved.detailLoading = busy
      /\ moved.loading = TRUE /\ moved.dupLoading = v.dupLoading
      /\ moved.pattern = v.pattern /\ moved.listedFor = v.listedFor
  BY <1>2 DEF View
<1> HIDE DEF moved
<1>4. /\ w \in View /\ Pane(w) /\ Beside(moved, w) /\ w.keyDetail = d
      /\ w.child.kind = IF d # Null /\ ~moved.detailLoading THEN d.type ELSE "none"
  BY <1>1, <1>2, <1>3, ShowDetailIs
<1>5. w.child.kind = "none"
  BY <1>2, <1>3, <1>4
<1> QED
  BY <1>3, <1>4, <1>5 DEF Beside, busy, d

-----------------------------------------------------------------------------
(* What the user or an answer leaves behind *)

\* Of the requests q that are left, with those of s, v has a cause for what
\* spins.
SoundAfter(v, q, s) ==
  /\ v \in View /\ Pane(v)
  /\ q \in Seq(Requests) /\ s \in Seq(Requests)
  /\ Owned(view, q) /\ Owned(v, s)
  /\ v.loading => InFlight(q, {"list"}) \/ InFlight(s, {"list"})
  /\ v.detailLoading => InFlight(q, {"detail"}) \/ InFlight(s, {"detail"})
  /\ v.dupLoading => InFlight(q, {"duplicate"}) \/ InFlight(s, {"duplicate"})
  /\ v.child.kind = "string" /\ v.child.saving =>
       (view.child.kind = "string" /\ Saving(q)) \/ Saving(s)

\* What is sent is for what v shows.
Fresh(v, s) ==
  \A c \in ToSet(s) :
    /\ c.op \in Writes => c.at = Closure(v)
    /\ c \in ForPattern(v.pattern)
    /\ IF v.selectedKey = Null THEN c.op \notin {"detail", "refresh"}
       ELSE c \in ForKey(v.selectedKey)
    /\ v.child.kind = "stream" => c \in ForStream(v.keyDetail.name)

Awaits(v, q, s) ==
  /\ Fresh(v, s) /\ Unselected(v, q)
  /\ \/ InFlight(s, {"list"})
     \/ /\ Trailing(q, {"list"}, {"list"}, ForPattern(v.pattern))
        /\ ~InFlight(q, {"list"}) => v.listedFor = v.pattern
  /\ v.selectedKey # Null =>
       \/ InFlight(s, {"detail"})
       \/ /\ Trailing(q, {"detail"}, {"detail", "refresh"}, ForKey(v.selectedKey))
          /\ ~InFlight(q, {"detail"}) /\ v.keyDetail # Null
               => v.keyDetail.name = v.selectedKey
  /\ v.child.kind = "stream" =>
       \/ InFlight(s, {"stream"})
       \/ /\ view.child.kind = "stream"
          /\ Trailing(q, {"stream"}, {"stream"}, ForStream(v.keyDetail.name))
          /\ ~InFlight(q, {"stream"}) => v.child.streamData = v.keyDetail.name

\* The writes in flight were started with what at says.
StartedAt(q, at) == \A i \in DOMAIN q : q[i].op \in Writes => q[i].at = at

\* The same requests, those of an old child dropped, and the new ones.
Followed(q, o, s, r) ==
  /\ r = o \o s /\ r \in Seq(Requests)
  /\ \A c \in ToSet(r) : c \in ToSet(o) \/ c \in ToSet(s)
  /\ \A K : InFlight(r, K) <=> InFlight(q, K) \/ InFlight(s, K)

LEMMA Follows ==
  ASSUME NEW q \in Seq(Requests), NEW s \in Seq(Requests), NEW v, NEW o,
         o = Orphaned(q, v), NEW r, r = o \o s
  PROVE  Followed(q, o, s, r)
<1>1. /\ o \in Seq(Requests) /\ DOMAIN o = DOMAIN q
      /\ \A i \in DOMAIN q : o[i].op = q[i].op
  <2>1. Dropped(q, v, o)
    BY OrphanedIs
  <2> QED
    BY <2>1 DEF Dropped
<1>2. r \in Seq(Requests) /\ ToSet(r) = ToSet(o) \cup ToSet(s)
  BY <1>1, SentSet
<1>3. ASSUME NEW K
      PROVE  InFlight(r, K) <=> InFlight(q, K) \/ InFlight(s, K)
  <2>1. InFlight(o, K) <=> InFlight(q, K)
    BY <1>1 DEF InFlight
  <2>2. InFlight(r, K) <=> InFlight(o, K) \/ InFlight(s, K)
    BY <1>2, InFlightSet
  <2> QED
    BY <2>1, <2>2
<1> QED
  BY <1>2, <1>3 DEF Followed

LEMMA LandsSound ==
  ASSUME NEW q, NEW s, NEW v, SoundAfter(v, q, s), NEW r,
         r = Orphaned(q, v) \o s
  PROVE  Sound(v, r)
<1> DEFINE o == Orphaned(q, v)
<1>1. o = Orphaned(q, v) /\ r = o \o s
  OBVIOUS
<1> HIDE DEF o
<1>2. q \in Seq(Requests) /\ s \in Seq(Requests)
  BY DEF SoundAfter
<1>3. Dropped(q, v, o) /\ Followed(q, o, s, r)
  BY <1>1, <1>2, OrphanedIs, Follows
<1>4. r \in Seq(Requests)
  BY <1>3 DEF Followed
<1>5. Owned(v, r)
  <2> SUFFICES ASSUME NEW c \in ToSet(r)
               PROVE  /\ c.op = "stream" /\ c.live => v.child.kind = "stream"
                      /\ c.op = "save" /\ c.live => v.child.kind = "string"
    <3>1. \A i \in DOMAIN r : r[i] \in ToSet(r)
      BY DEF ToSet
    <3> QED
      BY <3>1 DEF Owned
  <2>1. CASE c \in ToSet(s)
    BY <2>1 DEF SoundAfter, Owned, ToSet
  <2>2. CASE c \in ToSet(o)
    <3>1. PICK i \in DOMAIN q : c = o[i]
      BY <1>3, <2>2 DEF ToSet, Dropped
    <3>2. CASE v.child.kind = view.child.kind
      BY <1>3, <3>1, <3>2 DEF Dropped, SoundAfter, Owned
    <3>3. CASE v.child.kind # view.child.kind
      BY <1>3, <3>1, <3>3 DEF Dropped
    <3> QED
      BY <3>2, <3>3
  <2> QED
    BY <1>3, <2>1, <2>2 DEF Followed
<1>6. ASSUME Saving(s) \/ (v.child.kind = view.child.kind /\ Saving(q))
      PROVE  Saving(r)
  <2>1. \A w : Saving(w) <=> \E c \in ToSet(w) : c.op = "save" /\ c.live
    BY DEF Saving, ToSet
  <2>2. o \in Seq(Requests)
    BY <1>3 DEF Dropped
  <2>3. ToSet(r) = ToSet(o) \cup ToSet(s)
    BY <1>1, <1>2, <2>2, SentSet
  <2>4. v.child.kind = view.child.kind => o = q
    BY <1>3 DEF Dropped
  <2> QED
    BY <1>6, <2>1, <2>3, <2>4
<1>7. Causes(v, r)
  <2>1. \A K : InFlight(r, K) <=> InFlight(q, K) \/ InFlight(s, K)
    BY <1>3 DEF Followed
  <2> QED
    BY <1>6, <2>1 DEF Causes, SoundAfter
<1> QED
  BY <1>4, <1>5, <1>7 DEF Sound, SoundAfter

LEMMA LandsInTurn ==
  ASSUME NEW q \in Seq(Requests), NEW s \in Seq(Requests), NEW v,
         StartedAt(q, Closure(v)), Awaits(v, q, s), NEW r, r = Orphaned(q, v) \o s
  PROVE  InTurn(v, r)
<1> DEFINE o == Orphaned(q, v)
<1>1. o = Orphaned(q, v) /\ r = o \o s
  OBVIOUS
<1> HIDE DEF o
<1>2. Dropped(q, v, o) /\ Followed(q, o, s, r)
  BY <1>1, OrphanedIs, Follows
<1>3. o \in Seq(Requests) /\ DOMAIN o = DOMAIN q
  BY <1>2 DEF Dropped
<1>4. Fresh(v, s)
  BY DEF Awaits
<1>5. \A i \in DOMAIN r : r[i].op \in Writes => r[i].at = Closure(v)
  <2> SUFFICES ASSUME NEW c \in ToSet(r), c.op \in Writes
               PROVE  c.at = Closure(v)
    BY DEF ToSet
  <2>1. CASE c \in ToSet(s)
    BY <1>4, <2>1 DEF Fresh
  <2>2. CASE c \in ToSet(o)
    <3>1. PICK i \in DOMAIN q : c = o[i]
      BY <1>3, <2>2 DEF ToSet
    <3>2. o[i].op = q[i].op /\ (q[i].op \in Writes => o[i].at = q[i].at)
      BY <1>2 DEF Dropped
    <3> QED
      BY <3>1, <3>2 DEF StartedAt
  <2> QED
    BY <1>2, <2>1, <2>2 DEF Followed
<1>6. \A K : InFlight(r, K) <=> InFlight(q, K) \/ InFlight(s, K)
  BY <1>2 DEF Followed
<1>7. /\ Trailing(r, {"list"}, {"list"}, ForPattern(v.pattern))
      /\ ~InFlight(r, {"list"}) => v.listedFor = v.pattern
  <2> DEFINE G == ForPattern(v.pattern)
             A == {"list"}
  <2>1. \A c \in ToSet(s) : c \in G
    BY <1>4 DEF Fresh
  <2>2. \A i \in DOMAIN q : o[i].op = q[i].op /\ (q[i].op \in A /\ q[i] \in G => o[i] \in G)
    BY <1>2 DEF Dropped
  <2>3. InFlight(s, A) \/ (Trailing(q, A, A, G) /\ (~InFlight(q, A) => v.listedFor = v.pattern))
    BY DEF Awaits
  <2> HIDE DEF G, A
  <2>4. Trailing(q, A, A, G) => Trailing(o, A, A, G)
    BY <1>3, <2>2, TrailingSame
  <2>5. Trailing(o \o s, A, A, G)
    BY <1>3, <2>1, <2>3, <2>4, TrailingSent
  <2>6. ~InFlight(r, A) => v.listedFor = v.pattern
    BY <1>6, <2>3
  <2> QED
    BY <1>1, <2>5, <2>6 DEF G, A
<1>8. ASSUME v.selectedKey # Null
      PROVE  /\ Trailing(r, {"detail"}, {"detail", "refresh"}, ForKey(v.selectedKey))
             /\ ~InFlight(r, {"detail"}) /\ v.keyDetail # Null
                  => v.keyDetail.name = v.selectedKey
  <2> DEFINE G == ForKey(v.selectedKey)
             A == {"detail"}
             B == {"detail", "refresh"}
  <2>1. \A c \in ToSet(s) : c \in G
    BY <1>4, <1>8 DEF Fresh
  <2>2. \A i \in DOMAIN q : o[i].op = q[i].op /\ (q[i].op \in B /\ q[i] \in G => o[i] \in G)
    BY <1>2 DEF Dropped
  <2>3. InFlight(s, A) \/ (Trailing(q, A, B, G)
          /\ (~InFlight(q, A) /\ v.keyDetail # Null => v.keyDetail.name = v.selectedKey))
    BY <1>8 DEF Awaits
  <2>0. A \subseteq B
    OBVIOUS
  <2> HIDE DEF G, A, B
  <2>4. Trailing(q, A, B, G) => Trailing(o, A, B, G)
    BY <1>3, <2>2, TrailingSame
  <2>5. Trailing(o \o s, A, B, G)
    BY <1>3, <2>0, <2>1, <2>3, <2>4, TrailingSent
  <2>6. ~InFlight(r, A) /\ v.keyDetail # Null => v.keyDetail.name = v.selectedKey
    BY <1>6, <2>3
  <2> QED
    BY <1>1, <2>5, <2>6 DEF G, A, B
<1>9. ASSUME v.child.kind = "stream"
      PROVE  /\ Trailing(r, {"stream"}, {"stream"}, ForStream(v.keyDetail.name))
             /\ ~InFlight(r, {"stream"}) => v.child.streamData = v.keyDetail.name
  <2> DEFINE G == ForStream(v.keyDetail.name)
             A == {"stream"}
  <2>1. \A c \in ToSet(s) : c \in G
    BY <1>4, <1>9 DEF Fresh
  <2>2. InFlight(s, A)
          \/ (view.child.kind = "stream" /\ Trailing(q, A, A, G)
              /\ (~InFlight(q, A) => v.child.streamData = v.keyDetail.name))
    BY <1>9 DEF Awaits
  <2> HIDE DEF G, A
  <2>3. view.child.kind = "stream" => o = q
    BY <1>2, <1>9 DEF Dropped
  <2>4. Trailing(o \o s, A, A, G)
    BY <1>3, <2>1, <2>2, <2>3, TrailingSent
  <2>5. ~InFlight(r, A) => v.child.streamData = v.keyDetail.name
    BY <1>6, <2>2
  <2> QED
    BY <1>1, <2>4, <2>5 DEF G, A
<1>10. Unselected(v, r)
  <2>1. v.selectedKey = Null => ~InFlight(s, {"detail", "refresh"})
    BY <1>4 DEF Fresh, InFlight, ToSet
  <2> QED
    BY <1>6, <2>1 DEF Awaits, Unselected
<1> QED
  BY <1>5, <1>7, <1>8, <1>9, <1>10 DEF InTurn

-----------------------------------------------------------------------------
(* What is left of the requests when one is answered *)

LEMMA Here ==
  ASSUME BrowserInv
  PROVE  /\ view \in View /\ calls \in Seq(Requests)
         /\ Pane(view) /\ Causes(view, calls) /\ Owned(view, calls)
         /\ calm => InTurn(view, calls)
BY DEF BrowserInv, Sound

\* Request i is answered, rest remains: what spins and is not answered still
\* has its cause.
StillCaused(i, rest) ==
  /\ rest \in Seq(Requests) /\ Owned(view, rest)
  /\ calls[i] \in Requests
  /\ calls[i].op # "list" /\ view.loading => InFlight(rest, {"list"})
  /\ calls[i].op # "detail" /\ view.detailLoading => InFlight(rest, {"detail"})
  /\ calls[i].op # "duplicate" /\ view.dupLoading => InFlight(rest, {"duplicate"})
  /\ view.child.kind = "string" /\ view.child.saving
       => Saving(rest) \/ (calls[i].op = "save" /\ calls[i].live)

LEMMA RestCaused ==
  ASSUME BrowserInv, NEW i \in DOMAIN calls, NEW rest, rest = RemoveAt(calls, i)
  PROVE  StillCaused(i, rest)
<1>1. calls \in Seq(Requests) /\ Causes(view, calls) /\ Owned(view, calls)
  BY Here
<1>2. /\ rest \in Seq(Requests) /\ ToSet(rest) \subseteq ToSet(calls)
      /\ \A c \in ToSet(calls) : c = calls[i] \/ c \in ToSet(rest)
  BY <1>1, RestSet
<1>3. calls[i] \in Requests
  BY <1>1
<1>4. Owned(view, rest)
  BY <1>1, <1>2 DEF Owned, ToSet
<1>5. \A op : InFlight(calls, {op}) /\ calls[i].op # op => InFlight(rest, {op})
  <2> SUFFICES ASSUME NEW op, InFlight(calls, {op}), calls[i].op # op
               PROVE  InFlight(rest, {op})
    OBVIOUS
  <2>1. PICK c \in ToSet(calls) : c.op = op
    BY DEF InFlight, ToSet
  <2>2. c \in ToSet(rest)
    BY <1>2, <2>1
  <2> QED
    BY <2>1, <2>2 DEF InFlight, ToSet
<1>6. ASSUME Saving(calls), ~(calls[i].op = "save" /\ calls[i].live)
      PROVE  Saving(rest)
  <2>1. PICK c \in ToSet(calls) : c.op = "save" /\ c.live
    BY <1>6 DEF Saving, ToSet
  <2>2. c \in ToSet(rest)
    BY <1>2, <1>6, <2>1
  <2> QED
    BY <2>1, <2>2 DEF Saving, ToSet
<1> QED
  BY <1>1, <1>2, <1>3, <1>4, <1>5, <1>6 DEF StillCaused, Causes

\* The youngest requests that remain are still for what the view shows; if
\* none remains, the one that is answered was.
StillAwaited(i, rest) ==
  /\ StartedAt(rest, Closure(view)) /\ Unselected(view, rest)
  /\ calls[i].op \in {"detail", "refresh"} => view.selectedKey # Null
  /\ Trailing(rest, {"list"}, {"list"}, ForPattern(view.pattern))
  /\ ~InFlight(rest, {"list"}) =>
       IF calls[i].op = "list" THEN calls[i].pattern = view.pattern
       ELSE view.listedFor = view.pattern
  /\ view.selectedKey # Null =>
       /\ Trailing(rest, {"detail"}, {"detail", "refresh"}, ForKey(view.selectedKey))
       /\ ~InFlight(rest, {"detail"}) =>
            /\ calls[i].op \in {"detail", "refresh"} => calls[i].key = view.selectedKey
            /\ calls[i].op # "detail" /\ view.keyDetail # Null
                 => view.keyDetail.name = view.selectedKey
  /\ view.child.kind = "stream" =>
       /\ Trailing(rest, {"stream"}, {"stream"}, ForStream(view.keyDetail.name))
       /\ ~InFlight(rest, {"stream"}) =>
            IF calls[i].op = "stream"
            THEN calls[i].live /\ calls[i].key = view.keyDetail.name
            ELSE view.child.streamData = view.keyDetail.name

LEMMA RestAwaited ==
  ASSUME BrowserInv, calm, NEW i \in DOMAIN calls, NEW rest, rest = RemoveAt(calls, i),
         ~Overtakes(i, {"list"}), ~Overtakes(i, {"detail", "refresh"}),
         ~Overtakes(i, {"stream"})
  PROVE  StillAwaited(i, rest)
<1>1. calls \in Seq(Requests) /\ InTurn(view, calls)
  BY Here
<1>2. rest \in Seq(Requests) /\ ToSet(rest) \subseteq ToSet(calls)
  BY <1>1, RestSet
<1>3. StartedAt(rest, Closure(view))
  BY <1>1, <1>2 DEF StartedAt, InTurn, ToSet
<1>4. /\ Trailing(rest, {"list"}, {"list"}, ForPattern(view.pattern))
      /\ ~InFlight(rest, {"list"}) =>
           IF calls[i].op = "list" THEN calls[i].pattern = view.pattern
           ELSE view.listedFor = view.pattern
  <2> DEFINE A == {"list"}
             G == ForPattern(view.pattern)
  <2>1. calls[i].op \in A => \A j \in 1 .. i - 1 : calls[j].op \notin A
    BY DEF Overtakes
  <2>2. Trailing(calls, A, A, G) /\ A \subseteq A
    BY <1>1 DEF InTurn
  <2>3. calls[i] \in G /\ calls[i].op = "list" => calls[i].pattern = view.pattern
    BY DEF ForPattern
  <2>4. calls[i].op = "list" <=> calls[i].op \in A
    OBVIOUS
  <2>5. ~InFlight(calls, A) => view.listedFor = view.pattern
    BY <1>1 DEF InTurn
  <2> HIDE DEF A, G
  <2>6. /\ Trailing(rest, A, A, G)
        /\ calls[i].op \in A /\ ~InFlight(rest, A) => calls[i] \in G
        /\ calls[i].op \notin A /\ ~InFlight(rest, A) => ~InFlight(calls, A)
    BY <1>1, <2>1, <2>2, TrailingRest
  <2>7. Trailing(rest, A, A, G) /\ (~InFlight(rest, A) =>
           IF calls[i].op = "list" THEN calls[i].pattern = view.pattern
           ELSE view.listedFor = view.pattern)
    BY <2>3, <2>4, <2>5, <2>6
  <2> QED
    BY <2>7 DEF A, G
<1>5. ASSUME view.selectedKey # Null
      PROVE  /\ Trailing(rest, {"detail"}, {"detail", "refresh"}, ForKey(view.selectedKey))
             /\ ~InFlight(rest, {"detail"}) =>
                  /\ calls[i].op \in {"detail", "refresh"}
                       => calls[i].key = view.selectedKey
                  /\ calls[i].op # "detail" /\ view.keyDetail # Null
                       => view.keyDetail.name = view.selectedKey
  <2> DEFINE A == {"detail"}
             B == {"detail", "refresh"}
             G == ForKey(view.selectedKey)
  <2>1. calls[i].op \in B => \A j \in 1 .. i - 1 : calls[j].op \notin B
    BY DEF Overtakes
  <2>2. Trailing(calls, A, B, G) /\ A \subseteq B
    BY <1>1, <1>5 DEF InTurn
  <2>3. calls[i] \in G /\ calls[i].op \in B => calls[i].key = view.selectedKey
    BY DEF ForKey
  <2>4. calls[i].op = "detail" <=> calls[i].op \in A
    OBVIOUS
  <2>5. ~InFlight(calls, A) /\ view.keyDetail # Null => view.keyDetail.name = view.selectedKey
    BY <1>1, <1>5 DEF InTurn
  <2> HIDE DEF A, B, G
  <2>6. /\ Trailing(rest, A, B, G)
        /\ calls[i].op \in B /\ ~InFlight(rest, A) => calls[i] \in G
        /\ calls[i].op \notin A /\ ~InFlight(rest, A) => ~InFlight(calls, A)
    BY <1>1, <2>1, <2>2, TrailingRest
  <2>7. Trailing(rest, A, B, G) /\ (~InFlight(rest, A) =>
           /\ calls[i].op \in B => calls[i].key = view.selectedKey
           /\ calls[i].op # "detail" /\ view.keyDetail # Null
                => view.keyDetail.name = view.selectedKey)
    BY <2>3, <2>4, <2>5, <2>6
  <2> QED
    BY <2>7 DEF A, B, G
<1>6. ASSUME view.child.kind = "stream"
      PROVE  /\ Trailing(rest, {"stream"}, {"stream"}, ForStream(view.keyDetail.name))
             /\ ~InFlight(rest, {"stream"}) =>
                  IF calls[i].op = "stream"
                  THEN calls[i].live /\ calls[i].key = view.keyDetail.name
                  ELSE view.child.streamData = view.keyDetail.name
  <2> DEFINE A == {"stream"}
             G == ForStream(view.keyDetail.name)
  <2>1. calls[i].op \in A => \A j \in 1 .. i - 1 : calls[j].op \notin A
    BY DEF Overtakes
  <2>2. Trailing(calls, A, A, G) /\ A \subseteq A
    BY <1>1, <1>6 DEF InTurn
  <2>3. calls[i] \in G /\ calls[i].op = "stream"
          => calls[i].live /\ calls[i].key = view.keyDetail.name
    BY DEF ForStream
  <2>4. calls[i].op = "stream" <=> calls[i].op \in A
    OBVIOUS
  <2>5. ~InFlight(calls, A) => view.child.streamData = view.keyDetail.name
    BY <1>1, <1>6 DEF InTurn
  <2> HIDE DEF A, G
  <2>6. /\ Trailing(rest, A, A, G)
        /\ calls[i].op \in A /\ ~InFlight(rest, A) => calls[i] \in G
        /\ calls[i].op \notin A /\ ~InFlight(rest, A) => ~InFlight(calls, A)
    BY <1>1, <2>1, <2>2, TrailingRest
  <2>7. Trailing(rest, A, A, G) /\ (~InFlight(rest, A) =>
           IF calls[i].op = "stream"
           THEN calls[i].live /\ calls[i].key = view.keyDetail.name
           ELSE view.child.streamData = view.keyDetail.name)
    BY <2>3, <2>4, <2>5, <2>6
  <2> QED
    BY <2>7 DEF A, G
<1>7. /\ Unselected(view, rest)
      /\ calls[i].op \in {"detail", "refresh"} => view.selectedKey # Null
  BY <1>1, <1>2 DEF InTurn, Unselected, InFlight, ToSet
<1> QED
  BY <1>3, <1>4, <1>5, <1>6, <1>7 DEF StillAwaited

-----------------------------------------------------------------------------
(* Steps of the user and answers *)

LEMMA UserKeeps ==
  ASSUME BrowserInv, NEW v, NEW s, UserStep(v, s), SoundAfter(v, calls, s),
         calm /\ StaysCalm(v, calls) => Awaits(v, calls, s)
  PROVE  BrowserInv'
<1> DEFINE r == Orphaned(calls, v) \o s
<1>1. /\ view' = v /\ calls' = r /\ calm' = (calm /\ StaysCalm(v, calls))
      /\ acts' = acts + 1 /\ acts < MaxActs /\ UNCHANGED browserVars
  BY DEF UserStep, UserActs, Act, Land
<1>2. r = Orphaned(calls, v) \o s
  OBVIOUS
<1>3. calls \in Seq(Requests) /\ s \in Seq(Requests)
  BY DEF SoundAfter
<1> HIDE DEF r
<1>4. Sound(v, r)
  BY <1>2, LandsSound
<1>5. ASSUME calm'
      PROVE  InTurn(v, r)
  <2>1. calm /\ StaysCalm(v, calls)
    BY <1>1, <1>5
  <2>2. StartedAt(calls, Closure(v))
    BY <2>1, Here DEF InTurn, StartedAt, StaysCalm, InFlight
  <2>3. Awaits(v, calls, s)
    BY <2>1
  <2> QED
    BY <1>2, <1>3, <2>2, <2>3, LandsInTurn
<1>6. ServerTyped'
  BY <1>1, ApiAssumption DEF BrowserInv, ServerTyped, browserVars
<1> QED
  BY <1>1, <1>4, <1>5, <1>6 DEF BrowserInv

LEMMA AnswerKeeps ==
  ASSUME BrowserInv, NEW i \in DOMAIN calls, NEW v, NEW s, Answer(i, v, s),
         NEW rest, rest = RemoveAt(calls, i), SoundAfter(v, rest, s),
         calm' /\ StillAwaited(i, rest) => Awaits(v, rest, s)
  PROVE  BrowserInv'
<1> DEFINE r == Orphaned(rest, v) \o s
<1>1. /\ view' = v /\ calls' = r /\ calm' \in BOOLEAN
      /\ UNCHANGED <<acts, db, guarded>>
      /\ calm' => /\ calm /\ StaysCalm(v, rest) /\ ~Overtakes(i, {"list"})
                  /\ ~Overtakes(i, {"detail", "refresh"}) /\ ~Overtakes(i, {"stream"})
  BY DEF Answer, Land
<1>2. r = Orphaned(rest, v) \o s
  OBVIOUS
<1>3. rest \in Seq(Requests) /\ s \in Seq(Requests)
  BY DEF SoundAfter
<1> HIDE DEF r
<1>4. Sound(v, r)
  BY <1>2, LandsSound
<1>5. ASSUME calm'
      PROVE  InTurn(v, r)
  <2>1. calm /\ StaysCalm(v, rest) /\ StillAwaited(i, rest)
    BY <1>1, <1>5, RestAwaited
  <2>2. StartedAt(rest, Closure(v))
    BY <2>1 DEF StillAwaited, StartedAt, StaysCalm, InFlight
  <2>3. Awaits(v, rest, s)
    BY <1>5, <2>1
  <2> QED
    BY <1>2, <1>3, <2>2, <2>3, LandsInTurn
<1>6. ServerTyped'
  BY <1>1 DEF BrowserInv, ServerTyped
<1> QED
  BY <1>1, <1>4, <1>5, <1>6 DEF BrowserInv

\* Selection, search, detail and what is in the pane stay as they are.
Alike(v) ==
  /\ v \in View /\ Pane(v)
  /\ v.keyDetail = view.keyDetail /\ v.detailLoading = view.detailLoading
  /\ v.selectedKey = view.selectedKey /\ v.pattern = view.pattern
  /\ v.listedFor = view.listedFor
  /\ v.child.kind = view.child.kind
  /\ v.child.kind = "stream" => v.child.streamData = view.child.streamData

LEMMA UserAlike ==
  ASSUME BrowserInv, NEW v, NEW s, UserStep(v, s), Alike(v),
         s \in Seq(Requests), Owned(v, s),
         v.loading => view.loading \/ InFlight(s, {"list"}),
         v.dupLoading => view.dupLoading \/ InFlight(s, {"duplicate"}),
         v.child.kind = "string" /\ v.child.saving => view.child.saving \/ Saving(s),
         calm => Fresh(v, s)
  PROVE  BrowserInv'
<1>1. /\ calls \in Seq(Requests) /\ Owned(view, calls) /\ Causes(view, calls)
      /\ calm => InTurn(view, calls)
  BY Here
<1>2. SoundAfter(v, calls, s)
  BY <1>1 DEF SoundAfter, Alike, Causes
<1>3. calm => Awaits(v, calls, s)
  BY <1>1 DEF Awaits, InTurn, Alike, Unselected
<1> QED
  BY <1>2, <1>3, UserKeeps

LEMMA AnswerAlike ==
  ASSUME BrowserInv, NEW i \in DOMAIN calls, NEW v, NEW s, Answer(i, v, s), Alike(v),
         calls[i].op \notin {"list", "detail", "stream"},
         s \in Seq(Requests), Owned(v, s),
         v.loading => view.loading \/ InFlight(s, {"list"}),
         v.dupLoading => view.dupLoading /\ calls[i].op # "duplicate",
         v.child.kind = "string" /\ v.child.saving =>
           view.child.saving /\ ~(calls[i].op = "save" /\ calls[i].live),
         calm' => Fresh(v, s)
  PROVE  BrowserInv'
<1> DEFINE rest == RemoveAt(calls, i)
<1>1. rest = RemoveAt(calls, i)
  OBVIOUS
<1> HIDE DEF rest
<1>2. StillCaused(i, rest)
  BY <1>1, RestCaused
<1>3. SoundAfter(v, rest, s)
  BY <1>2 DEF SoundAfter, Alike, StillCaused
<1>4. calm' /\ StillAwaited(i, rest) => Awaits(v, rest, s)
  BY DEF Awaits, StillAwaited, Alike, Unselected
<1> QED
  BY <1>1, <1>3, <1>4, AnswerKeeps

-----------------------------------------------------------------------------
(* What is sent *)

LEMMA NothingSent ==
  /\ <<>> \in Seq(Requests) /\ \A K : ~InFlight(<<>>, K)
  /\ ~Saving(<<>>) /\ \A v : Owned(v, <<>>) /\ Fresh(v, <<>>)
BY DEF InFlight, Saving, Owned, Fresh, ToSet

\* A single request.
Sent(c, s) ==
  /\ s \in Seq(Requests) /\ ToSet(s) = {c}
  /\ \A K : InFlight(s, K) <=> c.op \in K
  /\ Saving(s) <=> c.op = "save" /\ c.live
  /\ \A v : Owned(v, s) <=>
       /\ c.op = "stream" /\ c.live => v.child.kind = "stream"
       /\ c.op = "save" /\ c.live => v.child.kind = "string"

LEMMA OneSent ==
  ASSUME NEW c \in Requests, NEW s, s = <<c>>
  PROVE  Sent(c, s)
<1>1. s \in Seq(Requests) /\ DOMAIN s = {1} /\ s[1] = c
  OBVIOUS
<1>2. ToSet(s) = {c}
  BY <1>1 DEF ToSet
<1>3. \A K : InFlight(s, K) <=> c.op \in K
  BY <1>1 DEF InFlight
<1>4. Saving(s) <=> c.op = "save" /\ c.live
  BY <1>1 DEF Saving
<1>5. \A v : Owned(v, s) <=>
        /\ c.op = "stream" /\ c.live => v.child.kind = "stream"
        /\ c.op = "save" /\ c.live => v.child.kind = "string"
  BY <1>1 DEF Owned
<1> QED
  BY <1>1, <1>2, <1>3, <1>4, <1>5 DEF Sent

LEMMA ClosureIs ==
  ASSUME NEW v \in View
  PROVE  /\ Closure(v) \in Closures
         /\ Closure(v).pattern = v.pattern /\ Closure(v).selectedKey = v.selectedKey
BY DEF Closure, Closures, View

LEMMA ListSent ==
  ASSUME NEW at, at.pattern \in Patterns, NEW then \in Names \cup {Null}
  PROVE  \E c \in Requests :
           /\ c.op = "list" /\ c.pattern = at.pattern
           /\ Sent(c, LoadKeys(at, then))
<1> DEFINE had == at.selectedKey # Null
           c == [op |-> "list", reply |-> Null, pattern |-> at.pattern, had |-> had,
                 then |-> then]
           s == LoadKeys(at, then)
<1>1. had \in BOOLEAN
  OBVIOUS
<1>2. s = <<Request("list", [pattern |-> at.pattern, had |-> had, then |-> then])>>
  BY DEF LoadKeys
<1> HIDE DEF had
<1>3. Request("list", [pattern |-> at.pattern, had |-> had, then |-> then]) = c
  BY DEF Request, Join
<1>4. s = <<c>>
  BY <1>2, <1>3
<1>5. c \in ListRequests /\ c.op = "list" /\ c.pattern = at.pattern
  BY <1>1 DEF ListRequests, Unread
<1> HIDE DEF c, s
<1>6. c \in Requests
  BY <1>5 DEF Requests
<1>7. Sent(c, s)
  BY <1>4, <1>6, OneSent
<1> QED
  BY <1>5, <1>6, <1>7 DEF s

LEMMA DetailSent ==
  ASSUME NEW k \in Names, NEW op \in {"detail", "refresh"}
  PROVE  \E c \in Requests :
           /\ c.op = op /\ c.key = k
           /\ Sent(c, <<Request(op, [key |-> k])>>)
<1> DEFINE c == [op |-> op, reply |-> Null, key |-> k]
<1>1. Request(op, [key |-> k]) = c
  BY DEF Request, Join
<1>2. c \in DetailRequests /\ c.op = op /\ c.key = k
  BY DEF DetailRequests, Unread
<1> HIDE DEF c
<1>3. c \in Requests
  BY <1>2 DEF Requests
<1>4. Sent(c, <<c>>)
  BY <1>3, OneSent
<1> QED
  BY <1>1, <1>2, <1>3, <1>4

LEMMA StreamSent ==
  ASSUME NEW k \in Names
  PROVE  \E c \in Requests :
           /\ c.op = "stream" /\ c.key = k /\ c.live
           /\ Sent(c, <<Request("stream", [key |-> k, live |-> TRUE])>>)
<1> DEFINE c == [op |-> "stream", reply |-> Null, key |-> k, live |-> TRUE]
<1>0. \A y : Request("stream", [key |-> k, live |-> y])
               = [op |-> "stream", reply |-> Null, key |-> k, live |-> y]
  BY DEF Request, Join
<1>1. Request("stream", [key |-> k, live |-> TRUE]) = c
  BY <1>0
<1>2. c \in StreamRequests /\ c.op = "stream" /\ c.key = k /\ c.live
  BY DEF StreamRequests, Unread
<1> HIDE DEF c
<1>3. c \in Requests
  BY <1>2 DEF Requests
<1>4. Sent(c, <<c>>)
  BY <1>3, OneSent
<1> QED
  BY <1>1, <1>2, <1>3, <1>4

LEMMA WriteSent ==
  ASSUME view \in View, NEW op, NEW key, NEW arg,
         \/ op \in {"create", "ttl", "delete"} /\ key \in Names /\ arg = Null
         \/ op = "duplicate" /\ key \in Names /\ arg \in Names
         \/ op = "deletePattern" /\ key = Null /\ arg \in Patterns
  PROVE  \E c \in Requests :
           /\ c.op = op /\ c.at = Closure(view)
           /\ Sent(c, Write(op, key, arg))
<1> DEFINE c == [op |-> op, reply |-> Null, key |-> key, arg |-> arg,
                 at |-> Closure(view)]
<1>1. Write(op, key, arg) = <<c>>
  BY DEF Write, Request, Join
<1>2. Closure(view) \in Closures
  BY ClosureIs
<1>3. c \in WriteRequests /\ c.op = op /\ c.at = Closure(view)
  BY <1>2 DEF WriteRequests, Done, Unread
<1> HIDE DEF c
<1>4. c \in Requests
  BY <1>3 DEF Requests
<1>5. Sent(c, <<c>>)
  BY <1>4, OneSent
<1> QED
  BY <1>1, <1>3, <1>4, <1>5

LEMMA ChildWriteSent ==
  ASSUME view \in View, view.keyDetail \in Details, NEW op, NEW arg,
         \/ op \in {"save", "hdel"} /\ arg = Null
         \/ op = "hset" /\ arg \in HashForms
  PROVE  \E c \in Requests :
           /\ c.op = op /\ c.at = Closure(view) /\ c.live
           /\ Sent(c, ChildWrite(op, arg))
<1> DEFINE k == view.keyDetail.name
           c == [op |-> op, reply |-> Null, key |-> k, arg |-> arg,
                 at |-> Closure(view), live |-> TRUE]
<1>0. \A y : Request(op, [key |-> k, arg |-> arg, at |-> Closure(view), live |-> y])
               = [op |-> op, reply |-> Null, key |-> k, arg |-> arg,
                  at |-> Closure(view), live |-> y]
  BY DEF Request, Join
<1>1. ChildWrite(op, arg) = <<c>>
  BY <1>0 DEF ChildWrite
<1>2. Closure(view) \in Closures /\ k \in Names
  BY ClosureIs DEF Details
<1> HIDE DEF k
<1>3. c \in ChildWrites /\ c.op = op /\ c.at = Closure(view) /\ c.live
  BY <1>2 DEF ChildWrites, Done, Unread
<1> HIDE DEF c
<1>4. c \in Requests
  BY <1>3 DEF Requests
<1>5. Sent(c, <<c>>)
  BY <1>4, OneSent
<1> QED
  BY <1>1, <1>3, <1>4, <1>5

LEMMA FreshSent ==
  ASSUME NEW c \in Requests, NEW s, Sent(c, s), NEW v,
         \/ c.op = "list" /\ c.pattern = v.pattern
         \/ c.op \in Writes /\ c.at = Closure(v)
         \/ /\ c.op \in {"detail", "refresh"}
            /\ v.selectedKey # Null /\ c.key = v.selectedKey
         \/ /\ c.op = "stream"
            /\ v.child.kind = "stream" => c.live /\ c.key = v.keyDetail.name
  PROVE  Fresh(v, s)
<1>1. ToSet(s) = {c}
  BY DEF Sent
<1>2. c.op \in {"list", "detail", "refresh", "stream"} => c.op \notin Writes
  BY DEF Writes, Refreshing
<1>3. c.op \in Writes => c.op \notin {"list", "detail", "refresh", "stream"}
  BY DEF Writes, Refreshing
<1> QED
  BY <1>1, <1>2, <1>3 DEF Fresh, ForPattern, ForKey, ForStream

LEMMA BothSent ==
  ASSUME NEW s \in Seq(Requests), NEW t \in Seq(Requests), NEW r, r = s \o t
  PROVE  /\ r \in Seq(Requests)
         /\ \A K : InFlight(r, K) <=> InFlight(s, K) \/ InFlight(t, K)
         /\ \A v : Owned(v, s) /\ Owned(v, t) => Owned(v, r)
         /\ \A v : Fresh(v, s) /\ Fresh(v, t) => Fresh(v, r)
<1>1. r \in Seq(Requests) /\ ToSet(r) = ToSet(s) \cup ToSet(t)
  BY SentSet
<1>2. \A K : InFlight(r, K) <=> InFlight(s, K) \/ InFlight(t, K)
  BY <1>1, InFlightSet
<1>3. \A v, q : Owned(v, q) <=> \A c \in ToSet(q) :
        /\ c.op = "stream" /\ c.live => v.child.kind = "stream"
        /\ c.op = "save" /\ c.live => v.child.kind = "string"
  BY DEF Owned, ToSet
<1>4. \A v : Owned(v, s) /\ Owned(v, t) => Owned(v, r)
  BY <1>1, <1>3
<1>5. \A v : Fresh(v, s) /\ Fresh(v, t) => Fresh(v, r)
  BY <1>1 DEF Fresh
<1> QED
  BY <1>1, <1>2, <1>4, <1>5

\* The requests that follow a new selection k.
Selecting(v, k, s) ==
  /\ s \in Seq(Requests)
  /\ InFlight(s, {"list"})
  /\ InFlight(s, {"detail"}) <=> k # Null
  /\ \A w : Owned(w, s)
  /\ \A w : w.pattern = v.pattern /\ w.selectedKey = k => Fresh(w, s)

LEMMA SelectCallsIs ==
  ASSUME NEW v \in View, NEW k \in Names \cup {Null}, k # v.selectedKey,
         NEW s, s = SelectCalls(v, k)
  PROVE  Selecting(v, k, s)
<1> DEFINE at == [pattern |-> v.pattern, selectedKey |-> k]
           a == LoadKeys(at, Null)
           b == IF k = Null THEN <<>> ELSE <<Request("detail", [key |-> k])>>
<1>1. s = a \o b
  BY DEF SelectCalls
<1>2. at.pattern = v.pattern /\ v.pattern \in Patterns
  BY DEF View
<1> HIDE DEF at
<1>3. PICK c \in Requests : c.op = "list" /\ c.pattern = v.pattern /\ Sent(c, a)
  BY <1>2, ListSent
<1>4. k # Null => \E d \in Requests : d.op = "detail" /\ d.key = k /\ Sent(d, b)
  BY DetailSent
<1>5. k = Null => b = <<>>
  OBVIOUS
<1> HIDE DEF a, b
<1>6. a \in Seq(Requests) /\ (\A K : InFlight(a, K) <=> "list" \in K) /\ \A w : Owned(w, a)
  BY <1>3 DEF Sent
<1>7. /\ b \in Seq(Requests) /\ (\A K : InFlight(b, K) <=> "detail" \in K /\ k # Null)
      /\ \A w : Owned(w, b)
  <2>1. CASE k = Null
    BY <1>5, <2>1, NothingSent
  <2>2. CASE k # Null
    BY <1>4, <2>2 DEF Sent
  <2> QED
    BY <2>1, <2>2
<1>8. ASSUME NEW w, w.pattern = v.pattern, w.selectedKey = k
      PROVE  Fresh(w, a) /\ Fresh(w, b)
  <2>1. Fresh(w, a)
    BY <1>3, <1>8, FreshSent
  <2>2. CASE k = Null
    BY <1>5, <2>1, <2>2, NothingSent
  <2>3. CASE k # Null
    <3>1. PICK d \in Requests : d.op = "detail" /\ d.key = k /\ Sent(d, b)
      BY <1>4, <2>3
    <3>2. Fresh(w, b)
      BY <1>8, <2>3, <3>1, FreshSent
    <3> QED
      BY <2>1, <3>2
  <2> QED
    BY <2>2, <2>3
<1>9. /\ s \in Seq(Requests)
      /\ \A K : InFlight(s, K) <=> InFlight(a, K) \/ InFlight(b, K)
      /\ \A w : Owned(w, a) /\ Owned(w, b) => Owned(w, s)
      /\ \A w : Fresh(w, a) /\ Fresh(w, b) => Fresh(w, s)
  BY <1>1, <1>6, <1>7, BothSent
<1>10. InFlight(s, {"list"}) /\ (InFlight(s, {"detail"}) <=> k # Null)
  BY <1>6, <1>7, <1>9
<1> QED
  BY <1>6, <1>7, <1>8, <1>9, <1>10 DEF Selecting

-----------------------------------------------------------------------------
(* The user *)

LEMMA PaneStays ==
  ASSUME Pane(view), NEW v, v.child = view.child, v.keyDetail = view.keyDetail,
         v.detailLoading = view.detailLoading,
         v.open \cap HashForms \subseteq view.open \/ v.child.kind = "hash"
  PROVE  Pane(v)
BY DEF Pane, PaneShown

LEMMA InPane ==
  ASSUME view \in View, Pane(view), view.child.kind # "none" \/ PaneShown(view)
  PROVE  view.keyDetail \in Details
BY DEF Pane, PaneShown, View

\* Only what is listed here may differ from the view.
Aside(v) ==
  /\ v \in View /\ v.child = view.child /\ v.keyDetail = view.keyDetail
  /\ v.detailLoading = view.detailLoading /\ v.selectedKey = view.selectedKey
  /\ v.listedFor = view.listedFor
  /\ v.open \cap HashForms \subseteq view.open \/ v.child.kind = "hash"

LEMMA QuietStep ==
  ASSUME BrowserInv, NEW v, UserStep(v, <<>>), Aside(v), v.pattern = view.pattern,
         v.loading = view.loading, v.dupLoading = view.dupLoading
  PROVE  BrowserInv'
<1>1. Alike(v)
  BY Here, PaneStays DEF Aside, Alike
<1>2. v.child = view.child
  BY DEF Aside
<1> QED
  BY <1>1, <1>2, NothingSent, UserAlike

LEMMA ViewKeeps ==
  ASSUME BrowserInv,
         SetTypeFilter \/ ToggleViewMode \/ ToggleFolder \/ OpenForm \/ CancelForm
  PROVE  BrowserInv'
<1>1. view \in View
  BY Here
<1>2. CASE SetTypeFilter
  <2>1. PICK t \in Types \cup {"all"} : UserStep([view EXCEPT !.typeFilter = t], <<>>)
    BY <1>2 DEF SetTypeFilter
  <2> DEFINE v == [view EXCEPT !.typeFilter = t]
  <2>2. /\ Aside(v) /\ v.pattern = view.pattern /\ v.loading = view.loading
        /\ v.dupLoading = view.dupLoading
    BY <1>1 DEF View, Aside
  <2> HIDE DEF v
  <2>3. UserStep(v, <<>>)
    BY <2>1 DEF v
  <2> QED
    BY <2>2, <2>3, QuietStep
<1>3. CASE ToggleViewMode
  <2> DEFINE m == IF view.viewMode = "tree" THEN "flat" ELSE "tree"
             v == [view EXCEPT !.viewMode = m]
  <2>1. UserStep(v, <<>>)
    BY <1>3 DEF ToggleViewMode
  <2>2. /\ Aside(v) /\ v.pattern = view.pattern /\ v.loading = view.loading
        /\ v.dupLoading = view.dupLoading
    BY <1>1 DEF View, Aside
  <2> HIDE DEF v
  <2> QED
    BY <2>1, <2>2, QuietStep
<1>4. CASE ToggleFolder
  <2> DEFINE m == IF view.openFolder = "open" THEN "shut" ELSE "open"
             v == [view EXCEPT !.openFolder = m]
  <2>1. UserStep(v, <<>>)
    BY <1>4 DEF ToggleFolder
  <2>2. /\ Aside(v) /\ v.pattern = view.pattern /\ v.loading = view.loading
        /\ v.dupLoading = view.dupLoading
    BY <1>1 DEF View, Aside
  <2> HIDE DEF v
  <2> QED
    BY <2>1, <2>2, QuietStep
<1>5. CASE OpenForm
  <2>1. PICK f \in Forms : /\ f \in HashForms => view.child.kind = "hash"
                           /\ UserStep([view EXCEPT !.open = @ \cup {f}], <<>>)
    BY <1>5 DEF OpenForm, Openable
  <2> DEFINE o == view.open \cup {f}
             v == [view EXCEPT !.open = o]
  <2>0. o \subseteq Forms /\ (o \cap HashForms \subseteq view.open \/ view.child.kind = "hash")
    BY <1>1, <2>1 DEF View
  <2>4. v = [view EXCEPT !.open = @ \cup {f}]
    OBVIOUS
  <2> HIDE DEF o
  <2>2. /\ Aside(v) /\ v.pattern = view.pattern /\ v.loading = view.loading
        /\ v.dupLoading = view.dupLoading
    BY <1>1, <2>0 DEF View, Aside
  <2> HIDE DEF v
  <2>3. UserStep(v, <<>>)
    BY <2>1, <2>4
  <2> QED
    BY <2>2, <2>3, QuietStep
<1>6. CASE CancelForm
  <2>1. PICK f : UserStep([view EXCEPT !.open = @ \ {f}], <<>>)
    BY <1>6 DEF CancelForm
  <2> DEFINE v == [view EXCEPT !.open = @ \ {f}]
  <2>2. /\ Aside(v) /\ v.pattern = view.pattern /\ v.loading = view.loading
        /\ v.dupLoading = view.dupLoading
    BY <1>1 DEF View, Aside
  <2> HIDE DEF v
  <2>3. UserStep(v, <<>>)
    BY <2>1 DEF v
  <2> QED
    BY <2>2, <2>3, QuietStep
<1> QED
  BY <1>2, <1>3, <1>4, <1>5, <1>6

LEMMA SearchKeeps ==
  ASSUME BrowserInv, SetPattern \/ Reload
  PROVE  BrowserInv'
<1>1. /\ view \in View /\ calls \in Seq(Requests) /\ Pane(view)
      /\ Owned(view, calls) /\ Causes(view, calls)
      /\ calm => InTurn(view, calls)
  BY Here
<1>2. ASSUME NEW p \in Patterns, NEW v, v = Loading([view EXCEPT !.pattern = p]),
             UserStep(v, LoadKeys(Closure(v), Null))
      PROVE  BrowserInv'
  <2> DEFINE s == LoadKeys(Closure(v), Null)
  <2>1. /\ Aside(v) /\ v.pattern = p /\ v.loading = TRUE
        /\ v.dupLoading = view.dupLoading
    BY <1>1, <1>2 DEF View, Aside, Loading
  <2>2. v \in View /\ v.child = view.child /\ Closure(v).pattern = p
    BY <2>1, ClosureIs DEF Aside
  <2>3. PICK c \in Requests : c.op = "list" /\ c.pattern = p /\ Sent(c, s)
    BY <2>2, ListSent
  <2>4. UserStep(v, s)
    BY <1>2
  <2> HIDE DEF s
  <2>5. s \in Seq(Requests) /\ InFlight(s, {"list"}) /\ Owned(v, s)
    BY <2>3 DEF Sent
  <2>6. Fresh(v, s)
    BY <2>1, <2>3, FreshSent
  <2>7. Pane(v)
    BY <1>1, <2>1, PaneStays DEF Aside
  <2>8. SoundAfter(v, calls, s)
    BY <1>1, <2>1, <2>2, <2>5, <2>7 DEF SoundAfter, Aside, Causes
  <2>9. calm => Awaits(v, calls, s)
    BY <1>1, <2>1, <2>2, <2>5, <2>6 DEF Awaits, InTurn, Aside, Unselected
  <2> QED
    BY <2>4, <2>8, <2>9, UserKeeps
<1>3. CASE SetPattern
  <2>1. PICK p \in Patterns :
          UserStep(Loading([view EXCEPT !.pattern = p]),
                   LoadKeys(Closure(Loading([view EXCEPT !.pattern = p])), Null))
    BY <1>3 DEF SetPattern
  <2> QED
    BY <1>2, <2>1
<1>4. CASE Reload
  <2> DEFINE v == Loading(view)
  <2>1. v = Loading([view EXCEPT !.pattern = view.pattern]) /\ view.pattern \in Patterns
        /\ Closure(v) = Closure(view)
    BY <1>1 DEF View, Loading, Closure
  <2>2. UserStep(v, LoadKeys(Closure(v), Null))
    BY <1>4, <2>1 DEF Reload
  <2> HIDE DEF v
  <2> QED
    BY <1>2, <2>1, <2>2
<1> QED
  BY <1>3, <1>4

LEMMA SelectKeeps ==
  ASSUME BrowserInv, SelectKey
  PROVE  BrowserInv'
<1>1. /\ view \in View /\ calls \in Seq(Requests)
      /\ Owned(view, calls) /\ Causes(view, calls)
  BY Here
<1>2. PICK k \in Offered(view) : UserStep(Select(view, k), SelectCalls(view, k))
  BY DEF SelectKey
<1>3. k \in Names
  <2>1. k \in DOMAIN view.keys
    BY DEF Offered, FilteredKeys
  <2> QED
    BY <1>1, <2>1 DEF View, Listings
<1>4. CASE k = view.selectedKey
  <2>1. UserStep(view, <<>>)
    BY <1>2, <1>4 DEF Select, SelectCalls
  <2> QED
    BY <1>1, <2>1, QuietStep DEF Aside
<1>5. CASE k # view.selectedKey
  <2> DEFINE v == Select(view, k)
             s == SelectCalls(view, k)
  <2>1. UserStep(v, s) /\ v = Select(view, k) /\ s = SelectCalls(view, k)
    BY <1>2
  <2> HIDE DEF v, s
  <2>2. /\ v \in View /\ Pane(v) /\ v.child.kind = "none"
        /\ v.dupLoading = view.dupLoading /\ v.pattern = view.pattern
        /\ v.selectedKey = k
    BY <1>1, <1>3, <1>5, <2>1, SelectIs
  <2>3. Selecting(view, k, s) /\ k # Null
    BY <1>1, <1>3, <1>5, <2>1, SelectCallsIs, BrowserAssumption
  <2>4. SoundAfter(v, calls, s)
    BY <1>1, <2>2, <2>3 DEF SoundAfter, Selecting, Causes
  <2>5. Awaits(v, calls, s)
    BY <2>2, <2>3 DEF Awaits, Selecting, Unselected
  <2> QED
    BY <2>1, <2>4, <2>5, UserKeeps
<1> QED
  BY <1>4, <1>5

\* A write is sent.
LEMMA WriteStep ==
  ASSUME BrowserInv, NEW c \in Requests, c.op \in Writes, c.at = Closure(view),
         NEW s, Sent(c, s), NEW v, UserStep(v, s), Alike(v),
         v.loading = view.loading,
         v.dupLoading => view.dupLoading \/ c.op = "duplicate",
         v.child.kind = "string" /\ v.child.saving
           => view.child.saving \/ (c.op = "save" /\ c.live),
         c.op = "save" /\ c.live => view.child.kind = "string"
  PROVE  BrowserInv'
<1>1. c.op # "stream"
  BY DEF Writes, Refreshing
<1>2. v.child.kind = view.child.kind /\ Closure(v) = Closure(view)
  BY DEF Alike, Closure
<1>3. /\ s \in Seq(Requests) /\ Owned(v, s)
      /\ InFlight(s, {"duplicate"}) <=> c.op = "duplicate"
      /\ Saving(s) <=> c.op = "save" /\ c.live
  BY <1>1, <1>2 DEF Sent
<1>4. Fresh(v, s)
  BY <1>2, FreshSent
<1> QED
  BY <1>3, <1>4, UserAlike

LEMMA WritesKeep ==
  ASSUME BrowserInv,
         SubmitCreate \/ SubmitDeletePattern \/ SubmitTTL \/ DeleteKey
  PROVE  BrowserInv'
<1>1. view \in View /\ Pane(view) /\ Alike(view)
  BY Here DEF Alike
<1>2. ASSUME NEW op, NEW key, NEW arg, UserStep(view, Write(op, key, arg)),
             \/ op \in {"create", "ttl", "delete"} /\ key \in Names /\ arg = Null
             \/ op = "deletePattern" /\ key = Null /\ arg \in Patterns
      PROVE  BrowserInv'
  <2> DEFINE s == Write(op, key, arg)
  <2>1. PICK c \in Requests : c.op = op /\ c.at = Closure(view) /\ Sent(c, s)
    BY <1>1, <1>2, WriteSent
  <2>2. UserStep(view, s)
    BY <1>2
  <2> HIDE DEF s
  <2>3. c.op \in Writes /\ c.op # "save"
    BY <1>2, <2>1 DEF Writes, Refreshing
  <2> QED
    BY <1>1, <2>1, <2>2, <2>3, WriteStep
<1>3. PaneShown(view) => view.keyDetail.name \in Names
  BY <1>1, InPane DEF Details
<1>4. CASE SubmitCreate
  BY <1>2, <1>4 DEF SubmitCreate
<1>5. CASE SubmitDeletePattern
  BY <1>2, <1>5 DEF SubmitDeletePattern
<1>6. CASE SubmitTTL
  <2>1. PaneShown(view) /\ UserStep(view, Write("ttl", view.keyDetail.name, Null))
    BY <1>6 DEF SubmitTTL, Visible, PaneForms
  <2> QED
    BY <1>2, <1>3, <2>1
<1>7. CASE DeleteKey
  <2>1. PaneShown(view) /\ UserStep(view, Write("delete", view.keyDetail.name, Null))
    BY <1>7 DEF DeleteKey
  <2> QED
    BY <1>2, <1>3, <2>1
<1> QED
  BY <1>4, <1>5, <1>6, <1>7

LEMMA DuplicateKeeps ==
  ASSUME BrowserInv, SubmitDuplicate
  PROVE  BrowserInv'
<1>1. view \in View /\ Pane(view)
  BY Here
<1>2. PICK k \in Names : UserStep([view EXCEPT !.dupLoading = TRUE],
                                  Write("duplicate", view.keyDetail.name, k))
  BY DEF SubmitDuplicate
<1>3. view.keyDetail.name \in Names
  <2>1. PaneShown(view)
    BY DEF SubmitDuplicate, Visible, PaneForms
  <2> QED
    BY <1>1, <2>1, InPane DEF Details
<1> DEFINE v == [view EXCEPT !.dupLoading = TRUE]
           s == Write("duplicate", view.keyDetail.name, k)
<1>4. Aside(v) /\ v.pattern = view.pattern /\ v.loading = view.loading
  BY <1>1 DEF View, Aside
<1>5. PICK c \in Requests : c.op = "duplicate" /\ c.at = Closure(view) /\ Sent(c, s)
  BY <1>1, <1>3, WriteSent
<1>6. UserStep(v, s)
  BY <1>2
<1> HIDE DEF v, s
<1>7. Alike(v)
  BY <1>1, <1>4, PaneStays DEF Aside, Alike
<1>8. c.op \in Writes /\ c.op # "save" /\ v.child = view.child
  BY <1>4, <1>5 DEF Writes, Refreshing, Aside
<1> QED
  BY <1>4, <1>5, <1>6, <1>7, <1>8, WriteStep

LEMMA FieldsKeep ==
  ASSUME BrowserInv, SaveField \/ DeleteField
  PROVE  BrowserInv'
<1>1. view \in View /\ Pane(view) /\ Alike(view)
  BY Here DEF Alike
<1>2. ASSUME NEW op, NEW arg, UserStep(view, ChildWrite(op, arg)),
             view.child.kind = "hash",
             (op = "hdel" /\ arg = Null) \/ (op = "hset" /\ arg \in HashForms)
      PROVE  BrowserInv'
  <2> DEFINE s == ChildWrite(op, arg)
  <2>1. PICK c \in Requests : c.op = op /\ c.at = Closure(view) /\ Sent(c, s)
    BY <1>1, <1>2, InPane, ChildWriteSent
  <2>2. UserStep(view, s)
    BY <1>2
  <2> HIDE DEF s
  <2>3. c.op \in Writes /\ c.op # "save"
    BY <1>2, <2>1 DEF Writes, Refreshing
  <2> QED
    BY <1>1, <2>1, <2>2, <2>3, WriteStep
<1>3. CASE SaveField
  <2>1. PICK f \in HashForms : f \in view.open /\ UserStep(view, ChildWrite("hset", f))
    BY <1>3 DEF SaveField, Visible
  <2>2. view.child.kind = "hash"
    BY <1>1, <2>1 DEF Pane
  <2> QED
    BY <1>2, <2>1, <2>2
<1>4. CASE DeleteField
  BY <1>2, <1>4 DEF DeleteField
<1> QED
  BY <1>3, <1>4

\* The text of a string changes, or how it is shown, or it is saved.
LEMMA StringKeeps ==
  ASSUME BrowserInv, TypeText \/ SetStringMode \/ SaveString
  PROVE  BrowserInv'
<1>1. view \in View /\ Pane(view)
  BY Here
<1>2. view.child.kind = "string"
  BY DEF TypeText, SetStringMode, SaveString
<1> DEFINE old == view.child
           text == [of : Names, via : {"load", "json"}]
<1>3. /\ old \in [kind : {"string"}, content : text, parsedJson : Names \cup {Null},
                  viewMode : {"raw", "json", "tree"}, saving : BOOLEAN]
      /\ PaneShown(view) /\ view.keyDetail \in Details
      /\ old.content.via # "json" => old.content.of = view.keyDetail.name
      /\ view.open \cap HashForms = {}
  <2>1. old \in [kind : {"string"}, content : text, parsedJson : Names \cup {Null},
                viewMode : {"raw", "json", "tree"}, saving : BOOLEAN]
    BY <1>1, <1>2 DEF View, Children
  <2>2. PaneShown(view) /\ view.keyDetail \in Details
    BY <1>1, <1>2, InPane DEF Pane
  <2> QED
    BY <1>1, <1>2, <2>1, <2>2 DEF Pane
<1>4. ASSUME NEW child, NEW v, v = [view EXCEPT !.child = child],
             child \in [kind : {"string"}, content : text,
                       parsedJson : Names \cup {Null},
                       viewMode : {"raw", "json", "tree"}, saving : BOOLEAN],
             child.content.via # "json" => child.content.of = view.keyDetail.name
      PROVE  /\ Alike(v) /\ v.loading = view.loading
             /\ v.dupLoading = view.dupLoading /\ v.child = child
  <2>1. child \in Children /\ child.kind = "string"
    BY <1>4 DEF Children
  <2>2. /\ v \in View /\ v.child = child /\ v.keyDetail = view.keyDetail
        /\ v.detailLoading = view.detailLoading /\ v.open = view.open
        /\ v.selectedKey = view.selectedKey /\ v.pattern = view.pattern
        /\ v.listedFor = view.listedFor /\ v.loading = view.loading
        /\ v.dupLoading = view.dupLoading
    BY <1>1, <1>4, <2>1 DEF View
  <2>3. Pane(v)
    BY <1>1, <1>2, <1>3, <1>4, <2>1, <2>2 DEF Pane, PaneShown
  <2> QED
    BY <1>2, <2>1, <2>2, <2>3 DEF Alike
<1>5. ASSUME NEW child, NEW v, v = [view EXCEPT !.child = child], UserStep(v, <<>>),
             child \in [kind : {"string"}, content : text,
                       parsedJson : Names \cup {Null},
                       viewMode : {"raw", "json", "tree"}, saving : BOOLEAN],
             child.content.via # "json" => child.content.of = view.keyDetail.name,
             child.saving = old.saving
      PROVE  BrowserInv'
  BY <1>4, <1>5, NothingSent, UserAlike
<1>6. CASE TypeText
  <2> DEFINE json == old.viewMode = "json" /\ old.parsedJson # Null
             of == IF json THEN old.parsedJson ELSE old.content.of
             via == IF json THEN "json" ELSE old.content.via
             content == [of |-> of, via |-> via]
             child == [old EXCEPT !.content = content]
             v == [view EXCEPT !.child = child]
  <2>1. UserStep(v, <<>>)
    BY <1>6 DEF TypeText
  <2>2. /\ content \in text
        /\ content.via # "json" => content.of = view.keyDetail.name
    BY <1>3
  <2> HIDE DEF content
  <2>3. /\ child \in [kind : {"string"}, content : text,
                      parsedJson : Names \cup {Null},
                      viewMode : {"raw", "json", "tree"}, saving : BOOLEAN]
        /\ child.content = content /\ child.saving = old.saving
    BY <1>3, <2>2
  <2>4. v = [view EXCEPT !.child = child]
    OBVIOUS
  <2> HIDE DEF child, v, text, old
  <2> QED
    BY <1>5, <2>1, <2>2, <2>3, <2>4
<1>7. CASE SetStringMode
  <2>1. PICK m \in {"tree", "json", "raw"} :
          UserStep([view EXCEPT !.child.viewMode = m], <<>>)
    BY <1>7 DEF SetStringMode
  <2> DEFINE child == [old EXCEPT !.viewMode = m]
             v == [view EXCEPT !.child = child]
  <2>2. UserStep(v, <<>>)
    BY <2>1
  <2>3. /\ child \in [kind : {"string"}, content : text,
                      parsedJson : Names \cup {Null},
                      viewMode : {"raw", "json", "tree"}, saving : BOOLEAN]
        /\ child.content = old.content /\ child.saving = old.saving
    BY <1>3
  <2>4. v = [view EXCEPT !.child = child]
    OBVIOUS
  <2> HIDE DEF child, v
  <2>5. child.content.via # "json" => child.content.of = view.keyDetail.name
    BY <1>3, <2>3
  <2> HIDE DEF text, old
  <2> QED
    BY <1>5, <2>2, <2>3, <2>4, <2>5
<1>8. CASE SaveString
  <2> DEFINE child == [old EXCEPT !.saving = TRUE]
             v == [view EXCEPT !.child = child]
             s == ChildWrite("save", Null)
  <2>1. UserStep(v, s)
    BY <1>8 DEF SaveString
  <2>2. /\ child \in [kind : {"string"}, content : text,
                      parsedJson : Names \cup {Null},
                      viewMode : {"raw", "json", "tree"}, saving : BOOLEAN]
        /\ child.content = old.content
    BY <1>3
  <2>3. PICK c \in Requests :
          c.op = "save" /\ c.at = Closure(view) /\ c.live /\ Sent(c, s)
    BY <1>1, <1>3, ChildWriteSent
  <2>4. v = [view EXCEPT !.child = child]
    OBVIOUS
  <2> HIDE DEF child, v, s
  <2>5. child.content.via # "json" => child.content.of = view.keyDetail.name
    BY <1>3, <2>2
  <2>6. /\ Alike(v) /\ v.loading = view.loading
        /\ v.dupLoading = view.dupLoading
    BY <1>4, <2>2, <2>4, <2>5
  <2>7. c.op \in Writes
    BY <2>3 DEF Writes, Refreshing
  <2> QED
    BY <1>2, <2>1, <2>3, <2>6, <2>7, WriteStep
<1> QED
  BY <1>6, <1>7, <1>8

-----------------------------------------------------------------------------
(* The server *)

\* Request d is c but for the reply.
Replied(c, d) ==
  /\ d \in Requests /\ d.op = c.op
  /\ c.op \in Writes => d.at = c.at
  /\ c.op = "list" => d.pattern = c.pattern
  /\ c.op \in {"detail", "refresh", "stream"} => d.key = c.key
  /\ c.op \in {"stream", "save"} => d.live = c.live

LEMMA RepliedIs ==
  ASSUME db \in [Names -> Types \cup {Absent}], NEW c \in Requests, NEW x,
         \/ x = Failed
         \/ c.reply = Null /\ Accepted(c) /\ x = ReplyTo(c),
         NEW d, d = [c EXCEPT !.reply = x]
  PROVE  Replied(c, d)
<1>1. CASE c.op = "info"
  <2>1. c \in InfoRequests
    BY <1>1, Kinds
  <2>2. c.reply # Null
    BY <2>1, BrowserAssumption, ApiAssumption DEF InfoRequests
  <2>3. d \in InfoRequests /\ d.op = c.op
    BY <2>1, <2>2 DEF InfoRequests
  <2> QED
    BY <1>1, <2>3 DEF Replied, Requests, Writes, Refreshing
<1>2. CASE c.op = "list"
  <2>1. c \in ListRequests
    BY <1>2, Kinds
  <2>2. x \in Listings \cup {Failed}
    <3>1. SUFFICES ASSUME x = ReplyTo(c)
                   PROVE  x \in Listings
      OBVIOUS
    <3> DEFINE S == {n \in c.pattern : db[n] # Absent}
    <3>2. x = [k \in S |-> db[k]]
      BY <1>2, <3>1 DEF ReplyTo
    <3>3. S \in SUBSET Names
      BY <2>1, BrowserAssumption DEF ListRequests
    <3>4. \A k \in S : db[k] \in Types
      BY <3>3
    <3> HIDE DEF S
    <3>5. x \in [S -> Types]
      BY <3>2, <3>4
    <3> QED
      BY <3>3, <3>5 DEF Listings
  <2>3. d \in ListRequests /\ d.op = c.op /\ d.pattern = c.pattern
    BY <2>1, <2>2 DEF ListRequests, Unread
  <2> QED
    BY <1>2, <2>3 DEF Replied, Requests, Writes, Refreshing
<1>3. CASE c.op \in {"detail", "refresh"}
  <2>1. c \in DetailRequests
    BY <1>3, Kinds
  <2>2. x = Failed \/ (x \in Details /\ x.name = c.key)
    <3>1. SUFFICES ASSUME x = ReplyTo(c), Accepted(c)
                   PROVE  x \in Details /\ x.name = c.key
      OBVIOUS
    <3>2. c.key \in Names
      BY <2>1 DEF DetailRequests
    <3>3. db[c.key] \in Types
      BY <1>3, <3>1, <3>2 DEF Accepted
    <3>4. x = [name |-> c.key, type |-> db[c.key]]
      BY <1>3, <3>1 DEF ReplyTo
    <3> QED
      BY <3>2, <3>3, <3>4 DEF Details
  <2>3. d \in DetailRequests /\ d.op = c.op /\ d.key = c.key
    BY <2>1, <2>2 DEF DetailRequests, Unread
  <2> QED
    BY <1>3, <2>3 DEF Replied, Requests, Writes, Refreshing
<1>4. CASE c.op = "stream"
  <2>1. c \in StreamRequests
    BY <1>4, Kinds
  <2>2. x = Failed \/ (x \in Names /\ x = c.key)
    BY <1>4, <2>1 DEF ReplyTo, StreamRequests
  <2>3. d \in StreamRequests /\ d.op = c.op /\ d.key = c.key /\ d.live = c.live
    BY <2>1, <2>2 DEF StreamRequests, Unread
  <2> QED
    BY <1>4, <2>3 DEF Replied, Requests, Writes, Refreshing
<1>5. CASE c.op \in Writes
  <2>1. x \in Done
    BY <1>5 DEF ReplyTo, Done, Unread, Writes, Refreshing
  <2>2. CASE c.op \in {"create", "ttl", "delete", "duplicate", "deletePattern"}
    <3>1. c \in WriteRequests
      BY <2>2, Kinds
    <3>2. d \in WriteRequests /\ d.op = c.op /\ d.at = c.at
      BY <2>1, <3>1 DEF WriteRequests
    <3> QED
      BY <2>2, <3>2 DEF Replied, Requests
  <2>3. CASE c.op \in {"save", "hset", "hdel"}
    <3>1. c \in ChildWrites
      BY <2>3, Kinds
    <3>2. d \in ChildWrites /\ d.op = c.op /\ d.at = c.at /\ d.live = c.live
      BY <2>1, <3>1 DEF ChildWrites
    <3> QED
      BY <2>3, <3>2 DEF Replied, Requests
  <2> QED
    BY <1>5, <2>2, <2>3 DEF Writes, Refreshing
<1> QED
  BY <1>1, <1>2, <1>3, <1>4, <1>5, Kinds

LEMMA EffectTyped ==
  ASSUME db \in [Names -> Types \cup {Absent}], NEW c \in Requests,
         NEW e \in Effect(c)
  PROVE  e \in [Names -> Types \cup {Absent}]
<1> DEFINE Db == [Names -> Types \cup {Absent}]
<1>0. "string" \in Types /\ "hash" \in Types
  BY DEF Types
<1>1. \A k, t : t \in Types \cup {Absent} => [db EXCEPT ![k] = t] \in Db
  OBVIOUS
<1>2. CASE c.op \in {"create", "ttl", "delete", "duplicate", "deletePattern"}
  <2>1. c \in WriteRequests
    BY <1>2, Kinds
  <2>2. CASE c.op = "deletePattern"
    <3>1. e = [k \in Names |-> IF k \in c.arg THEN Absent ELSE db[k]]
      BY <2>2 DEF Effect
    <3> QED
      BY <3>1
  <2>3. CASE c.op = "duplicate"
    <3>1. e = [db EXCEPT ![c.arg] = db[c.key]] /\ c.key \in Names
      BY <2>1, <2>3 DEF Effect, WriteRequests
    <3> QED
      BY <1>1, <3>1
  <2>4. CASE c.op = "create"
    BY <1>0, <1>1, <2>4 DEF Effect
  <2>5. CASE c.op = "delete"
    BY <1>1, <2>5 DEF Effect
  <2>6. CASE c.op = "ttl"
    BY <2>6 DEF Effect
  <2> QED
    BY <1>2, <2>2, <2>3, <2>4, <2>5, <2>6
<1>3. CASE c.op = "save"
  BY <1>0, <1>1, <1>3 DEF Effect
<1>4. CASE c.op = "hset"
  BY <1>0, <1>1, <1>4 DEF Effect
<1>5. CASE c.op = "hdel"
  BY <1>1, <1>5 DEF Effect
<1>6. CASE c.op \in {"info", "list", "detail", "refresh", "stream"}
  BY <1>6 DEF Effect
<1> QED
  BY <1>2, <1>3, <1>4, <1>5, <1>6, Kinds DEF Writes, Refreshing

\* A reply changes nothing that the invariant is about.
LEMMA ReplyKeeps ==
  ASSUME BrowserInv, NEW i \in DOMAIN calls, NEW d, Replied(calls[i], d),
         calls' = [calls EXCEPT ![i] = d], UNCHANGED <<view, calm>>, ServerTyped'
  PROVE  BrowserInv'
<1> DEFINE r == [calls EXCEPT ![i] = d]
<1>1. /\ view \in View /\ calls \in Seq(Requests) /\ Pane(view)
      /\ Owned(view, calls) /\ Causes(view, calls)
      /\ calm => InTurn(view, calls)
  BY Here
<1>2. /\ DOMAIN r = DOMAIN calls /\ r[i] = d
      /\ \A j \in DOMAIN calls : j # i => r[j] = calls[j]
  BY <1>1
<1>3. r \in Seq(Requests)
  <2>1. calls \in [1 .. Len(calls) -> Requests] /\ Len(calls) \in Nat
    BY <1>1
  <2>2. d \in Requests
    BY DEF Replied
  <2>3. r \in [1 .. Len(calls) -> Requests]
    BY <2>1, <2>2
  <2> QED
    BY <2>1, <2>3
<1>4. calls' = r
  OBVIOUS
<1> HIDE DEF r
<1>5. \A j \in DOMAIN calls : r[j] = calls[j] \/ Replied(calls[j], r[j])
  BY <1>2
<1>6. \A j \in DOMAIN calls :
        /\ r[j].op = calls[j].op /\ r[j] \in Requests
        /\ calls[j].op \in Writes => r[j].at = calls[j].at
        /\ calls[j].op = "list" => r[j].pattern = calls[j].pattern
        /\ calls[j].op \in {"detail", "refresh", "stream"} => r[j].key = calls[j].key
        /\ calls[j].op \in {"stream", "save"} => r[j].live = calls[j].live
  BY <1>1, <1>5 DEF Replied
<1>7. \A K : InFlight(r, K) <=> InFlight(calls, K)
  BY <1>2, <1>6 DEF InFlight
<1>8. Saving(calls) => Saving(r)
  <2> SUFFICES ASSUME NEW j \in DOMAIN calls, calls[j].op = "save", calls[j].live
               PROVE  Saving(r)
    BY DEF Saving
  <2>1. r[j].op = "save" /\ r[j].live
    BY <1>6
  <2> QED
    BY <1>2, <2>1 DEF Saving
<1>9. Owned(view, r)
  <2> SUFFICES ASSUME NEW j \in DOMAIN calls
               PROVE  /\ r[j].op = "stream" /\ r[j].live => view.child.kind = "stream"
                      /\ r[j].op = "save" /\ r[j].live => view.child.kind = "string"
    BY <1>2 DEF Owned
  <2> QED
    BY <1>1, <1>6 DEF Owned
<1>10. Sound(view, r)
  BY <1>1, <1>3, <1>7, <1>8, <1>9 DEF Sound, Causes
<1>11. ASSUME calm
       PROVE  InTurn(view, r)
  <2>1. InTurn(view, calls)
    BY <1>1, <1>11
  <2>2. \A j \in DOMAIN r : r[j].op \in Writes => r[j].at = Closure(view)
    BY <1>2, <1>6, <2>1 DEF InTurn
  <2>3. \A p : Trailing(calls, {"list"}, {"list"}, ForPattern(p))
                 => Trailing(r, {"list"}, {"list"}, ForPattern(p))
    <3> TAKE p
    <3> DEFINE A == {"list"}
               G == ForPattern(p)
    <3>1. \A j \in DOMAIN calls :
            r[j].op = calls[j].op /\ (calls[j].op \in A /\ calls[j] \in G => r[j] \in G)
      BY <1>6 DEF ForPattern
    <3> HIDE DEF A, G
    <3>2. Trailing(calls, A, A, G) => Trailing(r, A, A, G)
      BY <1>2, <3>1, TrailingSame
    <3> QED
      BY <3>2 DEF A, G
  <2>4. \A k : Trailing(calls, {"detail"}, {"detail", "refresh"}, ForKey(k))
                 => Trailing(r, {"detail"}, {"detail", "refresh"}, ForKey(k))
    <3> TAKE k
    <3> DEFINE A == {"detail"}
               B == {"detail", "refresh"}
               G == ForKey(k)
    <3>1. \A j \in DOMAIN calls :
            r[j].op = calls[j].op /\ (calls[j].op \in B /\ calls[j] \in G => r[j] \in G)
      BY <1>6 DEF ForKey
    <3> HIDE DEF A, B, G
    <3>2. Trailing(calls, A, B, G) => Trailing(r, A, B, G)
      BY <1>2, <3>1, TrailingSame
    <3> QED
      BY <3>2 DEF A, B, G
  <2>5. \A k : Trailing(calls, {"stream"}, {"stream"}, ForStream(k))
                 => Trailing(r, {"stream"}, {"stream"}, ForStream(k))
    <3> TAKE k
    <3> DEFINE A == {"stream"}
               G == ForStream(k)
    <3>1. \A j \in DOMAIN calls :
            r[j].op = calls[j].op /\ (calls[j].op \in A /\ calls[j] \in G => r[j] \in G)
      BY <1>6 DEF ForStream
    <3> HIDE DEF A, G
    <3>2. Trailing(calls, A, A, G) => Trailing(r, A, A, G)
      BY <1>2, <3>1, TrailingSame
    <3> QED
      BY <3>2 DEF A, G
  <2> QED
    BY <1>7, <2>1, <2>2, <2>3, <2>4, <2>5 DEF InTurn, Unselected
<1> QED
  BY <1>4, <1>10, <1>11 DEF BrowserInv

LEMMA ServerKeeps ==
  ASSUME BrowserInv, OtherClient \/ Serve \/ Lose
  PROVE  BrowserInv'
<1>1. /\ calls \in Seq(Requests) /\ ServerTyped
      /\ db \in [Names -> Types \cup {Absent}]
  BY Here DEF BrowserInv, ServerTyped
<1>2. CASE OtherClient
  <2>1. PICK k \in Names, t \in Types \cup {Absent} : db' = [db EXCEPT ![k] = t]
    BY <1>2 DEF OtherClient
  <2>2. acts < MaxActs /\ acts' = acts + 1 /\ UNCHANGED <<view, calls, calm, guarded>>
    BY <1>2 DEF OtherClient, Act
  <2>3. ServerTyped'
    BY <1>1, <2>1, <2>2, ApiAssumption DEF ServerTyped
  <2> QED
    BY <2>2, <2>3 DEF BrowserInv
<1>3. CASE Serve
  <2>1. PICK i \in DOMAIN calls :
          /\ calls[i].reply = Null
          /\ calls' = [calls EXCEPT ![i].reply =
                         IF Accepted(calls[i]) THEN ReplyTo(calls[i]) ELSE Failed]
          /\ db' \in IF Accepted(calls[i]) THEN Effect(calls[i]) ELSE {db}
          /\ UNCHANGED <<view, calm, acts, guarded>>
    BY <1>3 DEF Serve, Unserved
  <2> DEFINE x == IF Accepted(calls[i]) THEN ReplyTo(calls[i]) ELSE Failed
             d == [calls[i] EXCEPT !.reply = x]
  <2>2. calls[i] \in Requests
    BY <1>1
  <2>3. Replied(calls[i], d)
    <3>1. x = Failed \/ (calls[i].reply = Null /\ Accepted(calls[i]) /\ x = ReplyTo(calls[i]))
      BY <2>1
    <3>2. d = [calls[i] EXCEPT !.reply = x]
      OBVIOUS
    <3> HIDE DEF x, d
    <3> QED
      BY <1>1, <2>2, <3>1, <3>2, RepliedIs
  <2>4. calls' = [calls EXCEPT ![i] = d]
    BY <2>1
  <2> HIDE DEF x, d
  <2>5. db' \in [Names -> Types \cup {Absent}]
    BY <1>1, <2>1, <2>2, EffectTyped
  <2>6. ServerTyped'
    BY <1>1, <2>1, <2>5 DEF ServerTyped
  <2> QED
    BY <2>1, <2>3, <2>4, <2>6, ReplyKeeps
<1>4. CASE Lose
  <2>1. PICK i \in DOMAIN calls :
          /\ acts < MaxActs /\ acts' = acts + 1
          /\ calls' = [calls EXCEPT ![i].reply = Failed]
          /\ UNCHANGED <<view, calm, browserVars>>
    BY <1>4 DEF Lose, Act
  <2> DEFINE d == [calls[i] EXCEPT !.reply = Failed]
  <2>2. calls[i] \in Requests
    BY <1>1
  <2>3. Replied(calls[i], d)
    <3>1. d = [calls[i] EXCEPT !.reply = Failed]
      OBVIOUS
    <3> HIDE DEF d
    <3> QED
      BY <1>1, <2>2, <3>1, RepliedIs
  <2>4. calls' = [calls EXCEPT ![i] = d]
    BY <2>1
  <2> HIDE DEF d
  <2>5. ServerTyped'
    BY <1>1, <2>1, ApiAssumption DEF ServerTyped, browserVars
  <2> QED
    BY <2>1, <2>3, <2>4, <2>5, ReplyKeeps
<1> QED
  BY <1>2, <1>3, <1>4

-----------------------------------------------------------------------------
(* The answers *)

LEMMA CalmBefore ==
  ASSUME BrowserInv, NEW i \in DOMAIN calls, NEW v, NEW s, Answer(i, v, s), calm'
  PROVE  /\ calm
         /\ calls[i].op \in {"list", "stream"} => calls[i].reply # Failed
         /\ calls[i].op \in Writes => calls[i].at = Closure(view)
<1>1. calm /\ (calls[i].op \in {"list", "stream"} => calls[i].reply # Failed)
  BY DEF Answer
<1>2. InTurn(view, calls)
  BY <1>1, Here
<1> QED
  BY <1>1, <1>2 DEF InTurn

LEMMA ListKeeps ==
  ASSUME BrowserInv, OnList
  PROVE  BrowserInv'
<1>1. /\ view \in View /\ calls \in Seq(Requests) /\ Pane(view)
  BY Here
<1>2. PICK i \in DOMAIN calls : Answered(i, "list") /\
        LET c == calls[i]
            done == [view EXCEPT !.loading = FALSE]
            listed == IF Succeeded(i)
                      THEN [done EXCEPT !.keys = c.reply, !.listedFor = c.pattern]
                      ELSE done
        IN \E k \in Chosen(c) : Answer(i, Select(listed, k), SelectCalls(listed, k))
  BY DEF OnList
<1> DEFINE c == calls[i]
           done == [view EXCEPT !.loading = FALSE]
           listed == IF Succeeded(i)
                     THEN [done EXCEPT !.keys = c.reply, !.listedFor = c.pattern]
                     ELSE done
<1>3. PICK k \in Chosen(c) : Answer(i, Select(listed, k), SelectCalls(listed, k))
  BY <1>2
<1>4. /\ c.op = "list" /\ c.reply # Null /\ c \in ListRequests
      /\ Succeeded(i) => c.reply \in Listings
  <2>1. c.op = "list" /\ c.reply # Null /\ c \in Requests
    BY <1>1, <1>2 DEF Answered, Unserved
  <2>2. c \in ListRequests
    BY <2>1, Kinds
  <2> QED
    BY <2>1, <2>2 DEF ListRequests, Unread, Succeeded
<1>5. k \in Names \cup {Null}
  <2>1. c.reply # Failed => c.reply \in Listings
    BY <1>4 DEF Succeeded
  <2>2. c.reply # Failed => DOMAIN c.reply \subseteq Names
    BY <2>1 DEF Listings
  <2>3. c.then \in Names \cup {Null} /\ view.selectedKey \in Names \cup {Null}
    BY <1>1, <1>4 DEF View, ListRequests
  <2> QED
    BY <1>3, <2>2, <2>3 DEF Chosen
<1>6. /\ listed \in View /\ listed.loading = FALSE
      /\ listed.child = view.child /\ listed.keyDetail = view.keyDetail
      /\ listed.detailLoading = view.detailLoading
      /\ listed.dupLoading = view.dupLoading /\ listed.open = view.open
      /\ listed.selectedKey = view.selectedKey /\ listed.pattern = view.pattern
      /\ Succeeded(i) => listed.listedFor = c.pattern
  <2>1. CASE Succeeded(i)
    <3>1. c.reply \in Listings /\ c.pattern \in Patterns
      BY <1>4, <2>1 DEF ListRequests
    <3>2. listed = [view EXCEPT !.loading = FALSE, !.keys = c.reply,
                                !.listedFor = c.pattern]
      BY <1>1, <2>1 DEF View
    <3> HIDE DEF listed
    <3> QED
      BY <1>1, <3>1, <3>2 DEF View
  <2>2. CASE ~Succeeded(i)
    BY <1>1, <2>2 DEF View
  <2> QED
    BY <2>1, <2>2
<1> DEFINE rest == RemoveAt(calls, i)
<1>7. rest = RemoveAt(calls, i)
  OBVIOUS
<1> HIDE DEF listed, rest
<1>8. StillCaused(i, rest)
  BY <1>7, RestCaused
<1>9. CASE k = view.selectedKey
  <2>1. Answer(i, listed, <<>>)
    BY <1>3, <1>6, <1>9 DEF Select, SelectCalls
  <2>2. Pane(listed)
    BY <1>1, <1>6, PaneStays
  <2>3. SoundAfter(listed, rest, <<>>)
    BY <1>4, <1>6, <1>8, <2>2, NothingSent DEF SoundAfter, StillCaused
  <2>4. ASSUME calm', StillAwaited(i, rest)
        PROVE  Awaits(listed, rest, <<>>)
    <3>1. Succeeded(i)
      BY <1>4, <2>1, <2>4, CalmBefore DEF Succeeded
    <3> QED
      BY <1>4, <1>6, <2>4, <3>1, NothingSent DEF Awaits, StillAwaited, Unselected
  <2> QED
    BY <1>7, <2>1, <2>3, <2>4, AnswerKeeps
<1>10. CASE k # view.selectedKey
  <2> DEFINE v == Select(listed, k)
             s == SelectCalls(listed, k)
  <2>1. Answer(i, v, s) /\ v = Select(listed, k) /\ s = SelectCalls(listed, k)
    BY <1>3
  <2> HIDE DEF v, s
  <2>2. /\ v \in View /\ Pane(v) /\ v.child.kind = "none"
        /\ v.detailLoading = (listed.detailLoading \/ k # Null)
        /\ v.dupLoading = listed.dupLoading /\ v.pattern = listed.pattern
        /\ v.selectedKey = k
    BY <1>5, <1>6, <1>10, <2>1, SelectIs
  <2>3. Selecting(listed, k, s)
    BY <1>5, <1>6, <1>10, <2>1, SelectCallsIs
  <2>4. SoundAfter(v, rest, s)
    BY <1>4, <1>6, <1>8, <2>2, <2>3 DEF SoundAfter, Selecting, StillCaused
  <2>5. Awaits(v, rest, s)
    <3>1. k # Null
      <4>1. Succeeded(i) => DOMAIN c.reply \subseteq Names
        BY <1>4 DEF Listings
      <4> QED
        BY <1>3, <1>10, <4>1, BrowserAssumption DEF Chosen, Succeeded
    <3> QED
      BY <2>2, <2>3, <3>1 DEF Awaits, Selecting, Unselected
  <2> QED
    BY <1>7, <2>1, <2>4, <2>5, AnswerKeeps
<1> QED
  BY <1>9, <1>10

\* A detail has come: u is the view that shows it.
LEMMA DetailComes ==
  ASSUME BrowserInv, NEW i \in DOMAIN calls, calls[i].op \in {"detail", "refresh"},
         NEW u \in View, u.child = view.child, u.loading = view.loading,
         u.dupLoading = view.dupLoading, u.pattern = view.pattern,
         u.selectedKey = view.selectedKey, u.listedFor = view.listedFor,
         u.detailLoading => view.detailLoading /\ calls[i].op # "detail",
         NEW d \in Details \cup {Null}, d # Null => d.name = calls[i].key,
         NEW v, v = ShowDetail(u, d), NEW s, s = DetailCalls(v), Answer(i, v, s)
  PROVE  BrowserInv'
<1>1. /\ v \in View /\ Pane(v) /\ Beside(u, v) /\ v.keyDetail = d
      /\ v.child.kind = IF d # Null /\ ~u.detailLoading THEN d.type ELSE "none"
      /\ v.child.kind = "string" /\ v.child.saving
           => view.child.kind = "string" /\ view.child.saving
  BY ShowDetailIs
<1>2. /\ s \in Seq(Requests) /\ Owned(v, s) /\ Fresh(v, s)
      /\ v.child.kind = "stream" => InFlight(s, {"stream"})
  <2>1. CASE v.child.kind = "stream"
    <3>1. d \in Details /\ d.name \in Names
      BY <1>1, <2>1 DEF Details
    <3>2. s = <<Request("stream", [key |-> d.name, live |-> TRUE])>>
      BY <1>1, <2>1 DEF DetailCalls
    <3>3. PICK c \in Requests : c.op = "stream" /\ c.key = d.name /\ c.live /\ Sent(c, s)
      BY <3>1, <3>2, StreamSent
    <3>4. Fresh(v, s)
      BY <1>1, <3>3, FreshSent
    <3> QED
      BY <2>1, <3>3, <3>4 DEF Sent
  <2>2. CASE v.child.kind # "stream"
    <3>1. s = <<>>
      BY <2>2 DEF DetailCalls
    <3> QED
      BY <2>2, <3>1, NothingSent
  <2> QED
    BY <2>1, <2>2
<1> DEFINE rest == RemoveAt(calls, i)
<1>3. rest = RemoveAt(calls, i)
  OBVIOUS
<1> HIDE DEF rest
<1>4. StillCaused(i, rest)
  BY <1>3, RestCaused
<1>5. SoundAfter(v, rest, s)
  BY <1>1, <1>2, <1>4 DEF SoundAfter, StillCaused, Beside
<1>6. StillAwaited(i, rest) => Awaits(v, rest, s)
  BY <1>1, <1>2 DEF Awaits, StillAwaited, Beside, Unselected
<1> QED
  BY <1>3, <1>5, <1>6, AnswerKeeps

LEMMA DetailKeeps ==
  ASSUME BrowserInv, OnDetail
  PROVE  BrowserInv'
<1>1. view \in View /\ calls \in Seq(Requests)
  BY Here
<1>2. PICK i \in DOMAIN calls : Answered(i, "detail") /\
        LET w == ShowDetail([view EXCEPT !.detailLoading = FALSE], Loaded(calls[i]))
        IN Answer(i, w, DetailCalls(w))
  BY DEF OnDetail
<1> DEFINE u == [view EXCEPT !.detailLoading = FALSE]
           d == Loaded(calls[i])
           v == ShowDetail(u, d)
           s == DetailCalls(v)
<1>3. Answer(i, v, s) /\ v = ShowDetail(u, d) /\ s = DetailCalls(v)
  BY <1>2
<1>4. calls[i].op = "detail" /\ calls[i].reply # Null /\ calls[i] \in DetailRequests
  <2>1. calls[i].op = "detail" /\ calls[i].reply # Null /\ calls[i] \in Requests
    BY <1>1, <1>2 DEF Answered, Unserved
  <2> QED
    BY <2>1, Kinds
<1>5. d \in Details \cup {Null} /\ (d # Null => d.name = calls[i].key)
  BY <1>4 DEF Loaded, DetailRequests, Unread
<1>6. /\ u \in View /\ u.child = view.child /\ u.loading = view.loading
      /\ u.dupLoading = view.dupLoading /\ u.pattern = view.pattern
      /\ u.selectedKey = view.selectedKey /\ u.listedFor = view.listedFor
      /\ u.detailLoading = FALSE
  BY <1>1 DEF View
<1> HIDE DEF s, v, u, d
<1> QED
  BY <1>3, <1>4, <1>5, <1>6, DetailComes

LEMMA RefreshKeeps ==
  ASSUME BrowserInv, OnRefresh
  PROVE  BrowserInv'
<1>1. view \in View /\ calls \in Seq(Requests) /\ Pane(view)
  BY Here
<1>2. PICK i \in DOMAIN calls : Answered(i, "refresh") /\
        LET w == ShowDetail(view, calls[i].reply)
        IN IF Succeeded(i) THEN Answer(i, w, DetailCalls(w)) ELSE Answer(i, view, <<>>)
  BY DEF OnRefresh
<1>3. calls[i].op = "refresh" /\ calls[i].reply # Null /\ calls[i] \in DetailRequests
  <2>1. calls[i].op = "refresh" /\ calls[i].reply # Null /\ calls[i] \in Requests
    BY <1>1, <1>2 DEF Answered, Unserved
  <2> QED
    BY <2>1, Kinds
<1>4. CASE Succeeded(i)
  <2> DEFINE d == calls[i].reply
             v == ShowDetail(view, d)
             s == DetailCalls(v)
  <2>1. Answer(i, v, s) /\ v = ShowDetail(view, d) /\ s = DetailCalls(v)
    BY <1>2, <1>4
  <2>2. d \in Details /\ d.name = calls[i].key
    BY <1>3, <1>4 DEF DetailRequests, Unread, Succeeded
  <2> HIDE DEF v, s, d
  <2> QED
    BY <1>1, <1>3, <2>1, <2>2, DetailComes
<1>5. CASE ~Succeeded(i)
  <2>1. Answer(i, view, <<>>)
    BY <1>2, <1>5
  <2>2. Alike(view)
    BY <1>1 DEF Alike
  <2> QED
    BY <1>3, <2>1, <2>2, NothingSent, AnswerAlike
<1> QED
  BY <1>4, <1>5

LEMMA StreamKeeps ==
  ASSUME BrowserInv, OnStream
  PROVE  BrowserInv'
<1>1. /\ view \in View /\ calls \in Seq(Requests) /\ Pane(view)
      /\ Owned(view, calls)
  BY Here
<1>2. PICK i \in DOMAIN calls : Answered(i, "stream") /\
        LET loaded == [view.child EXCEPT !.loading = FALSE,
                         !.streamData = IF Succeeded(i) THEN calls[i].reply ELSE @]
        IN Answer(i, IF calls[i].live THEN [view EXCEPT !.child = loaded] ELSE view, <<>>)
  BY DEF OnStream
<1>3. calls[i].op = "stream" /\ calls[i].reply # Null /\ calls[i] \in StreamRequests
  <2>1. calls[i].op = "stream" /\ calls[i].reply # Null /\ calls[i] \in Requests
    BY <1>1, <1>2 DEF Answered, Unserved
  <2> QED
    BY <2>1, Kinds
<1> DEFINE rest == RemoveAt(calls, i)
<1>4. rest = RemoveAt(calls, i)
  OBVIOUS
<1> HIDE DEF rest
<1>5. StillCaused(i, rest)
  BY <1>4, RestCaused
<1>6. CASE calls[i].live
  <2> DEFINE data == IF Succeeded(i) THEN calls[i].reply ELSE view.child.streamData
             child == [view.child EXCEPT !.loading = FALSE, !.streamData = data]
             v == [view EXCEPT !.child = child]
  <2>1. view.child.kind = "stream"
    BY <1>1, <1>3, <1>6 DEF Owned
  <2>2. view.child \in [kind : {"stream"}, loading : BOOLEAN, streamData : Names \cup {Null}]
    BY <1>1, <2>1 DEF View, Children
  <2>3. Answer(i, v, <<>>)
    BY <1>2, <1>6, <2>2
  <2>4. data \in Names \cup {Null} /\ (Succeeded(i) => data = calls[i].key)
    BY <1>3, <2>2 DEF StreamRequests, Unread, Succeeded
  <2> HIDE DEF data
  <2>5. child \in Children /\ child.kind = "stream" /\ child.streamData = data
    BY <2>2, <2>4 DEF Children
  <2> HIDE DEF child
  <2>6. /\ v \in View /\ v.child = child /\ v.keyDetail = view.keyDetail
        /\ v.detailLoading = view.detailLoading /\ v.open = view.open
        /\ v.selectedKey = view.selectedKey /\ v.pattern = view.pattern
        /\ v.listedFor = view.listedFor /\ v.loading = view.loading
        /\ v.dupLoading = view.dupLoading
    BY <1>1, <2>5 DEF View
  <2> HIDE DEF v
  <2>7. Pane(v)
    BY <1>1, <2>1, <2>5, <2>6 DEF Pane, PaneShown
  <2>8. SoundAfter(v, rest, <<>>)
    BY <1>3, <1>5, <2>5, <2>6, <2>7, NothingSent DEF SoundAfter, StillCaused
  <2>9. ASSUME calm', StillAwaited(i, rest)
        PROVE  Awaits(v, rest, <<>>)
    <3>1. Succeeded(i)
      BY <1>3, <2>3, <2>9, CalmBefore DEF Succeeded
    <3>2. v.child.streamData = calls[i].key
      BY <2>4, <2>5, <2>6, <3>1
    <3> QED
      BY <1>3, <2>1, <2>6, <2>9, <3>2, NothingSent DEF Awaits, StillAwaited, Unselected
  <2> QED
    BY <1>4, <2>3, <2>8, <2>9, AnswerKeeps
<1>7. CASE ~calls[i].live
  <2>1. Answer(i, view, <<>>)
    BY <1>2, <1>7
  <2>2. SoundAfter(view, rest, <<>>)
    BY <1>1, <1>3, <1>5, NothingSent DEF SoundAfter, StillCaused
  <2>3. StillAwaited(i, rest) => Awaits(view, rest, <<>>)
    BY <1>3, <1>7, NothingSent DEF Awaits, StillAwaited
  <2> QED
    BY <1>4, <2>1, <2>2, <2>3, AnswerKeeps
<1> QED
  BY <1>6, <1>7

\* What a write leaves of the view, but for the detail it asks for again.
Settled(c, w) ==
  /\ Alike(w) /\ w.loading = view.loading
  /\ w.dupLoading => view.dupLoading /\ c.op # "duplicate"
  /\ w.child.kind = "string" /\ w.child.saving
       => view.child.saving /\ ~(c.op = "save" /\ c.live)

LEMMA AfterWriteIs ==
  ASSUME BrowserInv, NEW i \in DOMAIN calls, NEW c, c = calls[i],
         c.op \in Refreshing, NEW ok, NEW w, w = AfterWrite(c, ok)
  PROVE  Settled(c, w)
<1>1. /\ view \in View /\ calls \in Seq(Requests) /\ Pane(view)
      /\ Owned(view, calls) /\ c \in Requests
  BY Here
<1>2. c.op \in {"ttl", "duplicate"} => c \in WriteRequests
  BY <1>1, Kinds
<1>3. c.op \in {"save", "hset", "hdel"} => c \in ChildWrites
  BY <1>1, Kinds
<1>4. "live" \in DOMAIN c <=> c.op \in {"save", "hset", "hdel"}
  BY <1>1, Kinds DEF Refreshing
<1> DEFINE closed == [save |-> {}, ttl |-> {"editingTTL"},
                      duplicate |-> {"isDuplicating"}, hset |-> {c.arg}, hdel |-> {}]
           mine == "live" \in DOMAIN c => c.live
           open == IF ok /\ mine THEN view.open \ closed[c.op] ELSE view.open
           v == [view EXCEPT !.open = open]
<1>5. w = CASE c.op = "duplicate" -> [v EXCEPT !.dupLoading = FALSE]
            [] c.op = "save" /\ mine -> [v EXCEPT !.child.saving = FALSE]
            [] OTHER -> v
  <2>1. (IF ok /\ mine THEN [view EXCEPT !.open = @ \ closed[c.op]] ELSE view) = v
    BY <1>1 DEF View
  <2> QED
    BY <2>1 DEF AfterWrite
<1>6. open \subseteq view.open
  OBVIOUS
<1> HIDE DEF open, closed
<1>7. /\ v \in View /\ v.child = view.child /\ v.keyDetail = view.keyDetail
      /\ v.detailLoading = view.detailLoading /\ v.open = open
      /\ v.selectedKey = view.selectedKey /\ v.pattern = view.pattern
      /\ v.listedFor = view.listedFor /\ v.loading = view.loading
      /\ v.dupLoading = view.dupLoading
  BY <1>1, <1>6 DEF View
<1>8. CASE c.op = "duplicate"
  <2>1. w = [v EXCEPT !.dupLoading = FALSE]
    BY <1>5, <1>8
  <2> HIDE DEF v
  <2>2. /\ w \in View /\ w.child = view.child /\ w.keyDetail = view.keyDetail
        /\ w.detailLoading = view.detailLoading /\ w.open = open
        /\ w.selectedKey = view.selectedKey /\ w.pattern = view.pattern
        /\ w.listedFor = view.listedFor /\ w.loading = view.loading
        /\ w.dupLoading = FALSE
    BY <1>7, <2>1 DEF View
  <2>3. Pane(w)
    BY <1>1, <1>6, <2>2, PaneStays
  <2> QED
    BY <1>8, <2>2, <2>3 DEF Settled, Alike
<1>9. CASE c.op = "save" /\ mine
  <2> DEFINE child == [view.child EXCEPT !.saving = FALSE]
  <2>1. view.child.kind = "string"
    BY <1>1, <1>4, <1>9 DEF Owned
  <2>2. view.child \in [kind : {"string"}, content : [of : Names, via : {"load", "json"}],
          parsedJson : Names \cup {Null}, viewMode : {"raw", "json", "tree"},
          saving : BOOLEAN]
    BY <1>1, <2>1 DEF View, Children
  <2>3. /\ child \in Children /\ child.kind = "string" /\ child.saving = FALSE
        /\ child.content = view.child.content
    BY <2>2 DEF Children
  <2>4. w = [v EXCEPT !.child = child]
    <3>1. w = [v EXCEPT !.child.saving = FALSE]
      BY <1>5, <1>9
    <3> QED
      BY <1>7, <3>1
  <2> HIDE DEF child, v
  <2>5. /\ w \in View /\ w.child = child /\ w.keyDetail = view.keyDetail
        /\ w.detailLoading = view.detailLoading /\ w.open = open
        /\ w.selectedKey = view.selectedKey /\ w.pattern = view.pattern
        /\ w.listedFor = view.listedFor /\ w.loading = view.loading
        /\ w.dupLoading = view.dupLoading
    BY <1>7, <2>3, <2>4 DEF View
  <2>6. Pane(w)
    BY <1>1, <1>6, <2>1, <2>3, <2>5 DEF Pane, PaneShown
  <2> QED
    BY <1>9, <2>1, <2>3, <2>5, <2>6 DEF Settled, Alike
<1>10. CASE c.op # "duplicate" /\ ~(c.op = "save" /\ mine)
  <2>1. w = v
    BY <1>5, <1>10
  <2>2. Pane(w)
    BY <1>1, <1>6, <1>7, <2>1, PaneStays
  <2>3. ~(c.op = "save" /\ c.live)
    BY <1>10
  <2> HIDE DEF v
  <2> QED
    BY <1>7, <1>10, <2>1, <2>2, <2>3 DEF Settled, Alike
<1> QED
  BY <1>8, <1>9, <1>10

LEMMA WriteKeeps ==
  ASSUME BrowserInv, OnWrite
  PROVE  BrowserInv'
<1>1. view \in View /\ calls \in Seq(Requests)
  BY Here
<1>2. PICK i \in DOMAIN calls :
        /\ ~Unserved(i) /\ calls[i].op \in Refreshing
        /\ Answer(i, AfterWrite(calls[i], Succeeded(i)),
                  IF Succeeded(i) THEN RefreshCalls(calls[i].at) ELSE <<>>)
  BY DEF OnWrite
<1> DEFINE c == calls[i]
           v == AfterWrite(c, Succeeded(i))
           s == IF Succeeded(i) THEN RefreshCalls(c.at) ELSE <<>>
<1>3. Answer(i, v, s) /\ c.op \in Refreshing
  BY <1>2
<1>4. Settled(c, v)
  BY <1>3, AfterWriteIs
<1>5. c \in WriteRequests \cup ChildWrites
  <2>1. c \in Requests
    BY <1>1
  <2> QED
    BY <1>3, <2>1, Kinds DEF Refreshing
<1>6. c.at.selectedKey \in Names \cup {Null}
  BY <1>5 DEF WriteRequests, ChildWrites, Closures
<1>7. \/ s = <<>>
      \/ /\ c.at.selectedKey # Null
         /\ \E d \in Requests :
              d.op = "refresh" /\ d.key = c.at.selectedKey /\ Sent(d, s)
  <2>1. CASE Succeeded(i) /\ c.at.selectedKey # Null
    <3>1. s = <<Request("refresh", [key |-> c.at.selectedKey])>>
      BY <2>1 DEF RefreshCalls
    <3>2. c.at.selectedKey \in Names
      BY <1>6, <2>1
    <3> HIDE DEF s
    <3>3. PICK d \in Requests : /\ d.op = "refresh" /\ d.key = c.at.selectedKey
                                /\ Sent(d, <<Request("refresh", [key |-> c.at.selectedKey])>>)
      BY <3>2, DetailSent
    <3> QED
      BY <2>1, <3>1, <3>3
  <2> QED
    BY <2>1 DEF RefreshCalls
<1> HIDE DEF v, s
<1>8. s \in Seq(Requests) /\ Owned(v, s)
  BY <1>7, NothingSent DEF Sent
<1>9. ASSUME calm'
      PROVE  Fresh(v, s)
  <2>1. c.at.selectedKey = v.selectedKey
    <3>1. c.op \in Writes => c.at = Closure(view)
      BY <1>3, <1>9, CalmBefore
    <3>2. c.op \in Writes
      BY <1>3 DEF Writes
    <3> QED
      BY <1>1, <1>4, <3>1, <3>2, ClosureIs DEF Settled, Alike
  <2> QED
    BY <1>7, <2>1, NothingSent, FreshSent
<1>10. /\ Alike(v) /\ v.loading = view.loading
       /\ v.dupLoading => view.dupLoading /\ c.op # "duplicate"
       /\ v.child.kind = "string" /\ v.child.saving
            => view.child.saving /\ ~(c.op = "save" /\ c.live)
  BY <1>4 DEF Settled
<1>11. c.op \notin {"list", "detail", "stream"}
  BY <1>3 DEF Refreshing
<1> QED
  BY <1>3, <1>8, <1>9, <1>10, <1>11, AnswerAlike

LEMMA PageWriteKeeps ==
  ASSUME BrowserInv, OnPageWrite
  PROVE  BrowserInv'
<1>1. view \in View /\ calls \in Seq(Requests) /\ Pane(view)
  BY Here
<1>2. PICK i \in DOMAIN calls, op \in {"create", "deletePattern"} :
        /\ Answered(i, op)
        /\ LET form == [create |-> "showCreateModal",
                        deletePattern |-> "showDeletePatternModal"]
               w == Loading([view EXCEPT !.open = @ \ {form[op]}])
           IN IF Succeeded(i)
              THEN Answer(i, w, LoadKeys(calls[i].at, calls[i].key))
              ELSE Answer(i, view, <<>>)
  BY DEF OnPageWrite
<1> DEFINE c == calls[i]
<1>3. c.op = op /\ c \in WriteRequests
  <2>1. c.op = op /\ c \in Requests
    BY <1>1, <1>2 DEF Answered
  <2> QED
    BY <2>1, Kinds
<1>4. c.at \in Closures /\ c.key \in Names \cup {Null} /\ c.op \in Writes
  BY <1>3 DEF WriteRequests, Writes
<1>5. CASE Succeeded(i)
  <2> DEFINE form == [create |-> "showCreateModal",
                      deletePattern |-> "showDeletePatternModal"]
             open == view.open \ {form[op]}
             v == [view EXCEPT !.open = open, !.loading = TRUE]
             s == LoadKeys(c.at, c.key)
  <2>1. Answer(i, v, s)
    <3>1. Loading([view EXCEPT !.open = @ \ {form[op]}]) = v
      BY <1>1 DEF Loading, View
    <3> QED
      BY <1>2, <1>5, <3>1
  <2>2. PICK d \in Requests : d.op = "list" /\ d.pattern = c.at.pattern /\ Sent(d, s)
    <3>1. c.at.pattern \in Patterns
      BY <1>4 DEF Closures
    <3> QED
      BY <1>4, <3>1, ListSent
  <2>3. open \subseteq view.open
    OBVIOUS
  <2> HIDE DEF open, s, form
  <2>4. Aside(v) /\ v.pattern = view.pattern /\ v.dupLoading = view.dupLoading
    BY <1>1, <2>3 DEF View, Aside
  <2> HIDE DEF v
  <2>5. Alike(v)
    BY <1>1, <2>4, PaneStays DEF Aside, Alike
  <2>6. s \in Seq(Requests) /\ Owned(v, s) /\ InFlight(s, {"list"})
    BY <2>2 DEF Sent
  <2>7. ASSUME calm'
        PROVE  Fresh(v, s)
    <3>1. c.at = Closure(view)
      BY <1>4, <2>1, <2>7, CalmBefore
    <3>2. d.pattern = v.pattern
      BY <1>1, <2>2, <2>4, <3>1, ClosureIs
    <3> QED
      BY <2>2, <3>2, FreshSent
  <2>8. c.op \notin {"list", "detail", "stream", "duplicate", "save"}
    BY <1>3
  <2>9. v.child = view.child
    BY <2>4 DEF Aside
  <2> QED
    BY <2>1, <2>4, <2>5, <2>6, <2>7, <2>8, <2>9, AnswerAlike
<1>6. CASE ~Succeeded(i)
  <2>1. Answer(i, view, <<>>)
    BY <1>2, <1>6
  <2>2. Alike(view)
    BY <1>1 DEF Alike
  <2> QED
    BY <1>3, <2>1, <2>2, NothingSent, AnswerAlike
<1> QED
  BY <1>5, <1>6

LEMMA DeleteKeeps ==
  ASSUME BrowserInv, OnDelete
  PROVE  BrowserInv'
<1>1. view \in View /\ calls \in Seq(Requests) /\ Pane(view)
  BY Here
<1>2. PICK i \in DOMAIN calls :
        /\ Answered(i, "delete")
        /\ IF Succeeded(i)
           THEN Answer(i, Loading(Select(view, Null)),
                       LoadKeys(calls[i].at, Null) \o SelectCalls(view, Null))
           ELSE Answer(i, view, <<>>)
  BY DEF OnDelete
<1> DEFINE c == calls[i]
<1>3. c.op = "delete" /\ c \in WriteRequests
  <2>1. c.op = "delete" /\ c \in Requests
    BY <1>1, <1>2 DEF Answered
  <2> QED
    BY <2>1, Kinds
<1>4. c.at \in Closures /\ c.op \in Writes
  BY <1>3 DEF WriteRequests, Writes
<1>5. CASE Succeeded(i)
  <2> DEFINE a == LoadKeys(c.at, Null)
             b == SelectCalls(view, Null)
             s == a \o b
             v == Loading(Select(view, Null))
  <2>1. Answer(i, v, s)
    BY <1>2, <1>5
  <2>2. PICK d \in Requests : d.op = "list" /\ d.pattern = c.at.pattern /\ Sent(d, a)
    <3>1. c.at.pattern \in Patterns
      BY <1>4 DEF Closures
    <3> QED
      BY <3>1, ListSent
  <2>3. calm' => c.at.pattern = view.pattern
    BY <1>1, <1>4, <2>1, CalmBefore, ClosureIs
  <2>4. s = a \o b /\ b = SelectCalls(view, Null) /\ v = Loading(Select(view, Null))
    OBVIOUS
  <2> HIDE DEF a, b, s, v
  <2>5. a \in Seq(Requests) /\ InFlight(a, {"list"}) /\ \A w : Owned(w, a)
    BY <2>2 DEF Sent
  <2>6. calm' => \A w : w.pattern = view.pattern => Fresh(w, a)
    BY <2>2, <2>3, FreshSent
  <2>7. CASE view.selectedKey = Null
    <3>1. b = <<>> /\ v = [view EXCEPT !.loading = TRUE]
      BY <2>4, <2>7 DEF SelectCalls, Select, Loading
    <3>2. s = a
      BY <2>4, <2>5, <3>1
    <3>3. Aside(v) /\ v.pattern = view.pattern /\ v.dupLoading = view.dupLoading
      BY <1>1, <3>1 DEF View, Aside
    <3>4. Alike(v) /\ v.child = view.child
      BY <1>1, <3>3, PaneStays DEF Aside, Alike
    <3> QED
      BY <1>3, <2>1, <2>5, <2>6, <3>2, <3>3, <3>4, AnswerAlike
  <2>8. CASE view.selectedKey # Null
    <3> DEFINE u == Select(view, Null)
               rest == RemoveAt(calls, i)
    <3>1. u = Select(view, Null) /\ rest = RemoveAt(calls, i)
      OBVIOUS
    <3> HIDE DEF u, rest
    <3>2. /\ u \in View /\ Pane(u) /\ u.child.kind = "none" /\ u.loading
          /\ u.detailLoading = (view.detailLoading \/ Null # Null)
          /\ u.dupLoading = view.dupLoading /\ u.pattern = view.pattern
          /\ u.selectedKey = Null /\ u.keyDetail = Null
      BY <1>1, <2>8, <3>1, SelectIs
    <3>3. v = u
      BY <2>4, <3>1, <3>2 DEF Loading, View
    <3>4. Selecting(view, Null, b)
      BY <1>1, <2>4, <2>8, SelectCallsIs
    <3>5. StillCaused(i, rest)
      BY <3>1, RestCaused
    <3>6. /\ s \in Seq(Requests)
          /\ \A K : InFlight(s, K) <=> InFlight(a, K) \/ InFlight(b, K)
          /\ \A w : Owned(w, a) /\ Owned(w, b) => Owned(w, s)
          /\ \A w : Fresh(w, a) /\ Fresh(w, b) => Fresh(w, s)
      BY <2>4, <2>5, <3>4, BothSent DEF Selecting
    <3>7. Owned(v, s) /\ InFlight(s, {"list"})
      BY <2>5, <3>4, <3>6 DEF Selecting
    <3>8. SoundAfter(v, rest, s)
      BY <1>3, <3>2, <3>3, <3>5, <3>6, <3>7 DEF SoundAfter, StillCaused
    <3>9. ASSUME calm'
          PROVE  Awaits(v, rest, s)
      <4>1. Fresh(v, a) /\ Fresh(v, b)
        BY <2>6, <3>2, <3>3, <3>4, <3>9 DEF Selecting
      <4>2. ~InFlight(rest, {"detail", "refresh"})
        BY <2>1, <2>8, <3>1, <3>2, <3>3, <3>9 DEF Answer, StaysCalm
      <4> QED
        BY <3>2, <3>3, <3>6, <3>7, <4>1, <4>2 DEF Awaits, Unselected
    <3> QED
      BY <2>1, <3>1, <3>8, <3>9, AnswerKeeps
  <2> QED
    BY <2>7, <2>8
<1>6. CASE ~Succeeded(i)
  <2>1. Answer(i, view, <<>>)
    BY <1>2, <1>6
  <2>2. Alike(view)
    BY <1>1 DEF Alike
  <2> QED
    BY <1>3, <2>1, <2>2, NothingSent, AnswerAlike
<1> QED
  BY <1>5, <1>6

LEMMA InfoKeeps ==
  ASSUME BrowserInv, OnInfo
  PROVE  BrowserInv'
<1>1. view \in View /\ Pane(view)
  BY Here
<1>2. PICK i \in DOMAIN calls :
        /\ Answered(i, "info")
        /\ Answer(i, [view EXCEPT !.readOnly = calls[i].reply = TRUE], <<>>)
  BY DEF OnInfo
<1> DEFINE known == calls[i].reply = TRUE
           v == [view EXCEPT !.readOnly = known]
<1>3. known \in BOOLEAN /\ Answer(i, v, <<>>) /\ calls[i].op = "info"
  BY <1>2 DEF Answered
<1> HIDE DEF known
<1>4. /\ Aside(v) /\ v.pattern = view.pattern /\ v.loading = view.loading
      /\ v.dupLoading = view.dupLoading
  BY <1>1, <1>3 DEF View, Aside
<1> HIDE DEF v
<1>5. Alike(v) /\ v.child = view.child
  BY <1>1, <1>4, PaneStays DEF Aside, Alike
<1> QED
  BY <1>3, <1>4, <1>5, NothingSent, AnswerAlike

-----------------------------------------------------------------------------
(* The invariant holds *)

LEMMA BrowserStarts ==
  ASSUME BrowserInit
  PROVE  BrowserInv
<1>1. /\ db \in [Names -> Types \cup {Absent}] /\ guarded \in BOOLEAN
      /\ acts = 0 /\ calm = TRUE
  BY BrowserAssumption DEF BrowserInit
<1>2. ServerTyped
  BY <1>1, ApiAssumption DEF ServerTyped
<1>3. view = [keys |-> <<>>, listedFor |-> Null, loading |-> TRUE,
              pattern |-> Names, typeFilter |-> "all", viewMode |-> "tree",
              openFolder |-> "unset", selectedKey |-> Null, keyDetail |-> Null,
              detailLoading |-> FALSE, dupLoading |-> FALSE,
              readOnly |-> FALSE, open |-> {}, child |-> NoChild]
  BY DEF BrowserInit
<1>4. <<>> \in Listings
  <2>1. <<>> \in [{} -> Types]
    OBVIOUS
  <2> QED
    BY <2>1 DEF Listings
<1>5. view \in View
  <2>1. Names \in Patterns
    BY BrowserAssumption
  <2> QED
    BY <1>3, <1>4, <2>1, NoChildIs DEF View
<1>6. /\ view.loading = TRUE /\ view.pattern = Names /\ view.selectedKey = Null
      /\ view.keyDetail = Null /\ view.detailLoading = FALSE
      /\ view.dupLoading = FALSE /\ view.open = {} /\ view.child = NoChild
  BY <1>3
<1>7. Pane(view)
  BY <1>6, NoChildIs DEF Pane, PaneShown
<1> DEFINE info == [op |-> "info", reply |-> guarded]
           a == <<info>>
           b == LoadKeys(Closure(view), Null)
<1>8. calls = a \o b
  BY DEF BrowserInit
<1>9. info \in Requests /\ info.op = "info"
  BY <1>1 DEF Requests, InfoRequests
<1>10. a = <<info>>
  OBVIOUS
<1>11. PICK c \in Requests : c.op = "list" /\ c.pattern = view.pattern /\ Sent(c, b)
  <2>1. Closure(view).pattern = view.pattern /\ view.pattern \in Patterns
    BY <1>5, ClosureIs DEF View
  <2> QED
    BY <2>1, ListSent
<1> HIDE DEF info, a, b
<1>12. Sent(info, a)
  BY <1>9, <1>10, OneSent
<1>13. /\ a \in Seq(Requests) /\ b \in Seq(Requests)
       /\ ToSet(a) = {info} /\ ToSet(b) = {c} /\ InFlight(b, {"list"})
  BY <1>11, <1>12 DEF Sent
<1>14. /\ calls \in Seq(Requests) /\ ToSet(calls) = {info, c}
       /\ InFlight(calls, {"list"})
  <2>1. calls \in Seq(Requests) /\ ToSet(calls) = ToSet(a) \cup ToSet(b)
    BY <1>8, <1>13, SentSet
  <2>2. InFlight(calls, {"list"})
    BY <1>8, <1>13, BothSent
  <2> QED
    BY <1>13, <2>1, <2>2
<1>15. \A i \in DOMAIN calls : calls[i] \in {info, c}
  BY <1>14 DEF ToSet
<1>16. Owned(view, calls)
  BY <1>9, <1>11, <1>15 DEF Owned
<1>17. Causes(view, calls)
  BY <1>6, <1>14, NoChildIs DEF Causes
<1>18. InTurn(view, calls)
  <2>1. \A i \in DOMAIN calls : calls[i] \in ForPattern(view.pattern)
    BY <1>9, <1>11, <1>15 DEF ForPattern
  <2>2. \A i \in DOMAIN calls : calls[i].op \notin Writes
    BY <1>9, <1>11, <1>15 DEF Writes, Refreshing
  <2>3. Unselected(view, calls)
    BY <1>6, <1>9, <1>11, <1>15 DEF Unselected, InFlight
  <2> QED
    BY <1>6, <1>14, <2>1, <2>2, <2>3, NoChildIs DEF InTurn, Trailing
<1> QED
  BY <1>2, <1>5, <1>7, <1>14, <1>16, <1>17, <1>18 DEF BrowserInv, Sound

LEMMA BrowserKeeps ==
  ASSUME BrowserInv, [BrowserNext]_allVars
  PROVE  BrowserInv'
<1>1. CASE BrowserNext
  <2>1. CASE SetPattern \/ Reload
    BY <2>1, SearchKeeps
  <2>2. CASE SetTypeFilter \/ ToggleViewMode \/ ToggleFolder \/ OpenForm \/ CancelForm
    BY <2>2, ViewKeeps
  <2>3. CASE SelectKey
    BY <2>3, SelectKeeps
  <2>4. CASE SubmitCreate \/ SubmitDeletePattern \/ SubmitTTL \/ DeleteKey
    BY <2>4, WritesKeep
  <2>5. CASE SubmitDuplicate
    BY <2>5, DuplicateKeeps
  <2>6. CASE TypeText \/ SetStringMode \/ SaveString
    BY <2>6, StringKeeps
  <2>7. CASE SaveField \/ DeleteField
    BY <2>7, FieldsKeep
  <2>8. CASE OtherClient \/ Serve \/ Lose
    BY <2>8, ServerKeeps
  <2>9. CASE OnList
    BY <2>9, ListKeeps
  <2>10. CASE OnDetail
    BY <2>10, DetailKeeps
  <2>11. CASE OnRefresh
    BY <2>11, RefreshKeeps
  <2>12. CASE OnStream
    BY <2>12, StreamKeeps
  <2>13. CASE OnWrite
    BY <2>13, WriteKeeps
  <2>14. CASE OnPageWrite
    BY <2>14, PageWriteKeeps
  <2>15. CASE OnDelete
    BY <2>15, DeleteKeeps
  <2>16. CASE OnInfo
    BY <2>16, InfoKeeps
  <2> QED
    BY <1>1, <2>1, <2>2, <2>3, <2>4, <2>5, <2>6, <2>7, <2>8, <2>9, <2>10, <2>11,
       <2>12, <2>13, <2>14, <2>15, <2>16 DEF BrowserNext
<1>2. CASE UNCHANGED allVars
  BY <1>2 DEF allVars, apiVars, browserVars, BrowserInv, Sound, Pane, PaneShown,
     Causes, Saving, Owned, ServerTyped, InTurn, Unselected, Trailing, InFlight,
     Closure
<1> QED
  BY <1>1, <1>2

LEMMA BrowserInvariant == BrowserSpec => []BrowserInv
<1>1. BrowserInit => BrowserInv
  BY BrowserStarts
<1>2. BrowserInv /\ [BrowserNext]_allVars => BrowserInv'
  BY BrowserKeeps
<1> QED
  BY <1>1, <1>2, PTL DEF BrowserSpec

\* The types of the explorer's state; the view inside the pane is of the type
\* of the key in it (KeyDetailView.tsx).
THEOREM BrowserTypeCorrect == BrowserSpec => []BrowserTypeOK
<1>1. BrowserInv => BrowserTypeOK
  <2> SUFFICES ASSUME BrowserInv
               PROVE  BrowserTypeOK
    OBVIOUS
  <2>1. view \in View /\ Pane(view) /\ ServerTyped
    BY Here DEF BrowserInv
  <2>2. /\ {view.loading, view.detailLoading, view.dupLoading, view.readOnly,
            guarded, calm} \subseteq BOOLEAN
    BY <2>1 DEF View, ServerTyped
  <2>3. /\ view.keys \in UNION {[S -> Types] : S \in SUBSET Names}
        /\ view.keyDetail \in [name : Names, type : Types] \cup {Null}
    BY <2>1 DEF View, Listings, Details
  <2>4. view.child.kind = IF PaneShown(view) THEN view.keyDetail.type ELSE "none"
    BY <2>1 DEF Pane
  <2>5. /\ view.listedFor \in Patterns \cup {Null} /\ view.pattern \in Patterns
        /\ view.selectedKey \in Names \cup {Null}
        /\ view.typeFilter \in Types \cup {"all"} /\ view.viewMode \in {"tree", "flat"}
        /\ view.openFolder \in {"unset", "open", "shut"} /\ view.open \subseteq Forms
    BY <2>1 DEF View
  <2> QED
    BY <2>1, <2>2, <2>3, <2>4, <2>5 DEF BrowserTypeOK, ServerTyped
<1> QED
  BY <1>1, BrowserInvariant, PTL

\* Text in the string editor that did not come in through the JSON mode is
\* that of the key in the pane, although one editor serves all keys
\* (StringView.tsx:27).
THEOREM EditorBelongsCorrect == BrowserSpec => []EditorBelongs
<1>1. BrowserInv => EditorBelongs
  BY DEF BrowserInv, Sound, Pane, EditorBelongs
<1> QED
  BY <1>1, BrowserInvariant, PTL

\* Nothing shows "Loading", "Saving" or "Cloning" unless the request it stands
\* for is in flight, for any number of them and any order of the answers
\* (KeyExplorer.tsx, KeyDetailView.tsx).
THEOREM SpinnerHasCauseCorrect == BrowserSpec => []SpinnerHasCause
<1>1. BrowserInv => SpinnerHasCause
  BY DEF BrowserInv, Sound, Causes, Saving, SpinnerHasCause
<1> QED
  BY <1>1, BrowserInvariant, PTL

\* Once nothing is in flight, if the answers came in turn and no selection was
\* dropped while a detail was awaited, the key in the pane is the one selected
\* (so there is none where none is selected), the list is that of the search
\* field and the entries are those of the key shown (KeyExplorer.tsx).
THEOREM CalmPaneCorrect == BrowserSpec => []CalmPane
<1>1. BrowserInv => CalmPane
  <2> SUFFICES ASSUME BrowserInv, calm, calls = <<>>
               PROVE  /\ view.keyDetail # Null
                           => view.keyDetail.name = view.selectedKey
                      /\ view.listedFor = view.pattern
                      /\ view.child.kind = "stream"
                           => view.child.streamData = view.keyDetail.name
    BY DEF CalmPane
  <2>1. \A K : ~InFlight(calls, K)
    BY NothingSent
  <2> QED
    BY <2>1, Here DEF InTurn, Unselected
<1> QED
  BY <1>1, BrowserInvariant, PTL

-----------------------------------------------------------------------------
(* Answers run out *)

LEMMA Induction ==
  ASSUME NEW T, 0 \in T, \A n \in Nat : n \in T => n + 1 \in T
  PROVE  \A n \in Nat : n \in T
<1> SUFFICES ASSUME NEW m \in Nat, m \notin T
             PROVE  FALSE
  OBVIOUS
<1> DEFINE Missed == {n \in Nat : n \notin T}
<1>1. Missed \in SUBSET Nat /\ m \in Missed
  OBVIOUS
<1> HIDE DEF Missed
<1>2. PICK n \in Missed : \A k \in Missed : n <= k
  BY <1>1, LeastNumber
<1>3. n \in Nat /\ n \notin T
  BY <1>2 DEF Missed
<1>4. n # 0 /\ n - 1 \in Nat /\ (n - 1) + 1 = n /\ ~(n <= n - 1)
  BY <1>3
<1>5. n - 1 \notin Missed
  BY <1>2, <1>4
<1> QED
  BY <1>3, <1>4, <1>5 DEF Missed

\* What a request counts for in Outstanding.
Weight(c) == 2 * Cost(c) - (IF c.reply = Null THEN 0 ELSE 1)

\* The sums of the weights in q, from its first place on.
Sums(q, f) ==
  /\ f \in [0 .. Len(q) -> Int]
  /\ f[0] = 0
  /\ \A i \in 1 .. Len(q) : f[i] = f[i - 1] + Weight(q[i])

LEMMA Weighs ==
  ASSUME NEW c
  PROVE  Cost(c) \in 1 .. 9 /\ Weight(c) \in Int
<1>1. Cost(c) \in 1 .. 9
  BY DEF Cost
<1> QED
  BY <1>1 DEF Weight

LEMMA SumExists ==
  ASSUME NEW q \in Seq(Requests)
  PROVE  \E f : Sums(q, f)
<1> DEFINE Upto(n) == \E f \in [0 .. n -> Int] :
             f[0] = 0 /\ \A i \in 1 .. n : f[i] = f[i - 1] + Weight(q[i])
           T == {n \in Nat : n <= Len(q) => Upto(n)}
<1>1. 0 \in T
  <2> DEFINE f == [i \in 0 .. 0 |-> 0]
  <2>1. f \in [0 .. 0 -> Int] /\ f[0] = 0 /\ \A i \in 1 .. 0 : f[i] = f[i - 1] + Weight(q[i])
    OBVIOUS
  <2>2. Upto(0)
    BY <2>1
  <2> QED
    BY <2>2
<1>2. ASSUME NEW n \in Nat, n \in T
      PROVE  n + 1 \in T
  <2> HIDE DEF Upto
  <2> SUFFICES ASSUME n + 1 <= Len(q)
               PROVE  Upto(n + 1)
    OBVIOUS
  <2>1. PICK f \in [0 .. n -> Int] :
          f[0] = 0 /\ \A i \in 1 .. n : f[i] = f[i - 1] + Weight(q[i])
    <3>1. Len(q) \in Nat
      OBVIOUS
    <3> QED
      BY <1>2, <3>1 DEF Upto
  <2> DEFINE w == Weight(q[n + 1])
             g == [i \in 0 .. n + 1 |-> IF i <= n THEN f[i] ELSE f[n] + w]
  <2>2. w \in Int
    BY Weighs
  <2>w. w = Weight(q[n + 1])
    OBVIOUS
  <2> HIDE DEF w
  <2>3. g \in [0 .. n + 1 -> Int] /\ g[0] = 0
    BY <2>1, <2>2
  <2>4. ASSUME NEW i \in 1 .. n + 1
        PROVE  g[i] = g[i - 1] + Weight(q[i])
    <3>1. CASE i <= n
      BY <2>1, <3>1
    <3>2. CASE i = n + 1
      BY <2>1, <2>w, <3>2
    <3> QED
      BY <3>1, <3>2
  <2> HIDE DEF g
  <2> QED
    BY <2>3, <2>4 DEF Upto
<1> HIDE DEF T
<1>3. Len(q) \in T
  <2>1. Len(q) \in Nat
    OBVIOUS
  <2> QED
    BY <1>1, <1>2, <2>1, Induction
<1>4. Upto(Len(q))
  BY <1>3 DEF T
<1> QED
  BY <1>4 DEF Sums

LEMMA OutstandingIs ==
  ASSUME NEW q \in Seq(Requests), NEW f, Sums(q, f)
  PROVE  Outstanding(q) = f[Len(q)] /\ Outstanding(q) \in Int
<1> DEFINE step(h) == [i \in 0 .. Len(q) |->
             IF i = 0 THEN 0
             ELSE h[i - 1] + 2 * Cost(q[i]) - (IF q[i].reply = Null THEN 0 ELSE 1)]
           sum == CHOOSE h : h = step(h)
<1>1. /\ f \in [0 .. Len(q) -> Int] /\ f[0] = 0 /\ Len(q) \in Nat
      /\ \A i \in 1 .. Len(q) : f[i] = f[i - 1] + Weight(q[i])
  BY DEF Sums
<1>2. f = step(f)
  <2>1. ASSUME NEW i \in 0 .. Len(q)
        PROVE  f[i] = step(f)[i]
    <3>1. CASE i = 0
      BY <1>1, <3>1
    <3>2. CASE i # 0
      <4>1. i \in 1 .. Len(q) /\ i - 1 \in 0 .. Len(q) /\ f[i - 1] \in Int
        BY <1>1, <3>2
      <4>2. f[i] = f[i - 1] + Weight(q[i])
        BY <1>1, <4>1
      <4>3. Cost(q[i]) \in Int
        BY Weighs
      <4> QED
        BY <3>2, <4>1, <4>2, <4>3 DEF Weight
    <3> QED
      BY <3>1, <3>2
  <2> QED
    BY <1>1, <2>1
<1>3. Outstanding(q) = sum[Len(q)]
  BY DEF Outstanding
<1>4. sum = step(sum)
  <2> HIDE DEF step
  <2>1. \E h : h = step(h)
    BY <1>2
  <2> QED
    BY <2>1
<1> HIDE DEF sum
<1> DEFINE T == {n \in Nat : n <= Len(q) => sum[n] = f[n]}
<1>5. 0 \in T
  <2>1. sum[0] = step(sum)[0] /\ 0 \in 0 .. Len(q)
    BY <1>1, <1>4
  <2> QED
    BY <1>1, <2>1
<1>6. ASSUME NEW n \in Nat, n \in T
      PROVE  n + 1 \in T
  <2> SUFFICES ASSUME n + 1 <= Len(q)
               PROVE  sum[n + 1] = f[n + 1]
    OBVIOUS
  <2>1. n + 1 \in 1 .. Len(q) /\ n <= Len(q) /\ (n + 1) - 1 = n /\ n \in 0 .. Len(q)
    BY <1>1
  <2>2. sum[n] = f[n]
    BY <1>6, <2>1
  <2>3. sum[n + 1] = step(sum)[n + 1] /\ f[n + 1] = step(f)[n + 1]
    BY <1>2, <1>4
  <2>4. \A h : step(h)[n + 1] = h[n] + 2 * Cost(q[n + 1])
                                - (IF q[n + 1].reply = Null THEN 0 ELSE 1)
    BY <1>1, <2>1
  <2> HIDE DEF step
  <2> QED
    BY <2>2, <2>3, <2>4
<1> HIDE DEF T
<1>7. Len(q) \in T
  BY <1>1, <1>5, <1>6, Induction
<1> QED
  BY <1>1, <1>3, <1>7 DEF T

LEMMA SumOfNone == Outstanding(<<>>) = 0
<1> DEFINE q == <<>>
           f == [i \in 0 .. 0 |-> 0]
<1>1. q \in Seq(Requests) /\ Len(q) = 0
  OBVIOUS
<1>2. Sums(q, f) /\ f[0] = 0
  BY <1>1 DEF Sums
<1> HIDE DEF f
<1> QED
  BY <1>1, <1>2, OutstandingIs

LEMMA SumOfOne ==
  ASSUME NEW c \in Requests
  PROVE  Outstanding(<<c>>) = Weight(c)
<1> DEFINE q == <<c>>
           w == Weight(c)
           f == [i \in 0 .. 1 |-> IF i = 0 THEN 0 ELSE w]
<1>1. q \in Seq(Requests) /\ Len(q) = 1 /\ q[1] = c
  OBVIOUS
<1>2. w \in Int /\ w = Weight(c)
  BY Weighs
<1> HIDE DEF q, w
<1>3. Sums(q, f) /\ f[1] = w
  BY <1>1, <1>2 DEF Sums
<1> HIDE DEF f
<1>4. Outstanding(q) = w
  BY <1>1, <1>3, OutstandingIs
<1> QED
  BY <1>4 DEF q, w

LEMMA SumOfBoth ==
  ASSUME NEW q \in Seq(Requests), NEW s \in Seq(Requests)
  PROVE  /\ Outstanding(q \o s) = Outstanding(q) + Outstanding(s)
         /\ Outstanding(q) \in Int /\ Outstanding(s) \in Int
<1>1. PICK f : Sums(q, f)
  BY SumExists
<1>2. PICK g : Sums(s, g)
  BY SumExists
<1> DEFINE r == q \o s
           m == Len(q)
           n == Len(s)
           h == [i \in 0 .. m + n |-> IF i <= m THEN f[i] ELSE f[m] + g[i - m]]
<1>3. /\ m \in Nat /\ n \in Nat /\ r \in Seq(Requests) /\ Len(r) = m + n
      /\ \A i \in 1 .. m + n : r[i] = IF i <= m THEN q[i] ELSE s[i - m]
  BY ConcatProperties
<1>4. /\ f \in [0 .. m -> Int] /\ f[0] = 0
      /\ \A i \in 1 .. m : f[i] = f[i - 1] + Weight(q[i])
  BY <1>1 DEF Sums
<1>5. /\ g \in [0 .. n -> Int] /\ g[0] = 0
      /\ \A i \in 1 .. n : g[i] = g[i - 1] + Weight(s[i])
  BY <1>2 DEF Sums
<1>6. Outstanding(q) = f[m] /\ Outstanding(s) = g[n]
  BY <1>1, <1>2, OutstandingIs
<1> HIDE DEF r, m, n
<1>7. h \in [0 .. m + n -> Int] /\ h[0] = 0
  <2>1. ASSUME NEW i \in 0 .. m + n
        PROVE  (IF i <= m THEN f[i] ELSE f[m] + g[i - m]) \in Int
    <3>1. CASE i <= m
      <4>1. i \in 0 .. m
        BY <1>3, <3>1
      <4> QED
        BY <1>4, <3>1, <4>1
    <3>2. CASE i > m
      <4>1. i - m \in 0 .. n /\ m \in 0 .. m
        BY <1>3, <3>2
      <4>2. g[i - m] \in Int /\ f[m] \in Int
        BY <1>4, <1>5, <4>1
      <4> QED
        BY <1>3, <3>2, <4>2
    <3> QED
      BY <1>3, <3>1, <3>2
  <2>2. h[0] = 0
    <3>1. 0 \in 0 .. m + n /\ 0 <= m
      BY <1>3
    <3> QED
      BY <1>4, <3>1
  <2> QED
    BY <2>1, <2>2
<1>8. ASSUME NEW i \in 1 .. m + n
      PROVE  h[i] = h[i - 1] + Weight(r[i])
  <2>0. i \in 0 .. m + n /\ i - 1 \in 0 .. m + n
    BY <1>3
  <2>1. CASE i <= m
    <3>0. i - 1 <= m /\ i \in 1 .. m
      BY <1>3, <2>1
    <3>1. h[i] = f[i] /\ h[i - 1] = f[i - 1] /\ r[i] = q[i]
      BY <1>3, <2>0, <2>1, <3>0
    <3> QED
      BY <1>4, <3>0, <3>1
  <2>2. CASE i > m
    <3>1. i - m \in 1 .. n /\ r[i] = s[i - m] /\ (i - 1) - m = (i - m) - 1
      BY <1>3, <2>2
    <3>2. h[i] = f[m] + g[i - m] /\ g[i - m] = g[(i - m) - 1] + Weight(s[i - m])
      <4>1. ~(i <= m)
        BY <1>3, <2>2
      <4>2. h[i] = f[m] + g[i - m]
        BY <2>0, <4>1
      <4> QED
        BY <1>5, <3>1, <4>2
    <3>3. h[i - 1] = f[m] + g[(i - m) - 1]
      <4>1. CASE i = m + 1
        <5>1. h[i - 1] = f[m] /\ (i - m) - 1 = 0 /\ f[m] \in Int
          BY <1>3, <1>4, <2>0, <4>1
        <5> QED
          BY <1>5, <5>1
      <4>2. CASE i # m + 1
        BY <1>3, <2>0, <2>2, <3>1, <4>2
      <4> QED
        BY <4>1, <4>2
    <3>4. f[m] \in Int /\ g[(i - m) - 1] \in Int /\ Weight(s[i - m]) \in Int
      <4>1. m \in 0 .. m /\ (i - m) - 1 \in 0 .. n
        BY <1>3, <3>1
      <4> QED
        BY <1>4, <1>5, <4>1, Weighs
    <3> QED
      BY <3>1, <3>2, <3>3, <3>4
  <2> QED
    BY <1>3, <2>1, <2>2
<1>9. h[m + n] = f[m] + g[n]
  <2>1. m + n \in 0 .. m + n /\ (m + n) - m = n /\ m \in 0 .. m
    BY <1>3
  <2>2. CASE n = 0
    <3>1. h[m + n] = f[m] /\ f[m] \in Int
      BY <1>3, <1>4, <2>1, <2>2
    <3> QED
      BY <1>5, <2>2, <3>1
  <2>3. CASE n # 0
    <3>1. ~(m + n <= m)
      BY <1>3, <2>3
    <3> QED
      BY <2>1, <3>1
  <2> QED
    BY <2>2, <2>3
<1> HIDE DEF h
<1>10. Sums(r, h)
  BY <1>3, <1>7, <1>8 DEF Sums
<1>11. Outstanding(r) = f[m] + g[n]
  BY <1>3, <1>9, <1>10, OutstandingIs
<1>12. Outstanding(q) \in Int /\ Outstanding(s) \in Int
  BY <1>1, <1>2, OutstandingIs
<1> QED
  BY <1>6, <1>11, <1>12 DEF r

LEMMA SumOfSame ==
  ASSUME NEW q \in Seq(Requests), NEW r \in Seq(Requests), DOMAIN r = DOMAIN q,
         \A i \in DOMAIN q : Weight(r[i]) = Weight(q[i])
  PROVE  Outstanding(r) = Outstanding(q)
<1>1. PICK f : Sums(q, f)
  BY SumExists
<1>2. Len(r) = Len(q) /\ DOMAIN q = 1 .. Len(q)
  OBVIOUS
<1>3. Sums(r, f)
  BY <1>1, <1>2 DEF Sums
<1> QED
  BY <1>1, <1>2, <1>3, OutstandingIs

\* One request is served.
LEMMA SumOfServed ==
  ASSUME NEW q \in Seq(Requests), NEW i \in DOMAIN q, NEW r \in Seq(Requests),
         DOMAIN r = DOMAIN q, \A j \in DOMAIN q : j # i => r[j] = q[j],
         Weight(r[i]) = Weight(q[i]) - 1
  PROVE  Outstanding(r) = Outstanding(q) - 1 /\ Outstanding(q) \in Int
<1>1. PICK f : Sums(q, f)
  BY SumExists
<1> DEFINE n == Len(q)
           g == [j \in 0 .. n |-> IF j < i THEN f[j] ELSE f[j] - 1]
<1>2. Len(r) = n /\ DOMAIN q = 1 .. n /\ n \in Nat /\ i \in 1 .. n
  OBVIOUS
<1>3. /\ f \in [0 .. n -> Int] /\ f[0] = 0
      /\ \A j \in 1 .. n : f[j] = f[j - 1] + Weight(q[j])
      /\ Outstanding(q) = f[n] /\ f[n] \in Int
  BY <1>1, OutstandingIs DEF Sums
<1> HIDE DEF n
<1>4. g \in [0 .. n -> Int] /\ g[0] = 0 /\ g[n] = f[n] - 1
  BY <1>2, <1>3
<1>5. ASSUME NEW j \in 1 .. n
      PROVE  g[j] = g[j - 1] + Weight(r[j])
  <2>0. j \in 0 .. n /\ j - 1 \in 0 .. n
    BY <1>2
  <2>1. /\ j \in 0 .. n /\ j - 1 \in 0 .. n /\ f[j] = f[j - 1] + Weight(q[j])
        /\ f[j - 1] \in Int /\ Weight(q[j]) \in Int
    BY <1>3, <2>0, Weighs
  <2>2. CASE j = i
    <3>1. g[j] = f[j] - 1 /\ g[j - 1] = f[j - 1]
      BY <1>2, <2>1, <2>2
    <3>2. Weight(r[j]) = Weight(q[j]) - 1
      BY <2>2
    <3> QED
      BY <2>1, <3>1, <3>2
  <2>3. CASE j < i
    <3>1. g[j] = f[j] /\ g[j - 1] = f[j - 1] /\ r[j] = q[j]
      BY <1>2, <2>1, <2>3
    <3> QED
      BY <2>1, <3>1
  <2>4. CASE j > i
    <3>1. g[j] = f[j] - 1 /\ g[j - 1] = f[j - 1] - 1 /\ r[j] = q[j]
      BY <1>2, <2>1, <2>4
    <3> QED
      BY <2>1, <3>1
  <2> QED
    BY <1>2, <2>2, <2>3, <2>4
<1> HIDE DEF g
<1>6. Sums(r, g)
  BY <1>2, <1>4, <1>5 DEF Sums
<1>7. Outstanding(r) = g[n]
  BY <1>2, <1>6, OutstandingIs
<1> QED
  BY <1>3, <1>4, <1>7

LEMMA SumOfRest ==
  ASSUME NEW q \in Seq(Requests), NEW i \in DOMAIN q, NEW r, r = RemoveAt(q, i)
  PROVE  /\ Outstanding(r) = Outstanding(q) - Weight(q[i])
         /\ Outstanding(q) \in Int /\ r \in Seq(Requests)
<1>1. PICK f : Sums(q, f)
  BY SumExists
<1> DEFINE n == Len(q)
           w == Weight(q[i])
           g == [j \in 0 .. n - 1 |-> IF j < i THEN f[j] ELSE f[j + 1] - w]
<1>2. /\ n \in Nat /\ i \in 1 .. n /\ r \in Seq(Requests) /\ Len(r) = n - 1
      /\ \A j \in 1 .. n - 1 : r[j] = IF j < i THEN q[j] ELSE q[j + 1]
  BY Removed
<1>3. /\ f \in [0 .. n -> Int] /\ f[0] = 0
      /\ \A j \in 1 .. n : f[j] = f[j - 1] + Weight(q[j])
      /\ Outstanding(q) = f[n] /\ f[n] \in Int
  BY <1>1, OutstandingIs DEF Sums
<1>4. w \in Int /\ f[i] = f[i - 1] + w
  BY <1>2, <1>3, Weighs
<1> HIDE DEF n, w
<1>5. g \in [0 .. n - 1 -> Int] /\ g[0] = 0
  <2>1. ASSUME NEW j \in 0 .. n - 1
        PROVE  f[j] \in Int /\ f[j + 1] - w \in Int
    <3>1. j \in 0 .. n /\ j + 1 \in 0 .. n
      BY <1>2
    <3>2. f[j] \in Int /\ f[j + 1] \in Int
      BY <1>3, <3>1
    <3> QED
      BY <1>4, <3>2
  <2>2. g[0] = 0
    <3>1. 0 \in 0 .. n - 1 /\ 0 < i
      BY <1>2
    <3> QED
      BY <1>3, <3>1
  <2> QED
    BY <2>1, <2>2
<1>6. g[n - 1] = f[n] - w
  <2>1. CASE i = n
    <3>1. g[n - 1] = f[n - 1] /\ f[n - 1] \in Int
      BY <1>2, <1>3, <2>1
    <3> QED
      BY <1>4, <2>1, <3>1
  <2>2. CASE i # n
    <3>1. n - 1 \in 0 .. n - 1 /\ ~(n - 1 < i) /\ (n - 1) + 1 = n
      BY <1>2, <2>2
    <3> QED
      BY <3>1
  <2> QED
    BY <2>1, <2>2
<1>7. ASSUME NEW j \in 1 .. n - 1
      PROVE  g[j] = g[j - 1] + Weight(r[j])
  <2>1. /\ j \in 0 .. n - 1 /\ j - 1 \in 0 .. n - 1 /\ (j - 1) + 1 = j
        /\ j \in 1 .. n /\ j + 1 \in 1 .. n /\ (j + 1) - 1 = j
    BY <1>2
  <2>a. j \in 0 .. n /\ j - 1 \in 0 .. n
    BY <1>2
  <2>b. Weight(q[j]) \in Int /\ Weight(q[j + 1]) \in Int
    BY Weighs
  <2>2. /\ f[j] = f[j - 1] + Weight(q[j]) /\ f[j + 1] = f[j] + Weight(q[j + 1])
        /\ f[j - 1] \in Int /\ f[j] \in Int
        /\ Weight(q[j]) \in Int /\ Weight(q[j + 1]) \in Int
    BY <1>3, <2>1, <2>a, <2>b
  <2>3. CASE j < i
    <3>1. g[j] = f[j] /\ g[j - 1] = f[j - 1] /\ r[j] = q[j]
      BY <1>2, <2>1, <2>3
    <3> QED
      BY <2>2, <3>1
  <2>4. CASE j = i
    <3>0. ~(j < i) /\ j - 1 < i
      BY <1>2, <2>4
    <3>1. g[j] = f[j + 1] - w /\ g[j - 1] = f[j - 1] /\ r[j] = q[j + 1]
      BY <1>2, <2>1, <3>0
    <3> QED
      BY <1>4, <2>2, <2>4, <3>1
  <2>5. CASE j > i
    <3>1. g[j] = f[j + 1] - w /\ g[j - 1] = f[j] - w /\ r[j] = q[j + 1]
      BY <1>2, <2>1, <2>5
    <3> QED
      BY <1>4, <2>2, <3>1
  <2> QED
    BY <1>2, <2>3, <2>4, <2>5
<1> HIDE DEF g
<1>8. Sums(r, g)
  BY <1>2, <1>5, <1>7 DEF Sums
<1>9. Outstanding(r) = g[n - 1]
  BY <1>2, <1>8, OutstandingIs
<1> QED
  BY <1>2, <1>3, <1>6, <1>9 DEF w
-----------------------------------------------------------------------------
(* What a step makes of the sum *)

LEMMA SameWeight ==
  ASSUME NEW c, NEW d, d.op = c.op, d.reply = Null <=> c.reply = Null,
         c.op = "list" => d.had = c.had /\ d.then = c.then
  PROVE  Weight(d) = Weight(c)
<1>1. Cost(d) = Cost(c)
  BY DEF Cost
<1> QED
  BY <1>1 DEF Weight

LEMMA OrphanedWeighs ==
  ASSUME NEW q \in Seq(Requests), NEW v, NEW r, r = Orphaned(q, v)
  PROVE  r \in Seq(Requests) /\ Outstanding(r) = Outstanding(q)
<1>1. r \in Seq(Requests) /\ DOMAIN r = DOMAIN q
  BY OrphanedIs DEF Dropped
<1>2. ASSUME NEW i \in DOMAIN q
      PROVE  Weight(r[i]) = Weight(q[i])
  <2>1. q[i] \in Requests /\ DOMAIN q = 1 .. Len(q)
    OBVIOUS
  <2>2. r[i] = q[i] \/ ("live" \in DOMAIN q[i] /\ r[i] = [q[i] EXCEPT !.live = FALSE])
    BY <2>1 DEF Orphaned
  <2>3. CASE "live" \in DOMAIN q[i] /\ r[i] = [q[i] EXCEPT !.live = FALSE]
    <3>1. CASE q[i].op = "stream"
      <4>1. q[i] \in StreamRequests
        BY <2>1, <3>1, Kinds
      <4>2. r[i].op = q[i].op /\ r[i].reply = q[i].reply
        BY <2>3, <4>1 DEF StreamRequests
      <4> QED
        BY <3>1, <4>2, SameWeight
    <3>2. CASE q[i].op \in {"save", "hset", "hdel"}
      <4>1. q[i] \in ChildWrites
        BY <2>1, <3>2, Kinds
      <4>2. r[i].op = q[i].op /\ r[i].reply = q[i].reply
        BY <2>3, <4>1 DEF ChildWrites
      <4> QED
        BY <3>2, <4>2, SameWeight
    <3> QED
      BY <2>1, <2>3, <3>1, <3>2, Kinds
  <2> QED
    BY <2>2, <2>3
<1> QED
  BY <1>1, <1>2, SumOfSame

\* A list costs more when its handler may set the selection.
LEMMA ListWeighs ==
  ASSUME NEW at, at.pattern \in Patterns, NEW then \in Names \cup {Null},
         NEW s, s = LoadKeys(at, then)
  PROVE  /\ s \in Seq(Requests)
         /\ Outstanding(s) = IF at.selectedKey # Null /\ then = Null THEN 2 ELSE 8
<1> DEFINE had == at.selectedKey # Null
           c == [op |-> "list", reply |-> Null, pattern |-> at.pattern, had |-> had,
                 then |-> then]
<1>1. had \in BOOLEAN /\ (had <=> at.selectedKey # Null)
  OBVIOUS
<1>2. s = <<Request("list", [pattern |-> at.pattern, had |-> had, then |-> then])>>
  BY DEF LoadKeys
<1> HIDE DEF had
<1>3. Request("list", [pattern |-> at.pattern, had |-> had, then |-> then]) = c
  BY DEF Request, Join
<1>4. c \in ListRequests /\ c.op = "list" /\ c.reply = Null /\ c.then = then
  BY <1>1 DEF ListRequests, Unread
<1>5. c.had <=> had
  BY Zenon
<1> HIDE DEF c
<1>6. Cost(c) = IF had /\ then = Null THEN 1 ELSE 4
  BY <1>4, <1>5 DEF Cost, Refreshing
<1>7. c \in Requests /\ s = <<c>>
  BY <1>2, <1>3, <1>4 DEF Requests
<1>8. Outstanding(s) = Weight(c)
  BY <1>7, SumOfOne
<1>9. Weight(c) = IF had /\ then = Null THEN 2 ELSE 8
  BY <1>4, <1>6 DEF Weight
<1> QED
  BY <1>1, <1>7, <1>8, <1>9

LEMMA DetailWeighs ==
  ASSUME NEW k \in Names, NEW op \in {"detail", "refresh"},
         NEW s, s = <<Request(op, [key |-> k])>>
  PROVE  s \in Seq(Requests) /\ Outstanding(s) = 4
<1> DEFINE c == [op |-> op, reply |-> Null, key |-> k]
<1>1. Request(op, [key |-> k]) = c
  BY DEF Request, Join
<1>2. c \in DetailRequests /\ c.op = op /\ c.reply = Null
  BY DEF DetailRequests, Unread
<1> HIDE DEF c
<1>3. c \in Requests /\ s = <<c>>
  BY <1>1, <1>2 DEF Requests
<1>4. Weight(c) = 4
  BY <1>2 DEF Weight, Cost, Refreshing
<1> QED
  BY <1>3, <1>4, SumOfOne

LEMMA StreamWeighs ==
  ASSUME NEW v, v.child.kind = "stream" => v.keyDetail \in Details,
         NEW s, s = DetailCalls(v)
  PROVE  s \in Seq(Requests) /\ Outstanding(s) \in 0 .. 2
<1>1. CASE v.child.kind = "stream"
  <2> DEFINE k == v.keyDetail.name
             c == [op |-> "stream", reply |-> Null, key |-> k, live |-> TRUE]
  <2>0. \A y : Request("stream", [key |-> k, live |-> y])
                 = [op |-> "stream", reply |-> Null, key |-> k, live |-> y]
    BY DEF Request, Join
  <2>1. s = <<c>>
    BY <1>1, <2>0 DEF DetailCalls
  <2>2. k \in Names
    BY <1>1 DEF Details
  <2> HIDE DEF k
  <2>3. c \in StreamRequests /\ c.op = "stream" /\ c.reply = Null
    BY <2>2 DEF StreamRequests, Unread
  <2> HIDE DEF c
  <2>4. c \in Requests
    BY <2>3 DEF Requests
  <2>5. Weight(c) = 2
    BY <2>3 DEF Weight, Cost, Refreshing
  <2> QED
    BY <2>1, <2>4, <2>5, SumOfOne
<1>2. CASE v.child.kind # "stream"
  BY <1>2, SumOfNone DEF DetailCalls
<1> QED
  BY <1>1, <1>2

\* A selection that moves to a key costs less than the list that moves it;
\* one that is lost makes a list that may set it again.
LEMMA SelectWeighs ==
  ASSUME NEW v \in View, NEW k \in Names \cup {Null}, NEW s, s = SelectCalls(v, k)
  PROVE  /\ s \in Seq(Requests) /\ Outstanding(s) \in 0 .. 8
         /\ k = v.selectedKey => Outstanding(s) = 0
         /\ k # Null => Outstanding(s) \in 0 .. 6
<1>1. CASE k = v.selectedKey
  BY <1>1, SumOfNone DEF SelectCalls
<1>2. CASE k # v.selectedKey
  <2> DEFINE at == [pattern |-> v.pattern, selectedKey |-> k]
             a == LoadKeys(at, Null)
             b == IF k = Null THEN <<>> ELSE <<Request("detail", [key |-> k])>>
  <2>1. s = a \o b
    BY <1>2 DEF SelectCalls
  <2>2. at.pattern \in Patterns /\ at.selectedKey = k
    BY DEF View
  <2> HIDE DEF at
  <2>3. /\ a \in Seq(Requests)
        /\ Outstanding(a) = IF k # Null THEN 2 ELSE 8
    BY <2>2, ListWeighs
  <2>4. /\ b \in Seq(Requests)
        /\ Outstanding(b) = IF k # Null THEN 4 ELSE 0
    <3>1. CASE k = Null
      BY <3>1, SumOfNone
    <3>2. CASE k # Null
      <4>1. b = <<Request("detail", [key |-> k])>>
        BY <3>2
      <4> HIDE DEF b
      <4> QED
        BY <3>2, <4>1, DetailWeighs
    <3> QED
      BY <3>1, <3>2
  <2> HIDE DEF a, b
  <2>5. s \in Seq(Requests)
    BY <2>1, <2>3, <2>4
  <2>6. Outstanding(s) = Outstanding(a) + Outstanding(b)
    BY <2>1, <2>3, <2>4, SumOfBoth
  <2> QED
    BY <1>2, <2>3, <2>4, <2>5, <2>6
<1> QED
  BY <1>1, <1>2
\* The kinds of requests and what they cost.
LEMMA Costs ==
  ASSUME NEW c
  PROVE  /\ c.op \in {"info", "stream"} => Cost(c) = 1
         /\ c.op \in {"detail", "refresh"} => Cost(c) = 2
         /\ c.op = "list" => Cost(c) = IF c.had /\ c.then = Null THEN 1 ELSE 4
         /\ c.op \in Refreshing => Cost(c) = 3
         /\ c.op \in {"create", "deletePattern"} => Cost(c) = 5
         /\ c.op = "delete" => Cost(c) = 9
<1> USE DEF Cost, Refreshing
<1>1. c.op \in {"info", "stream"} => Cost(c) = 1
  OBVIOUS
<1>2. c.op \in {"detail", "refresh"} => Cost(c) = 2
  OBVIOUS
<1>3. c.op = "list" => Cost(c) = IF c.had /\ c.then = Null THEN 1 ELSE 4
  OBVIOUS
<1>4. c.op \in Refreshing => Cost(c) = 3
  OBVIOUS
<1>5. c.op \in {"create", "deletePattern"} => Cost(c) = 5
  OBVIOUS
<1>6. c.op = "delete" => Cost(c) = 9
  OBVIOUS
<1> QED
  BY <1>1, <1>2, <1>3, <1>4, <1>5, <1>6

Less == Outstanding(calls') < Outstanding(calls)

\* An answer leaves less to come if what its handler sends weighs less than it.
LEMMA AnswerWeighs ==
  ASSUME calls \in Seq(Requests), NEW i \in DOMAIN calls, NEW v, NEW s, Answer(i, v, s),
         calls[i].reply # Null, s \in Seq(Requests),
         Outstanding(s) < 2 * Cost(calls[i]) - 1
  PROVE  Less
<1> DEFINE rest == RemoveAt(calls, i)
           left == Orphaned(rest, v)
           w == Weight(calls[i])
<1>1. calls' = left \o s
  BY DEF Answer, Land
<1>2. /\ rest \in Seq(Requests) /\ Outstanding(calls) \in Int
      /\ Outstanding(rest) = Outstanding(calls) - w
  BY SumOfRest
<1>3. w = 2 * Cost(calls[i]) - 1 /\ w \in Int
  BY Weighs DEF Weight
<1> HIDE DEF rest, w
<1>4. left \in Seq(Requests) /\ Outstanding(left) = Outstanding(rest)
  BY <1>2, OrphanedWeighs
<1> HIDE DEF left
<1>5. /\ Outstanding(left \o s) = Outstanding(left) + Outstanding(s)
      /\ Outstanding(s) \in Int
  BY <1>4, SumOfBoth
<1> QED
  BY <1>1, <1>2, <1>3, <1>4, <1>5 DEF Less

LEMMA QuietAnswer ==
  ASSUME calls \in Seq(Requests), NEW i \in DOMAIN calls, NEW v, Answer(i, v, <<>>),
         calls[i].reply # Null
  PROVE  Less
<1>1. Outstanding(<<>>) = 0 /\ <<>> \in Seq(Requests)
  BY SumOfNone
<1>2. Cost(calls[i]) \in 1 .. 9
  BY Weighs
<1>3. 0 < 2 * Cost(calls[i]) - 1
  BY <1>2
<1> DEFINE s == <<>>
<1>4. s \in Seq(Requests) /\ Answer(i, v, s) /\ Outstanding(s) < 2 * Cost(calls[i]) - 1
  BY <1>1, <1>3
<1> HIDE DEF s
<1> QED
  BY <1>4, AnswerWeighs

LEMMA ServeLess ==
  ASSUME BrowserInv, Serve
  PROVE  Less
<1>1. calls \in Seq(Requests) /\ db \in [Names -> Types \cup {Absent}]
  BY Here DEF BrowserInv, ServerTyped
<1>2. PICK i \in DOMAIN calls :
        /\ calls[i].reply = Null
        /\ calls' = [calls EXCEPT ![i].reply =
                       IF Accepted(calls[i]) THEN ReplyTo(calls[i]) ELSE Failed]
  BY DEF Serve, Unserved
<1> DEFINE c == calls[i]
           x == IF Accepted(c) THEN ReplyTo(c) ELSE Failed
           d == [c EXCEPT !.reply = x]
           r == [calls EXCEPT ![i] = d]
<1>3. c \in Requests /\ c.reply = Null
  BY <1>1, <1>2
<1>4. x = Failed \/ (Accepted(c) /\ x = ReplyTo(c))
  OBVIOUS
<1>5. calls' = r /\ d = [c EXCEPT !.reply = x]
  BY <1>2
<1> HIDE DEF x
<1>6. Replied(c, d)
  <2> HIDE DEF c, d
  <2> QED
    BY <1>1, <1>3, <1>4, <1>5, RepliedIs
<1>7. d.reply # Null
  <2>1. d.reply = x
    <3>1. "reply" \in DOMAIN c
      BY <1>3 DEF Requests, InfoRequests, ListRequests, DetailRequests,
         StreamRequests, WriteRequests, ChildWrites
    <3> QED
      BY <3>1
  <2>2. x # Null
    <3>1. CASE x = Failed
      BY <3>1, ApiAssumption
    <3>2. CASE Accepted(c) /\ x = ReplyTo(c)
      <4>1. CASE c.op = "list"
        <5> DEFINE S == {n \in c.pattern : db[n] # Absent}
        <5>1. x = [k \in S |-> db[k]]
          BY <3>2, <4>1 DEF ReplyTo
        <5>2. c \in ListRequests
          BY <1>3, <4>1, Kinds
        <5>3. S \in SUBSET Names
          BY <5>2, BrowserAssumption DEF ListRequests
        <5>4. \A k \in S : db[k] \in Types
          BY <1>1, <5>3
        <5> HIDE DEF S
        <5>5. x \in [S -> Types]
          BY <5>1, <5>4
        <5> QED
          BY <5>3, <5>5, BrowserAssumption
      <4>2. CASE c.op \in {"detail", "refresh"}
        <5>1. c \in DetailRequests
          BY <1>3, <4>2, Kinds
        <5>2. c.key \in Names
          BY <5>1 DEF DetailRequests
        <5>3. db[c.key] \in Types
          BY <1>1, <3>2, <4>2, <5>2 DEF Accepted
        <5>4. x = [name |-> c.key, type |-> db[c.key]]
          BY <3>2, <4>2 DEF ReplyTo
        <5>5. x \in [name : Names, type : Types]
          BY <5>2, <5>3, <5>4
        <5> QED
          BY <5>5, BrowserAssumption
      <4>3. CASE c.op = "stream"
        <5>1. c \in StreamRequests
          BY <1>3, <4>3, Kinds
        <5>2. x = c.key /\ c.key \in Names
          BY <3>2, <4>3, <5>1 DEF ReplyTo, StreamRequests
        <5> QED
          BY <5>2, BrowserAssumption
      <4>4. CASE c.op \notin {"list", "detail", "refresh", "stream"}
        BY <3>2, <4>4, BrowserAssumption DEF ReplyTo
      <4> QED
        BY <4>1, <4>2, <4>3, <4>4
    <3> QED
      BY <1>4, <3>1, <3>2
  <2> QED
    BY <2>1, <2>2
<1>8. d.op = c.op /\ (c.op = "list" => d.had = c.had /\ d.then = c.then)
  <2>1. d.op = c.op
    BY <1>6 DEF Replied
  <2>2. ASSUME c.op = "list"
        PROVE  d.had = c.had /\ d.then = c.then
    <3>1. c \in ListRequests
      BY <1>3, <2>2, Kinds
    <3> QED
      BY <3>1 DEF ListRequests
  <2> QED
    BY <2>1, <2>2
<1>9. Weight(d) = Weight(c) - 1
  <2>1. Cost(d) = Cost(c) /\ Cost(c) \in 1 .. 9
    <3>1. Cost(d) = Cost(c)
      BY <1>8 DEF Cost
    <3> QED
      BY <3>1, Weighs
  <2> HIDE DEF d, c
  <2> QED
    BY <1>3, <1>7, <2>1 DEF Weight
<1>10. /\ DOMAIN r = DOMAIN calls /\ r[i] = d
       /\ \A j \in DOMAIN calls : j # i => r[j] = calls[j]
  BY <1>1
<1>11. r \in Seq(Requests)
  <2>1. calls \in [1 .. Len(calls) -> Requests] /\ Len(calls) \in Nat
    BY <1>1
  <2>2. d \in Requests
    BY <1>6 DEF Replied
  <2> HIDE DEF d
  <2>3. r \in [1 .. Len(calls) -> Requests]
    BY <2>1, <2>2
  <2> QED
    BY <2>1, <2>3
<1> HIDE DEF r, d
<1>12. Weight(r[i]) = Weight(calls[i]) - 1
  BY <1>9, <1>10
<1>13. Outstanding(r) = Outstanding(calls) - 1 /\ Outstanding(calls) \in Int
  BY <1>1, <1>10, <1>11, <1>12, SumOfServed
<1> QED
  BY <1>5, <1>13 DEF Less
LEMMA ListLess ==
  ASSUME BrowserInv, OnList
  PROVE  Less
<1>1. view \in View /\ calls \in Seq(Requests)
  BY Here
<1>2. PICK i \in DOMAIN calls : Answered(i, "list") /\
        LET c == calls[i]
            done == [view EXCEPT !.loading = FALSE]
            listed == IF Succeeded(i)
                      THEN [done EXCEPT !.keys = c.reply, !.listedFor = c.pattern]
                      ELSE done
        IN \E k \in Chosen(c) : Answer(i, Select(listed, k), SelectCalls(listed, k))
  BY DEF OnList
<1> DEFINE c == calls[i]
           done == [view EXCEPT !.loading = FALSE]
           listed == IF Succeeded(i)
                     THEN [done EXCEPT !.keys = c.reply, !.listedFor = c.pattern]
                     ELSE done
           s(k) == SelectCalls(listed, k)
<1>3. PICK k \in Chosen(c) : Answer(i, Select(listed, k), s(k))
  BY <1>2
<1>4. /\ c.op = "list" /\ c.reply # Null /\ c \in ListRequests
      /\ Succeeded(i) => c.reply \in Listings
  <2>1. c.op = "list" /\ c.reply # Null /\ c \in Requests
    BY <1>1, <1>2 DEF Answered, Unserved
  <2>2. c \in ListRequests
    BY <2>1, Kinds
  <2> QED
    BY <2>1, <2>2 DEF ListRequests, Unread, Succeeded
<1>5. listed \in View /\ listed.selectedKey = view.selectedKey
  <2>1. CASE Succeeded(i)
    <3>1. c.reply \in Listings /\ c.pattern \in Patterns
      BY <1>4, <2>1 DEF ListRequests
    <3>2. listed = [view EXCEPT !.loading = FALSE, !.keys = c.reply,
                                !.listedFor = c.pattern]
      BY <1>1, <2>1 DEF View
    <3> HIDE DEF listed
    <3> QED
      BY <1>1, <3>1, <3>2 DEF View
  <2>2. CASE ~Succeeded(i)
    BY <1>1, <2>2 DEF View
  <2> QED
    BY <2>1, <2>2
<1> HIDE DEF listed
<1>6. /\ k \in Names \cup {Null}
      /\ (c.then # Null /\ k # Null) \/ (~c.had /\ k # Null) \/ k = listed.selectedKey
  <2>1. c.reply # Failed => c.reply \in Listings
    BY <1>4 DEF Succeeded
  <2>2. c.reply # Failed => DOMAIN c.reply \subseteq Names
    BY <2>1 DEF Listings
  <2>3. c.then \in Names \cup {Null} /\ view.selectedKey \in Names \cup {Null}
    BY <1>1, <1>4 DEF View, ListRequests
  <2>4. Null \notin Names
    BY BrowserAssumption
  <2> QED
    BY <1>3, <1>5, <2>2, <2>3, <2>4 DEF Chosen
<1>7. /\ s(k) \in Seq(Requests) /\ Outstanding(s(k)) \in 0 .. 8
      /\ k = listed.selectedKey => Outstanding(s(k)) = 0
      /\ k # Null => Outstanding(s(k)) \in 0 .. 6
  BY <1>5, <1>6, SelectWeighs
<1> HIDE DEF s
<1>8. Cost(c) = IF c.had /\ c.then = Null THEN 1 ELSE 4
  BY <1>4, Costs
<1>9. Outstanding(s(k)) < 2 * Cost(c) - 1
  <2>1. CASE k = listed.selectedKey
    BY <1>7, <1>8, <2>1
  <2>2. CASE k # Null /\ (c.then # Null \/ ~c.had)
    <3>1. Cost(c) = 4
      BY <1>8, <2>2
    <3> QED
      BY <1>7, <2>2, <3>1
  <2> QED
    BY <1>6, <2>1, <2>2
<1> QED
  BY <1>1, <1>3, <1>4, <1>7, <1>9, AnswerWeighs

LEMMA ShownDetail ==
  ASSUME NEW u \in View, NEW d \in Details \cup {Null}, NEW v, v = ShowDetail(u, d)
  PROVE  v.child.kind = "stream" => v.keyDetail \in Details
<1>1. v.keyDetail = d /\ (v.child.kind = "stream" => d # Null)
  BY DEF ShowDetail, View, PaneShown, NoChild
<1> QED
  BY <1>1

LEMMA DetailLess ==
  ASSUME BrowserInv, OnDetail
  PROVE  Less
<1>1. view \in View /\ calls \in Seq(Requests)
  BY Here
<1>2. PICK i \in DOMAIN calls : Answered(i, "detail") /\
        LET w == ShowDetail([view EXCEPT !.detailLoading = FALSE], Loaded(calls[i]))
        IN Answer(i, w, DetailCalls(w))
  BY DEF OnDetail
<1> DEFINE u == [view EXCEPT !.detailLoading = FALSE]
           d == Loaded(calls[i])
           v == ShowDetail(u, d)
           s == DetailCalls(v)
<1>3. Answer(i, v, s) /\ v = ShowDetail(u, d) /\ s = DetailCalls(v)
  BY <1>2
<1>4. calls[i].op = "detail" /\ calls[i].reply # Null /\ calls[i] \in DetailRequests
  <2>1. calls[i].op = "detail" /\ calls[i].reply # Null /\ calls[i] \in Requests
    BY <1>1, <1>2 DEF Answered, Unserved
  <2> QED
    BY <2>1, Kinds
<1>5. d \in Details \cup {Null}
  BY <1>4 DEF Loaded, DetailRequests, Unread
<1>6. u \in View
  BY <1>1 DEF View
<1> HIDE DEF s, v, u, d
<1>7. v.child.kind = "stream" => v.keyDetail \in Details
  BY <1>3, <1>5, <1>6, ShownDetail
<1>8. s \in Seq(Requests) /\ Outstanding(s) \in 0 .. 2
  BY <1>3, <1>7, StreamWeighs
<1>9. Cost(calls[i]) = 2
  BY <1>4, Costs
<1> QED
  BY <1>1, <1>3, <1>4, <1>8, <1>9, AnswerWeighs

LEMMA RefreshLess ==
  ASSUME BrowserInv, OnRefresh
  PROVE  Less
<1>1. view \in View /\ calls \in Seq(Requests)
  BY Here
<1>2. PICK i \in DOMAIN calls : Answered(i, "refresh") /\
        LET w == ShowDetail(view, calls[i].reply)
        IN IF Succeeded(i) THEN Answer(i, w, DetailCalls(w)) ELSE Answer(i, view, <<>>)
  BY DEF OnRefresh
<1>3. calls[i].op = "refresh" /\ calls[i].reply # Null /\ calls[i] \in DetailRequests
  <2>1. calls[i].op = "refresh" /\ calls[i].reply # Null /\ calls[i] \in Requests
    BY <1>1, <1>2 DEF Answered, Unserved
  <2> QED
    BY <2>1, Kinds
<1>4. CASE Succeeded(i)
  <2> DEFINE d == calls[i].reply
             v == ShowDetail(view, d)
             s == DetailCalls(v)
  <2>1. Answer(i, v, s) /\ v = ShowDetail(view, d) /\ s = DetailCalls(v)
    BY <1>2, <1>4
  <2>2. d \in Details \cup {Null}
    BY <1>3, <1>4 DEF DetailRequests, Unread, Succeeded
  <2> HIDE DEF v, s, d
  <2>3. v.child.kind = "stream" => v.keyDetail \in Details
    BY <1>1, <2>1, <2>2, ShownDetail
  <2>4. s \in Seq(Requests) /\ Outstanding(s) \in 0 .. 2
    BY <2>1, <2>3, StreamWeighs
  <2>5. Cost(calls[i]) = 2
    BY <1>3, Costs
  <2> QED
    BY <1>1, <1>3, <2>1, <2>4, <2>5, AnswerWeighs
<1>5. CASE ~Succeeded(i)
  BY <1>1, <1>2, <1>3, <1>5, QuietAnswer
<1> QED
  BY <1>4, <1>5

LEMMA WriteLess ==
  ASSUME BrowserInv, OnWrite
  PROVE  Less
<1>1. view \in View /\ calls \in Seq(Requests)
  BY Here
<1>2. PICK i \in DOMAIN calls :
        /\ ~Unserved(i) /\ calls[i].op \in Refreshing
        /\ Answer(i, AfterWrite(calls[i], Succeeded(i)),
                  IF Succeeded(i) THEN RefreshCalls(calls[i].at) ELSE <<>>)
  BY DEF OnWrite
<1> DEFINE c == calls[i]
           v == AfterWrite(c, Succeeded(i))
           s == IF Succeeded(i) THEN RefreshCalls(c.at) ELSE <<>>
<1>3. Answer(i, v, s) /\ c.op \in Refreshing /\ c.reply # Null
  BY <1>2 DEF Unserved
<1>4. c \in WriteRequests \cup ChildWrites
  <2>1. c \in Requests
    BY <1>1
  <2> QED
    BY <1>3, <2>1, Kinds DEF Refreshing
<1>5. c.at.selectedKey \in Names \cup {Null}
  BY <1>4 DEF WriteRequests, ChildWrites, Closures
<1>6. s \in Seq(Requests) /\ Outstanding(s) \in 0 .. 4
  <2>1. CASE Succeeded(i) /\ c.at.selectedKey # Null
    <3> DEFINE k == c.at.selectedKey
    <3>1. s = <<Request("refresh", [key |-> k])>>
      BY <2>1 DEF RefreshCalls
    <3>2. k \in Names
      BY <1>5, <2>1
    <3> HIDE DEF s, k
    <3> QED
      BY <3>1, <3>2, DetailWeighs
  <2>2. CASE ~(Succeeded(i) /\ c.at.selectedKey # Null)
    <3>1. s = <<>>
      BY <2>2 DEF RefreshCalls
    <3> HIDE DEF s
    <3> QED
      BY <3>1, SumOfNone
  <2> QED
    BY <2>1, <2>2
<1> HIDE DEF v, s
<1>7. Cost(c) = 3
  BY <1>3, Costs
<1> QED
  BY <1>1, <1>3, <1>6, <1>7, AnswerWeighs

LEMMA PageWriteLess ==
  ASSUME BrowserInv, OnPageWrite
  PROVE  Less
<1>1. view \in View /\ calls \in Seq(Requests)
  BY Here
<1>2. PICK i \in DOMAIN calls, op \in {"create", "deletePattern"} :
        /\ Answered(i, op)
        /\ LET form == [create |-> "showCreateModal",
                        deletePattern |-> "showDeletePatternModal"]
               w == Loading([view EXCEPT !.open = @ \ {form[op]}])
           IN IF Succeeded(i)
              THEN Answer(i, w, LoadKeys(calls[i].at, calls[i].key))
              ELSE Answer(i, view, <<>>)
  BY DEF OnPageWrite
<1> DEFINE c == calls[i]
           s == LoadKeys(c.at, c.key)
<1>3. c.op = op /\ c \in WriteRequests /\ c.reply # Null
  <2>1. c.op = op /\ c \in Requests /\ c.reply # Null
    BY <1>1, <1>2 DEF Answered, Unserved
  <2> QED
    BY <2>1, Kinds
<1>4. c.at.pattern \in Patterns /\ c.key \in Names \cup {Null}
  BY <1>3 DEF WriteRequests, Closures
<1>5. CASE Succeeded(i)
  <2>1. PICK v : Answer(i, v, s)
    BY <1>2, <1>5
  <2>2. s \in Seq(Requests) /\ Outstanding(s) \in {2, 8}
    BY <1>4, ListWeighs
  <2>3. Cost(c) = 5
    BY <1>3, Costs
  <2> HIDE DEF s
  <2>4. Outstanding(s) < 2 * Cost(c) - 1
    BY <2>2, <2>3
  <2> QED
    BY <1>1, <1>3, <2>1, <2>2, <2>4, AnswerWeighs
<1>6. CASE ~Succeeded(i)
  BY <1>1, <1>2, <1>3, <1>6, QuietAnswer
<1> QED
  BY <1>5, <1>6

LEMMA DeleteLess ==
  ASSUME BrowserInv, OnDelete
  PROVE  Less
<1>1. view \in View /\ calls \in Seq(Requests)
  BY Here
<1>2. PICK i \in DOMAIN calls :
        /\ Answered(i, "delete")
        /\ IF Succeeded(i)
           THEN Answer(i, Loading(Select(view, Null)),
                       LoadKeys(calls[i].at, Null) \o SelectCalls(view, Null))
           ELSE Answer(i, view, <<>>)
  BY DEF OnDelete
<1> DEFINE c == calls[i]
           a == LoadKeys(c.at, Null)
           b == SelectCalls(view, Null)
           s == a \o b
<1>3. c.op = "delete" /\ c \in WriteRequests /\ c.reply # Null
  <2>1. c.op = "delete" /\ c \in Requests /\ c.reply # Null
    BY <1>1, <1>2 DEF Answered, Unserved
  <2> QED
    BY <2>1, Kinds
<1>4. c.at.pattern \in Patterns
  BY <1>3 DEF WriteRequests, Closures
<1>5. CASE Succeeded(i)
  <2>1. PICK v : Answer(i, v, s)
    BY <1>2, <1>5
  <2>2. a \in Seq(Requests) /\ Outstanding(a) \in {2, 8}
    BY <1>4, ListWeighs
  <2>3. b \in Seq(Requests) /\ Outstanding(b) \in 0 .. 8
    BY <1>1, SelectWeighs
  <2>4. s = a \o b
    OBVIOUS
  <2> HIDE DEF a, b, s
  <2>5. s \in Seq(Requests) /\ Outstanding(s) = Outstanding(a) + Outstanding(b)
    BY <2>2, <2>3, <2>4, SumOfBoth
  <2>6. Cost(c) = 9
    BY <1>3, Costs
  <2>7. Outstanding(s) < 2 * Cost(c) - 1
    BY <2>2, <2>3, <2>5, <2>6
  <2> QED
    BY <1>1, <1>3, <2>1, <2>5, <2>7, AnswerWeighs
<1>6. CASE ~Succeeded(i)
  BY <1>1, <1>2, <1>3, <1>6, QuietAnswer
<1> QED
  BY <1>5, <1>6

LEMMA RestLess ==
  ASSUME BrowserInv, OnStream \/ OnInfo
  PROVE  Less
<1>1. calls \in Seq(Requests)
  BY Here
<1>2. \E i \in DOMAIN calls : \E v : Answer(i, v, <<>>) /\ calls[i].reply # Null
  BY DEF OnStream, OnInfo, Answered, Unserved
<1> QED
  BY <1>1, <1>2, QuietAnswer

LEMMA StepLess ==
  ASSUME BrowserInv, BrowserNext, acts' = acts
  PROVE  Less
<1>1. acts \in Nat
  BY ApiAssumption DEF BrowserInv, ServerTyped
<1>2. ~UserActs /\ ~Act
  BY <1>1 DEF UserActs, Act
<1>3. ~(\/ SetPattern \/ Reload \/ SetTypeFilter \/ ToggleViewMode \/ ToggleFolder
        \/ SelectKey \/ OpenForm \/ CancelForm)
  BY <1>2 DEF SetPattern, Reload, SetTypeFilter, ToggleViewMode, ToggleFolder,
     SelectKey, OpenForm, CancelForm, UserStep
<1>4. ~(\/ SubmitCreate \/ SubmitDeletePattern \/ SubmitTTL \/ SubmitDuplicate
        \/ DeleteKey \/ TypeText \/ SetStringMode \/ SaveString \/ SaveField
        \/ DeleteField)
  BY <1>2 DEF SubmitCreate, SubmitDeletePattern, SubmitTTL, SubmitDuplicate,
     DeleteKey, TypeText, SetStringMode, SaveString, SaveField, DeleteField, UserStep
<1>5. ~OtherClient /\ ~Lose
  BY <1>2 DEF OtherClient, Lose
<1>6. \/ Serve \/ OnList \/ OnDetail \/ OnRefresh \/ OnStream \/ OnWrite
      \/ OnPageWrite \/ OnDelete \/ OnInfo
  BY <1>3, <1>4, <1>5 DEF BrowserNext
<1> QED
  BY <1>6, ServeLess, ListLess, DetailLess, RefreshLess, RestLess, WriteLess,
     PageWriteLess, DeleteLess

\* Unless the user, another client or a failure acts, every step leaves less
\* to come, for any number of requests in flight: the effects that load what
\* the loads set (KeyExplorer.tsx, KeyDetailView.tsx) come to an end.
THEOREM AnswersRunOutCorrect == BrowserSpec => AnswersRunOut
<1>1. BrowserInv /\ [BrowserNext]_allVars
        => [acts' = acts => Outstanding(calls') < Outstanding(calls)]_allVars
  BY StepLess DEF Less
<1> QED
  BY <1>1, BrowserInvariant, PTL DEF BrowserSpec, AnswersRunOut
=============================================================================
