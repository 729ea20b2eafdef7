---------------------------- MODULE RequestProofs ----------------------------
(***************************************************************************)
(* Facts about requests in flight that the proofs about the browser share. *)
(* An answer takes one request away and leaves the others in their order;  *)
(* what a handler sends comes last.  There may be at most one request of a *)
(* kind (Single), and the youngest of a kind may be known (EndsIn).        *)
(***************************************************************************)
EXTENDS ApiClient, WellFoundedInduction, FiniteSetTheorems, SequenceTheorems, TLAPS

-----------------------------------------------------------------------------
(* Requests in flight *)

\* There is at most one request of this kind.
Single(q, op) ==
  \A i, j \in DOMAIN q : q[i].op = op /\ q[j].op = op => i = j

\* The youngest request of this kind, if there is one, is among those in G.
EndsIn(q, op, G) ==
  \A i \in DOMAIN q :
    q[i].op = op /\ (\A j \in DOMAIN q : q[j].op = op => j <= i) => q[i] \in G

LEMMA Removed ==
  ASSUME NEW S, NEW q \in Seq(S), NEW i \in DOMAIN q
  PROVE  /\ RemoveAt(q, i) \in Seq(S)
         /\ Len(RemoveAt(q, i)) = Len(q) - 1
         /\ \A j \in 1 .. Len(q) - 1 :
              /\ j < i => RemoveAt(q, i)[j] = q[j]
              /\ j >= i => RemoveAt(q, i)[j] = q[j + 1]
<1> DEFINE a == SubSeq(q, 1, i - 1)
           b == SubSeq(q, i + 1, Len(q))
<1>1. /\ Len(q) \in Nat /\ i \in Nat /\ 1 <= i /\ i <= Len(q)
      /\ \A k \in 1 .. Len(q) : q[k] \in S
  OBVIOUS
<1>2. /\ a \in Seq(S) /\ Len(a) = i - 1
      /\ \A k \in 1 .. i - 1 : a[k] = q[k]
  BY <1>1
<1>3. /\ b \in Seq(S) /\ Len(b) = Len(q) - i
      /\ \A k \in 1 .. Len(q) - i : b[k] = q[k + i]
  BY <1>1
<1>4. RemoveAt(q, i) = a \o b
  BY DEF RemoveAt
<1> HIDE DEF a, b
<1>5. /\ a \o b \in Seq(S) /\ Len(a \o b) = Len(q) - 1
      /\ \A j \in 1 .. Len(q) - 1 :
           (a \o b)[j] = IF j <= Len(a) THEN a[j] ELSE b[j - Len(a)]
  <2>1. /\ a \o b \in Seq(S) /\ Len(a \o b) = Len(a) + Len(b)
        /\ \A j \in 1 .. Len(a) + Len(b) :
             (a \o b)[j] = IF j <= Len(a) THEN a[j] ELSE b[j - Len(a)]
    BY <1>2, <1>3
  <2>2. Len(a) + Len(b) = Len(q) - 1
    BY <1>1, <1>2, <1>3
  <2> QED
    BY <2>1, <2>2
<1>6. ASSUME NEW j \in 1 .. Len(q) - 1
      PROVE  /\ j < i => (a \o b)[j] = q[j]
             /\ j >= i => (a \o b)[j] = q[j + 1]
  <2>1. CASE j < i
    BY <1>1, <1>2, <1>5, <2>1
  <2>2. CASE j >= i
    <3>1. j - (i - 1) \in 1 .. Len(q) - i /\ j - (i - 1) + i = j + 1
      BY <1>1, <2>2
    <3>2. (a \o b)[j] = b[j - (i - 1)]
      BY <1>1, <1>2, <1>5, <2>2
    <3> QED
      BY <1>1, <1>3, <2>2, <3>1, <3>2
  <2> QED
    BY <1>1, <2>1, <2>2
<1> QED
  BY <1>4, <1>5, <1>6

\* Every place of the rest is one of the whole; the others stay in order.
LEMMA RestOf ==
  ASSUME NEW S, NEW q \in Seq(S), NEW i \in DOMAIN q, NEW rest,
         rest = RemoveAt(q, i)
  PROVE  /\ rest \in Seq(S)
         /\ DOMAIN q = 1 .. Len(q) /\ Len(q) \in Nat
         /\ DOMAIN rest = 1 .. Len(q) - 1
         /\ \A j \in DOMAIN rest :
              /\ j < i => j \in DOMAIN q /\ rest[j] = q[j]
              /\ j >= i => j + 1 \in DOMAIN q /\ rest[j] = q[j + 1]
         /\ \A j \in DOMAIN q :
              /\ j < i => j \in DOMAIN rest /\ rest[j] = q[j]
              /\ j > i => j - 1 \in DOMAIN rest /\ rest[j - 1] = q[j]
<1>1. /\ rest \in Seq(S) /\ Len(rest) = Len(q) - 1
      /\ \A j \in 1 .. Len(q) - 1 :
           /\ j < i => rest[j] = q[j]
           /\ j >= i => rest[j] = q[j + 1]
  BY Removed
<1>2. /\ DOMAIN q = 1 .. Len(q) /\ Len(q) \in Nat /\ i \in 1 .. Len(q)
      /\ DOMAIN rest = 1 .. Len(q) - 1
  BY <1>1
<1>3. ASSUME NEW j \in DOMAIN rest
      PROVE  /\ j < i => j \in DOMAIN q /\ rest[j] = q[j]
             /\ j >= i => j + 1 \in DOMAIN q /\ rest[j] = q[j + 1]
  BY <1>1, <1>2
<1>4. ASSUME NEW j \in DOMAIN q
      PROVE  /\ j < i => j \in DOMAIN rest /\ rest[j] = q[j]
             /\ j > i => j - 1 \in DOMAIN rest /\ rest[j - 1] = q[j]
  <2>1. CASE j < i
    BY <1>1, <1>2, <2>1
  <2>2. CASE j > i
    <3>1. j - 1 \in 1 .. Len(q) - 1 /\ j - 1 >= i /\ (j - 1) + 1 = j
      BY <1>2, <2>2
    <3> QED
      BY <1>1, <1>2, <2>2, <3>1
  <2> QED
    BY <1>2, <2>1, <2>2
<1> QED
  BY <1>1, <1>2, <1>3, <1>4

\* The place in the whole of place j of what is left without place i.
Skip(i, j) == IF j < i THEN j ELSE j + 1

\* The sequence rest is q without place i.
Without(rest, q, i) ==
  /\ DOMAIN q = 1 .. Len(q) /\ Len(q) \in Nat
  /\ DOMAIN rest = 1 .. Len(q) - 1
  /\ \A j \in DOMAIN rest :
       Skip(i, j) \in DOMAIN q /\ Skip(i, j) # i /\ rest[j] = q[Skip(i, j)]
  /\ \A j, k \in DOMAIN rest : j < k <=> Skip(i, j) < Skip(i, k)
  /\ \A n \in DOMAIN q : n # i => \E j \in DOMAIN rest : Skip(i, j) = n

LEMMA Skipping ==
  ASSUME NEW S, NEW q \in Seq(S), NEW i \in DOMAIN q, NEW rest,
         rest = RemoveAt(q, i)
  PROVE  rest \in Seq(S) /\ Without(rest, q, i)
<1>1. /\ rest \in Seq(S)
      /\ DOMAIN q = 1 .. Len(q) /\ Len(q) \in Nat
      /\ DOMAIN rest = 1 .. Len(q) - 1
      /\ \A j \in DOMAIN rest :
           /\ j < i => j \in DOMAIN q /\ rest[j] = q[j]
           /\ j >= i => j + 1 \in DOMAIN q /\ rest[j] = q[j + 1]
      /\ \A j \in DOMAIN q :
           /\ j < i => j \in DOMAIN rest /\ rest[j] = q[j]
           /\ j > i => j - 1 \in DOMAIN rest /\ rest[j - 1] = q[j]
  BY RestOf
<1>2. i \in Nat
  BY <1>1
<1>3. ASSUME NEW j \in DOMAIN rest
      PROVE  /\ Skip(i, j) \in DOMAIN q /\ Skip(i, j) # i
             /\ rest[j] = q[Skip(i, j)]
  BY <1>1, <1>2 DEF Skip
<1>4. ASSUME NEW j \in DOMAIN rest, NEW k \in DOMAIN rest
      PROVE  j < k <=> Skip(i, j) < Skip(i, k)
  BY <1>1, <1>2 DEF Skip
<1>5. ASSUME NEW n \in DOMAIN q, n # i
      PROVE  \E j \in DOMAIN rest : Skip(i, j) = n
  <2>1. CASE n < i
    BY <1>1, <1>2, <2>1 DEF Skip
  <2>2. CASE n > i
    <3>1. n - 1 \in DOMAIN rest /\ Skip(i, n - 1) = n
      BY <1>1, <1>2, <2>2 DEF Skip
    <3> QED
      BY <3>1
  <2> QED
    BY <1>1, <1>2, <1>5, <2>1, <2>2
<1> QED
  BY <1>1, <1>3, <1>4, <1>5 DEF Without

\* One answer takes one request away.
LEMMA RestSet ==
  ASSUME NEW S, NEW q \in Seq(S), NEW i \in DOMAIN q
  PROVE  /\ RemoveAt(q, i) \in Seq(S)
         /\ ToSet(RemoveAt(q, i)) \subseteq ToSet(q)
         /\ \A c \in ToSet(q) : c = q[i] \/ c \in ToSet(RemoveAt(q, i))
         /\ \A op : Single(q, op) => Single(RemoveAt(q, i), op)
         /\ Single(q, q[i].op) =>
              \A c \in ToSet(RemoveAt(q, i)) : c.op # q[i].op
<1> DEFINE rest == RemoveAt(q, i)
<1>1. /\ rest \in Seq(S)
      /\ DOMAIN q = 1 .. Len(q) /\ Len(q) \in Nat
      /\ DOMAIN rest = 1 .. Len(q) - 1
      /\ \A j \in DOMAIN rest :
           /\ j < i => j \in DOMAIN q /\ rest[j] = q[j]
           /\ j >= i => j + 1 \in DOMAIN q /\ rest[j] = q[j + 1]
      /\ \A j \in DOMAIN q :
           /\ j < i => j \in DOMAIN rest /\ rest[j] = q[j]
           /\ j > i => j - 1 \in DOMAIN rest /\ rest[j - 1] = q[j]
  BY RestOf
<1> HIDE DEF rest
<1>2. \A j \in DOMAIN rest : j \in Nat /\ (j < i \/ j >= i)
  BY <1>1
<1>3. \A j \in DOMAIN q : j \in Nat /\ (j < i \/ j > i \/ j = i)
  BY <1>1
<1>4. ToSet(rest) \subseteq ToSet(q)
  BY <1>1, <1>2 DEF ToSet
<1>5. \A c \in ToSet(q) : c = q[i] \/ c \in ToSet(rest)
  BY <1>1, <1>3 DEF ToSet
<1>6. ASSUME NEW op, Single(q, op)
      PROVE  Single(rest, op)
  <2> SUFFICES ASSUME NEW j \in DOMAIN rest, NEW k \in DOMAIN rest,
                      rest[j].op = op, rest[k].op = op
               PROVE  j = k
    BY DEF Single
  <2> DEFINE at(n) == IF n < i THEN n ELSE n + 1
  <2>1. /\ at(j) \in DOMAIN q /\ q[at(j)] = rest[j]
        /\ at(k) \in DOMAIN q /\ q[at(k)] = rest[k]
    BY <1>1, <1>2
  <2>2. at(j) = at(k)
    BY <1>6, <2>1 DEF Single
  <2> QED
    BY <1>2, <1>3, <2>2
<1>7. ASSUME Single(q, q[i].op), NEW c \in ToSet(rest), c.op = q[i].op
      PROVE  FALSE
  <2>1. PICK j \in DOMAIN rest : c = rest[j]
    BY DEF ToSet
  <2> DEFINE n == IF j < i THEN j ELSE j + 1
  <2>2. n \in DOMAIN q /\ q[n] = c /\ n # i
    BY <1>1, <1>2, <1>3, <2>1
  <2> HIDE DEF n
  <2> QED
    BY <1>7, <2>2 DEF Single
<1> QED
  BY <1>1, <1>4, <1>5, <1>6, <1>7 DEF rest

\* What is sent comes after what was in flight.
LEMMA SentSet ==
  ASSUME NEW S, NEW q \in Seq(S), NEW r \in Seq(S)
  PROVE  /\ q \o r \in Seq(S)
         /\ ToSet(q \o r) = ToSet(q) \cup ToSet(r)
<1>1. /\ q \o r \in Seq(S) /\ DOMAIN q = 1 .. Len(q) /\ DOMAIN r = 1 .. Len(r)
      /\ Len(q) \in Nat /\ Len(r) \in Nat
      /\ DOMAIN (q \o r) = 1 .. Len(q) + Len(r)
      /\ \A i \in DOMAIN q : i \in DOMAIN (q \o r) /\ (q \o r)[i] = q[i]
      /\ \A i \in DOMAIN r : /\ Len(q) + i \in DOMAIN (q \o r)
                             /\ (q \o r)[Len(q) + i] = r[i]
  OBVIOUS
<1> DEFINE all == q \o r
<1> HIDE DEF all
<1>2. ASSUME NEW i \in DOMAIN all
      PROVE  \/ i \in DOMAIN q /\ all[i] = q[i]
             \/ i - Len(q) \in DOMAIN r /\ all[i] = r[i - Len(q)]
  <2>1. i \in 1 .. Len(q) + Len(r)
    BY <1>1 DEF all
  <2>2. CASE i <= Len(q)
    BY <1>1, <2>1, <2>2 DEF all
  <2>3. CASE i > Len(q)
    <3>1. i - Len(q) \in DOMAIN r /\ Len(q) + (i - Len(q)) = i
      BY <1>1, <2>1, <2>3
    <3>2. all[Len(q) + (i - Len(q))] = r[i - Len(q)]
      BY <1>1, <3>1 DEF all
    <3> QED
      BY <3>1, <3>2
  <2> QED
    BY <1>1, <2>1, <2>2, <2>3
<1>3. ToSet(all) = ToSet(q) \cup ToSet(r)
  BY <1>1, <1>2 DEF ToSet, all
<1> QED
  BY <1>1, <1>3 DEF all

\* The places of what is in flight after a request has been sent.
LEMMA OneMore ==
  ASSUME NEW S, NEW q \in Seq(S), NEW c \in S
  PROVE  /\ q \o <<c>> \in Seq(S) /\ <<c>> \in Seq(S) /\ ToSet(<<c>>) = {c}
         /\ ToSet(q \o <<c>>) = ToSet(q) \cup {c}
         /\ DOMAIN q = 1 .. Len(q) /\ Len(q) \in Nat
         /\ DOMAIN (q \o <<c>>) = 1 .. Len(q) + 1
         /\ (q \o <<c>>)[Len(q) + 1] = c
         /\ \A i \in DOMAIN q : (q \o <<c>>)[i] = q[i]
<1>1. <<c>> \in Seq(S) /\ Len(<<c>>) = 1 /\ <<c>>[1] = c /\ DOMAIN <<c>> = {1}
  OBVIOUS
<1>2. ToSet(<<c>>) = {c}
  BY <1>1 DEF ToSet
<1>3. /\ DOMAIN q = 1 .. Len(q) /\ Len(q) \in Nat
      /\ q \o <<c>> \in Seq(S) /\ DOMAIN (q \o <<c>>) = 1 .. Len(q) + 1
      /\ (q \o <<c>>)[Len(q) + 1] = c
      /\ \A i \in DOMAIN q : (q \o <<c>>)[i] = q[i]
  BY <1>1
<1>4. ToSet(q \o <<c>>) = ToSet(q) \cup ToSet(<<c>>)
  BY <1>1, SentSet
<1> QED
  BY <1>1, <1>2, <1>3, <1>4

LEMMA SingleSent ==
  ASSUME NEW S, NEW q \in Seq(S), NEW c \in S, NEW op, Single(q, op),
         c.op = op => \A d \in ToSet(q) : d.op # op
  PROVE  Single(q \o <<c>>, op)
<1> DEFINE all == q \o <<c>>
<1>1. /\ DOMAIN q = 1 .. Len(q) /\ Len(q) \in Nat
      /\ DOMAIN all = 1 .. Len(q) + 1
      /\ all[Len(q) + 1] = c
      /\ \A i \in DOMAIN q : all[i] = q[i]
  BY OneMore
<1> HIDE DEF all
<1> SUFFICES ASSUME NEW i \in DOMAIN all, NEW j \in DOMAIN all,
                    all[i].op = op, all[j].op = op
             PROVE  i = j
  BY DEF Single, all
<1>2. \A k \in DOMAIN all : k \in DOMAIN q \/ k = Len(q) + 1
  BY <1>1
<1>3. CASE i \in DOMAIN q /\ j \in DOMAIN q
  BY <1>1, <1>3 DEF Single
<1>4. CASE i = Len(q) + 1 /\ j = Len(q) + 1
  BY <1>4
<1>5. ASSUME NEW k \in DOMAIN q, all[k].op = op, c.op = op
      PROVE  FALSE
  BY <1>1, <1>5 DEF ToSet
<1> QED
  BY <1>1, <1>2, <1>3, <1>4, <1>5

\* The youngest of a kind stays the youngest when older ones are answered.
LEMMA EndsRemoved ==
  ASSUME NEW S, NEW q \in Seq(S), NEW i \in DOMAIN q, NEW op, NEW G,
         EndsIn(q, op, G), q[i].op = op => \A j \in 1 .. i - 1 : q[j].op # op
  PROVE  /\ EndsIn(RemoveAt(q, i), op, G)
         /\ q[i].op = op /\ ~InFlight(RemoveAt(q, i), {op}) => q[i] \in G
<1> DEFINE rest == RemoveAt(q, i)
<1>1. /\ rest \in Seq(S)
      /\ DOMAIN q = 1 .. Len(q) /\ Len(q) \in Nat
      /\ DOMAIN rest = 1 .. Len(q) - 1
      /\ \A j \in DOMAIN rest :
           /\ j < i => j \in DOMAIN q /\ rest[j] = q[j]
           /\ j >= i => j + 1 \in DOMAIN q /\ rest[j] = q[j + 1]
      /\ \A j \in DOMAIN q :
           /\ j < i => j \in DOMAIN rest /\ rest[j] = q[j]
           /\ j > i => j - 1 \in DOMAIN rest /\ rest[j - 1] = q[j]
  BY RestOf
<1> HIDE DEF rest
<1>2. \A j \in DOMAIN rest : j \in Nat /\ (j < i \/ j >= i)
  BY <1>1
<1>3. \A j \in DOMAIN q : j \in Nat /\ (j < i \/ j > i \/ j = i)
  BY <1>1
<1>4. ASSUME NEW j \in DOMAIN rest, rest[j].op = op,
             \A k \in DOMAIN rest : rest[k].op = op => k <= j
      PROVE  rest[j] \in G
  <2> DEFINE n == IF j < i THEN j ELSE j + 1
  <2>1. n \in DOMAIN q /\ q[n] = rest[j] /\ n # i /\ n \in Nat
    BY <1>1, <1>2, <1>3
  <2>2. ASSUME NEW k \in DOMAIN q, q[k].op = op
        PROVE  k <= n
    <3>1. CASE k < i
      <4>1. k \in DOMAIN rest /\ rest[k].op = op
        BY <1>1, <2>2, <3>1
      <4> QED
        BY <1>2, <1>3, <1>4, <4>1
    <3>2. CASE k > i
      <4>1. k - 1 \in DOMAIN rest /\ rest[k - 1].op = op
        BY <1>1, <2>2, <3>2
      <4>2. k - 1 <= j
        BY <1>4, <4>1
      <4> QED
        BY <1>2, <1>3, <3>2, <4>2
    <3>3. CASE k = i
      <4>1. \A m \in 1 .. i - 1 : q[m].op # op
        BY <2>2, <3>3
      <4>2. n \in 1 .. i - 1 \/ n > i
        BY <1>1, <1>3, <2>1
      <4> QED
        BY <1>3, <1>4, <2>1, <3>3, <4>1, <4>2
    <3> QED
      BY <1>3, <3>1, <3>2, <3>3
  <2> HIDE DEF n
  <2> QED
    BY <1>4, <2>1, <2>2 DEF EndsIn
<1>5. ASSUME q[i].op = op, ~InFlight(rest, {op})
      PROVE  q[i] \in G
  <2>1. ASSUME NEW k \in DOMAIN q, q[k].op = op
        PROVE  k <= i
    <3>1. CASE k > i
      <4>1. k - 1 \in DOMAIN rest /\ rest[k - 1].op = op
        BY <1>1, <2>1, <3>1
      <4> QED
        BY <1>5, <4>1 DEF InFlight
    <3> QED
      BY <1>3, <3>1
  <2> QED
    BY <1>5, <2>1 DEF EndsIn
<1> QED
  BY <1>4, <1>5 DEF EndsIn, rest

LEMMA EndsSent ==
  ASSUME NEW S, NEW q \in Seq(S), NEW c \in S, NEW op, NEW G,
         IF c.op = op THEN c \in G ELSE EndsIn(q, op, G)
  PROVE  EndsIn(q \o <<c>>, op, G)
<1> DEFINE all == q \o <<c>>
<1>1. /\ DOMAIN q = 1 .. Len(q) /\ Len(q) \in Nat
      /\ DOMAIN all = 1 .. Len(q) + 1
      /\ all[Len(q) + 1] = c
      /\ \A i \in DOMAIN q : all[i] = q[i]
  BY OneMore
<1> HIDE DEF all
<1> SUFFICES ASSUME NEW i \in DOMAIN all, all[i].op = op,
                    \A j \in DOMAIN all : all[j].op = op => j <= i
             PROVE  all[i] \in G
  BY DEF EndsIn, all
<1>2. i \in DOMAIN q \/ i = Len(q) + 1
  BY <1>1
<1>3. Len(q) + 1 \in DOMAIN all /\ DOMAIN q \subseteq DOMAIN all
  BY <1>1
<1>4. CASE c.op = op
  <2>1. Len(q) + 1 <= i
    BY <1>1, <1>3, <1>4
  <2> QED
    BY <1>1, <1>2, <1>4, <2>1
<1>5. CASE c.op # op
  <2>1. i \in DOMAIN q /\ q[i].op = op
    BY <1>1, <1>2, <1>5
  <2>2. \A j \in DOMAIN q : q[j].op = op => j <= i
    BY <1>1, <1>3
  <2> QED
    BY <1>1, <1>5, <2>1, <2>2 DEF EndsIn
<1> QED
  BY <1>4, <1>5

LEMMA NothingInFlight ==
  /\ ToSet(<<>>) = {} /\ \A S : <<>> \in Seq(S)
  /\ \A op : Single(<<>>, op) /\ \A G : EndsIn(<<>>, op, G)
BY DEF ToSet, Single, EndsIn

LEMMA InFlightSet ==
  ASSUME NEW q, NEW ops
  PROVE  InFlight(q, ops) <=> \E c \in ToSet(q) : c.op \in ops
BY DEF InFlight, ToSet

-----------------------------------------------------------------------------
(* What filter leaves *)

\* Every set of natural numbers that holds one has a least one.
LEMMA LeastNumber ==
  ASSUME NEW T \in SUBSET Nat, T # {}
  PROVE  \E n \in T : \A m \in T : n <= m
<1>1. PICK n \in T : \A m \in T : <<m, n>> \notin OpToRel(<, Nat)
  BY NatLessThanWellFounded, WFMin
<1>2. \A m \in T : ~ m < n
  BY <1>1 DEF OpToRel
<1>3. \A m \in T : n <= m
  BY <1>2
<1> QED
  BY <1>3

\* The places in P up to i.
UpTo(P, i) == {j \in P : j <= i}

LEMMA UpToFinite ==
  ASSUME NEW m \in Nat, NEW P \in SUBSET (1 .. m)
  PROVE  /\ IsFiniteSet(P) /\ Cardinality(P) \in Nat
         /\ \A i : IsFiniteSet(UpTo(P, i)) /\ Cardinality(UpTo(P, i)) \in Nat
<1>1. IsFiniteSet(1 .. m)
  BY FS_Interval
<1>2. IsFiniteSet(P) /\ Cardinality(P) \in Nat
  BY <1>1, FS_Subset, FS_CardinalityType
<1>3. ASSUME NEW i
      PROVE  IsFiniteSet(UpTo(P, i)) /\ Cardinality(UpTo(P, i)) \in Nat
  <2>1. UpTo(P, i) \in SUBSET P
    BY DEF UpTo
  <2> QED
    BY <1>2, <2>1, FS_Subset, FS_CardinalityType
<1> QED
  BY <1>2, <1>3

\* Every rank has a place.
LEMMA Ranked ==
  ASSUME NEW m \in Nat, NEW P \in SUBSET (1 .. m), NEW n \in 1 .. Cardinality(P)
  PROVE  \E i \in P : Cardinality(UpTo(P, i)) = n
<1> DEFINE T == {i \in Nat : Cardinality(UpTo(P, i)) >= n}
<1>0. \A j \in P : j \in Nat /\ j <= m /\ 1 <= j
  OBVIOUS
<1>1. UpTo(P, m) = P
  BY <1>0, Zenon DEF UpTo
<1>2. m \in T
  BY <1>1, UpToFinite
<1>3. PICK i \in T : \A k \in T : i <= k
  <2> HIDE DEF T
  <2>1. T \in SUBSET Nat
    BY DEF T
  <2> QED
    BY <1>2, <2>1, LeastNumber
<1>4. i \in Nat /\ Cardinality(UpTo(P, i)) >= n
  BY <1>3
<1>5. i # 0
  <2>0. \A j \in P : ~(j <= 0)
    BY <1>0
  <2>1. UpTo(P, 0) = {}
    BY <2>0, Zenon DEF UpTo
  <2> QED
    BY <1>4, <2>1, FS_EmptySet
<1>6. i - 1 \in Nat /\ ~(i <= i - 1)
  BY <1>4, <1>5
<1>7. ~(Cardinality(UpTo(P, i - 1)) >= n)
  BY <1>3, <1>6
<1>8. Cardinality(UpTo(P, i - 1)) \in Nat /\ IsFiniteSet(UpTo(P, i - 1))
      /\ Cardinality(UpTo(P, i)) \in Nat
  BY UpToFinite
<1>9. i \in P
  <2> SUFFICES ASSUME i \notin P
               PROVE  FALSE
    OBVIOUS
  <2>0. \A j \in P : j <= i <=> j <= i - 1
    BY <1>0, <1>4
  <2>1. UpTo(P, i) = UpTo(P, i - 1)
    BY <2>0, Zenon DEF UpTo
  <2> QED
    BY <1>4, <1>7, <2>1
<1>10. UpTo(P, i) = UpTo(P, i - 1) \cup {i} /\ i \notin UpTo(P, i - 1)
  <2>1. \A j \in P : j <= i <=> (j <= i - 1 \/ j = i)
    BY <1>0, <1>4
  <2>2. UpTo(P, i) = UpTo(P, i - 1) \cup {i}
    BY <1>9, <2>1, Zenon DEF UpTo
  <2>3. i \notin UpTo(P, i - 1)
    BY <1>6, Zenon DEF UpTo
  <2> QED
    BY <2>2, <2>3
<1>11. Cardinality(UpTo(P, i)) = Cardinality(UpTo(P, i - 1)) + 1
  BY <1>8, <1>10, FS_AddElement
<1>12. Cardinality(UpTo(P, i)) = n
  BY <1>4, <1>7, <1>8, <1>11
<1> QED
  BY <1>9, <1>12

\* What filter leaves: elements of q at places in P, each place once.
LEMMA PickedIs ==
  ASSUME NEW S, NEW q \in Seq(S), NEW P \in SUBSET DOMAIN q
  PROVE  /\ Picked(q, P) \in Seq(S)
         /\ DOMAIN Picked(q, P) = 1 .. Cardinality(P)
         /\ Len(Picked(q, P)) = Cardinality(P) /\ Cardinality(P) \in Nat
         /\ \A n \in DOMAIN Picked(q, P) : \E i \in P :
              Picked(q, P)[n] = q[i] /\ Cardinality(UpTo(P, i)) = n
<1>1. Len(q) \in Nat /\ P \in SUBSET (1 .. Len(q)) /\ \A i \in P : q[i] \in S
  OBVIOUS
<1>2. Cardinality(P) \in Nat
  BY <1>1, UpToFinite
<1> DEFINE place(n) == CHOOSE i \in P : Cardinality({j \in P : j <= i}) = n
           all == [n \in 1 .. Cardinality(P) |-> q[place(n)]]
<1>3. ASSUME NEW n \in 1 .. Cardinality(P)
      PROVE  place(n) \in P /\ Cardinality(UpTo(P, place(n))) = n
  <2>1. \E i \in P : Cardinality(UpTo(P, i)) = n
    BY <1>1, Ranked
  <2>2. \E i \in P : Cardinality({j \in P : j <= i}) = n
    BY <2>1, Zenon DEF UpTo
  <2>3. place(n) \in P /\ Cardinality({j \in P : j <= place(n)}) = n
    BY <2>2, Zenon
  <2> QED
    BY <2>3, Zenon DEF UpTo
<1>4. Picked(q, P) = all
  BY DEF Picked
<1> HIDE DEF place
<1>5. \A n \in 1 .. Cardinality(P) : q[place(n)] \in S
  BY <1>1, <1>3
<1>6. all \in Seq(S) /\ DOMAIN all = 1 .. Cardinality(P) /\ Len(all) = Cardinality(P)
  BY <1>2, <1>5
<1>7. ASSUME NEW n \in 1 .. Cardinality(P)
      PROVE  \E i \in P : all[n] = q[i] /\ Cardinality(UpTo(P, i)) = n
  BY <1>3
<1> QED
  BY <1>2, <1>4, <1>6, <1>7
=============================================================================
