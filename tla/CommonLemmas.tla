------------------------------ MODULE CommonLemmas ------------------------------
(* Queues of messages, lists and finite sets: what a message sent or handled changes, *)
(* what an element taken out or put in front changes, and where to begin with a set.  *)
EXTENDS Queues, SequencesExt, SequenceTheorems, FiniteSetTheorems, TLAPS

-------------------------------------------------------------------------------
(* Queues. *)

\* A message sent is behind those already on their way.
LEMMA AppendedLast ==
  ASSUME NEW S, NEW q \in Seq(S), NEW m \in S
  PROVE  /\ Append(q, m) \in Seq(S)
         /\ Append(q, m) # <<>>
         /\ Len(Append(q, m)) = Len(q) + 1
         /\ DOMAIN q = 1..Len(q)
         /\ DOMAIN Append(q, m) = 1..(Len(q) + 1)
         /\ \A i \in 1..Len(q) : Append(q, m)[i] = q[i]
         /\ Append(q, m)[Len(q) + 1] = m
  OBVIOUS

\* A message handled moves every other one up by one.
LEMMA Consumed ==
  ASSUME NEW S, NEW q \in Seq(S), q # <<>>
  PROVE  /\ Tail(q) \in Seq(S)
         /\ Head(q) = q[1] /\ Head(q) \in S
         /\ Len(q) \in Nat \ {0}
         /\ Len(Tail(q)) = Len(q) - 1
         /\ DOMAIN q = 1..Len(q)
         /\ DOMAIN Tail(q) = 1..(Len(q) - 1)
         /\ \A i \in 1..(Len(q) - 1) : Tail(q)[i] = q[i + 1]
  OBVIOUS

\* What is in a queue after a message was sent, or handled, was there or was sent.
LEMMA EntryOfAppended ==
  ASSUME NEW S, NEW q \in Seq(S), NEW m \in S, NEW i \in DOMAIN Append(q, m)
  PROVE  \/ i \in DOMAIN q /\ i <= Len(q) /\ Append(q, m)[i] = q[i]
         \/ i = Len(q) + 1 /\ i = Len(Append(q, m)) /\ Append(q, m)[i] = m
  OBVIOUS

LEMMA EntryOfTail ==
  ASSUME NEW S, NEW q \in Seq(S), q # <<>>, NEW i \in DOMAIN Tail(q)
  PROVE  /\ i + 1 \in DOMAIN q /\ Tail(q)[i] = q[i + 1]
         /\ i + 1 = Len(q) <=> i = Len(Tail(q))
  OBVIOUS

\* Sending a STORE_BLOCK makes its content the one the worker will hold.
LEMMA SentStoreHolds ==
  ASSUME NEW S, NEW q \in Seq(S), NEW m \in S, NEW c, NEW k,
         StoreFor(m, k)
  PROVE  WillHold(Append(q, m), c, k, m.data)
  BY AppendedLast DEF WillHold

\* Sending anything else changes nothing of it.
LEMMA SentOtherHolds ==
  ASSUME NEW S, NEW q \in Seq(S), NEW m \in S, NEW c, NEW k, NEW d,
         ~StoreFor(m, k), WillHold(q, c, k, d)
  PROVE  WillHold(Append(q, m), c, k, d)
<1> DEFINE p == Append(q, m)
<1>1. /\ DOMAIN q = 1..Len(q) /\ DOMAIN p = 1..(Len(q) + 1) /\ Len(q) \in Nat
      /\ \A i \in 1..Len(q) : p[i] = q[i]
      /\ p[Len(q) + 1] = m
  BY AppendedLast
<1>2. ASSUME \A i \in DOMAIN p : ~StoreFor(p[i], k)
      PROVE  c = d
  <2>1. \A i \in DOMAIN q : ~StoreFor(q[i], k)
    BY <1>1, <1>2
  <2> QED BY <2>1 DEF WillHold
<1>3. ASSUME NEW i \in DOMAIN p, StoreFor(p[i], k),
             \A j \in DOMAIN p : j > i => ~StoreFor(p[j], k)
      PROVE  p[i].data = d
  <2>1. i \in DOMAIN q /\ p[i] = q[i]
    BY <1>1, <1>3
  <2>2. \A j \in DOMAIN q : j > i => ~StoreFor(q[j], k)
    BY <1>1, <1>3
  <2> QED BY <2>1, <2>2, <1>3 DEF WillHold
<1> QED BY <1>2, <1>3 DEF WillHold

\* Handling a STORE_BLOCK of the block brings the worker closer to holding it.
LEMMA HandledStoreHolds ==
  ASSUME NEW S, NEW q \in Seq(S), q # <<>>, NEW c, NEW k, NEW d,
         StoreFor(Head(q), k), WillHold(q, c, k, d)
  PROVE  WillHold(Tail(q), Head(q).data, k, d)
<1> DEFINE p == Tail(q)
<1>1. /\ DOMAIN q = 1..Len(q) /\ DOMAIN p = 1..(Len(q) - 1)
      /\ Len(q) \in Nat \ {0}
      /\ \A i \in 1..(Len(q) - 1) : p[i] = q[i + 1]
      /\ Head(q) = q[1]
  BY Consumed
<1>2. ASSUME \A i \in DOMAIN p : ~StoreFor(p[i], k)
      PROVE  Head(q).data = d
  <2>1. \A j \in DOMAIN q : j > 1 => ~StoreFor(q[j], k)
    <3>1. ASSUME NEW j \in DOMAIN q, j > 1
          PROVE  ~StoreFor(q[j], k)
      <4>1. j - 1 \in DOMAIN p /\ p[j - 1] = q[j]
        BY <1>1, <3>1
      <4> QED BY <4>1, <1>2
    <3> QED BY <3>1
  <2> QED BY <2>1, <1>1 DEF WillHold
<1>3. ASSUME NEW i \in DOMAIN p, StoreFor(p[i], k),
             \A j \in DOMAIN p : j > i => ~StoreFor(p[j], k)
      PROVE  p[i].data = d
  <2>1. i + 1 \in DOMAIN q /\ q[i + 1] = p[i]
    BY <1>1
  <2>2. ASSUME NEW j \in DOMAIN q, j > i + 1
        PROVE  ~StoreFor(q[j], k)
    <3>1. j - 1 \in DOMAIN p /\ p[j - 1] = q[j] /\ j - 1 > i
      BY <1>1, <2>2
    <3> QED BY <3>1, <1>3
  <2> QED BY <2>1, <2>2, <1>3 DEF WillHold
<1> QED BY <1>2, <1>3 DEF WillHold

\* Handling anything else changes nothing of it.
LEMMA HandledOtherHolds ==
  ASSUME NEW S, NEW q \in Seq(S), q # <<>>, NEW c, NEW k, NEW d,
         ~StoreFor(Head(q), k), WillHold(q, c, k, d)
  PROVE  WillHold(Tail(q), c, k, d)
<1> DEFINE p == Tail(q)
<1>1. /\ DOMAIN q = 1..Len(q) /\ DOMAIN p = 1..(Len(q) - 1)
      /\ Len(q) \in Nat \ {0}
      /\ \A i \in 1..(Len(q) - 1) : p[i] = q[i + 1]
      /\ Head(q) = q[1]
  BY Consumed
<1>2. ASSUME \A i \in DOMAIN p : ~StoreFor(p[i], k)
      PROVE  c = d
  <2>1. ASSUME NEW j \in DOMAIN q
        PROVE  ~StoreFor(q[j], k)
    <3>1. CASE j = 1
      BY <1>1, <3>1
    <3>2. CASE j # 1
      <4>1. j - 1 \in DOMAIN p /\ p[j - 1] = q[j]
        BY <1>1, <3>2
      <4> QED BY <4>1, <1>2
    <3> QED BY <3>1, <3>2
  <2> QED BY <2>1 DEF WillHold
<1>3. ASSUME NEW i \in DOMAIN p, StoreFor(p[i], k),
             \A j \in DOMAIN p : j > i => ~StoreFor(p[j], k)
      PROVE  p[i].data = d
  <2>1. i + 1 \in DOMAIN q /\ q[i + 1] = p[i]
    BY <1>1
  <2>2. ASSUME NEW j \in DOMAIN q, j > i + 1
        PROVE  ~StoreFor(q[j], k)
    <3>1. j - 1 \in DOMAIN p /\ p[j - 1] = q[j] /\ j - 1 > i
      BY <1>1, <2>2
    <3> QED BY <3>1, <1>3
  <2> QED BY <2>1, <2>2, <1>3 DEF WillHold
<1> QED BY <1>2, <1>3 DEF WillHold
-------------------------------------------------------------------------------
(* Lists without repetition, as the strategies keep their blocks. *)

\* A sequence without its element at p.
LEMMA RemovedAt ==
  ASSUME NEW S, NEW q \in Seq(S), NEW p \in 1 .. Len(q)
  PROVE  RemoveAt(q, p) = [i \in 1 .. Len(q) - 1 |-> IF i < p THEN q[i] ELSE q[i + 1]]
<1>1. p \in 1 .. Len(q) /\ Len(q) \in Nat
  OBVIOUS
<1> DEFINE front == SubSeq(q, 1, p - 1)
           back == SubSeq(q, p + 1, Len(q))
<1>2. /\ front \in Seq(S) /\ Len(front) = p - 1 /\ \A i \in 1 .. p - 1 : front[i] = q[i]
      /\ back \in Seq(S) /\ Len(back) = Len(q) - p /\ \A i \in 1 .. Len(q) - p : back[i] = q[i + p]
  BY <1>1
<1>3. RemoveAt(q, p) = [i \in 1 .. Len(q) - 1 |-> IF i < p THEN q[i] ELSE q[i + 1]]
  <2>1. RemoveAt(q, p) = front \o back
    BY <1>1 DEF RemoveAt
  <2> HIDE DEF front, back
  <2>2. /\ front \o back \in Seq(S) /\ Len(front \o back) = Len(q) - 1
        /\ \A i \in 1 .. Len(q) - 1 : (front \o back)[i] = IF i < p THEN q[i] ELSE q[i + 1]
    <3>1. Len(front) + Len(back) = Len(q) - 1
      BY <1>1, <1>2
    <3>2. front \o back \in Seq(S) /\ Len(front \o back) = Len(q) - 1
      BY <1>2, <3>1, ConcatProperties
    <3>3. ASSUME NEW i \in 1 .. Len(q) - 1
          PROVE  (front \o back)[i] = IF i < p THEN q[i] ELSE q[i + 1]
      <4>1. (front \o back)[i] = IF i <= Len(front) THEN front[i] ELSE back[i - Len(front)]
        BY <1>2, <3>1, ConcatProperties
      <4>2. CASE i < p
        BY <1>1, <1>2, <4>1, <4>2
      <4>3. CASE i >= p
        <5>1. i - (p - 1) \in 1 .. Len(q) - p /\ (i - (p - 1)) + p = i + 1
          BY <1>1, <4>3
        <5>2. back[i - (p - 1)] = q[i + 1]
          BY <1>2, <5>1
        <5>3. ~(i <= p - 1) /\ ~(i < p)
          BY <1>1, <4>3
        <5> QED
          BY <1>2, <4>1, <5>2, <5>3
      <4>4. i \in Int /\ p \in Int
        BY <1>1
      <4>5. i < p \/ i >= p
        BY <4>4
      <4> QED
        BY <4>2, <4>3, <4>5
    <3> QED
      BY <3>2, <3>3
  <2>3. \A t \in Seq(S) : t = [i \in 1 .. Len(t) |-> t[i]]
    OBVIOUS
  <2>4. front \o back = [i \in 1 .. Len(q) - 1 |-> (front \o back)[i]]
    BY <2>2, <2>3
  <2> QED
    BY <2>1, <2>2, <2>4
<1> QED
  BY <1>3

\* A sequence without repetition gives up an element.
LEMMA RemovedFirst ==
  ASSUME NEW S, NEW q \in Seq(S), IsInjective(q), NEW p \in DOMAIN q
  PROVE  RemoveFirst(q, q[p]) = [i \in 1 .. Len(q) - 1 |-> IF i < p THEN q[i] ELSE q[i + 1]]
<1>1. p \in 1 .. Len(q) /\ DOMAIN q = 1 .. Len(q) /\ Len(q) \in Nat
  OBVIOUS
<1>2. {i \in 1 .. Len(q) : q[i] = q[p]} = {p}
  BY <1>1 DEF IsInjective
<1>3. SelectInSeq(q, LAMBDA v : v = q[p]) = p
  <2>1. Min({p}) = p
    BY <1>1 DEF Min
  <2> QED
    BY <1>2, <2>1 DEF SelectInSeq
<1>4. RemoveFirst(q, q[p]) = RemoveAt(q, p)
  BY <1>1, <1>3 DEF RemoveFirst
<1> QED
  BY <1>1, <1>4, RemovedAt

\* What is not there is not removed.
LEMMA NothingRemoved ==
  ASSUME NEW S, NEW q \in Seq(S), NEW e, e \notin ToSet(q)
  PROVE  RemoveFirst(q, e) = q
  BY DEF RemoveFirst, ToSet

LEMMA Removed ==
  ASSUME NEW S, NEW q \in Seq(S), IsInjective(q), NEW e
  PROVE  /\ RemoveFirst(q, e) \in Seq(S)
         /\ IsInjective(RemoveFirst(q, e))
         /\ ToSet(RemoveFirst(q, e)) = ToSet(q) \ {e}
         /\ Len(RemoveFirst(q, e)) = IF e \in ToSet(q) THEN Len(q) - 1 ELSE Len(q)
<1> DEFINE r == RemoveFirst(q, e)
<1>1. CASE e \notin ToSet(q)
  BY <1>1, NothingRemoved
<1>2. CASE e \in ToSet(q)
  <2>1. PICK p \in DOMAIN q : q[p] = e
    BY <1>2 DEF ToSet
  <2>2. r = [i \in 1 .. Len(q) - 1 |-> IF i < p THEN q[i] ELSE q[i + 1]]
    BY <2>1, RemovedFirst
  <2>3. DOMAIN q = 1 .. Len(q) /\ Len(q) \in Nat /\ p \in 1 .. Len(q)
    BY <2>1
  <2>4. \A i \in 1 .. Len(q) : q[i] \in S
    OBVIOUS
  <2> HIDE DEF r
  <2>5. r \in [1 .. Len(q) - 1 -> S]
    BY <2>2, <2>3, <2>4
  <2>6. r \in Seq(S) /\ Len(r) = Len(q) - 1 /\ DOMAIN r = 1 .. Len(q) - 1
    <3>1. Len(q) - 1 \in Nat
      BY <2>3
    <3>2. r \in Seq(S)
      BY <2>5, <3>1
    <3> QED
      BY <2>5, <3>1, <3>2
  <2>7. IsInjective(r)
    <3>1. \A a, b \in 1 .. Len(q) : q[a] = q[b] => a = b
      BY <2>3 DEF IsInjective
    <3>2. ASSUME NEW a \in 1 .. Len(q) - 1, NEW b \in 1 .. Len(q) - 1, r[a] = r[b]
          PROVE  a = b
      <4> DEFINE up(i) == IF i < p THEN i ELSE i + 1
      <4>1. r[a] = q[up(a)] /\ r[b] = q[up(b)]
        BY <2>2
      <4>2. up(a) \in 1 .. Len(q) /\ up(b) \in 1 .. Len(q)
        BY <2>3
      <4>3. up(a) = up(b)
        BY <3>1, <3>2, <4>1, <4>2
      <4> QED
        BY <2>3, <4>3
    <3> QED
      BY <2>6, <3>2 DEF IsInjective
  <2>8. \A i \in 1 .. Len(q) - 1 : r[i] \in ToSet(q) \ {e}
    BY <2>1, <2>2, <2>3 DEF ToSet, IsInjective
  <2>9. ASSUME NEW j \in DOMAIN q, q[j] # e
        PROVE  \E i \in DOMAIN r : r[i] = q[j]
    <3>1. CASE j < p
      <4>1. j \in 1 .. Len(q) - 1 /\ r[j] = q[j]
        BY <2>2, <2>3, <3>1
      <4> QED
        BY <2>6, <4>1
    <3>2. CASE j > p
      <4>1. j - 1 \in 1 .. Len(q) - 1 /\ r[j - 1] = q[j]
        BY <2>2, <2>3, <3>2
      <4> QED
        BY <2>6, <4>1
    <3> QED
      BY <2>1, <2>3, <2>9, <3>1, <3>2
  <2>10. ToSet(r) = ToSet(q) \ {e}
    BY <2>6, <2>8, <2>9 DEF ToSet
  <2> QED
    BY <1>2, <2>6, <2>7, <2>10 DEF r
<1> QED
  BY <1>1, <1>2

\* push_front of an element that is not there.
LEMMA PushedFront ==
  ASSUME NEW S, NEW q \in Seq(S), IsInjective(q), NEW e \in S, e \notin ToSet(q)
  PROVE  /\ <<e>> \o q \in Seq(S)
         /\ IsInjective(<<e>> \o q)
         /\ ToSet(<<e>> \o q) = ToSet(q) \cup {e}
         /\ Len(<<e>> \o q) = Len(q) + 1
         /\ Head(<<e>> \o q) = e
         /\ \A i \in 1 .. Len(q) + 1 : (<<e>> \o q)[i] = IF i = 1 THEN e ELSE q[i - 1]
<1> DEFINE r == <<e>> \o q
<1>1. /\ r \in Seq(S) /\ Len(r) = Len(q) + 1 /\ DOMAIN r = 1 .. Len(q) + 1
      /\ \A i \in 1 .. Len(q) + 1 : r[i] = IF i = 1 THEN e ELSE q[i - 1]
      /\ Len(q) \in Nat /\ DOMAIN q = 1 .. Len(q)
  OBVIOUS
<1> HIDE DEF r
<1>2. \A i \in DOMAIN q : q[i] # e
  BY DEF ToSet
<1>3. IsInjective(r)
  <2>1. ASSUME NEW a \in DOMAIN r, NEW b \in DOMAIN r, a # 1, b # 1, r[a] = r[b]
        PROVE  a = b
    <3>1. a - 1 \in DOMAIN q /\ b - 1 \in DOMAIN q /\ r[a] = q[a - 1] /\ r[b] = q[b - 1]
      BY <1>1, <2>1
    <3>2. a - 1 = b - 1
      BY <2>1, <3>1 DEF IsInjective
    <3> QED
      BY <1>1, <3>2
  <2>2. \A a \in DOMAIN r : a # 1 => r[a] # r[1]
    <3>1. ASSUME NEW a \in DOMAIN r, a # 1
          PROVE  r[a] # r[1]
      <4>1. a - 1 \in DOMAIN q /\ r[a] = q[a - 1] /\ r[1] = e
        BY <1>1, <3>1
      <4> QED
        BY <1>2, <4>1
    <3> QED
      BY <3>1
  <2> QED
    BY <2>1, <2>2 DEF IsInjective
<1>4. ToSet(r) = ToSet(q) \cup {e}
  <2>1. \A i \in DOMAIN r : r[i] \in ToSet(q) \cup {e}
    BY <1>1 DEF ToSet
  <2>2. \A i \in DOMAIN q : i + 1 \in DOMAIN r /\ r[i + 1] = q[i]
    BY <1>1
  <2>3. 1 \in DOMAIN r /\ r[1] = e
    BY <1>1
  <2> QED
    BY <2>1, <2>2, <2>3 DEF ToSet
<1>5. Head(r) = e
  BY <1>1
<1> QED
  BY <1>1, <1>3, <1>4, <1>5 DEF r
-------------------------------------------------------------------------------
(* Finite sets. *)

\* There is a smallest set in every collection of subsets of a finite set.
LEMMA SmallestSet ==
  ASSUME NEW T, IsFiniteSet(T), NEW B \in SUBSET SUBSET T, B # {}
  PROVE  \E s \in B : \A r \in B : Cardinality(s) <= Cardinality(r)
<1> DEFINE C == {Cardinality(s) : s \in B}
<1>1. \A s \in B : Cardinality(s) \in Nat
  BY FS_Subset, FS_CardinalityType
<1>2. C \in SUBSET Nat /\ C # {}
  BY <1>1
<1> HIDE DEF C
<1>3. PICK m \in C : \A y \in C : ~(<<y, m>> \in OpToRel(<, Nat))
  BY <1>2, NatLessThanWellFounded, WFMin
<1>4. PICK s \in B : m = Cardinality(s)
  BY DEF C
<1>5. ASSUME NEW r \in B
      PROVE  Cardinality(s) <= Cardinality(r)
  <2>1. ~(Cardinality(r) < Cardinality(s))
    BY <1>1, <1>3, <1>4 DEF OpToRel, C
  <2> QED
    BY <1>1, <2>1
<1> QED
  BY <1>5

\* A set of natural numbers has a least one.
LEMMA MinOf ==
  ASSUME NEW S \in SUBSET Nat, S # {}
  PROVE  Min(S) \in S /\ \A x \in S : Min(S) <= x
<1>1. PICK m \in S : \A y \in S : ~(<<y, m>> \in OpToRel(<, Nat))
  BY NatLessThanWellFounded, WFMin
<1>2. \A y \in S : m <= y
  <2> SUFFICES ASSUME NEW y \in S
               PROVE  m <= y
    OBVIOUS
  <2>1. ~(y < m)
    BY <1>1 DEF OpToRel
  <2> QED
    BY <2>1
<1> QED
  BY <1>2 DEF Min
===============================================================================
