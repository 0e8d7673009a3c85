----------------------------- MODULE VectorProofs -----------------------------
(* Theorems about Vector and Map, for any sizes of blocks, cache and vector: what   *)
(* the vector's calls rely on is there, each does what it does to a sequence, and   *)
(* the map on it is a function of keys.                                             *)
EXTENDS Map, CommonLemmas

-------------------------------------------------------------------------------
(* Elements and their blocks. *)

LEMMA DivisionGrows ==
  ASSUME NEW b \in Nat \ {0}, NEW i \in Nat, NEW m \in Nat, i <= m
  PROVE  i \div b <= m \div b
<1> DEFINE p == i \div b
           q == m \div b
           d == i % b
           e == m % b
<1>1. p \in Nat /\ d \in 0 .. b - 1 /\ i = p * b + d
  OBVIOUS
<1>2. q \in Nat /\ e \in 0 .. b - 1 /\ m = q * b + e
  OBVIOUS
<1> HIDE DEF p, q, d, e
<1>3. p >= q + 1 => p * b >= (q + 1) * b
  BY <1>1, <1>2
<1>4. (q + 1) * b = q * b + b
  BY <1>2
<1>5. p * b \in Nat /\ q * b \in Nat
  BY <1>1, <1>2
<1>6. ~(p >= q + 1)
  <2> DEFINE x == p * b
             y == q * b
  <2>1. /\ x \in Nat /\ y \in Nat /\ i = x + d /\ m = y + e
        /\ p >= q + 1 => x >= y + b
    BY <1>1, <1>2, <1>3, <1>4, <1>5
  <2> HIDE DEF x, y
  <2> QED
    BY <1>1, <1>2, <2>1
<1> QED
  BY <1>1, <1>2, <1>6 DEF p, q

\* An element has a block and a place in it.
LEMMA TagFacts ==
  /\ \A i \in Nat : Tag(i) \in Nat /\ Place(i) \in 0 .. BlockElems - 1
  /\ \A i \in 0 .. MaxSize : Tag(i) \in Blocks
  /\ 0 \in Blocks /\ Blocks \subseteq Nat /\ None \notin Payloads
<1>1. BlockElems \in Nat \ {0} /\ MaxSize \in Nat
  BY VectorAssumption
<1>2. ASSUME NEW i \in Nat
      PROVE  Tag(i) \in Nat /\ Place(i) \in 0 .. BlockElems - 1
  BY <1>1 DEF Tag, Place
<1>3. ASSUME NEW i \in 0 .. MaxSize
      PROVE  Tag(i) \in Blocks
  <2>1. i \in Nat /\ i <= MaxSize /\ i \div BlockElems \in Nat /\ MaxSize \div BlockElems \in Nat
    BY <1>1
  <2>2. i \div BlockElems <= MaxSize \div BlockElems
    BY <1>1, <2>1, DivisionGrows
  <2> QED
    BY <2>1, <2>2 DEF Tag, Blocks
<1>4. Blocks \subseteq Nat /\ 0 \in Blocks
  BY <1>1 DEF Blocks
<1> QED
  BY <1>2, <1>3, <1>4, NoneIsNoPayload

\* The block prefetch() asks for has an element.
LEMMA PrefetchedBlock ==
  ASSUME NEW n \in 0 .. MaxSize, NEW i \in Nat, n \div BlockSize > Tag(i) + 1
  PROVE  \E j \in 0 .. n - 1 : Tag(i) + 1 = Tag(j)
<1> DEFINE b == BlockElems
           e == TypeSize
           d == Tag(i) + 1
           q == n \div BlockSize
<1>1. b \in Nat \ {0} /\ e \in Nat \ {0} /\ n \in Nat /\ d \in Nat \ {0} /\ BlockSize = b * e
  BY VectorAssumption, TagFacts DEF BlockSize
<1>2. b * e \in Nat \ {0}
  BY <1>1
<1>3. q \in Nat /\ q * (b * e) <= n /\ q >= d + 1
  <2>1. q = n \div (b * e)
    BY <1>1
  <2> DEFINE c == b * e
  <2> HIDE DEF c
  <2>2. c \in Nat \ {0} /\ q = n \div c
    BY <1>2, <2>1 DEF c
  <2>3. q \in Nat /\ q * c <= n
    BY <1>1, <2>2
  <2> QED
    BY <1>1, <2>3 DEF c
<1> HIDE DEF q, b, e, d
<1>4. q * (b * e) >= q * b
  <2>1. b * e >= b
    BY <1>1
  <2> DEFINE c == b * e
  <2>2. c \in Nat
    BY <1>2
  <2> HIDE DEF c
  <2>3. c >= b => q * c >= q * b
    BY <1>1, <1>3, <2>2
  <2> QED
    BY <2>1, <2>3 DEF c
<1>5. q * b >= (d + 1) * b /\ (d + 1) * b = d * b + b
  BY <1>1, <1>3
<1>6. d * b \in 0 .. n - 1
  <2>1. d * b \in Nat /\ q * b \in Nat /\ q * (b * e) \in Nat
    BY <1>1, <1>2, <1>3
  <2> QED
    BY <1>1, <1>3, <1>4, <1>5, <2>1
<1>7. (d * b) \div b = d
  BY <1>1
<1> QED
  BY <1>6, <1>7 DEF Tag, b, d
-------------------------------------------------------------------------------
(* Loops: what every round keeps holds after the last. *)

LEMMA MaxOf ==
  ASSUME NEW n \in Nat, NEW s \in SUBSET (1 .. n), s # {}
  PROVE  Max(s) \in s
<1> DEFINE B == {n - x : x \in s}
<1>1. B \in SUBSET Nat /\ B # {}
  <2>1. \A x \in s : n - x \in Nat
    OBVIOUS
  <2> QED
    BY <2>1
<1> HIDE DEF B
<1>2. PICK m \in B : \A y \in B : ~(<<y, m>> \in OpToRel(<, Nat))
  BY <1>1, NatLessThanWellFounded, WFMin
<1>3. PICK x \in s : m = n - x
  BY DEF B
<1>4. ASSUME NEW y \in s
      PROVE  x >= y
  <2>1. ~(n - y < n - x)
    BY <1>1, <1>2, <1>3 DEF OpToRel, B
  <2> QED
    BY <2>1
<1> QED
  BY <1>4 DEF Max

\* A round less.
LEMMA RoundLess ==
  ASSUME NEW n \in Nat, NEW s \in SUBSET (1 .. n), s # {}
  PROVE  /\ Max(s) \in 1 .. n /\ s \ {Max(s)} \in SUBSET (1 .. n)
         /\ IsFiniteSet(s) /\ Cardinality(s) \in 1 .. n
         /\ Cardinality(s \ {Max(s)}) = Cardinality(s) - 1
<1>1. Max(s) \in s
  BY MaxOf
<1>2. IsFiniteSet(1 .. n) /\ Cardinality(1 .. n) = n
  BY FS_Interval
<1>3. IsFiniteSet(s) /\ Cardinality(s) \in Nat /\ Cardinality(s) <= n
  BY <1>2, FS_Subset, FS_CardinalityType
<1>4. Cardinality(s) # 0
  BY <1>3, FS_EmptySet
<1>5. Cardinality(s \ {Max(s)}) = Cardinality(s) - 1
  BY <1>1, <1>3, FS_RemoveElement
<1>6. Max(s) \in 1 .. n /\ s \ {Max(s)} \in SUBSET (1 .. n)
  BY <1>1
<1> QED
  BY <1>3, <1>4, <1>5, <1>6

\* The first rounds of a loop with the function h, over at most m of them.
Rounds(g, n, h, base, m) ==
  LET D == {s \in SUBSET (1 .. n) : Cardinality(s) <= m} IN
  /\ g = [s \in D |-> g[s]]
  /\ \A s \in D : g[s] = IF s = {} THEN base ELSE h[<<g[s \ {Max(s)}], Max(s)>>]

\* The outcomes of the loop, for every set of rounds.
IsLoop(g, n, h, base) ==
  g = [s \in SUBSET (1 .. n) |-> IF s = {} THEN base ELSE h[<<g[s \ {Max(s)}], Max(s)>>]]

LEMMA LoopExists ==
  ASSUME NEW n \in Nat, NEW base, NEW h
  PROVE  \E g : IsLoop(g, n, h, base)
<1> DEFINE D(m) == {s \in SUBSET (1 .. n) : Cardinality(s) <= m}
           Bad == {m \in Nat : ~\E g : Rounds(g, n, h, base, m)}
<1>1. \A s \in SUBSET (1 .. n) : IsFiniteSet(s) /\ Cardinality(s) \in 0 .. n
  <2>1. IsFiniteSet(1 .. n) /\ Cardinality(1 .. n) = n
    BY FS_Interval
  <2> SUFFICES ASSUME NEW s \in SUBSET (1 .. n)
               PROVE  IsFiniteSet(s) /\ Cardinality(s) \in 0 .. n
    OBVIOUS
  <2>2. IsFiniteSet(s) /\ Cardinality(s) <= n
    BY <2>1, FS_Subset
  <2>3. Cardinality(s) \in Nat
    BY <2>2, FS_CardinalityType
  <2> QED
    BY <2>2, <2>3
<1>2. Bad = {}
  <2> SUFFICES ASSUME Bad # {}
               PROVE  FALSE
    OBVIOUS
  <2>1. Bad \in SUBSET Nat
    OBVIOUS
  <2> HIDE DEF Bad
  <2>2. PICK m \in Bad : \A y \in Bad : ~(<<y, m>> \in OpToRel(<, Nat))
    BY <2>1, NatLessThanWellFounded, WFMin
  <2>3. m \in Nat /\ \A y \in Nat : y < m => y \notin Bad
    BY <2>1, <2>2 DEF OpToRel
  <2>4. ~\E g : Rounds(g, n, h, base, m)
    BY <2>2 DEF Bad
  <2>5. CASE m = 0
    <3> DEFINE g == [s \in D(0) |-> base]
    <3>1. \A s \in D(0) : s = {}
      BY <1>1, FS_EmptySet
    <3>2. Rounds(g, n, h, base, 0)
      BY <3>1 DEF Rounds
    <3> QED
      BY <2>4, <2>5, <3>2
  <2>6. CASE m # 0
    <3>1. m - 1 \in Nat /\ m - 1 < m
      BY <2>3, <2>6
    <3>2. PICK g : Rounds(g, n, h, base, m - 1)
      BY <2>3, <3>1 DEF Bad
    <3> DEFINE f == [s \in D(m) |-> IF s = {} THEN base ELSE h[<<g[s \ {Max(s)}], Max(s)>>]]
    <3>3. /\ g = [s \in D(m - 1) |-> g[s]]
          /\ \A s \in D(m - 1) : g[s] = IF s = {} THEN base ELSE h[<<g[s \ {Max(s)}], Max(s)>>]
      BY <3>2 DEF Rounds
    <3>4. ASSUME NEW s \in D(m), s # {}
          PROVE  s \ {Max(s)} \in D(m - 1)
      BY <1>1, <2>3, <3>4, RoundLess
    <3>5. \A s \in D(m - 1) : s \in D(m) /\ f[s] = g[s]
      <4>1. \A s \in D(m - 1) : s \in D(m)
        BY <1>1, <2>3, <3>1
      <4> QED
        BY <3>3, <4>1
    <3>6. \A s \in D(m) : f[s] = IF s = {} THEN base ELSE h[<<f[s \ {Max(s)}], Max(s)>>]
      <4> SUFFICES ASSUME NEW s \in D(m)
                   PROVE  f[s] = IF s = {} THEN base ELSE h[<<f[s \ {Max(s)}], Max(s)>>]
        OBVIOUS
      <4>1. f[s] = IF s = {} THEN base ELSE h[<<g[s \ {Max(s)}], Max(s)>>]
        OBVIOUS
      <4>2. s # {} => f[s \ {Max(s)}] = g[s \ {Max(s)}]
        BY <3>4, <3>5
      <4> QED
        BY <4>1, <4>2
    <3>7. f = [s \in D(m) |-> f[s]]
      OBVIOUS
    <3> HIDE DEF f
    <3>8. Rounds(f, n, h, base, m)
      BY <3>6, <3>7 DEF Rounds
    <3> QED
      BY <2>4, <3>8
  <2> QED
    BY <2>5, <2>6
<1>3. D(n) = SUBSET (1 .. n)
  BY <1>1
<1>4. PICK g : Rounds(g, n, h, base, n)
  BY <1>2
<1>5. /\ g = [s \in SUBSET (1 .. n) |-> g[s]]
      /\ \A s \in SUBSET (1 .. n) : g[s] = IF s = {} THEN base ELSE h[<<g[s \ {Max(s)}], Max(s)>>]
  BY <1>3, <1>4 DEF Rounds
<1>6. IsLoop(g, n, h, base)
  BY <1>5 DEF IsLoop
<1> QED
  BY <1>6

\* What holds of the start and is kept by every round holds of the outcome; V[k] is
\* what may be after k rounds.
LEMMA LoopKeeps ==
  ASSUME NEW n \in Nat, NEW g, NEW V, g[{}] \in V[0],
         \A s \in SUBSET (1 .. n) :
           s # {} /\ g[s \ {Max(s)}] \in V[Cardinality(s) - 1] => g[s] \in V[Cardinality(s)]
  PROVE  \A s \in SUBSET (1 .. n) : g[s] \in V[Cardinality(s)]
<1> DEFINE B == {s \in SUBSET (1 .. n) : g[s] \notin V[Cardinality(s)]}
<1> SUFFICES ASSUME B # {}
             PROVE  FALSE
  OBVIOUS
<1>1. B \in SUBSET SUBSET (1 .. n) /\ IsFiniteSet(1 .. n)
  BY FS_Interval
<1> HIDE DEF B
<1>2. PICK s \in B : \A r \in B : Cardinality(s) <= Cardinality(r)
  BY <1>1, SmallestSet
<1>3. s # {}
  BY <1>2, FS_EmptySet DEF B
<1>4. s \ {Max(s)} \in SUBSET (1 .. n) /\ Cardinality(s \ {Max(s)}) = Cardinality(s) - 1
      /\ Cardinality(s) \in 1 .. n
  BY <1>1, <1>3, RoundLess
<1>5. s \ {Max(s)} \notin B
  BY <1>2, <1>4
<1> QED
  BY <1>1, <1>2, <1>3, <1>4, <1>5 DEF B
-------------------------------------------------------------------------------
(* The manager: blocks come, go and are listed. *)

\* The parts of a state.
LEMMA StateFacts ==
  ASSUME NEW s \in States
  PROVE  /\ s.siz \in 0 .. MaxSize /\ s.prevTag \in Blocks /\ s.prev \in Payloads \cup {None}
         /\ s.aliased \in BOOLEAN /\ s.cached \in [Blocks -> Payloads \cup {None}]
         /\ s.order \in Seq(Blocks) /\ s.remote \in [Blocks -> Payloads \cup {None}]
         /\ s.stuck = FALSE
  BY DEF States

\* A block that is resident is listed, and so one of the blocks of the list.
LEMMA ListedFacts ==
  ASSUME NEW s, Placed(s)
  PROVE  /\ s.order \in Seq(Blocks) /\ IsInjective(s.order) /\ Len(s.order) \in 0 .. Capacity
         /\ \A i \in 1 .. Len(s.order) : s.order[i] \in Blocks /\ Resident(s, s.order[i])
         /\ \A t \in Blocks : Resident(s, t) <=> \E i \in 1 .. Len(s.order) : s.order[i] = t
<1>1. s.order \in Seq(Blocks) /\ IsInjective(s.order) /\ Len(s.order) \in 0 .. Capacity
  <2>1. s \in States /\ IsInjective(s.order) /\ Len(s.order) <= Capacity
    BY DEF Placed
  <2>2. s.order \in Seq(Blocks)
    BY <2>1, StateFacts
  <2> QED
    BY <2>1, <2>2, VectorAssumption
<1>2. DOMAIN s.order = 1 .. Len(s.order) /\ ToSet(s.order) = {t \in Blocks : Resident(s, t)}
  BY <1>1 DEF Placed
<1>3. \A i \in 1 .. Len(s.order) : s.order[i] \in {t \in Blocks : Resident(s, t)}
  BY <1>2 DEF ToSet
<1>4. \A t \in {u \in Blocks : Resident(s, u)} : \E i \in 1 .. Len(s.order) : s.order[i] = t
  BY <1>2 DEF ToSet
<1> QED
  BY <1>1, <1>3, <1>4

\* An eviction: the worker gets the block, and nothing else changes place.
LEMMA EvictFacts ==
  ASSUME NEW s, Placed(s), NEW v \in Blocks, Resident(s, v)
  PROVE  /\ Placed(Evict(s, v))
         /\ Evict(s, v).siz = s.siz /\ Evict(s, v).prevTag = s.prevTag /\ Evict(s, v).prev = s.prev
         /\ Evict(s, v).order = RemoveFirst(s.order, v)
         /\ Evict(s, v).aliased <=> s.aliased /\ v # s.prevTag
         /\ \A u \in Blocks : /\ Where(Evict(s, v), u) = Where(s, u)
                              /\ u # v => Evict(s, v).cached[u] = s.cached[u]
                              /\ Resident(Evict(s, v), u) => Resident(s, u) /\ u # v
<1> DEFINE e == Evict(s, v)
<1>1. s \in States
  BY DEF Placed
<1>2. /\ e.siz = s.siz /\ e.prevTag = s.prevTag /\ e.prev = s.prev /\ e.stuck = s.stuck
      /\ e.order = RemoveFirst(s.order, v)
      /\ e.cached = [s.cached EXCEPT ![v] = None] /\ e.remote = [s.remote EXCEPT ![v] = s.cached[v]]
      /\ e.aliased = IF v = s.prevTag THEN FALSE ELSE s.aliased
  BY <1>1 DEF Evict, States
<1> HIDE DEF e
<1>3. /\ e.order \in Seq(Blocks) /\ IsInjective(e.order) /\ ToSet(e.order) = ToSet(s.order) \ {v}
      /\ Len(e.order) <= Len(s.order)
  BY <1>2, ListedFacts, Removed
<1>4. e \in States
  <2> DEFINE c == [s.cached EXCEPT ![v] = None]
             r == [s.remote EXCEPT ![v] = s.cached[v]]
             o == RemoveFirst(s.order, v)
  <2>1. c \in [Blocks -> Payloads \cup {None}] /\ r \in [Blocks -> Payloads \cup {None}]
    BY <1>1, StateFacts
  <2>2. o \in Seq(Blocks)
    BY <1>2, <1>3
  <2>3. e = [s EXCEPT !.remote = r, !.cached = c, !.order = o,
                      !.aliased = IF v = s.prevTag THEN FALSE ELSE @]
    BY DEF e, Evict
  <2> HIDE DEF c, r, o
  <2> QED
    BY <1>1, <2>1, <2>2, <2>3 DEF States
<1>5. /\ e.cached[v] = None /\ e.remote[v] = s.cached[v]
      /\ \A u \in Blocks : u # v => e.cached[u] = s.cached[u] /\ e.remote[u] = s.remote[u]
  BY <1>1, <1>2, StateFacts
<1>6. ToSet(e.order) = {t \in Blocks : Resident(e, t)}
  <2>1. ToSet(s.order) = {t \in Blocks : Resident(s, t)}
    BY DEF Placed
  <2> QED
    BY <1>3, <1>5, <2>1 DEF Resident
<1>7. Len(e.order) <= Capacity
  BY <1>3, ListedFacts, VectorAssumption
<1>8. ASSUME e.aliased
      PROVE  Resident(e, e.prevTag) /\ e.prev = e.cached[e.prevTag]
  <2>1. s.aliased /\ v # s.prevTag
    BY <1>2, <1>8
  <2>2. Resident(s, s.prevTag) /\ s.prev = s.cached[s.prevTag]
    BY <2>1 DEF Placed
  <2>3. s.prevTag \in Blocks
    BY <1>1, StateFacts
  <2>4. e.cached[s.prevTag] = s.cached[s.prevTag]
    BY <1>5, <2>1, <2>3
  <2> QED
    BY <1>2, <2>2, <2>4 DEF Resident
<1>9. Placed(e)
  BY <1>3, <1>4, <1>6, <1>7, <1>8 DEF Placed
<1>10. \A u \in Blocks : /\ Where(e, u) = Where(s, u)
                         /\ Resident(e, u) => Resident(s, u) /\ u # v
  BY <1>5 DEF Where, Resident
<1> QED
  BY <1>2, <1>5, <1>9, <1>10 DEF e

\* The last block of the list goes, and the list is otherwise as it was.
LEMMA LastRemoved ==
  ASSUME NEW S, NEW q \in Seq(S), IsInjective(q), q # <<>>
  PROVE  /\ Last(q) \in ToSet(q)
         /\ Len(RemoveFirst(q, Last(q))) = Len(q) - 1
         /\ \A i \in 1 .. Len(q) - 1 : RemoveFirst(q, Last(q))[i] = q[i]
<1>1. Len(q) \in Nat \ {0} /\ DOMAIN q = 1 .. Len(q) /\ Last(q) = q[Len(q)]
  BY DEF Last
<1>2. Last(q) \in ToSet(q)
  BY <1>1 DEF ToSet
<1>3. RemoveFirst(q, Last(q)) = [i \in 1 .. Len(q) - 1 |-> IF i < Len(q) THEN q[i] ELSE q[i + 1]]
  BY <1>1, RemovedFirst
<1>4. Len(RemoveFirst(q, Last(q))) = Len(q) - 1
  BY <1>2, Removed
<1> QED
  BY <1>1, <1>2, <1>3, <1>4

ToFront(q, e) == <<e>> \o RemoveFirst(q, e)

\* A block in use comes to the front.
LEMMA MovedToFront ==
  ASSUME NEW S, NEW q \in Seq(S), IsInjective(q), NEW e \in S
  PROVE  /\ ToFront(q, e) \in Seq(S) /\ IsInjective(ToFront(q, e))
         /\ ToSet(ToFront(q, e)) = ToSet(q) \cup {e}
         /\ Len(ToFront(q, e)) = IF e \in ToSet(q) THEN Len(q) ELSE Len(q) + 1
<1> DEFINE p == RemoveFirst(q, e)
           r == ToFront(q, e)
<1>1. /\ p \in Seq(S) /\ IsInjective(p) /\ ToSet(p) = ToSet(q) \ {e}
      /\ Len(p) = IF e \in ToSet(q) THEN Len(q) - 1 ELSE Len(q)
  BY Removed
<1>2. Len(q) \in Nat /\ Len(p) \in Nat
  BY <1>1
<1>3. /\ r \in Seq(S) /\ IsInjective(r) /\ ToSet(r) = ToSet(p) \cup {e} /\ Len(r) = Len(p) + 1
  <2> HIDE DEF p
  <2>1. e \notin ToSet(p)
    BY <1>1
  <2> QED
    BY <1>1, <2>1, PushedFront DEF p, ToFront
<1> HIDE DEF p, r
<1>4. ToSet(r) = ToSet(q) \cup {e}
  BY <1>1, <1>3
<1>5. Len(r) = IF e \in ToSet(q) THEN Len(q) ELSE Len(q) + 1
  <2>1. CASE e \in ToSet(q)
    BY <1>1, <1>2, <1>3, <2>1
  <2>2. CASE e \notin ToSet(q)
    BY <1>1, <1>2, <1>3, <2>2
  <2> QED
    BY <2>1, <2>2
<1> QED
  BY <1>3, <1>4, <1>5 DEF r

\* The block that was in front is now behind it.
LEMMA SecondInFront ==
  ASSUME NEW S, NEW q \in Seq(S), IsInjective(q), NEW e \in S
  PROVE  /\ Len(ToFront(q, e)) \in Nat \ {0} /\ ToFront(q, e)[1] = e
         /\ Len(q) > 0 /\ q[1] # e => Len(ToFront(q, e)) > 1 /\ ToFront(q, e)[2] = q[1]
         /\ Len(q) > 1 /\ q[1] = e => Len(ToFront(q, e)) > 1 /\ ToFront(q, e)[2] = q[2]
<1> DEFINE p == RemoveFirst(q, e)
           r == ToFront(q, e)
<1>1. /\ p \in Seq(S) /\ IsInjective(p) /\ ToSet(p) = ToSet(q) \ {e}
      /\ Len(p) = IF e \in ToSet(q) THEN Len(q) - 1 ELSE Len(q)
  BY Removed
<1>2. DOMAIN q = 1 .. Len(q) /\ Len(q) \in Nat /\ Len(p) \in Nat
  BY <1>1
<1>3. Len(r) = Len(p) + 1 /\ \A i \in 1 .. Len(p) + 1 : r[i] = IF i = 1 THEN e ELSE p[i - 1]
  <2> HIDE DEF p
  <2>1. e \notin ToSet(p)
    BY <1>1
  <2> QED
    BY <1>1, <2>1, PushedFront DEF p, ToFront
<1>4. \A n \in DOMAIN q : q[n] = e => p = [i \in 1 .. Len(q) - 1 |-> IF i < n THEN q[i] ELSE q[i + 1]]
  BY RemovedFirst
<1>5. e \notin ToSet(q) => p = q
  BY NothingRemoved
<1> HIDE DEF p, r
<1>6. Len(r) \in Nat \ {0} /\ r[1] = e
  BY <1>2, <1>3
<1>7. ASSUME Len(q) > 0, q[1] # e
      PROVE  Len(r) > 1 /\ r[2] = q[1]
  <2>1. Len(p) > 0 /\ p[1] = q[1]
    <3>1. CASE e \in ToSet(q)
      <4>1. PICK n \in DOMAIN q : q[n] = e
        BY <3>1 DEF ToSet
      <4>2. n > 1 /\ 1 \in 1 .. Len(q) - 1
        BY <1>2, <1>7, <4>1
      <4> QED
        BY <1>1, <1>2, <1>4, <3>1, <4>1, <4>2
    <3>2. CASE e \notin ToSet(q)
      BY <1>1, <1>5, <1>7, <3>2
    <3> QED
      BY <3>1, <3>2
  <2> QED
    BY <1>2, <1>3, <2>1
<1>8. ASSUME Len(q) > 1, q[1] = e
      PROVE  Len(r) > 1 /\ r[2] = q[2]
  <2>1. 1 \in DOMAIN q /\ 1 \in 1 .. Len(q) - 1 /\ e \in ToSet(q)
    BY <1>2, <1>8 DEF ToSet
  <2>2. p[1] = q[2]
    BY <1>4, <1>8, <2>1
  <2> QED
    BY <1>1, <1>2, <1>3, <1>8, <2>1, <2>2
<1> QED
  BY <1>6, <1>7, <1>8 DEF r

\* What refer() makes of the manager when block t is used: t is in front, if need be the
\* last block went to its worker, the block in front before is kept if two fit.
Referred(s, t, r) ==
  /\ r \in States /\ r.siz = s.siz /\ r.prevTag = s.prevTag /\ r.prev = s.prev
  /\ IsInjective(r.order) /\ Len(r.order) \in 1 .. Capacity /\ r.order[1] = t
  /\ ToSet(r.order) = {u \in Blocks : Resident(r, u)} \cup {t}
  /\ r.cached[t] = s.cached[t] /\ r.remote[t] = s.remote[t]
  /\ \A u \in Blocks \ {t} : /\ Where(r, u) = Where(s, u)
                             /\ Resident(r, u) => Resident(s, u) /\ r.cached[u] = s.cached[u]
  /\ r.aliased => s.aliased /\ Resident(r, s.prevTag)
  /\ Resident(s, t) => (r.aliased <=> s.aliased)
  /\ Len(s.order) > 0 /\ s.order[1] # t /\ Capacity > 1 =>
       /\ Len(r.order) > 1 /\ r.order[2] = s.order[1]
       /\ s.order[1] = s.prevTag => (r.aliased <=> s.aliased)
  /\ Len(s.order) > 1 /\ s.order[1] = t => Len(r.order) > 1 /\ r.order[2] = s.order[2]

\* Where the list is after room was made.
Fronted(m, t, r) ==
  /\ r \in States /\ r.siz = m.siz /\ r.prevTag = m.prevTag /\ r.prev = m.prev
  /\ r.cached = m.cached /\ r.remote = m.remote /\ (r.aliased <=> m.aliased)
  /\ IsInjective(r.order) /\ Len(r.order) \in 1 .. Capacity /\ r.order[1] = t
  /\ ToSet(r.order) = {u \in Blocks : Resident(r, u)} \cup {t}
  /\ Len(m.order) > 0 /\ m.order[1] # t => Len(r.order) > 1 /\ r.order[2] = m.order[1]
  /\ Len(m.order) > 1 /\ m.order[1] = t => Len(r.order) > 1 /\ r.order[2] = m.order[2]

LEMMA ListedInFront ==
  ASSUME NEW m, Placed(m), NEW t \in Blocks, Resident(m, t) \/ Len(m.order) < Capacity
  PROVE  Fronted(m, t, Used(m, t))
<1> DEFINE q == m.order
           r == Used(m, t)
<1>1. /\ m \in States /\ q \in Seq(Blocks) /\ IsInjective(q) /\ Len(q) \in 0 .. Capacity
      /\ ToSet(q) = {u \in Blocks : Resident(m, u)}
  BY ListedFacts DEF Placed
<1> HIDE DEF q
<1> DEFINE o == ToFront(q, t)
<1> HIDE DEF o
<1>2. /\ o \in Seq(Blocks) /\ IsInjective(o) /\ ToSet(o) = ToSet(q) \cup {t}
      /\ Len(o) = IF t \in ToSet(q) THEN Len(q) ELSE Len(q) + 1
  BY <1>1, MovedToFront DEF o
<1>9. /\ Len(o) \in Nat \ {0} /\ o[1] = t
      /\ Len(q) > 0 /\ q[1] # t => Len(o) > 1 /\ o[2] = q[1]
      /\ Len(q) > 1 /\ q[1] = t => Len(o) > 1 /\ o[2] = q[2]
  BY <1>1, SecondInFront DEF o
<1>3. r = [m EXCEPT !.order = o]
  BY DEF q, o, Used, ToFront
<1> HIDE DEF r
<1>4. /\ r \in States /\ r.siz = m.siz /\ r.prevTag = m.prevTag /\ r.prev = m.prev
      /\ r.cached = m.cached /\ r.remote = m.remote /\ (r.aliased <=> m.aliased) /\ r.order = o
  BY <1>1, <1>2, <1>3 DEF States
<1>5. Len(o) \in 1 .. Capacity
  <2>1. CASE Resident(m, t)
    <3>1. t \in ToSet(q)
      BY <1>1, <2>1
    <3> QED
      BY <1>1, <1>2, <1>9, <3>1, VectorAssumption
  <2>2. CASE ~Resident(m, t)
    <3>1. t \notin ToSet(q) /\ Len(q) < Capacity
      BY <1>1, <2>2 DEF q
    <3> QED
      BY <1>1, <1>2, <1>9, <3>1, VectorAssumption
  <2> QED
    BY <2>1, <2>2
<1>6. ToSet(r.order) = {u \in Blocks : Resident(r, u)} \cup {t}
  BY <1>1, <1>2, <1>4 DEF Resident
<1> QED
  BY <1>2, <1>4, <1>5, <1>6, <1>9 DEF q, r, Fronted

LEMMA ReferFacts ==
  ASSUME NEW s, Placed(s), NEW t \in Blocks
  PROVE  Referred(s, t, Refer(s, t))
<1> DEFINE r == Refer(s, t)
           v == Last(s.order)
<1>1. /\ s \in States /\ s.order \in Seq(Blocks) /\ IsInjective(s.order) /\ Len(s.order) \in 0 .. Capacity
      /\ \A i \in 1 .. Len(s.order) : s.order[i] \in Blocks /\ Resident(s, s.order[i])
      /\ Capacity \in Nat \ {0}
  BY ListedFacts, VectorAssumption DEF Placed
<1>2. CASE Resident(s, t) \/ Len(s.order) < Capacity
  <2>1. r = Used(s, t)
    BY <1>1, <1>2 DEF Refer
  <2>2. /\ r \in States /\ r.siz = s.siz /\ r.prevTag = s.prevTag /\ r.prev = s.prev
        /\ r.cached = s.cached /\ r.remote = s.remote /\ (r.aliased <=> s.aliased)
        /\ IsInjective(r.order) /\ Len(r.order) \in 1 .. Capacity /\ r.order[1] = t
        /\ ToSet(r.order) = {u \in Blocks : Resident(r, u)} \cup {t}
        /\ Len(s.order) > 0 /\ s.order[1] # t => Len(r.order) > 1 /\ r.order[2] = s.order[1]
        /\ Len(s.order) > 1 /\ s.order[1] = t => Len(r.order) > 1 /\ r.order[2] = s.order[2]
    BY <1>2, <2>1, ListedInFront DEF Fronted
  <2> HIDE DEF r
  <2>3. r.aliased => s.aliased /\ Resident(r, s.prevTag)
    BY <2>2 DEF Placed, Resident
  <2>4. \A u \in Blocks : Where(r, u) = Where(s, u) /\ (Resident(r, u) => Resident(s, u))
    BY <2>2 DEF Where, Resident
  <2> QED
    BY <2>2, <2>3, <2>4 DEF Referred, r
<1>3. CASE ~Resident(s, t) /\ Len(s.order) >= Capacity
  <2> DEFINE m == Evict(s, v)
  <2>1. s.order # <<>> /\ DOMAIN s.order = 1 .. Len(s.order) /\ v = s.order[Len(s.order)] /\ Len(s.order) = Capacity
    BY <1>1, <1>3 DEF Last
  <2>2. v \in Blocks /\ Resident(s, v) /\ v # t
    BY <1>1, <1>3, <2>1
  <2>3. r = Used(m, t)
    BY <1>3 DEF Refer
  <2>4. /\ Placed(m) /\ m.siz = s.siz /\ m.prevTag = s.prevTag /\ m.prev = s.prev
        /\ m.order = RemoveFirst(s.order, v) /\ (m.aliased <=> s.aliased /\ v # s.prevTag)
        /\ \A u \in Blocks : /\ Where(m, u) = Where(s, u)
                             /\ u # v => m.cached[u] = s.cached[u]
                             /\ Resident(m, u) => Resident(s, u) /\ u # v
    BY <2>2, EvictFacts
  <2>5. Len(m.order) = Len(s.order) - 1 /\ \A i \in 1 .. Len(s.order) - 1 : m.order[i] = s.order[i]
    BY <1>1, <2>1, <2>4, LastRemoved
  <2>6. m.remote[t] = s.remote[t]
    BY <2>2, StateFacts, <1>1 DEF Evict, States
  <2> HIDE DEF m, v
  <2>7. /\ r \in States /\ r.siz = m.siz /\ r.prevTag = m.prevTag /\ r.prev = m.prev
        /\ r.cached = m.cached /\ r.remote = m.remote /\ (r.aliased <=> m.aliased)
        /\ IsInjective(r.order) /\ Len(r.order) \in 1 .. Capacity /\ r.order[1] = t
        /\ ToSet(r.order) = {u \in Blocks : Resident(r, u)} \cup {t}
        /\ Len(m.order) > 0 /\ m.order[1] # t => Len(r.order) > 1 /\ r.order[2] = m.order[1]
    <3>1. Len(m.order) < Capacity
      BY <1>1, <2>1, <2>5
    <3> QED
      BY <2>3, <2>4, <3>1, ListedInFront DEF Fronted
  <2> HIDE DEF r
  <2>8. r.aliased => s.aliased /\ Resident(r, s.prevTag)
    BY <2>4, <2>7 DEF Placed, Resident
  <2>9. \A u \in Blocks : /\ Where(r, u) = Where(s, u)
                          /\ Resident(r, u) => Resident(s, u) /\ (u # v => r.cached[u] = s.cached[u]) /\ u # v
    BY <2>4, <2>7 DEF Where, Resident
  <2>10. ASSUME Len(s.order) > 0, s.order[1] # t, Capacity > 1
         PROVE  /\ Len(r.order) > 1 /\ r.order[2] = s.order[1]
                /\ s.order[1] = s.prevTag => (r.aliased <=> s.aliased)
    <3>1. Len(m.order) > 0 /\ m.order[1] = s.order[1]
      BY <1>1, <2>1, <2>5, <2>10
    <3>2. s.order[1] # v
      BY <1>1, <2>1, <2>10 DEF IsInjective
    <3> QED
      BY <2>4, <2>7, <2>10, <3>1, <3>2
  <2>11. Len(s.order) > 1 => s.order[1] # t
    BY <1>1, <1>3
  <2> QED
    BY <1>3, <2>2, <2>4, <2>6, <2>7, <2>8, <2>9, <2>10, <2>11 DEF Referred, r
<1> QED
  BY <1>1, <1>2, <1>3

\* The message p of block t, the block in use, is put where the list r says it is.
PutIn(r, t, p, g) ==
  /\ g \in States /\ g.order = r.order /\ g.remote = r.remote
  /\ g.cached = [r.cached EXCEPT ![t] = p]
  /\ g.aliased => Resident(g, g.prevTag) /\ g.prev = g.cached[g.prevTag]

HasPut(s, t, p, g) ==
  /\ Placed(g) /\ Resident(g, t) /\ Where(g, t) = p
  /\ \A u \in Blocks \ {t} : Where(g, u) = Where(s, u)

LEMMA CachedPut ==
  ASSUME NEW s, Placed(s), NEW t \in Blocks, NEW r, Referred(s, t, r), NEW p \in Payloads,
         NEW g, PutIn(r, t, p, g)
  PROVE  HasPut(s, t, p, g)
<1>0. /\ g \in States /\ g.order = r.order /\ g.remote = r.remote
      /\ g.cached = [r.cached EXCEPT ![t] = p]
      /\ g.aliased => Resident(g, g.prevTag) /\ g.prev = g.cached[g.prevTag]
  BY DEF PutIn
<1>1. /\ r \in States /\ IsInjective(r.order) /\ Len(r.order) \in 1 .. Capacity
      /\ ToSet(r.order) = {u \in Blocks : Resident(r, u)} \cup {t}
      /\ \A u \in Blocks \ {t} : Where(r, u) = Where(s, u)
  BY DEF Referred
<1>2. r.cached \in [Blocks -> Payloads \cup {None}] /\ p # None
  BY <1>1, StateFacts, TagFacts
<1>3. g.cached[t] = p /\ \A u \in Blocks \ {t} : g.cached[u] = r.cached[u]
  BY <1>0, <1>2
<1>4. Resident(g, t) /\ Where(g, t) = p
  BY <1>2, <1>3 DEF Resident, Where
<1>5. \A u \in Blocks \ {t} : Where(g, u) = Where(s, u) /\ (Resident(g, u) <=> Resident(r, u))
  BY <1>0, <1>1, <1>3 DEF Resident, Where
<1>6. ToSet(g.order) = {u \in Blocks : Resident(g, u)}
  BY <1>0, <1>1, <1>4, <1>5
<1>7. Len(g.order) <= Capacity
  BY <1>0, <1>1, VectorAssumption
<1>8. Placed(g)
  BY <1>0, <1>1, <1>6, <1>7 DEF Placed
<1> QED
  BY <1>4, <1>5, <1>8 DEF HasPut

\* Block t was looked up: it is resident and in front, and every fetch gets what it
\* would have got.
Brought(s, t, g) ==
  /\ Placed(g) /\ g.siz = s.siz /\ g.prevTag = s.prevTag /\ g.prev = s.prev
  /\ Resident(g, t) /\ Len(g.order) \in Nat \ {0} /\ g.order[1] = t
  /\ \A u \in Blocks : Where(g, u) = Where(s, u)
  /\ Resident(s, t) => (g.aliased <=> s.aliased)
  /\ Len(s.order) > 0 /\ s.order[1] # t /\ Capacity > 1 =>
       /\ Len(g.order) > 1 /\ g.order[2] = s.order[1]
       /\ s.order[1] = s.prevTag => (g.aliased <=> s.aliased)
  /\ Len(s.order) > 1 /\ s.order[1] = t => Len(g.order) > 1 /\ g.order[2] = s.order[2]

LEMMA GetBlockFacts ==
  ASSUME NEW s, Placed(s), NEW t \in Blocks, Where(s, t) # None
  PROVE  Brought(s, t, GetBlock(s, t))
<1> DEFINE r == Refer(s, t)
           g == GetBlock(s, t)
<1>1. Referred(s, t, r)
  BY ReferFacts
<1>2. /\ r \in States /\ r.siz = s.siz /\ r.prevTag = s.prevTag /\ r.prev = s.prev
      /\ r.cached[t] = s.cached[t] /\ r.remote[t] = s.remote[t]
      /\ Len(r.order) \in 1 .. Capacity /\ r.order[1] = t
      /\ r.aliased => s.aliased /\ Resident(r, s.prevTag)
      /\ \A u \in Blocks \ {t} : Resident(r, u) => r.cached[u] = s.cached[u]
  BY <1>1 DEF Referred
<1>3. /\ Resident(s, t) => (r.aliased <=> s.aliased)
      /\ Len(s.order) > 0 /\ s.order[1] # t /\ Capacity > 1 =>
           /\ Len(r.order) > 1 /\ r.order[2] = s.order[1]
           /\ s.order[1] = s.prevTag => (r.aliased <=> s.aliased)
      /\ Len(s.order) > 1 /\ s.order[1] = t => Len(r.order) > 1 /\ r.order[2] = s.order[2]
  BY <1>1 DEF Referred
<1>4. s \in States /\ (s.aliased => Resident(s, s.prevTag) /\ s.prev = s.cached[s.prevTag])
  BY DEF Placed
<1>5. s.cached[t] \in Payloads \cup {None} /\ s.remote[t] \in Payloads \cup {None} /\ s.prevTag \in Blocks
  BY <1>4, StateFacts
<1>6. /\ g \in States /\ g.siz = r.siz /\ g.prevTag = r.prevTag /\ g.prev = r.prev
      /\ (g.aliased <=> r.aliased) /\ g.order = r.order /\ g.remote = r.remote
      /\ g.cached = [r.cached EXCEPT ![t] = Where(s, t)]
  <2> HIDE DEF r
  <2>1. CASE Resident(s, t)
    <3>1. g = r
      BY <2>1 DEF GetBlock, r
    <3>2. r.cached = [r.cached EXCEPT ![t] = Where(s, t)]
      BY <1>2, <2>1, StateFacts DEF Where
    <3> QED
      BY <1>2, <3>1, <3>2
  <2>2. CASE ~Resident(s, t)
    <3>1. Where(s, t) = s.remote[t] /\ s.remote[t] # None
      BY <2>2 DEF Where
    <3>2. g = [r EXCEPT !.cached[t] = s.remote[t]]
      BY <2>2, <3>1 DEF GetBlock, r
    <3> HIDE DEF g
    <3> DEFINE c == [r.cached EXCEPT ![t] = s.remote[t]]
    <3>3. c \in [Blocks -> Payloads \cup {None}]
      BY <1>2, <1>5, StateFacts
    <3>4. g = [r EXCEPT !.cached = c]
      BY <1>2, <3>2 DEF States
    <3> HIDE DEF c
    <3>5. /\ g \in States /\ g.siz = r.siz /\ g.prevTag = r.prevTag /\ g.prev = r.prev
          /\ (g.aliased <=> r.aliased) /\ g.order = r.order /\ g.remote = r.remote /\ g.cached = c
      BY <1>2, <3>3, <3>4 DEF States
    <3> QED
      BY <3>1, <3>5 DEF c
  <2> QED
    BY <2>1, <2>2
<1> HIDE DEF r, g
<1>7. Where(s, t) \in Payloads
  BY <1>5 DEF Where
<1>8. ASSUME g.aliased
      PROVE  Resident(g, g.prevTag) /\ g.prev = g.cached[g.prevTag]
  <2>1. s.aliased /\ Resident(r, s.prevTag) /\ g.prevTag = s.prevTag /\ g.prev = s.prev
    BY <1>2, <1>6, <1>8
  <2>2. Resident(s, s.prevTag) /\ s.prev = s.cached[s.prevTag]
    BY <1>4, <2>1
  <2>3. r.cached \in [Blocks -> Payloads \cup {None}]
    BY <1>2, StateFacts
  <2>4. CASE t = s.prevTag
    BY <1>6, <2>1, <2>2, <2>3, <2>4 DEF Resident, Where
  <2>5. CASE t # s.prevTag
    BY <1>2, <1>5, <1>6, <2>1, <2>2, <2>3, <2>5 DEF Resident
  <2> QED
    BY <2>4, <2>5
<1>9. /\ Placed(g) /\ Resident(g, t) /\ Where(g, t) = Where(s, t)
      /\ \A u \in Blocks \ {t} : Where(g, u) = Where(s, u)
  <2>1. PutIn(r, t, Where(s, t), g)
    BY <1>6, <1>8 DEF PutIn
  <2> QED
    BY <1>1, <1>7, <2>1, CachedPut DEF HasPut
<1>10. Len(g.order) \in Nat \ {0} /\ g.order[1] = t
  BY <1>2, <1>6, VectorAssumption
<1> QED
  BY <1>2, <1>3, <1>6, <1>9, <1>10 DEF Brought, g

\* prevMsg is stored: it is the message of its block in the cache, and that is in front.
Stored(s, g) ==
  /\ Placed(g) /\ g.siz = s.siz /\ g.prevTag = s.prevTag /\ g.prev = s.prev
  /\ g.aliased /\ g.order[1] = g.prevTag
  /\ Where(g, g.prevTag) = g.prev
  /\ \A u \in Blocks \ {s.prevTag} : Where(g, u) = Where(s, u)

LEMMA StorePrevFacts ==
  ASSUME NEW s, Placed(s), s.prev # None
  PROVE  Stored(s, StorePrev(s))
<1> DEFINE t == s.prevTag
           r == Refer(s, t)
           g == StorePrev(s)
<1>1. s \in States /\ t \in Blocks /\ s.prev \in Payloads
  BY StateFacts DEF Placed
<1>2. Referred(s, t, r)
  BY <1>1, ReferFacts
<1>3. /\ r \in States /\ r.siz = s.siz /\ r.prevTag = s.prevTag /\ r.prev = s.prev /\ r.order[1] = t
  BY <1>2 DEF Referred
<1> HIDE DEF r
<1>4. /\ g \in States /\ g.siz = r.siz /\ g.prevTag = r.prevTag /\ g.prev = r.prev
      /\ g.aliased /\ g.order = r.order /\ g.remote = r.remote
      /\ g.cached = [r.cached EXCEPT ![t] = s.prev]
  <2> DEFINE c == [r.cached EXCEPT ![t] = s.prev]
  <2>1. c \in [Blocks -> Payloads \cup {None}]
    BY <1>1, <1>3, StateFacts
  <2>2. g = [r EXCEPT !.cached = c, !.aliased = TRUE]
    BY <1>3 DEF States, StorePrev, r
  <2> HIDE DEF c, g
  <2>3. /\ g \in States /\ g.siz = r.siz /\ g.prevTag = r.prevTag /\ g.prev = r.prev
        /\ g.aliased /\ g.order = r.order /\ g.remote = r.remote /\ g.cached = c
    BY <1>3, <2>1, <2>2 DEF States
  <2> QED
    BY <2>3 DEF c
<1> HIDE DEF g
<1>5. Resident(g, g.prevTag) /\ g.prev = g.cached[g.prevTag]
  BY <1>1, <1>3, <1>4, StateFacts, TagFacts DEF Resident
<1>6. /\ Placed(g) /\ Where(g, t) = s.prev
      /\ \A u \in Blocks \ {t} : Where(g, u) = Where(s, u)
  <2> HIDE DEF t
  <2>1. PutIn(r, t, s.prev, g)
    BY <1>4, <1>5 DEF PutIn
  <2> QED
    BY <1>1, <1>2, <2>1, CachedPut DEF HasPut
<1> QED
  BY <1>3, <1>4, <1>6 DEF Stored, g
-------------------------------------------------------------------------------
(* What the calls do with the block in hand. *)

\* The parts of Sound.
LEMMA SoundFacts ==
  ASSUME NEW s, Sound(s)
  PROVE  /\ Placed(s) /\ s \in States
         /\ s.siz > 0 => s.prev # None
         /\ \A i \in 0 .. s.siz - 1 : Where(s, Tag(i)) # None
         /\ s.prev # None /\ "shared" \notin program /\ PrefetchFits => InHand(s)
         /\ s.prev # None /\ program \cap {"assign", "exchange"} = {} => s.prev = Where(s, s.prevTag)
  BY DEF Sound, Placed

\* An index has a block, and between two calls that is somewhere and one in hand.
LEMMA IndexFacts ==
  ASSUME NEW s, Sound(s), NEW i \in 0 .. s.siz - 1
  PROVE  /\ i \in Nat /\ s.siz \in 1 .. MaxSize /\ Tag(i) \in Blocks /\ Place(i) \in 0 .. BlockElems - 1
         /\ Where(s, Tag(i)) # None /\ s.prev \in Payloads
<1>1. s \in States /\ s.siz \in 0 .. MaxSize /\ MaxSize \in Nat
  BY SoundFacts, StateFacts, VectorAssumption
<1>2. i \in Nat /\ i \in 0 .. MaxSize /\ s.siz \in 1 .. MaxSize
  BY <1>1
<1>3. s.prev # None /\ s.prev \in Payloads \cup {None}
  <2>1. s.prev # None
    BY <1>2, SoundFacts
  <2>2. s.prev \in Payloads \cup {None}
    BY <1>1, StateFacts
  <2> QED
    BY <2>1, <2>2
<1> QED
  BY <1>2, <1>3, SoundFacts, TagFacts

\* The message of block t is in hand.
Holds(s, t, h) ==
  /\ Placed(h) /\ h.siz = s.siz /\ h.prevTag = t /\ h.prev \in Payloads
  /\ \A u \in Blocks : Where(h, u) = Where(s, u)
  /\ t = s.prevTag => h = s
  /\ t # s.prevTag =>
       /\ h.aliased /\ h.order[1] = t /\ h.prev = Where(h, t)
       /\ Len(s.order) > 0 /\ s.order[1] # t /\ Capacity > 1 =>
            Len(h.order) > 1 /\ h.order[2] = s.order[1]

LEMMA HoldFacts ==
  ASSUME NEW s, Placed(s), s.prev \in Payloads, NEW t \in Blocks, Where(s, t) # None
  PROVE  Holds(s, t, Hold(s, t))
<1>1. CASE t = s.prevTag
  <2>1. Hold(s, t) = s
    BY <1>1, TagFacts DEF Hold
  <2> QED
    BY <1>1, <2>1 DEF Holds
<1>2. CASE t # s.prevTag
  <2> DEFINE g == GetBlock(s, t)
             h == Hold(s, t)
  <2>1. Brought(s, t, g)
    BY GetBlockFacts
  <2>2. /\ Placed(g) /\ g \in States /\ g.siz = s.siz /\ Resident(g, t)
        /\ g.order[1] = t /\ \A u \in Blocks : Where(g, u) = Where(s, u)
    BY <2>1 DEF Brought, Placed
  <2>3. Len(s.order) > 0 /\ s.order[1] # t /\ Capacity > 1 => Len(g.order) > 1 /\ g.order[2] = s.order[1]
    BY <2>1 DEF Brought
  <2>4. g.stuck = FALSE /\ g.cached \in [Blocks -> Payloads \cup {None}]
    BY <2>2, StateFacts
  <2>5. h = [g EXCEPT !.prevTag = t, !.prev = g.cached[t], !.aliased = TRUE]
    BY <1>2, <2>4 DEF Hold
  <2> HIDE DEF g, h
  <2>6. g.cached[t] \in Payloads
    BY <2>2, <2>4 DEF Resident
  <2> DEFINE p == g.cached[t]
  <2>7. h = [g EXCEPT !.prevTag = t, !.prev = p, !.aliased = TRUE] /\ p \in Payloads
    BY <2>5, <2>6
  <2> HIDE DEF p
  <2>8. /\ h \in States /\ h.siz = g.siz /\ h.prevTag = t /\ h.prev = p /\ h.aliased
        /\ h.cached = g.cached /\ h.order = g.order /\ h.remote = g.remote
    BY <2>2, <2>7 DEF States
  <2>9. Resident(h, t) /\ \A u \in Blocks : Where(h, u) = Where(g, u) /\ (Resident(h, u) <=> Resident(g, u))
    BY <2>2, <2>8 DEF Resident, Where
  <2>10. h.prev = h.cached[t] /\ h.prev = Where(h, t)
    BY <2>8, <2>9 DEF p, Where
  <2>11. Placed(h)
    <3>1. /\ IsInjective(g.order) /\ ToSet(g.order) = {u \in Blocks : Resident(g, u)}
          /\ Len(g.order) <= Capacity
      BY <2>2 DEF Placed
    <3>2. ToSet(h.order) = {u \in Blocks : Resident(h, u)}
      BY <2>8, <2>9, <3>1
    <3> QED
      BY <2>8, <2>9, <2>10, <3>1, <3>2 DEF Placed
  <2> QED
    BY <1>2, <2>2, <2>3, <2>7, <2>8, <2>9, <2>10, <2>11 DEF Holds, h
<1> QED
  BY <1>1, <1>2

\* After a prefetch the same blocks are where they were, one of them in front.
LEMMA PrefetchFacts ==
  ASSUME NEW s, Sound(s), NEW i \in 0 .. s.siz - 1
  PROVE  /\ Prefetch(s, i) = s \/ (Forward /\ Brought(s, Tag(i) + 1, Prefetch(s, i)))
         /\ ~Forward => Prefetch(s, i) = s
<1>1. Placed(s) /\ s.siz \in 0 .. MaxSize /\ i \in Nat
  BY SoundFacts, StateFacts, IndexFacts
<1>2. CASE /\ Forward
           /\ BlockSize - ByteOf(i) + 1 >= PrefetchCount
           /\ s.siz \div BlockSize > Tag(i) + 1
  <2>1. PICK j \in 0 .. s.siz - 1 : Tag(i) + 1 = Tag(j)
    BY <1>1, <1>2, PrefetchedBlock
  <2>2. Tag(j) \in Blocks /\ Where(s, Tag(j)) # None
    BY IndexFacts
  <2>3. Prefetch(s, i) = GetBlock(s, Tag(i) + 1)
    BY <1>2 DEF Prefetch
  <2> QED
    BY <1>1, <1>2, <2>1, <2>2, <2>3, GetBlockFacts
<1>3. CASE ~(/\ Forward
             /\ BlockSize - ByteOf(i) + 1 >= PrefetchCount
             /\ s.siz \div BlockSize > Tag(i) + 1)
  <2>1. Prefetch(s, i) = s
    BY <1>3, Zenon DEF Prefetch
  <2> QED
    BY <2>1
<1> QED
  BY <1>2, <1>3

\* The block of an element is in hand.
Touched(s, i, t) ==
  /\ Sound(t) /\ t.siz = s.siz /\ t.prevTag = Tag(i) /\ t.prev \in Payloads
  /\ \A u \in Blocks : Where(t, u) = Where(s, u)

\* A prefetch after which the block in hand is the one it was, or another in front.
LEMMA TouchSteps ==
  ASSUME NEW s, Sound(s), NEW i \in 0 .. s.siz - 1,
         NEW p, p = Prefetch(s, i), NEW h, h = Hold(p, Tag(i))
  PROVE  /\ Touch(s, i) = h
         /\ Placed(p) /\ p.siz = s.siz /\ p.prevTag = s.prevTag /\ p.prev = s.prev /\ p.prev \in Payloads
         /\ \A u \in Blocks : Where(p, u) = Where(s, u)
         /\ Holds(p, Tag(i), h)
<1>1. Placed(s) /\ s \in States /\ s.stuck = FALSE
  BY SoundFacts, StateFacts
<1>2. Touch(s, i) = h
  BY <1>1 DEF Touch
<1>3. Tag(i) \in Blocks /\ Where(s, Tag(i)) # None /\ s.prev \in Payloads
  BY IndexFacts
<1>4. Placed(p) /\ p.siz = s.siz /\ p.prevTag = s.prevTag /\ p.prev = s.prev
      /\ \A u \in Blocks : Where(p, u) = Where(s, u)
  <2>1. p = s \/ Brought(s, Tag(i) + 1, p)
    BY PrefetchFacts
  <2>2. CASE p = s
    BY <1>1, <2>2
  <2>3. CASE Brought(s, Tag(i) + 1, p)
    BY <2>3 DEF Brought
  <2> QED
    BY <2>1, <2>2, <2>3
<1>5. Holds(p, Tag(i), h)
  BY <1>3, <1>4, HoldFacts
<1> QED
  BY <1>2, <1>3, <1>4, <1>5

LEMMA TouchFacts ==
  ASSUME NEW s, Sound(s), NEW i \in 0 .. s.siz - 1
  PROVE  Touched(s, i, Touch(s, i))
<1> DEFINE p == Prefetch(s, i)
           t == Touch(s, i)
           b == Tag(i)
<1>1. /\ t = Hold(p, b) /\ Placed(p) /\ p.siz = s.siz /\ p.prevTag = s.prevTag /\ p.prev = s.prev
      /\ p.prev \in Payloads /\ \A u \in Blocks : Where(p, u) = Where(s, u)
      /\ Holds(p, b, t)
  BY TouchSteps
<1>2. b \in Blocks /\ b + 1 # b /\ s.siz \in 1 .. MaxSize
  <2>1. b \in Blocks /\ s.siz \in 1 .. MaxSize
    BY IndexFacts
  <2> HIDE DEF b
  <2>2. b \in Nat
    BY <2>1, TagFacts
  <2> QED
    BY <2>1, <2>2
<1>3. p = s \/ (Forward /\ Brought(s, b + 1, p))
  BY PrefetchFacts
<1> HIDE DEF p, t, b
<1>4. /\ Placed(t) /\ t.siz = s.siz /\ t.prevTag = b /\ t.prev \in Payloads
      /\ \A u \in Blocks : Where(t, u) = Where(s, u)
  BY <1>1 DEF Holds
<1>5. ASSUME NEW j \in 0 .. t.siz - 1
      PROVE  Where(t, Tag(j)) # None
  BY <1>4, IndexFacts
<1>6. ASSUME program \cap {"assign", "exchange"} = {}
      PROVE  t.prev = Where(t, t.prevTag)
  <2>1. CASE b = p.prevTag
    <3>1. t = p
      BY <1>1, <2>1 DEF Holds
    <3>2. s.prev # None
      BY <1>1, TagFacts
    <3>3. s.prev = Where(s, s.prevTag)
      BY <1>6, <3>2, SoundFacts
    <3> QED
      BY <1>1, <1>2, <2>1, <3>1, <3>3
  <2>2. CASE b # p.prevTag
    BY <1>1, <1>4, <2>2 DEF Holds
  <2> QED
    BY <2>1, <2>2
<1>7. ASSUME "shared" \notin program, PrefetchFits
      PROVE  InHand(t)
  <2>1. CASE b # p.prevTag
    BY <1>1, <1>4, <2>1 DEF Holds, InHand
  <2>2. CASE b = p.prevTag
    <3>1. t = p /\ s.prev # None
      BY <1>1, <2>2, TagFacts DEF Holds
    <3>2. InHand(s)
      BY <1>7, <3>1, SoundFacts
    <3>3. CASE p = s
      BY <3>1, <3>2, <3>3
    <3>4. CASE Forward /\ Brought(s, b + 1, p)
      <4>1. Capacity > 1 /\ s.prevTag = b
        BY <1>1, <1>7, <2>2, <3>4 DEF PrefetchFits
      <4>2. /\ p.order[1] = b + 1
            /\ Resident(s, b + 1) => (p.aliased <=> s.aliased)
            /\ Len(s.order) > 0 /\ s.order[1] # b + 1 =>
                 /\ Len(p.order) > 1 /\ p.order[2] = s.order[1]
                 /\ s.order[1] = b => (p.aliased <=> s.aliased)
            /\ Len(s.order) > 1 /\ s.order[1] = b + 1 => Len(p.order) > 1 /\ p.order[2] = s.order[2]
        BY <3>4, <4>1 DEF Brought
      <4>3. /\ s.aliased
            /\ \/ s.order[1] = b
               \/ Len(s.order) > 1 /\ s.order[1] = b + 1 /\ s.order[2] = b
        BY <3>2, <4>1 DEF InHand
      <4>4. Len(s.order) > 0
        <5>1. Resident(s, b) /\ Placed(s)
          BY <4>1, <4>3, SoundFacts DEF Placed
        <5>2. \E k \in 1 .. Len(s.order) : s.order[k] = b
          BY <1>2, <5>1, ListedFacts
        <5>3. Len(s.order) \in 0 .. Capacity /\ Capacity \in Nat
          BY <5>1, ListedFacts, VectorAssumption
        <5> QED
          BY <5>2, <5>3
      <4>5. CASE s.order[1] = b
        <5>1. Len(p.order) > 1 /\ p.order[2] = b /\ p.aliased
          BY <1>2, <4>2, <4>3, <4>4, <4>5
        <5> QED
          BY <1>1, <2>2, <3>1, <3>4, <4>2, <5>1 DEF InHand
      <4>6. CASE Len(s.order) > 1 /\ s.order[1] = b + 1 /\ s.order[2] = b
        <5>1. Resident(s, b + 1)
          <6>1. Placed(s) /\ 1 \in 1 .. Len(s.order)
            BY <4>6, SoundFacts, ListedFacts
          <6> QED
            BY <4>6, <6>1, ListedFacts
        <5>2. Len(p.order) > 1 /\ p.order[2] = b /\ p.aliased
          BY <4>2, <4>3, <4>6, <5>1
        <5> QED
          BY <1>1, <2>2, <3>1, <3>4, <4>2, <5>2 DEF InHand
      <4> QED
        BY <4>3, <4>5, <4>6
    <3> QED
      BY <1>3, <3>3, <3>4
  <2> QED
    BY <2>1, <2>2
<1>8. Sound(t)
  BY <1>4, <1>5, <1>6, <1>7, TagFacts DEF Sound
<1> QED
  BY <1>4, <1>8 DEF Touched, t, b

\* A write changes the block in hand, and the cache's message if that is the same one.
Written(s, w) ==
  /\ Placed(w) /\ w.siz = s.siz /\ w.prevTag = s.prevTag /\ w.order = s.order
  /\ w.prev \in Payloads /\ (w.aliased <=> s.aliased)
  /\ \A u \in Blocks \ {s.prevTag} : Where(w, u) = Where(s, u)
  /\ \A u \in Blocks : Resident(w, u) <=> Resident(s, u)
  /\ Where(s, s.prevTag) # None => Where(w, s.prevTag) # None

LEMMA WriteFacts ==
  ASSUME NEW s, Placed(s), s.prev \in Payloads, NEW i \in Nat, NEW v \in Values \cup {Junk}
  PROVE  Written(s, WriteHeld(s, i, v))
<1> DEFINE t == s.prevTag
           w == WriteHeld(s, i, v)
           p == [s.prev EXCEPT ![Place(i)] = v]
           c == [s.cached EXCEPT ![t] = IF s.aliased THEN p ELSE @]
<1>1. /\ s \in States /\ t \in Blocks /\ s.cached \in [Blocks -> Payloads \cup {None}] /\ s.stuck = FALSE
      /\ s.aliased \in BOOLEAN
      /\ s.aliased => Resident(s, t) /\ s.prev = s.cached[t]
      /\ IsInjective(s.order) /\ ToSet(s.order) = {u \in Blocks : Resident(s, u)}
      /\ Len(s.order) <= Capacity
  BY StateFacts DEF Placed
<1>2. p \in Payloads /\ p # None
  <2>1. Place(i) \in 0 .. BlockElems - 1
    BY TagFacts
  <2>2. p \in Payloads
    BY <2>1 DEF Payloads
  <2> QED
    BY <2>2, TagFacts
<1>3. w = [s EXCEPT !.prev = p, !.cached = c]
  <2>1. w = [s EXCEPT !.prev[Place(i)] = v,
                      !.cached[t] = IF s.aliased THEN [@ EXCEPT ![Place(i)] = v] ELSE @]
    BY <1>1 DEF WriteHeld
  <2>2. CASE s.aliased
    <3>1. w = [s EXCEPT !.prev[Place(i)] = v, !.cached[t] = [@ EXCEPT ![Place(i)] = v]]
      BY <2>1, <2>2
    <3>2. c = [s.cached EXCEPT ![t] = [s.cached[t] EXCEPT ![Place(i)] = v]]
      BY <1>1, <2>2
    <3> HIDE DEF w, c
    <3> QED
      BY <1>1, <3>1, <3>2 DEF States
  <2>3. CASE ~s.aliased
    <3>1. w = [s EXCEPT !.prev[Place(i)] = v, !.cached[t] = @]
      BY <2>1, <2>3
    <3>2. c = [s.cached EXCEPT ![t] = @]
      BY <2>3
    <3> HIDE DEF w, c
    <3> QED
      BY <1>1, <3>1, <3>2 DEF States
  <2> QED
    BY <2>2, <2>3
<1> HIDE DEF w, p
<1>4. c \in [Blocks -> Payloads \cup {None}]
  BY <1>1, <1>2
<1>5. /\ c[t] = IF s.aliased THEN p ELSE s.cached[t]
      /\ \A u \in Blocks \ {t} : c[u] = s.cached[u]
  BY <1>1
<1> HIDE DEF c
<1>6. /\ w \in States /\ w.siz = s.siz /\ w.prevTag = t /\ w.prev = p /\ w.order = s.order
      /\ w.cached = c /\ w.remote = s.remote /\ (w.aliased <=> s.aliased)
  BY <1>1, <1>2, <1>3, <1>4 DEF States
<1>7. /\ \A u \in Blocks : Resident(w, u) <=> Resident(s, u)
      /\ \A u \in Blocks \ {t} : Where(w, u) = Where(s, u)
  BY <1>1, <1>2, <1>5, <1>6 DEF Resident, Where
<1>8. ASSUME Where(s, t) # None
      PROVE  Where(w, t) # None
  BY <1>1, <1>2, <1>5, <1>6, <1>7, <1>8 DEF Where
<1>9. ASSUME w.aliased
      PROVE  Resident(w, t) /\ w.prev = w.cached[t]
  BY <1>1, <1>5, <1>6, <1>7, <1>9
<1>10. ToSet(w.order) = {u \in Blocks : Resident(w, u)}
  BY <1>1, <1>6, <1>7
<1>11. Placed(w)
  BY <1>1, <1>6, <1>9, <1>10 DEF Placed
<1> QED
  BY <1>2, <1>6, <1>7, <1>8, <1>11 DEF Written, w

\* An element is written and its block stored again.
LEMMA WriteStoredFacts ==
  ASSUME NEW s, Placed(s), s.prev \in Payloads, NEW i \in Nat, NEW v \in Values \cup {Junk}
  PROVE  /\ Stored(WriteHeld(s, i, v), WriteStored(s, i, v))
         /\ Written(s, WriteHeld(s, i, v))
<1> DEFINE w == WriteHeld(s, i, v)
<1>1. Written(s, w)
  BY WriteFacts
<1> HIDE DEF w
<1>2. Placed(w) /\ w.prev # None /\ w.stuck = FALSE
  <2>1. Placed(w) /\ w.prev \in Payloads
    BY <1>1 DEF Written
  <2> QED
    BY <2>1, StateFacts, TagFacts DEF Placed
<1>3. Stored(w, StorePrev(w))
  BY <1>2, StorePrevFacts
<1>4. WriteStored(s, i, v) = StorePrev(w)
  BY <1>2 DEF WriteStored, w
<1> QED
  BY <1>1, <1>3, <1>4 DEF w

\* After that, the vector is sound if it was, or if only the new block was missing.
LEMMA SoundWhenStored ==
  ASSUME NEW s, Placed(s), s.prev \in Payloads, NEW i \in Nat, NEW v \in Values \cup {Junk},
         \A j \in 0 .. s.siz - 1 : Tag(j) # s.prevTag => Where(s, Tag(j)) # None
  PROVE  /\ Sound(WriteStored(s, i, v)) /\ WriteStored(s, i, v).siz = s.siz
         /\ WriteStored(s, i, v).prevTag = s.prevTag
         /\ WriteStored(s, i, v).prev \in Payloads
         /\ Where(WriteStored(s, i, v), s.prevTag) # None
<1> DEFINE w == WriteHeld(s, i, v)
           x == WriteStored(s, i, v)
<1>1. Stored(w, x) /\ Written(s, w)
  BY WriteStoredFacts
<1> HIDE DEF w, x
<1>2. /\ w.siz = s.siz /\ w.prevTag = s.prevTag /\ w.prev \in Payloads
      /\ \A u \in Blocks \ {s.prevTag} : Where(w, u) = Where(s, u)
  BY <1>1 DEF Written
<1>3. /\ Placed(x) /\ x.siz = s.siz /\ x.prevTag = s.prevTag /\ x.prev \in Payloads
      /\ x.aliased /\ x.order[1] = x.prevTag /\ Where(x, x.prevTag) = x.prev
      /\ \A u \in Blocks \ {s.prevTag} : Where(x, u) = Where(s, u)
  BY <1>1, <1>2 DEF Stored
<1>4. x.prev # None /\ Where(x, s.prevTag) # None
  BY <1>3, TagFacts
<1>5. ASSUME NEW j \in 0 .. x.siz - 1
      PROVE  Where(x, Tag(j)) # None
  <2>1. s.siz \in 0 .. MaxSize /\ MaxSize \in Nat
    BY StateFacts, VectorAssumption DEF Placed
  <2>2. j \in 0 .. MaxSize /\ j \in 0 .. s.siz - 1
    BY <1>3, <2>1
  <2>3. Tag(j) \in Blocks
    BY <2>2, TagFacts
  <2> QED
    BY <1>3, <1>4, <2>2, <2>3
<1>6. InHand(x)
  BY <1>3 DEF InHand
<1>7. Sound(x)
  BY <1>3, <1>4, <1>5, <1>6 DEF Sound
<1> QED
  BY <1>3, <1>4, <1>7 DEF x
-------------------------------------------------------------------------------
(* Every part of a call leaves the vector sound. *)

\* A value the vector returns.
LEMMA ValueFacts ==
  ASSUME NEW s, Sound(s), NEW i \in 0 .. s.siz - 1
  PROVE  ValueAt(Touch(s, i), i) \in Values \cup {Junk}
<1> DEFINE t == Touch(s, i)
<1>1. Touched(s, i, t)
  BY TouchFacts
<1> HIDE DEF t
<1>2. t.prev \in Payloads /\ t.stuck = FALSE
  BY <1>1, SoundFacts, StateFacts DEF Touched
<1>3. Place(i) \in 0 .. BlockElems - 1
  BY IndexFacts
<1>4. t.prev[Place(i)] \in Values \cup {Junk}
  BY <1>2, <1>3 DEF Payloads
<1> QED
  BY <1>2, <1>4 DEF ValueAt, t

LEMMA ReplacedFacts ==
  ASSUME NEW s, Sound(s), NEW i \in 0 .. s.siz - 1, NEW v \in Values \cup {Junk}
  PROVE  Sound(Replaced(s, i, v)) /\ Replaced(s, i, v).siz = s.siz
<1> DEFINE t == Touch(s, i)
<1>1. Touched(s, i, t)
  BY TouchFacts
<1>2. i \in Nat
  BY IndexFacts
<1> HIDE DEF t
<1>3. Sound(t) /\ Placed(t) /\ t.siz = s.siz /\ t.prev \in Payloads
  BY <1>1, SoundFacts DEF Touched
<1>4. \A j \in 0 .. t.siz - 1 : Where(t, Tag(j)) # None
  BY <1>3, SoundFacts
<1>5. Sound(WriteStored(t, i, v)) /\ WriteStored(t, i, v).siz = t.siz
  BY <1>2, <1>3, <1>4, SoundWhenStored
<1> QED
  BY <1>3, <1>5 DEF Replaced, t

LEMMA CopiedFacts ==
  ASSUME NEW s, Sound(s), NEW to \in 0 .. s.siz - 1, NEW from \in 0 .. s.siz - 1
  PROVE  Sound(Copied(s, to, from)) /\ Copied(s, to, from).siz = s.siz
<1> DEFINE t == Touch(s, from)
           v == ValueAt(t, from)
<1>1. Touched(s, from, t) /\ v \in Values \cup {Junk}
  BY TouchFacts, ValueFacts
<1>2. Copied(s, to, from) = Replaced(t, to, v)
  BY DEF Copied
<1> HIDE DEF t, v
<1>3. Sound(t) /\ t.siz = s.siz
  BY <1>1 DEF Touched
<1> QED
  BY <1>1, <1>2, <1>3, ReplacedFacts

LEMMA SwappedFacts ==
  ASSUME NEW s, Sound(s), NEW i \in 0 .. s.siz - 1, NEW j \in 0 .. s.siz - 1
  PROVE  Sound(Swapped(s, i, j)) /\ Swapped(s, i, j).siz = s.siz
<1> DEFINE t == Touch(s, i)
           v == ValueAt(t, i)
           c == Copied(t, i, j)
<1>1. Touched(s, i, t) /\ v \in Values \cup {Junk}
  BY TouchFacts, ValueFacts
<1>2. Swapped(s, i, j) = Replaced(c, j, v)
  BY DEF Swapped
<1> HIDE DEF t, v
<1>3. Sound(t) /\ t.siz = s.siz
  BY <1>1 DEF Touched
<1>4. Sound(c) /\ c.siz = s.siz
  BY <1>3, CopiedFacts
<1> HIDE DEF c
<1> QED
  BY <1>1, <1>2, <1>4, ReplacedFacts

\* A message for the new last block is in hand: only that block may be nowhere.
LEMMA LastInHand ==
  ASSUME NEW s, Sound(s), s.siz < MaxSize,
         NEW m, m = IF s.prevTag = Tag(s.siz) /\ s.siz > 0 THEN s ELSE FreshMessage(s, Tag(s.siz))
  PROVE  /\ Placed(m) /\ m.siz = s.siz /\ m.prevTag = Tag(s.siz) /\ m.prev \in Payloads
         /\ \A j \in 0 .. m.siz - 1 : Where(m, Tag(j)) # None
<1>1. s \in States /\ s.siz \in 0 .. MaxSize /\ Placed(s)
  BY SoundFacts, StateFacts
<1>2. Tag(s.siz) \in Blocks
  BY <1>1, TagFacts
<1>3. CASE s.prevTag = Tag(s.siz) /\ s.siz > 0
  <2>1. s.prev # None /\ s.prev \in Payloads \cup {None}
    BY <1>1, <1>3, SoundFacts, StateFacts
  <2> QED
    BY <1>1, <1>3, <2>1, SoundFacts
<1>4. CASE ~(s.prevTag = Tag(s.siz) /\ s.siz > 0)
  <2> DEFINE p == [k \in 0 .. BlockElems - 1 |-> Junk]
             t == Tag(s.siz)
  <2>1. p \in Payloads
    BY DEF Payloads
  <2>2. m = [s EXCEPT !.prevTag = t, !.aliased = FALSE, !.prev = p]
    BY <1>4 DEF FreshMessage
  <2> HIDE DEF p, t
  <2>3. t \in Blocks
    BY <1>2 DEF t
  <2>4. /\ m \in States /\ m.siz = s.siz /\ m.prevTag = t /\ m.prev = p /\ m.aliased = FALSE
        /\ m.cached = s.cached /\ m.order = s.order /\ m.remote = s.remote
    BY <1>1, <2>1, <2>2, <2>3 DEF States
  <2>5. \A u \in Blocks : Where(m, u) = Where(s, u) /\ (Resident(m, u) <=> Resident(s, u))
    BY <2>4 DEF Where, Resident
  <2>6. /\ IsInjective(s.order) /\ ToSet(s.order) = {u \in Blocks : Resident(s, u)}
        /\ Len(s.order) <= Capacity
    BY <1>1 DEF Placed
  <2>7. ToSet(m.order) = {u \in Blocks : Resident(m, u)}
    BY <2>4, <2>5, <2>6
  <2>8. Placed(m)
    BY <2>4, <2>6, <2>7 DEF Placed
  <2>9. ASSUME NEW j \in 0 .. m.siz - 1
        PROVE  Where(m, Tag(j)) # None
    <3>1. j \in 0 .. s.siz - 1
      BY <2>4
    <3>2. Tag(j) \in Blocks /\ Where(s, Tag(j)) # None
      BY <3>1, IndexFacts
    <3> QED
      BY <2>5, <3>2
  <2> QED
    BY <2>1, <2>4, <2>8, <2>9 DEF t
<1> QED
  BY <1>3, <1>4

LEMMA AppendedFacts ==
  ASSUME NEW s, Sound(s), s.siz < MaxSize, NEW v \in Values \cup {Junk}
  PROVE  Sound(Appended(s, v)) /\ Appended(s, v).siz = s.siz + 1
<1> DEFINE n == s.siz
           m == IF s.prevTag = Tag(n) /\ n > 0 THEN s ELSE FreshMessage(s, Tag(n))
           x == WriteStored(m, n, v)
           y == Appended(s, v)
<1>1. s \in States /\ n \in 0 .. MaxSize /\ MaxSize \in Nat /\ n \in Nat /\ n + 1 \in 0 .. MaxSize
      /\ s.stuck = FALSE
  <2>1. s \in States
    BY SoundFacts
  <2>2. n \in 0 .. MaxSize /\ s.stuck = FALSE /\ MaxSize \in Nat
    BY <2>1, StateFacts, VectorAssumption
  <2> QED
    BY <2>1, <2>2
<1>2. /\ Placed(m) /\ m.siz = n /\ m.prevTag = Tag(n) /\ m.prev \in Payloads
      /\ \A j \in 0 .. m.siz - 1 : Where(m, Tag(j)) # None
  BY LastInHand
<1>3. y = [x EXCEPT !.siz = @ + 1]
  BY <1>1 DEF Appended
<1> HIDE DEF m
<1>4. Sound(x) /\ x.siz = n /\ x.prevTag = Tag(n) /\ x.prev \in Payloads /\ Where(x, Tag(n)) # None
  BY <1>1, <1>2, SoundWhenStored
<1> HIDE DEF x, y
<1>5. x \in States /\ Placed(x)
  BY <1>4, SoundFacts
<1>6. /\ y \in States /\ y.siz = n + 1 /\ y.prevTag = x.prevTag /\ y.prev = x.prev
      /\ (y.aliased <=> x.aliased)
      /\ y.cached = x.cached /\ y.order = x.order /\ y.remote = x.remote
  <2> DEFINE k == n + 1
  <2>1. y = [x EXCEPT !.siz = k]
    BY <1>3, <1>4, <1>5 DEF States
  <2>2. k \in 0 .. MaxSize
    BY <1>1
  <2> HIDE DEF k, n
  <2>3. /\ y \in States /\ y.siz = k /\ y.prevTag = x.prevTag /\ y.prev = x.prev
        /\ (y.aliased <=> x.aliased)
        /\ y.cached = x.cached /\ y.order = x.order /\ y.remote = x.remote
    BY <1>5, <2>1, <2>2 DEF States
  <2> QED
    BY <2>3 DEF k
<1>7. \A u \in Blocks : Where(y, u) = Where(x, u) /\ (Resident(y, u) <=> Resident(x, u))
  BY <1>6 DEF Where, Resident
<1>8. Placed(y)
  <2>1. /\ IsInjective(x.order) /\ ToSet(x.order) = {u \in Blocks : Resident(x, u)}
        /\ Len(x.order) <= Capacity
        /\ x.aliased => Resident(x, x.prevTag) /\ x.prev = x.cached[x.prevTag]
    BY <1>5 DEF Placed
  <2>2. ToSet(y.order) = {u \in Blocks : Resident(y, u)}
    BY <1>6, <1>7, <2>1
  <2>3. x.prevTag \in Blocks
    BY <1>5, StateFacts
  <2> QED
    BY <1>6, <1>7, <2>1, <2>2, <2>3 DEF Placed
<1>9. ASSUME NEW j \in 0 .. y.siz - 1
      PROVE  Where(y, Tag(j)) # None
  <2>1. j \in 0 .. MaxSize /\ (j = n \/ j \in 0 .. x.siz - 1)
    BY <1>1, <1>4, <1>6
  <2>2. Tag(j) \in Blocks
    BY <2>1, TagFacts
  <2>3. Where(x, Tag(j)) # None
    BY <1>4, <2>1, SoundFacts
  <2> QED
    BY <1>7, <2>2, <2>3
<1>10. x.prevTag \in Blocks
  BY <1>5, StateFacts
<1>11. /\ "shared" \notin program /\ PrefetchFits => InHand(y)
       /\ program \cap {"assign", "exchange"} = {} => y.prev = Where(y, y.prevTag)
  <2>1. x.prev # None
    BY <1>4, TagFacts
  <2>2. /\ "shared" \notin program /\ PrefetchFits => InHand(x)
        /\ program \cap {"assign", "exchange"} = {} => x.prev = Where(x, x.prevTag)
    BY <1>4, <2>1, SoundFacts
  <2>3. InHand(x) => InHand(y)
    BY <1>6 DEF InHand
  <2> QED
    BY <1>6, <1>7, <1>10, <2>2, <2>3
<1>12. Sound(y)
  BY <1>4, <1>6, <1>8, <1>9, <1>11, TagFacts DEF Sound
<1> QED
  BY <1>6, <1>12 DEF y
-------------------------------------------------------------------------------
(* The loops of insert, erase, clear and the constructor. *)

\* If every round of h leads from V[k - 1] to V[k], the loop has outcomes, and in these.
LEMMA LoopWithin ==
  ASSUME NEW n \in Nat, NEW base, NEW h, NEW V, base \in V[0],
         \A k \in 1 .. n : \A i \in 1 .. n : \A x \in V[k - 1] : h[<<x, i>>] \in V[k]
  PROVE  \E g : /\ IsLoop(g, n, h, base)
                /\ \A s \in SUBSET (1 .. n) : s # {} =>
                     /\ Max(s) \in 1 .. n /\ Cardinality(s) \in 1 .. n
                     /\ g[s \ {Max(s)}] \in V[Cardinality(s) - 1]
<1>1. PICK g : IsLoop(g, n, h, base)
  BY LoopExists
<1>2. \A s \in SUBSET (1 .. n) : g[s] = IF s = {} THEN base ELSE h[<<g[s \ {Max(s)}], Max(s)>>]
  BY <1>1 DEF IsLoop
<1>3. g[{}] \in V[0]
  BY <1>2
<1>4. ASSUME NEW s \in SUBSET (1 .. n), s # {}, g[s \ {Max(s)}] \in V[Cardinality(s) - 1]
      PROVE  g[s] \in V[Cardinality(s)]
  <2>1. Max(s) \in 1 .. n /\ Cardinality(s) \in 1 .. n
    BY <1>4, RoundLess
  <2>2. g[s] = h[<<g[s \ {Max(s)}], Max(s)>>]
    BY <1>2, <1>4
  <2> QED
    BY <1>4, <2>1, <2>2
<1>5. \A s \in SUBSET (1 .. n) : g[s] \in V[Cardinality(s)]
  BY <1>3, <1>4, LoopKeeps
<1>6. ASSUME NEW s \in SUBSET (1 .. n), s # {}
      PROVE  /\ Max(s) \in 1 .. n /\ Cardinality(s) \in 1 .. n
             /\ g[s \ {Max(s)}] \in V[Cardinality(s) - 1]
  <2> DEFINE r == s \ {Max(s)}
  <2>1. r \in SUBSET (1 .. n) /\ Cardinality(r) = Cardinality(s) - 1
        /\ Max(s) \in 1 .. n /\ Cardinality(s) \in 1 .. n
    BY <1>6, RoundLess
  <2> HIDE DEF r
  <2>2. g[r] \in V[Cardinality(s) - 1]
    BY <1>5, <2>1
  <2> QED
    BY <2>1, <2>2 DEF r
<1> QED
  BY <1>1, <1>6

\* What holds before a loop and after every round of it, if it did before the round.
LEMMA RoundsKeep ==
  ASSUME NEW n \in Nat, NEW W, 0 \in W, \A k \in 1 .. n : k - 1 \in W => k \in W
  PROVE  n \in W
<1> DEFINE B == {k \in 0 .. n : k \notin W}
<1> SUFFICES ASSUME B # {}
             PROVE  FALSE
  OBVIOUS
<1>1. B \in SUBSET Nat
  OBVIOUS
<1> HIDE DEF B
<1>2. PICK m \in B : \A y \in B : ~(<<y, m>> \in OpToRel(<, Nat))
  BY <1>1, NatLessThanWellFounded, WFMin
<1>3. m \in Nat /\ \A y \in Nat : y < m => y \notin B
  BY <1>1, <1>2 DEF OpToRel
<1>4. m \in 0 .. n /\ m \notin W
  BY <1>2 DEF B
<1>5. m \in 1 .. n /\ m - 1 \in 0 .. n /\ m - 1 < m /\ m - 1 \in Nat
  BY <1>4
<1>6. m - 1 \in W
  BY <1>3, <1>5 DEF B
<1> QED
  BY <1>4, <1>5, <1>6

\* The first k rounds.
LEMMA FirstRounds ==
  ASSUME NEW n \in Nat, NEW k \in 1 .. n
  PROVE  /\ 1 .. k \in SUBSET (1 .. n) /\ 1 .. k # {} /\ Max(1 .. k) = k
         /\ (1 .. k) \ {Max(1 .. k)} = 1 .. k - 1
<1> DEFINE s == 1 .. k
<1>1. s \in SUBSET (1 .. k) /\ s # {} /\ k \in Nat /\ k \in s /\ s \in SUBSET (1 .. n)
  OBVIOUS
<1>2. Max(s) = k
  <2>1. \E x \in s : \A y \in s : x >= y
    <3>1. \A y \in s : k >= y
      OBVIOUS
    <3> QED
      BY <1>1, <3>1
  <2>2. Max(s) \in s /\ \A y \in s : Max(s) >= y
    BY <2>1 DEF Max
  <2> QED
    BY <1>1, <2>2
<1> QED
  BY <1>1, <1>2

\* The rounds, one by one: r[k] is the state after k of them.
RoundByRound(r, n, h, V, base) ==
  /\ r[0] = base /\ \A k \in 0 .. n : r[k] \in V[k]
  /\ \A k \in 1 .. n : r[k] = h[<<r[k - 1], k>>]

EndsIn(e, n, h, V, base) == \E r : RoundByRound(r, n, h, V, base) /\ r[n] = e

\* Any function that makes the rounds of h from there makes these, and ends in V[n].
LEMMA LoopEnds ==
  ASSUME NEW n \in Nat, NEW base, NEW h, NEW V, base \in V[0],
         \A k \in 1 .. n : \A i \in 1 .. n : \A x \in V[k - 1] : h[<<x, i>>] \in V[k],
         NEW f, f[{}] = base,
         \A s \in SUBSET (1 .. n) :
           s # {} /\ Max(s) \in 1 .. n /\ Cardinality(s) \in 1 .. n
             /\ f[s \ {Max(s)}] \in V[Cardinality(s) - 1] => f[s] = h[<<f[s \ {Max(s)}], Max(s)>>]
  PROVE  EndsIn(f[1 .. n], n, h, V, base)
<1>1. ASSUME NEW s \in SUBSET (1 .. n), s # {}, f[s \ {Max(s)}] \in V[Cardinality(s) - 1]
      PROVE  f[s] \in V[Cardinality(s)]
  <2>1. Max(s) \in 1 .. n /\ Cardinality(s) \in 1 .. n
    BY <1>1, RoundLess
  <2>2. f[s] = h[<<f[s \ {Max(s)}], Max(s)>>]
    BY <1>1, <2>1
  <2> QED
    BY <1>1, <2>1, <2>2
<1>2. \A s \in SUBSET (1 .. n) : f[s] \in V[Cardinality(s)]
  BY <1>1, LoopKeeps
<1> DEFINE r == [k \in 0 .. n |-> f[1 .. k]]
<1>3. \A k \in 0 .. n : r[k] = f[1 .. k] /\ 1 .. k \in SUBSET (1 .. n) /\ Cardinality(1 .. k) = k
  BY FS_Interval
<1> HIDE DEF r
<1>4. \A k \in 0 .. n : r[k] \in V[k]
  BY <1>2, <1>3
<1>5. r[0] = base
  <2>1. 1 .. 0 = {} /\ 0 \in 0 .. n
    OBVIOUS
  <2> QED
    BY <1>3, <2>1
<1>6. ASSUME NEW k \in 1 .. n
      PROVE  r[k] = h[<<r[k - 1], k>>]
  <2> DEFINE s == 1 .. k
  <2>1. /\ s \in SUBSET (1 .. n) /\ s # {} /\ Max(s) = k /\ s \ {Max(s)} = 1 .. k - 1
    BY FirstRounds
  <2>2. k \in 0 .. n /\ k - 1 \in 0 .. n
    OBVIOUS
  <2>3. r[k] = f[s] /\ r[k - 1] = f[1 .. k - 1] /\ Cardinality(s) = k
    BY <1>3, <2>2
  <2>4. f[1 .. k - 1] \in V[k - 1]
    BY <1>4, <2>2, <2>3
  <2> HIDE DEF s
  <2>5. f[s \ {Max(s)}] \in V[Cardinality(s) - 1]
    BY <2>1, <2>3, <2>4
  <2>6. f[s] = h[<<f[s \ {Max(s)}], Max(s)>>]
    BY <2>1, <2>3, <2>5
  <2> QED
    BY <2>1, <2>3, <2>6
<1>7. RoundByRound(r, n, h, V, base) /\ r[n] = f[1 .. n]
  BY <1>3, <1>4, <1>5, <1>6 DEF RoundByRound
<1> QED
  BY <1>7 DEF EndsIn

\* The states of a sound vector of m elements.
SoundOf(m) == {x \in States : Sound(x) /\ x.siz = m}

\* The loop of insert.
ShiftLoop(base, q) == FoldLeft(LAMBDA x, j : Copied(x, j, j - 1), base, q)

IsShift(g, q, base) ==
  g = [s \in SUBSET (DOMAIN q) |->
         IF s = {} THEN base ELSE Copied(g[s \ {Max(s)}], q[Max(s)], q[Max(s)] - 1)]

LEMMA ShiftIsLoop ==
  ASSUME NEW base, NEW q
  PROVE  ShiftLoop(base, q) = (CHOOSE g : IsShift(g, q, base))[DOMAIN q]
BY DEF ShiftLoop, FoldLeft, MapThenFoldSet, IsShift

\* Its rounds, all sound.
ShiftRounds(r, base, q, n, m) ==
  /\ r[0] = base /\ r[n] = ShiftLoop(base, q) /\ \A k \in 0 .. n : r[k] \in SoundOf(m)
  /\ \A k \in 1 .. n : r[k] = Copied(r[k - 1], q[k], q[k] - 1)

LEMMA ShiftKeeps ==
  ASSUME NEW m \in Nat, NEW base \in SoundOf(m), NEW n \in Nat, NEW q \in [1 .. n -> 1 .. m - 1]
  PROVE  \E r : ShiftRounds(r, base, q, n, m)
<1> DEFINE V == [k \in 0 .. n |-> SoundOf(m)]
           h == [p \in SoundOf(m) \X (1 .. n) |-> Copied(p[1], q[p[2]], q[p[2]] - 1)]
           f == CHOOSE f : IsShift(f, q, base)
<1>1. ASSUME NEW x \in SoundOf(m), NEW i \in 1 .. n
      PROVE  Copied(x, q[i], q[i] - 1) \in SoundOf(m)
  <2> DEFINE a == q[i]
             b == q[i] - 1
             c == Copied(x, a, b)
  <2>1. Sound(x) /\ x.siz = m
    BY DEF SoundOf
  <2>2. a \in 0 .. x.siz - 1 /\ b \in 0 .. x.siz - 1
    BY <2>1
  <2> HIDE DEF a, b
  <2>3. Sound(c) /\ c.siz = x.siz
    BY <2>1, <2>2, CopiedFacts
  <2> HIDE DEF c
  <2>4. c \in SoundOf(m)
    BY <2>1, <2>3, SoundFacts DEF SoundOf
  <2> QED
    BY <2>4 DEF a, b, c
<1>2. \A x \in SoundOf(m) : \A i \in 1 .. n : h[<<x, i>>] = Copied(x, q[i], q[i] - 1)
  OBVIOUS
<1>3. DOMAIN q = 1 .. n /\ \A k \in 0 .. n : V[k] = SoundOf(m)
  OBVIOUS
<1> HIDE DEF V, h, f
<1>4. base \in V[0] /\ \A k \in 1 .. n : \A i \in 1 .. n : \A x \in V[k - 1] : h[<<x, i>>] \in V[k]
  BY <1>1, <1>2, <1>3
<1>5. PICK g : /\ IsLoop(g, n, h, base)
               /\ \A s \in SUBSET (1 .. n) : s # {} =>
                    /\ Max(s) \in 1 .. n /\ Cardinality(s) \in 1 .. n
                    /\ g[s \ {Max(s)}] \in V[Cardinality(s) - 1]
  BY <1>4, LoopWithin
<1>6. ASSUME NEW s \in SUBSET (1 .. n), s # {}
      PROVE  h[<<g[s \ {Max(s)}], Max(s)>>] = Copied(g[s \ {Max(s)}], q[Max(s)], q[Max(s)] - 1)
  <2>1. /\ Max(s) \in 1 .. n /\ Cardinality(s) \in 1 .. n
        /\ g[s \ {Max(s)}] \in V[Cardinality(s) - 1]
    BY <1>5, <1>6
  <2>2. Cardinality(s) - 1 \in 0 .. n
    BY <2>1
  <2>3. g[s \ {Max(s)}] \in SoundOf(m)
    BY <1>3, <2>1, <2>2
  <2> QED
    BY <1>2, <2>1, <2>3
<1>7. IsShift(g, q, base)
  BY <1>3, <1>5, <1>6 DEF IsShift, IsLoop
<1>8. IsShift(f, q, base)
  BY <1>7 DEF f
<1>9. \A s \in SUBSET (1 .. n) :
        f[s] = IF s = {} THEN base ELSE Copied(f[s \ {Max(s)}], q[Max(s)], q[Max(s)] - 1)
  BY <1>3, <1>8 DEF IsShift
<1>10. ASSUME NEW s \in SUBSET (1 .. n), s # {}, Max(s) \in 1 .. n, Cardinality(s) \in 1 .. n,
              f[s \ {Max(s)}] \in V[Cardinality(s) - 1]
       PROVE  f[s] = h[<<f[s \ {Max(s)}], Max(s)>>]
  <2>1. f[s \ {Max(s)}] \in SoundOf(m)
    BY <1>3, <1>10
  <2>2. f[s] = Copied(f[s \ {Max(s)}], q[Max(s)], q[Max(s)] - 1)
    BY <1>9, <1>10
  <2> QED
    BY <1>2, <1>10, <2>1, <2>2
<1>11. f[{}] = base
  BY <1>9
<1>17. EndsIn(f[1 .. n], n, h, V, base)
  BY <1>4, <1>10, <1>11, LoopEnds
<1>12. PICK r : RoundByRound(r, n, h, V, base) /\ r[n] = f[1 .. n]
  BY <1>17 DEF EndsIn
<1>13. r[0] = base /\ \A k \in 0 .. n : r[k] \in SoundOf(m)
  BY <1>3, <1>12 DEF RoundByRound
<1>14. ASSUME NEW k \in 1 .. n
       PROVE  r[k] = Copied(r[k - 1], q[k], q[k] - 1)
  <2>1. r[k - 1] \in SoundOf(m)
    BY <1>13
  <2> QED
    BY <1>2, <1>12, <2>1 DEF RoundByRound
<1>15. r[n] = ShiftLoop(base, q)
  BY <1>3, <1>12, ShiftIsLoop DEF f
<1>16. ShiftRounds(r, base, q, n, m)
  BY <1>13, <1>14, <1>15 DEF ShiftRounds
<1> QED
  BY <1>16

LEMMA ShiftedFacts ==
  ASSUME NEW s, Sound(s), s.siz < MaxSize, NEW i \in 0 .. s.siz - 1
  PROVE  Shifted(s, i) \in SoundOf(s.siz + 1)
<1> DEFINE e == s.siz - 1
           last == Touch(s, e)
           v == ValueAt(last, e)
           grown == Appended(last, v)
           q == Downto(grown.siz - 2, i + 1)
           n == s.siz - 1 - i
<1>1. s.siz \in 1 .. MaxSize /\ MaxSize \in Nat /\ i \in Nat
  BY IndexFacts, VectorAssumption
<1>2. e \in 0 .. s.siz - 1
  BY <1>1
<1>3. Shifted(s, i) = ShiftLoop(grown, q)
  BY Zenon DEF Shifted, ShiftLoop
<1> HIDE DEF e
<1>4. Touched(s, e, last) /\ v \in Values \cup {Junk}
  BY <1>2, TouchFacts, ValueFacts
<1> HIDE DEF last, v
<1>5. Sound(last) /\ last.siz = s.siz
  BY <1>4 DEF Touched
<1>6. Sound(grown) /\ grown.siz = last.siz + 1
  BY <1>1, <1>4, <1>5, AppendedFacts
<1> HIDE DEF grown
<1>7. grown.siz = s.siz + 1 /\ grown \in SoundOf(s.siz + 1)
  BY <1>5, <1>6, SoundFacts DEF SoundOf
<1>8. n \in Nat /\ q \in [1 .. n -> 1 .. s.siz]
  <2>1. n \in Nat /\ grown.siz - 2 = s.siz - 1
    BY <1>1, <1>7
  <2>2. q = [k \in 1 .. (s.siz - 1) - (i + 1) + 1 |-> (s.siz - 1) + 1 - k]
    BY <2>1 DEF Downto
  <2>3. (s.siz - 1) - (i + 1) + 1 = n
    BY <1>1
  <2>4. \A k \in 1 .. n : (s.siz - 1) + 1 - k \in 1 .. s.siz
    BY <1>1
  <2> HIDE DEF q
  <2> QED
    BY <2>1, <2>2, <2>3, <2>4
<1> HIDE DEF q, n
<1>9. s.siz + 1 \in Nat
  BY <1>1
<1>10. ShiftLoop(grown, q) \in SoundOf(s.siz + 1)
  <2> DEFINE m == s.siz + 1
  <2>1. m \in Nat /\ n \in Nat
    BY <1>8, <1>9
  <2>2. grown \in SoundOf(m)
    BY <1>7
  <2>4. q \in [1 .. n -> 1 .. m - 1]
    <3>1. m - 1 = s.siz
      BY <1>1
    <3> HIDE DEF m
    <3> QED
      BY <1>8, <3>1
  <2> HIDE DEF m
  <2>3. ShiftLoop(grown, q) \in SoundOf(m)
    BY <2>1, <2>2, <2>4, ShiftKeeps DEF ShiftRounds
  <2> QED
    BY <2>3 DEF m
<1> QED
  BY <1>3, <1>10

LEMMA InsertedFacts ==
  ASSUME NEW s, Sound(s), s.siz < MaxSize, NEW i \in 0 .. s.siz, NEW v \in Values
  PROVE  Sound(Inserted(s, i, v)) /\ Inserted(s, i, v).siz = s.siz + 1
<1>1. CASE i = s.siz
  <2>1. Inserted(s, i, v) = Appended(s, v)
    BY <1>1 DEF Inserted
  <2> QED
    BY <2>1, AppendedFacts
<1>2. CASE i # s.siz
  <2> DEFINE t == Shifted(s, i)
             h == Hold(t, Tag(i))
             x == WriteStored(h, i, v)
  <2>1. i \in 0 .. s.siz - 1 /\ s.siz \in Nat
    <3>1. s.siz \in 0 .. MaxSize /\ MaxSize \in Nat
      BY SoundFacts, StateFacts, VectorAssumption
    <3> QED
      BY <1>2, <3>1
  <2>2. t \in SoundOf(s.siz + 1)
    BY <2>1, ShiftedFacts
  <2>3. Inserted(s, i, v) = IF t.stuck THEN t ELSE x
    BY <1>2 DEF Inserted
  <2> HIDE DEF t
  <2>4. t \in States /\ Placed(t) /\ Sound(t) /\ t.siz = s.siz + 1 /\ i \in 0 .. t.siz - 1
    BY <2>1, <2>2, SoundFacts DEF SoundOf
  <2>5. i \in Nat /\ Tag(i) \in Blocks /\ Where(t, Tag(i)) # None /\ t.prev \in Payloads
    BY <2>4, IndexFacts
  <2>6. Holds(t, Tag(i), h)
    BY <2>4, <2>5, HoldFacts
  <2> HIDE DEF h
  <2>7. Placed(h) /\ h.siz = t.siz /\ h.prev \in Payloads /\ \A u \in Blocks : Where(h, u) = Where(t, u)
    BY <2>6 DEF Holds
  <2>8. \A j \in 0 .. h.siz - 1 : Where(h, Tag(j)) # None
    BY <2>4, <2>7, IndexFacts
  <2>9. Sound(x) /\ x.siz = h.siz
    BY <2>5, <2>7, <2>8, SoundWhenStored
  <2>10. t.stuck = FALSE
    BY <2>4, StateFacts
  <2> HIDE DEF x
  <2> QED
    BY <2>3, <2>4, <2>7, <2>9, <2>10
<1> QED
  BY <1>1, <1>2

\* The loop of erase.
EraseLoop(base, q) == FoldLeft(LAMBDA x, j : Swapped(x, j, j + 1), base, q)

IsErase(g, q, base) ==
  g = [s \in SUBSET (DOMAIN q) |->
         IF s = {} THEN base ELSE Swapped(g[s \ {Max(s)}], q[Max(s)], q[Max(s)] + 1)]

LEMMA EraseIsLoop ==
  ASSUME NEW base, NEW q
  PROVE  EraseLoop(base, q) = (CHOOSE g : IsErase(g, q, base))[DOMAIN q]
BY DEF EraseLoop, FoldLeft, MapThenFoldSet, IsErase

EraseRounds(r, base, q, n, m) ==
  /\ r[0] = base /\ r[n] = EraseLoop(base, q) /\ \A k \in 0 .. n : r[k] \in SoundOf(m)
  /\ \A k \in 1 .. n : r[k] = Swapped(r[k - 1], q[k], q[k] + 1)

LEMMA EraseKeeps ==
  ASSUME NEW m \in Nat, NEW base \in SoundOf(m), NEW n \in Nat, NEW q \in [1 .. n -> 0 .. m - 2]
  PROVE  \E r : EraseRounds(r, base, q, n, m)
<1> DEFINE V == [k \in 0 .. n |-> SoundOf(m)]
           h == [p \in SoundOf(m) \X (1 .. n) |-> Swapped(p[1], q[p[2]], q[p[2]] + 1)]
           f == CHOOSE f : IsErase(f, q, base)
<1>1. ASSUME NEW x \in SoundOf(m), NEW i \in 1 .. n
      PROVE  Swapped(x, q[i], q[i] + 1) \in SoundOf(m)
  <2> DEFINE a == q[i]
             b == q[i] + 1
             c == Swapped(x, a, b)
  <2>1. Sound(x) /\ x.siz = m
    BY DEF SoundOf
  <2>2. a \in 0 .. x.siz - 1 /\ b \in 0 .. x.siz - 1
    BY <2>1
  <2> HIDE DEF a, b
  <2>3. Sound(c) /\ c.siz = x.siz
    BY <2>1, <2>2, SwappedFacts
  <2> HIDE DEF c
  <2>4. c \in SoundOf(m)
    BY <2>1, <2>3, SoundFacts DEF SoundOf
  <2> QED
    BY <2>4 DEF a, b, c
<1>2. \A x \in SoundOf(m) : \A i \in 1 .. n : h[<<x, i>>] = Swapped(x, q[i], q[i] + 1)
  OBVIOUS
<1>3. DOMAIN q = 1 .. n /\ \A k \in 0 .. n : V[k] = SoundOf(m)
  OBVIOUS
<1> HIDE DEF V, h, f
<1>4. base \in V[0] /\ \A k \in 1 .. n : \A i \in 1 .. n : \A x \in V[k - 1] : h[<<x, i>>] \in V[k]
  BY <1>1, <1>2, <1>3
<1>5. PICK g : /\ IsLoop(g, n, h, base)
               /\ \A s \in SUBSET (1 .. n) : s # {} =>
                    /\ Max(s) \in 1 .. n /\ Cardinality(s) \in 1 .. n
                    /\ g[s \ {Max(s)}] \in V[Cardinality(s) - 1]
  BY <1>4, LoopWithin
<1>6. ASSUME NEW s \in SUBSET (1 .. n), s # {}
      PROVE  h[<<g[s \ {Max(s)}], Max(s)>>] = Swapped(g[s \ {Max(s)}], q[Max(s)], q[Max(s)] + 1)
  <2>1. /\ Max(s) \in 1 .. n /\ Cardinality(s) \in 1 .. n
        /\ g[s \ {Max(s)}] \in V[Cardinality(s) - 1]
    BY <1>5, <1>6
  <2>2. Cardinality(s) - 1 \in 0 .. n
    BY <2>1
  <2>3. g[s \ {Max(s)}] \in SoundOf(m)
    BY <1>3, <2>1, <2>2
  <2> QED
    BY <1>2, <2>1, <2>3
<1>7. IsErase(g, q, base)
  BY <1>3, <1>5, <1>6 DEF IsErase, IsLoop
<1>8. IsErase(f, q, base)
  BY <1>7 DEF f
<1>9. \A s \in SUBSET (1 .. n) :
        f[s] = IF s = {} THEN base ELSE Swapped(f[s \ {Max(s)}], q[Max(s)], q[Max(s)] + 1)
  BY <1>3, <1>8 DEF IsErase
<1>10. ASSUME NEW s \in SUBSET (1 .. n), s # {}, Max(s) \in 1 .. n, Cardinality(s) \in 1 .. n,
              f[s \ {Max(s)}] \in V[Cardinality(s) - 1]
       PROVE  f[s] = h[<<f[s \ {Max(s)}], Max(s)>>]
  <2>1. f[s \ {Max(s)}] \in SoundOf(m)
    BY <1>3, <1>10
  <2>2. f[s] = Swapped(f[s \ {Max(s)}], q[Max(s)], q[Max(s)] + 1)
    BY <1>9, <1>10
  <2> QED
    BY <1>2, <1>10, <2>1, <2>2
<1>11. f[{}] = base
  BY <1>9
<1>17. EndsIn(f[1 .. n], n, h, V, base)
  BY <1>4, <1>10, <1>11, LoopEnds
<1>12. PICK r : RoundByRound(r, n, h, V, base) /\ r[n] = f[1 .. n]
  BY <1>17 DEF EndsIn
<1>13. r[0] = base /\ \A k \in 0 .. n : r[k] \in SoundOf(m)
  BY <1>3, <1>12 DEF RoundByRound
<1>14. ASSUME NEW k \in 1 .. n
       PROVE  r[k] = Swapped(r[k - 1], q[k], q[k] + 1)
  <2>1. r[k - 1] \in SoundOf(m)
    BY <1>13
  <2> QED
    BY <1>2, <1>12, <2>1 DEF RoundByRound
<1>15. r[n] = EraseLoop(base, q)
  BY <1>3, <1>12, EraseIsLoop DEF f
<1>16. EraseRounds(r, base, q, n, m)
  BY <1>13, <1>14, <1>15 DEF EraseRounds
<1> QED
  BY <1>16

LEMMA ErasedFacts ==
  ASSUME NEW s, Sound(s), NEW i \in 0 .. s.siz - 1
  PROVE  Sound(Erased(s, i)) /\ Erased(s, i).siz = s.siz - 1
<1> DEFINE m == s.siz
           n == m - 1 - i
           q == [k \in 1 .. m - 1 - i |-> i + k - 1]
           t == EraseLoop(s, q)
           y == Erased(s, i)
<1>1. m \in 1 .. MaxSize /\ MaxSize \in Nat /\ i \in Nat /\ s \in States
  BY IndexFacts, VectorAssumption, SoundFacts
<1>2. y = [t EXCEPT !.siz = @ - 1]
  BY Zenon DEF Erased, EraseLoop
<1>3. n \in Nat /\ q \in [1 .. n -> 0 .. m - 2] /\ m \in Nat
  <2>1. n \in Nat /\ m \in Nat
    BY <1>1
  <2>2. \A k \in 1 .. n : i + k - 1 \in 0 .. m - 2
    BY <1>1
  <2> QED
    BY <2>1, <2>2
<1>4. s \in SoundOf(m)
  BY <1>1 DEF SoundOf
<1> HIDE DEF q, n
<1>5. t \in SoundOf(m)
  <2> HIDE DEF m
  <2> QED
    BY <1>3, <1>4, EraseKeeps DEF EraseRounds
<1> HIDE DEF t, y
<1>6. t \in States /\ Sound(t) /\ t.siz = m /\ Placed(t)
  BY <1>5, SoundFacts DEF SoundOf
<1>7. /\ y \in States /\ y.siz = m - 1 /\ y.prevTag = t.prevTag /\ y.prev = t.prev
      /\ (y.aliased <=> t.aliased)
      /\ y.cached = t.cached /\ y.order = t.order /\ y.remote = t.remote
  <2> DEFINE k == m - 1
  <2>1. y = [t EXCEPT !.siz = k]
    BY <1>2, <1>6 DEF States
  <2>2. k \in 0 .. MaxSize
    BY <1>1
  <2> HIDE DEF k, m
  <2>3. /\ y \in States /\ y.siz = k /\ y.prevTag = t.prevTag /\ y.prev = t.prev
        /\ (y.aliased <=> t.aliased)
        /\ y.cached = t.cached /\ y.order = t.order /\ y.remote = t.remote
    BY <1>6, <2>1, <2>2 DEF States
  <2> QED
    BY <2>3 DEF k
<1> HIDE DEF m
<1>8. Sound(y)
  <2>1. \A u \in Blocks : Where(y, u) = Where(t, u) /\ (Resident(y, u) <=> Resident(t, u))
    BY <1>7 DEF Where, Resident
  <2>2. t.prevTag \in Blocks
    BY <1>6, StateFacts
  <2>3. Placed(y)
    <3>1. /\ IsInjective(t.order) /\ ToSet(t.order) = {u \in Blocks : Resident(t, u)}
          /\ Len(t.order) <= Capacity
          /\ t.aliased => Resident(t, t.prevTag) /\ t.prev = t.cached[t.prevTag]
      BY <1>6 DEF Placed
    <3>2. ToSet(y.order) = {u \in Blocks : Resident(y, u)}
      BY <1>7, <2>1, <3>1
    <3> QED
      BY <1>7, <2>1, <2>2, <3>1, <3>2 DEF Placed
  <2>4. y.prev # None
    <3>1. t.prev # None
      BY <1>1, <1>6, SoundFacts
    <3> QED
      BY <1>7, <3>1
  <2>5. ASSUME NEW j \in 0 .. y.siz - 1
        PROVE  Where(y, Tag(j)) # None
    <3>1. j \in 0 .. t.siz - 1
      BY <1>1, <1>6, <1>7
    <3> QED
      BY <1>6, <2>1, <3>1, IndexFacts
  <2>6. /\ "shared" \notin program /\ PrefetchFits => InHand(t)
        /\ program \cap {"assign", "exchange"} = {} => t.prev = Where(t, t.prevTag)
    BY <1>6, <1>7, <2>4, SoundFacts
  <2>7. InHand(t) => InHand(y)
    BY <1>7 DEF InHand
  <2> QED
    BY <1>7, <2>1, <2>2, <2>3, <2>4, <2>5, <2>6, <2>7 DEF Sound
<1> QED
  BY <1>7, <1>8 DEF y, m

\* The loop of clear.
SoundTo(m) == {x \in States : Sound(x) /\ x.siz <= m}

ErasedIn(x, i) == IF i < x.siz THEN Erased(x, i) ELSE x

ClearLoop(base, q) == FoldLeft(LAMBDA x, i : IF i < x.siz THEN Erased(x, i) ELSE x, base, q)

IsClear(g, q, base) ==
  g = [s \in SUBSET (DOMAIN q) |-> IF s = {} THEN base ELSE ErasedIn(g[s \ {Max(s)}], q[Max(s)])]

LEMMA ClearIsLoop ==
  ASSUME NEW base, NEW q
  PROVE  ClearLoop(base, q) = (CHOOSE g : IsClear(g, q, base))[DOMAIN q]
BY DEF ClearLoop, FoldLeft, MapThenFoldSet, IsClear, ErasedIn

LEMMA ClearKeeps ==
  ASSUME NEW m \in Nat, NEW base \in SoundTo(m), NEW n \in Nat, NEW q \in [1 .. n -> Nat]
  PROVE  ClearLoop(base, q) \in SoundTo(m)
<1> DEFINE V == [k \in 0 .. n |-> SoundTo(m)]
           h == [p \in SoundTo(m) \X (1 .. n) |-> ErasedIn(p[1], q[p[2]])]
           f == CHOOSE f : IsClear(f, q, base)
<1>1. ASSUME NEW x \in SoundTo(m), NEW i \in 1 .. n
      PROVE  ErasedIn(x, q[i]) \in SoundTo(m)
  <2> DEFINE a == q[i]
             c == Erased(x, a)
  <2>1. Sound(x) /\ x.siz \in Nat /\ x.siz <= m
    <3>1. Sound(x) /\ x \in States /\ x.siz <= m
      BY DEF SoundTo
    <3>2. x.siz \in 0 .. MaxSize
      BY <3>1, StateFacts
    <3> QED
      BY <3>1, <3>2, VectorAssumption
  <2>2. a \in Nat
    OBVIOUS
  <2> HIDE DEF a
  <2>3. CASE a < x.siz
    <3>1. a \in 0 .. x.siz - 1
      BY <2>1, <2>2, <2>3
    <3>2. Sound(c) /\ c.siz = x.siz - 1
      BY <2>1, <3>1, ErasedFacts
    <3>3. c \in States /\ c.siz <= m
      BY <2>1, <3>2, SoundFacts
    <3>4. ErasedIn(x, a) = c
      BY <2>3 DEF ErasedIn
    <3> HIDE DEF c
    <3> QED
      BY <3>2, <3>3, <3>4 DEF SoundTo, a
  <2>4. CASE ~(a < x.siz)
    BY <2>4 DEF ErasedIn, a
  <2> QED
    BY <2>3, <2>4
<1>2. \A x \in SoundTo(m) : \A i \in 1 .. n : h[<<x, i>>] = ErasedIn(x, q[i])
  OBVIOUS
<1>3. DOMAIN q = 1 .. n /\ \A k \in 0 .. n : V[k] = SoundTo(m)
  OBVIOUS
<1> HIDE DEF V, h, f
<1>4. base \in V[0] /\ \A k \in 1 .. n : \A i \in 1 .. n : \A x \in V[k - 1] : h[<<x, i>>] \in V[k]
  BY <1>1, <1>2, <1>3
<1>5. PICK g : /\ IsLoop(g, n, h, base)
               /\ \A s \in SUBSET (1 .. n) : s # {} =>
                    /\ Max(s) \in 1 .. n /\ Cardinality(s) \in 1 .. n
                    /\ g[s \ {Max(s)}] \in V[Cardinality(s) - 1]
  BY <1>4, LoopWithin
<1>6. ASSUME NEW s \in SUBSET (1 .. n), s # {}
      PROVE  h[<<g[s \ {Max(s)}], Max(s)>>] = ErasedIn(g[s \ {Max(s)}], q[Max(s)])
  <2>1. /\ Max(s) \in 1 .. n /\ Cardinality(s) \in 1 .. n
        /\ g[s \ {Max(s)}] \in V[Cardinality(s) - 1]
    BY <1>5, <1>6
  <2>2. Cardinality(s) - 1 \in 0 .. n
    BY <2>1
  <2>3. g[s \ {Max(s)}] \in SoundTo(m)
    BY <1>3, <2>1, <2>2
  <2> QED
    BY <1>2, <2>1, <2>3
<1>7. IsClear(g, q, base)
  BY <1>3, <1>5, <1>6 DEF IsClear, IsLoop
<1>8. IsClear(f, q, base)
  BY <1>7 DEF f
<1>9. \A s \in SUBSET (1 .. n) :
        f[s] = IF s = {} THEN base ELSE ErasedIn(f[s \ {Max(s)}], q[Max(s)])
  BY <1>3, <1>8 DEF IsClear
<1>10. ASSUME NEW s \in SUBSET (1 .. n), s # {}, Max(s) \in 1 .. n, Cardinality(s) \in 1 .. n,
              f[s \ {Max(s)}] \in V[Cardinality(s) - 1]
       PROVE  f[s] = h[<<f[s \ {Max(s)}], Max(s)>>]
  <2>1. f[s \ {Max(s)}] \in SoundTo(m)
    BY <1>3, <1>10
  <2>2. f[s] = ErasedIn(f[s \ {Max(s)}], q[Max(s)])
    BY <1>9, <1>10
  <2> QED
    BY <1>2, <1>10, <2>1, <2>2
<1>11. f[{}] = base
  BY <1>9
<1>14. EndsIn(f[1 .. n], n, h, V, base)
  BY <1>4, <1>10, <1>11, LoopEnds
<1>12. f[1 .. n] \in V[n]
  BY <1>14 DEF EndsIn, RoundByRound
<1>13. f[DOMAIN q] \in SoundTo(m)
  BY <1>3, <1>12
<1> QED
  BY <1>13, ClearIsLoop DEF f

LEMMA ClearedFacts ==
  ASSUME NEW s, Sound(s)
  PROVE  Sound(Cleared(s)) /\ Cleared(s) \in States
<1> DEFINE m == s.siz
           q == [n \in 1 .. s.siz |-> n - 1]
<1>1. s \in States /\ m \in Nat
  <2>1. s \in States
    BY SoundFacts
  <2>2. m \in 0 .. MaxSize
    BY <2>1, StateFacts
  <2> QED
    BY <2>1, <2>2, VectorAssumption
<1>2. Cleared(s) = ClearLoop(s, q)
  BY Zenon DEF Cleared, ClearLoop
<1>3. q \in [1 .. m -> Nat]
  BY <1>1
<1>4. s \in SoundTo(m)
  BY <1>1 DEF SoundTo
<1> HIDE DEF m, q
<1>5. ClearLoop(s, q) \in SoundTo(m)
  BY <1>1, <1>3, <1>4, ClearKeeps
<1> QED
  BY <1>2, <1>5 DEF SoundTo

\* The loop of the constructor.
AnySound == {x \in States : Sound(x)}

FillLoop(base, q, v) == FoldLeft(LAMBDA x, k : Inserted(x, 0, v), base, q)

IsFill(g, q, base, v) ==
  g = [s \in SUBSET (DOMAIN q) |-> IF s = {} THEN base ELSE Inserted(g[s \ {Max(s)}], 0, v)]

LEMMA FillIsLoop ==
  ASSUME NEW base, NEW q, NEW v
  PROVE  FillLoop(base, q, v) = (CHOOSE g : IsFill(g, q, base, v))[DOMAIN q]
BY DEF FillLoop, FoldLeft, MapThenFoldSet, IsFill

FillRounds(r, base, q, n, v) ==
  /\ r[0] = base /\ r[n] = FillLoop(base, q, v) /\ \A k \in 0 .. n : r[k] \in SoundOf(k)
  /\ \A k \in 1 .. n : r[k] = Inserted(r[k - 1], 0, v)

LEMMA FillKeeps ==
  ASSUME NEW base \in SoundOf(0), NEW n \in 0 .. MaxSize, NEW q, DOMAIN q = 1 .. n, NEW v \in Values
  PROVE  \E r : FillRounds(r, base, q, n, v)
<1> DEFINE V == [k \in 0 .. n |-> SoundOf(k)]
           h == [p \in AnySound \X (1 .. n) |-> Inserted(p[1], 0, v)]
           f == CHOOSE f : IsFill(f, q, base, v)
<1>1. ASSUME NEW k \in 1 .. n, NEW x \in SoundOf(k - 1)
      PROVE  Inserted(x, 0, v) \in SoundOf(k)
  <2> DEFINE c == Inserted(x, 0, v)
  <2>1. Sound(x) /\ x.siz = k - 1
    BY DEF SoundOf
  <2>2. k \in Nat /\ x.siz < MaxSize /\ 0 \in 0 .. x.siz
    BY <2>1, VectorAssumption
  <2>3. Sound(c) /\ c.siz = x.siz + 1
    BY <2>1, <2>2, InsertedFacts
  <2> HIDE DEF c
  <2>4. c \in States /\ c.siz = k
    BY <2>1, <2>2, <2>3, SoundFacts
  <2>5. c \in SoundOf(k)
    BY <2>3, <2>4 DEF SoundOf
  <2> QED
    BY <2>5 DEF c
<1>2. \A x \in AnySound : \A i \in 1 .. n : h[<<x, i>>] = Inserted(x, 0, v)
  OBVIOUS
<1>3. /\ DOMAIN q = 1 .. n /\ n \in Nat
      /\ \A k \in 0 .. n : V[k] = SoundOf(k)
      /\ \A k \in 0 .. n : SoundOf(k) \subseteq AnySound
  BY VectorAssumption DEF SoundOf, AnySound
<1> HIDE DEF V, h, f
<1>4. base \in V[0] /\ \A k \in 1 .. n : \A i \in 1 .. n : \A x \in V[k - 1] : h[<<x, i>>] \in V[k]
  <2>1. base \in V[0]
    BY <1>3
  <2>2. ASSUME NEW k \in 1 .. n, NEW i \in 1 .. n, NEW x \in V[k - 1]
        PROVE  h[<<x, i>>] \in V[k]
    <3>1. k - 1 \in 0 .. n /\ k \in 0 .. n
      BY <1>3
    <3>2. x \in SoundOf(k - 1) /\ x \in AnySound
      BY <1>3, <2>2, <3>1
    <3>3. Inserted(x, 0, v) \in SoundOf(k)
      BY <1>1, <3>2
    <3> QED
      BY <1>2, <1>3, <3>1, <3>2, <3>3
  <2> QED
    BY <2>1, <2>2
<1>5. PICK g : /\ IsLoop(g, n, h, base)
               /\ \A s \in SUBSET (1 .. n) : s # {} =>
                    /\ Max(s) \in 1 .. n /\ Cardinality(s) \in 1 .. n
                    /\ g[s \ {Max(s)}] \in V[Cardinality(s) - 1]
  BY <1>3, <1>4, LoopWithin
<1>6. ASSUME NEW s \in SUBSET (1 .. n), s # {}
      PROVE  h[<<g[s \ {Max(s)}], Max(s)>>] = Inserted(g[s \ {Max(s)}], 0, v)
  <2>1. /\ Max(s) \in 1 .. n /\ Cardinality(s) \in 1 .. n
        /\ g[s \ {Max(s)}] \in V[Cardinality(s) - 1]
    BY <1>5, <1>6
  <2>2. Cardinality(s) - 1 \in 0 .. n
    BY <2>1
  <2>3. g[s \ {Max(s)}] \in AnySound
    BY <1>3, <2>1, <2>2
  <2> QED
    BY <1>2, <2>1, <2>3
<1>7. IsFill(g, q, base, v)
  BY <1>3, <1>5, <1>6 DEF IsFill, IsLoop
<1>8. IsFill(f, q, base, v)
  BY <1>7 DEF f
<1>9. \A s \in SUBSET (1 .. n) :
        f[s] = IF s = {} THEN base ELSE Inserted(f[s \ {Max(s)}], 0, v)
  BY <1>3, <1>8 DEF IsFill
<1>10. ASSUME NEW s \in SUBSET (1 .. n), s # {}, Max(s) \in 1 .. n, Cardinality(s) \in 1 .. n,
              f[s \ {Max(s)}] \in V[Cardinality(s) - 1]
       PROVE  f[s] = h[<<f[s \ {Max(s)}], Max(s)>>]
  <2>3. Cardinality(s) - 1 \in 0 .. n
    BY <1>3, <1>10
  <2>1. f[s \ {Max(s)}] \in AnySound
    BY <1>3, <1>10, <2>3
  <2>2. f[s] = Inserted(f[s \ {Max(s)}], 0, v)
    BY <1>9, <1>10
  <2> QED
    BY <1>2, <1>10, <2>1, <2>2
<1>11. f[{}] = base
  BY <1>9
<1>17. n \in Nat
  BY <1>3
<1>18. EndsIn(f[1 .. n], n, h, V, base)
  BY <1>4, <1>10, <1>11, <1>17, LoopEnds
<1>12. PICK r : RoundByRound(r, n, h, V, base) /\ r[n] = f[1 .. n]
  BY <1>18 DEF EndsIn
<1>13. r[0] = base /\ \A k \in 0 .. n : r[k] \in SoundOf(k)
  BY <1>3, <1>12 DEF RoundByRound
<1>14. ASSUME NEW k \in 1 .. n
       PROVE  r[k] = Inserted(r[k - 1], 0, v)
  <2>1. k - 1 \in 0 .. n
    BY <1>17
  <2>2. r[k - 1] \in AnySound
    BY <1>3, <1>13, <2>1
  <2> QED
    BY <1>2, <1>12, <2>2 DEF RoundByRound
<1>15. r[n] = FillLoop(base, q, v)
  BY <1>3, <1>12, FillIsLoop DEF f
<1>16. FillRounds(r, base, q, n, v)
  BY <1>13, <1>14, <1>15 DEF FillRounds
<1> QED
  BY <1>16

LEMMA FilledFacts ==
  ASSUME NEW s, Sound(s), s.siz = 0, NEW n \in 1 .. MaxSize, NEW v \in Values
  PROVE  Sound(Filled(s, n, v)) /\ Filled(s, n, v) \in States
<1> DEFINE q == [k \in 1 .. n |-> k]
<1>1. Filled(s, n, v) = FillLoop(s, q, v)
  BY Zenon DEF Filled, FillLoop
<1>2. DOMAIN q = 1 .. n /\ n \in 0 .. MaxSize
  BY VectorAssumption
<1>3. s \in SoundOf(0)
  BY SoundFacts DEF SoundOf
<1> HIDE DEF q
<1>4. FillLoop(s, q, v) \in SoundOf(n)
  BY <1>2, <1>3, FillKeeps DEF FillRounds
<1> QED
  BY <1>1, <1>4 DEF SoundOf
-------------------------------------------------------------------------------
(* Every action leaves the vector sound. *)

\* The vector as one value, not stuck.
Vec == [State EXCEPT !.stuck = FALSE]

\* Sound is about the parts of a state.
LEMMA SoundOfParts ==
  ASSUME NEW x, Sound(x), NEW y \in States, y.siz = x.siz, y.prevTag = x.prevTag, y.prev = x.prev,
         y.aliased <=> x.aliased, y.cached = x.cached, y.order = x.order, y.remote = x.remote
  PROVE  Sound(y)
<1>1. /\ x \in States /\ Placed(x) /\ x.prevTag \in Blocks /\ x.siz \in 0 .. MaxSize
  BY SoundFacts, StateFacts
<1>2. \A u \in Blocks : Where(y, u) = Where(x, u) /\ (Resident(y, u) <=> Resident(x, u))
  BY DEF Where, Resident
<1>3. Placed(y)
  <2>1. /\ IsInjective(x.order) /\ ToSet(x.order) = {t \in Blocks : Resident(x, t)}
        /\ Len(x.order) <= Capacity
        /\ x.aliased => Resident(x, x.prevTag) /\ x.prev = x.cached[x.prevTag]
    BY <1>1 DEF Placed
  <2>2. ToSet(y.order) = {t \in Blocks : Resident(y, t)}
    BY <1>2, <2>1
  <2> QED
    BY <1>1, <1>2, <2>1, <2>2 DEF Placed
<1>4. \A i \in 0 .. y.siz - 1 : Where(y, Tag(i)) # None
  BY <1>2, IndexFacts
<1>5. InHand(x) => InHand(y)
  BY DEF InHand
<1>6. y.siz > 0 => y.prev # None
  BY SoundFacts
<1>7. ASSUME y.prev # None
      PROVE  /\ "shared" \notin program /\ PrefetchFits => InHand(y)
             /\ program \cap {"assign", "exchange"} = {} => y.prev = Where(y, y.prevTag)
  BY <1>1, <1>2, <1>5, <1>7, SoundFacts
<1> QED
  BY <1>3, <1>4, <1>6, <1>7 DEF Sound

\* The parts of the state.
LEMMA VecParts ==
  /\ Vec.siz = siz /\ Vec.prevTag = prevTag /\ Vec.prev = prev /\ Vec.aliased = aliased
  /\ Vec.cached = cached /\ Vec.order = order /\ Vec.remote = remote /\ Vec.stuck = FALSE
BY DEF Vec, State

LEMMA StateParts ==
  /\ State.siz = siz /\ State.prevTag = prevTag /\ State.prev = prev /\ State.aliased = aliased
  /\ State.cached = cached /\ State.order = order /\ State.remote = remote
BY DEF State

\* Before a call the vector is sound.
LEMMA SoundBefore ==
  ASSUME IInv, ~stuck
  PROVE  Sound(State)
<1>1. Sound(Vec)
  BY DEF IInv, Vec
<1>2. Vec \in States
  BY <1>1, SoundFacts
<1>3. stuck = FALSE
  BY DEF IInv
<1>4. /\ siz \in 0 .. MaxSize /\ prevTag \in Blocks /\ prev \in Payloads \cup {None}
      /\ cached \in [Blocks -> Payloads \cup {None}] /\ order \in Seq(Blocks)
      /\ remote \in [Blocks -> Payloads \cup {None}] /\ aliased \in BOOLEAN
  BY <1>2 DEF Vec, State, States
<1>5. State \in States
  BY <1>3, <1>4 DEF State, States
<1>6. /\ State.siz = Vec.siz /\ State.prevTag = Vec.prevTag /\ State.prev = Vec.prev
      /\ State.cached = Vec.cached /\ State.order = Vec.order /\ State.remote = Vec.remote
      /\ (State.aliased <=> Vec.aliased)
  BY DEF State, Vec
<1> QED
  BY <1>1, <1>5, <1>6, SoundOfParts

\* A call that ends in a sound state keeps the invariant.
LEMMA SoundStep ==
  ASSUME program \in Programs, NEW x, Sound(x), Become(x)
  PROVE  IInv'
<1>1. x \in States /\ x.stuck = FALSE
  BY SoundFacts, StateFacts
<1>2. /\ program' = program /\ siz' = x.siz /\ prevTag' = x.prevTag /\ prev' = x.prev
      /\ aliased' = x.aliased /\ cached' = x.cached /\ order' = x.order /\ remote' = x.remote
      /\ stuck' = FALSE
  BY <1>1 DEF Become
<1>3. /\ siz' \in 0 .. MaxSize /\ prevTag' \in Blocks /\ prev' \in Payloads \cup {None}
      /\ cached' \in [Blocks -> Payloads \cup {None}] /\ order' \in Seq(Blocks)
      /\ remote' \in [Blocks -> Payloads \cup {None}] /\ aliased' \in BOOLEAN
  BY <1>1, <1>2, StateFacts
<1>4. Vec' \in States
  BY <1>3 DEF Vec, State, States
<1>5. /\ Vec'.siz = x.siz /\ Vec'.prevTag = x.prevTag /\ Vec'.prev = x.prev
      /\ Vec'.cached = x.cached /\ Vec'.order = x.order /\ Vec'.remote = x.remote
      /\ (Vec'.aliased <=> x.aliased)
  BY <1>2 DEF State, Vec
<1> DEFINE y == Vec'
<1>6. Sound(y)
  <2> HIDE DEF y
  <2> QED
    BY <1>4, <1>5, SoundOfParts DEF y
<1>7. Sound(Vec)'
  BY <1>2, <1>6 DEF Sound, InHand, Forward, PrefetchFits
<1> QED
  BY <1>2, <1>7 DEF IInv, Vec

\* A use of a message that is gone keeps it too, as far as it claims anything then.
LEMMA StuckStep ==
  ASSUME program \in Programs, ~ExchangesApart, NEW b, Sound(b), b.siz > 0,
         NEW x, x = [b EXCEPT !.stuck = TRUE], Become(x)
  PROVE  IInv'
<1>1. b \in States
  BY SoundFacts
<1>2. /\ program' = program /\ siz' = b.siz /\ prevTag' = b.prevTag /\ prev' = b.prev
      /\ aliased' = b.aliased /\ cached' = b.cached /\ order' = b.order /\ remote' = b.remote
      /\ stuck' = TRUE
  BY <1>1 DEF Become, States
<1>3. /\ siz' \in 0 .. MaxSize /\ prevTag' \in Blocks /\ prev' \in Payloads \cup {None}
      /\ cached' \in [Blocks -> Payloads \cup {None}] /\ order' \in Seq(Blocks)
      /\ remote' \in [Blocks -> Payloads \cup {None}] /\ aliased' \in BOOLEAN
  BY <1>1, <1>2, StateFacts
<1>4. Vec' \in States
  BY <1>3 DEF Vec, State, States
<1>5. /\ Vec'.siz = b.siz /\ Vec'.prevTag = b.prevTag /\ Vec'.prev = b.prev
      /\ Vec'.cached = b.cached /\ Vec'.order = b.order /\ Vec'.remote = b.remote
      /\ (Vec'.aliased <=> b.aliased)
  BY <1>2 DEF State, Vec
<1> DEFINE y == Vec'
<1>6. Sound(y)
  <2> HIDE DEF y
  <2> QED
    BY <1>4, <1>5, SoundOfParts DEF y
<1>7. Sound(Vec)'
  BY <1>2, <1>6 DEF Sound, InHand, Forward, PrefetchFits
<1>8. siz' > 0 /\ ~ExchangesApart'
  BY <1>2 DEF ExchangesApart
<1> QED
  BY <1>2, <1>7, <1>8 DEF IInv, Vec

\* A write that is not stored, by a program of which that is known.
LEMMA SoundWrite ==
  ASSUME NEW s, Sound(s), s.prev \in Payloads, program \cap {"assign", "exchange"} # {},
         NEW i \in Nat, NEW v \in Values \cup {Junk}
  PROVE  Sound(WriteHeld(s, i, v)) /\ Written(s, WriteHeld(s, i, v))
<1> DEFINE w == WriteHeld(s, i, v)
<1>1. Placed(s) /\ s \in States /\ s.prevTag \in Blocks
  BY SoundFacts, StateFacts
<1>2. Written(s, w)
  BY <1>1, WriteFacts
<1> HIDE DEF w
<1>3. /\ Placed(w) /\ w.siz = s.siz /\ w.prevTag = s.prevTag /\ w.order = s.order
      /\ w.prev \in Payloads /\ (w.aliased <=> s.aliased)
      /\ \A u \in Blocks \ {s.prevTag} : Where(w, u) = Where(s, u)
      /\ Where(s, s.prevTag) # None => Where(w, s.prevTag) # None
  BY <1>2 DEF Written
<1>4. ASSUME NEW j \in 0 .. w.siz - 1
      PROVE  Where(w, Tag(j)) # None
  <2>1. j \in 0 .. s.siz - 1
    BY <1>3
  <2>2. Tag(j) \in Blocks /\ Where(s, Tag(j)) # None
    BY <2>1, IndexFacts
  <2> QED
    BY <1>3, <2>2
<1>5. "shared" \notin program /\ PrefetchFits => InHand(w)
  <2>1. s.prev # None
    BY TagFacts
  <2>2. "shared" \notin program /\ PrefetchFits => InHand(s)
    BY <2>1, SoundFacts
  <2> QED
    BY <1>3, <2>2 DEF InHand
<1>6. Sound(w)
  BY <1>3, <1>4, <1>5, TagFacts DEF Sound
<1> QED
  BY <1>2, <1>6 DEF w

LEMMA AssignedFacts ==
  ASSUME NEW s, Sound(s), "assign" \in program, NEW i \in 0 .. s.siz - 1, NEW v \in Values
  PROVE  Sound(WriteHeld(Touch(s, i), i, v))
<1> DEFINE t == Touch(s, i)
<1>1. Touched(s, i, t) /\ i \in Nat
  BY TouchFacts, IndexFacts
<1> HIDE DEF t
<1>2. Sound(t) /\ t.prev \in Payloads
  BY <1>1 DEF Touched
<1>3. Sound(WriteHeld(t, i, v))
  BY <1>1, <1>2, SoundWrite
<1> QED
  BY <1>3 DEF t

\* Another data structure takes a block's place.
LEMMA EvictedFacts ==
  ASSUME NEW s, Sound(s), s.order # <<>>, "shared" \in program
  PROVE  Sound(Evict(s, Last(s.order)))
<1> DEFINE v == Last(s.order)
           e == Evict(s, v)
<1>1. Placed(s) /\ s \in States /\ s.order \in Seq(Blocks) /\ s.prevTag \in Blocks
  BY SoundFacts, StateFacts
<1>2. v \in Blocks /\ Resident(s, v)
  <2>1. Len(s.order) \in Nat /\ Len(s.order) # 0 /\ v = s.order[Len(s.order)]
    BY <1>1 DEF Last
  <2>2. Len(s.order) \in 1 .. Len(s.order)
    BY <2>1
  <2> HIDE DEF v
  <2> QED
    BY <1>1, <2>1, <2>2, ListedFacts
<1> HIDE DEF v
<1>3. /\ Placed(e) /\ e.siz = s.siz /\ e.prevTag = s.prevTag /\ e.prev = s.prev
      /\ \A u \in Blocks : Where(e, u) = Where(s, u)
  BY <1>1, <1>2, EvictFacts
<1> HIDE DEF e
<1>4. \A i \in 0 .. e.siz - 1 : Where(e, Tag(i)) # None
  BY <1>3, IndexFacts
<1>5. e.siz > 0 => e.prev # None
  BY <1>3, SoundFacts
<1>6. e.prev # None /\ program \cap {"assign", "exchange"} = {} => e.prev = Where(e, e.prevTag)
  BY <1>1, <1>3, SoundFacts
<1>7. Sound(e)
  BY <1>3, <1>4, <1>5, <1>6 DEF Sound
<1> QED
  BY <1>7 DEF e, v

\* The second reference of a swap leaves the first block resident.
LEMMA BothResident ==
  ASSUME program \in Programs, ExchangesApart, "exchange" \in program,
         NEW s, Sound(s), NEW i \in 0 .. s.siz - 1, NEW j \in 0 .. s.siz - 1, Tag(i) # Tag(j),
         NEW a, a = Touch(s, i), NEW b, b = Touch(a, j)
  PROVE  a.aliased /\ Resident(b, Tag(i))
<1>1. ~Forward /\ "shared" \notin program /\ PrefetchFits /\ Capacity > 1
  BY DEF ExchangesApart, Forward, PrefetchFits
<1>2. Sound(a) /\ a.siz = s.siz /\ a.prevTag = Tag(i) /\ a.prev \in Payloads
  BY TouchFacts DEF Touched
<1>3. a.prev # None
  BY <1>2, TagFacts
<1>4. a.aliased /\ a.order[1] = Tag(i)
  <2>1. InHand(a)
    BY <1>1, <1>2, <1>3, SoundFacts
  <2> QED
    BY <1>1, <1>2, <2>1 DEF InHand
<1>5. Len(a.order) > 0
  <2>1. Placed(a) /\ a.prevTag \in Blocks /\ Resident(a, a.prevTag)
    BY <1>2, <1>4, SoundFacts, StateFacts DEF Placed
  <2>2. \E k \in 1 .. Len(a.order) : a.order[k] = a.prevTag
    BY <2>1, ListedFacts
  <2>3. Len(a.order) \in 0 .. Capacity /\ Capacity \in Nat
    BY <2>1, ListedFacts, VectorAssumption
  <2> QED
    BY <2>2, <2>3
<1>6. j \in 0 .. a.siz - 1
  BY <1>2
<1> DEFINE p == Prefetch(a, j)
           h == Hold(p, Tag(j))
<1>7. p = a
  BY <1>1, <1>2, <1>6, PrefetchFacts
<1>8. b = h /\ Holds(p, Tag(j), h)
  BY <1>2, <1>6, TouchSteps
<1> HIDE DEF p, h
<1>9. Placed(b) /\ Len(b.order) > 1 /\ b.order[2] = Tag(i)
  BY <1>1, <1>2, <1>4, <1>5, <1>7, <1>8 DEF Holds
<1>10. 2 \in 1 .. Len(b.order)
  <2>1. Len(b.order) \in 0 .. Capacity
    BY <1>9, ListedFacts
  <2> QED
    BY <1>9, <2>1, VectorAssumption
<1> QED
  BY <1>4, <1>9, <1>10, ListedFacts

\* A write through a reference to a block that is resident but no longer in hand.
LEMMA SoundWriteBehind ==
  ASSUME NEW s, Sound(s), NEW t \in Blocks, t # s.prevTag, Resident(s, t),
         NEW i \in Nat, NEW v \in Values \cup {Junk}
  PROVE  Sound([s EXCEPT !.cached[t][Place(i)] = v])
<1> DEFINE p == [s.cached[t] EXCEPT ![Place(i)] = v]
           c == [s.cached EXCEPT ![t] = p]
           w == [s EXCEPT !.cached[t][Place(i)] = v]
<1>1. /\ s \in States /\ Placed(s) /\ s.prevTag \in Blocks
      /\ s.cached \in [Blocks -> Payloads \cup {None}]
  BY SoundFacts, StateFacts
<1>2. p \in Payloads /\ p # None
  <2>1. Place(i) \in 0 .. BlockElems - 1
    BY TagFacts
  <2>2. s.cached[t] \in Payloads
    BY <1>1 DEF Resident
  <2>3. p \in Payloads
    BY <2>1, <2>2 DEF Payloads
  <2> QED
    BY <2>3, TagFacts
<1>3. w = [s EXCEPT !.cached = c]
  BY <1>1 DEF States
<1> HIDE DEF p, w
<1>4. /\ c \in [Blocks -> Payloads \cup {None}] /\ c[t] = p
      /\ \A u \in Blocks \ {t} : c[u] = s.cached[u]
  BY <1>1, <1>2
<1> HIDE DEF c
<1>5. /\ w \in States /\ w.siz = s.siz /\ w.prevTag = s.prevTag /\ w.prev = s.prev /\ w.order = s.order
      /\ w.cached = c /\ w.remote = s.remote /\ (w.aliased <=> s.aliased)
  BY <1>1, <1>3, <1>4 DEF States
<1>6. /\ \A u \in Blocks : Resident(w, u) <=> Resident(s, u)
      /\ \A u \in Blocks \ {t} : Where(w, u) = Where(s, u)
      /\ Where(w, t) # None
  BY <1>2, <1>4, <1>5 DEF Resident, Where
<1>7. Placed(w)
  <2>1. /\ IsInjective(s.order) /\ ToSet(s.order) = {u \in Blocks : Resident(s, u)}
        /\ Len(s.order) <= Capacity
        /\ s.aliased => Resident(s, s.prevTag) /\ s.prev = s.cached[s.prevTag]
    BY <1>1 DEF Placed
  <2>2. ToSet(w.order) = {u \in Blocks : Resident(w, u)}
    BY <1>5, <1>6, <2>1
  <2>3. w.cached[s.prevTag] = s.cached[s.prevTag]
    BY <1>1, <1>4, <1>5
  <2> QED
    BY <1>1, <1>5, <1>6, <2>1, <2>2, <2>3 DEF Placed
<1>8. ASSUME NEW j \in 0 .. w.siz - 1
      PROVE  Where(w, Tag(j)) # None
  <2>1. Tag(j) \in Blocks /\ Where(s, Tag(j)) # None
    BY <1>5, IndexFacts
  <2> QED
    BY <1>6, <2>1
<1>9. InHand(s) => InHand(w)
  BY <1>5 DEF InHand
<1>10. w.siz > 0 => w.prev # None
  BY <1>5, SoundFacts
<1>11. ASSUME w.prev # None
       PROVE  /\ "shared" \notin program /\ PrefetchFits => InHand(w)
              /\ program \cap {"assign", "exchange"} = {} => w.prev = Where(w, w.prevTag)
  BY <1>1, <1>5, <1>6, <1>9, <1>11, SoundFacts
<1>12. Sound(w)
  BY <1>7, <1>8, <1>10, <1>11 DEF Sound
<1> QED
  BY <1>12 DEF w

\* std::swap: a sound vector, or the first reference is dead.
LEMMA ExchangedFacts ==
  ASSUME program \in Programs, "exchange" \in program,
         NEW s, Sound(s), NEW i \in 0 .. s.siz - 1, NEW j \in 0 .. s.siz - 1
  PROVE  \/ Sound(Exchanged(s, i, j))
         \/ ~ExchangesApart /\ \E b : /\ Sound(b) /\ b.siz > 0
                                      /\ Exchanged(s, i, j) = [b EXCEPT !.stuck = TRUE]
<1> DEFINE a == Touch(s, i)
           b == Touch(a, j)
           z == a.prev[Place(i)]
           w == WriteHeld(b, j, z)
           y == b.prev[Place(j)]
           x == Exchanged(s, i, j)
<1>1. Touched(s, i, a)
  BY TouchFacts
<1>2. x = IF b.stuck THEN b
          ELSE IF Tag(i) = Tag(j) THEN WriteHeld(w, i, y)
          ELSE IF a.aliased /\ Resident(b, Tag(i)) THEN [w EXCEPT !.cached[Tag(i)][Place(i)] = y]
          ELSE [b EXCEPT !.stuck = TRUE]
  BY Zenon DEF Exchanged
<1>3. /\ i \in Nat /\ j \in Nat /\ Tag(i) \in Blocks /\ s.siz \in 1 .. MaxSize
      /\ Place(i) \in 0 .. BlockElems - 1 /\ Place(j) \in 0 .. BlockElems - 1
  BY IndexFacts
<1>4. ExchangesApart /\ Tag(i) # Tag(j) => a.aliased /\ Resident(b, Tag(i))
  BY BothResident
<1> HIDE DEF a, x
<1>5. Sound(a) /\ a.siz = s.siz /\ a.prevTag = Tag(i) /\ a.prev \in Payloads
  BY <1>1 DEF Touched
<1>6. Touched(a, j, b)
  BY <1>5, TouchFacts
<1> HIDE DEF b
<1>7. Sound(b) /\ b.siz = s.siz /\ b.prevTag = Tag(j) /\ b.prev \in Payloads
  BY <1>5, <1>6 DEF Touched
<1>8. b.stuck = FALSE
  BY <1>7, SoundFacts, StateFacts
<1>9. z \in Values \cup {Junk} /\ y \in Values \cup {Junk}
  BY <1>3, <1>5, <1>7 DEF Payloads
<1> HIDE DEF z, y
<1>10. program \cap {"assign", "exchange"} # {}
  OBVIOUS
<1>11. Sound(w) /\ Written(b, w)
  BY <1>3, <1>7, <1>9, <1>10, SoundWrite
<1> HIDE DEF w
<1>12. w.prevTag = Tag(j) /\ w.prev \in Payloads /\ (Resident(w, Tag(i)) <=> Resident(b, Tag(i)))
  BY <1>3, <1>7, <1>11 DEF Written
<1>13. CASE Tag(i) = Tag(j)
  <2>1. x = WriteHeld(w, i, y)
    BY <1>2, <1>8, <1>13
  <2> QED
    BY <1>3, <1>9, <1>10, <1>11, <1>12, <2>1, SoundWrite DEF x
<1>14. CASE Tag(i) # Tag(j) /\ a.aliased /\ Resident(b, Tag(i))
  <2>1. x = [w EXCEPT !.cached[Tag(i)][Place(i)] = y]
    BY <1>2, <1>8, <1>14
  <2>2. Sound([w EXCEPT !.cached[Tag(i)][Place(i)] = y])
    BY <1>3, <1>9, <1>11, <1>12, <1>14, SoundWriteBehind
  <2> QED
    BY <2>1, <2>2 DEF x
<1>15. CASE Tag(i) # Tag(j) /\ ~(a.aliased /\ Resident(b, Tag(i)))
  <2>1. x = [b EXCEPT !.stuck = TRUE]
    BY <1>2, <1>8, <1>15
  <2>2. ~ExchangesApart /\ b.siz > 0
    BY <1>3, <1>4, <1>7, <1>15
  <2> QED
    BY <1>7, <2>1, <2>2 DEF x
<1> QED
  BY <1>13, <1>14, <1>15
-------------------------------------------------------------------------------
(* The invariant, and what follows from it. *)

LEMMA InitSound ==
  ASSUME Init
  PROVE  IInv
<1>1. /\ siz = 0 /\ prevTag = 0 /\ prev = None /\ aliased = FALSE /\ order = <<>>
      /\ cached = [t \in Blocks |-> None] /\ remote = [t \in Blocks |-> None]
      /\ stuck = FALSE /\ program \in Programs
  BY DEF Init
<1>2. /\ siz \in 0 .. MaxSize /\ prevTag \in Blocks /\ prev \in Payloads \cup {None}
      /\ cached \in [Blocks -> Payloads \cup {None}] /\ order \in Seq(Blocks)
      /\ remote \in [Blocks -> Payloads \cup {None}] /\ aliased \in BOOLEAN
  <2>1. siz \in 0 .. MaxSize /\ prevTag \in Blocks
    BY <1>1, TagFacts, VectorAssumption
  <2>4. prev \in Payloads \cup {None} /\ aliased \in BOOLEAN
    BY <1>1
  <2>2. cached \in [Blocks -> Payloads \cup {None}] /\ remote \in [Blocks -> Payloads \cup {None}]
    BY <1>1
  <2>3. order \in Seq(Blocks)
    BY <1>1
  <2> QED
    BY <2>1, <2>2, <2>3, <2>4
<1>3. Vec \in States
  BY <1>2 DEF Vec, State, States
<1>4. /\ Vec.siz = 0 /\ Vec.order = <<>> /\ Vec.prev = None /\ Vec.aliased = FALSE
      /\ \A u \in Blocks : Vec.cached[u] = None
  BY <1>1, VecParts
<1> DEFINE y == Vec
<1> HIDE DEF y
<1>5. Sound(y)
  <2>1. y \in States /\ y.siz = 0 /\ y.order = <<>> /\ y.prev = None /\ y.aliased = FALSE
        /\ \A u \in Blocks : y.cached[u] = None
    BY <1>3, <1>4 DEF y
  <2>2. IsInjective(<<>>) /\ ToSet(<<>>) = {} /\ Len(<<>>) = 0
    BY DEF IsInjective, ToSet
  <2>3. {t \in Blocks : Resident(y, t)} = {}
    BY <2>1 DEF Resident
  <2>4. Placed(y)
    BY <2>1, <2>2, <2>3, VectorAssumption DEF Placed
  <2> QED
    BY <2>1, <2>4 DEF Sound
<1> QED
  BY <1>1, <1>5 DEF IInv, Vec, y

LEMMA StepSound ==
  ASSUME IInv, Next
  PROVE  IInv'
<1>1. program \in Programs /\ stuck \in BOOLEAN /\ (stuck => siz > 0)
  BY DEF IInv
<1>2. State.siz = siz /\ State.order = order /\ (~stuck => Sound(State))
  BY SoundBefore, StateParts
<1>3. siz \in 0 .. MaxSize /\ MaxSize \in Nat
  <2>1. Sound(Vec)
    BY DEF IInv, Vec
  <2> QED
    BY <2>1, SoundFacts, StateFacts, VecParts, VectorAssumption
<1> DEFINE s == State
<1> HIDE DEF s
<1>4. s.siz = siz /\ s.order = order /\ (~stuck => Sound(s))
  BY <1>2 DEF s
<1>5. ASSUME NEW i \in 0 .. siz, NEW v \in Values, Insert(i, v)
      PROVE  IInv'
  <2>1. ~stuck /\ siz < MaxSize /\ Become(Inserted(s, i, v))
    BY <1>5 DEF Insert, s
  <2>2. Sound(Inserted(s, i, v))
    BY <1>4, <2>1, InsertedFacts
  <2> QED
    BY <1>1, <2>1, <2>2, SoundStep
<1>6. ASSUME NEW i \in Indices, NEW v \in Values, Replace(i, v)
      PROVE  IInv'
  <2>1. ~stuck /\ i \in 0 .. s.siz - 1 /\ Become(Replaced(s, i, v))
    BY <1>4, <1>6 DEF Replace, Indices, s
  <2>2. Sound(Replaced(s, i, v))
    BY <1>4, <2>1, ReplacedFacts
  <2> QED
    BY <1>1, <2>1, <2>2, SoundStep
<1>7. ASSUME NEW i \in Indices, NEW j \in Indices, Swap(i, j)
      PROVE  IInv'
  <2>1. ~stuck /\ i \in 0 .. s.siz - 1 /\ j \in 0 .. s.siz - 1 /\ Become(Swapped(s, i, j))
    BY <1>4, <1>7 DEF Swap, Indices, s
  <2>2. Sound(Swapped(s, i, j))
    BY <1>4, <2>1, SwappedFacts
  <2> QED
    BY <1>1, <2>1, <2>2, SoundStep
<1>8. ASSUME NEW i \in Indices, Erase(i)
      PROVE  IInv'
  <2>1. ~stuck /\ i \in 0 .. s.siz - 1 /\ Become(Erased(s, i))
    BY <1>4, <1>8 DEF Erase, Indices, s
  <2>2. Sound(Erased(s, i))
    BY <1>4, <2>1, ErasedFacts
  <2> QED
    BY <1>1, <2>1, <2>2, SoundStep
<1>9. ASSUME Clear
      PROVE  IInv'
  <2>1. ~stuck /\ Become(Cleared(s))
    BY <1>9 DEF Clear, s
  <2>2. Sound(Cleared(s))
    BY <1>4, <2>1, ClearedFacts
  <2> QED
    BY <1>1, <2>1, <2>2, SoundStep
<1>10. ASSUME NEW i \in Indices, At(i)
       PROVE  IInv'
  <2>1. ~stuck /\ i \in 0 .. s.siz - 1 /\ Become(Touch(s, i))
    BY <1>4, <1>10 DEF At, Indices, s
  <2>2. Sound(Touch(s, i))
    BY <1>4, <2>1, TouchFacts DEF Touched
  <2> QED
    BY <1>1, <2>1, <2>2, SoundStep
<1>11. ASSUME NEW i \in Indices, NEW v \in Values, Assign(i, v)
       PROVE  IInv'
  <2>1. ~stuck /\ "assign" \in program /\ i \in 0 .. s.siz - 1 /\ Become(WriteHeld(Touch(s, i), i, v))
    BY <1>4, <1>11 DEF Assign, Indices, s
  <2>2. Sound(WriteHeld(Touch(s, i), i, v))
    BY <1>4, <2>1, AssignedFacts
  <2> QED
    BY <1>1, <2>1, <2>2, SoundStep
<1>12. ASSUME NEW i \in Indices, NEW j \in Indices, Exchange(i, j)
       PROVE  IInv'
  <2>1. ~stuck /\ "exchange" \in program /\ i \in 0 .. s.siz - 1 /\ j \in 0 .. s.siz - 1
    BY <1>4, <1>12 DEF Exchange, Indices
  <2>2. Become(Exchanged(s, i, j))
    BY <1>12 DEF Exchange, s
  <2>3. \/ Sound(Exchanged(s, i, j))
        \/ ~ExchangesApart /\ \E b : /\ Sound(b) /\ b.siz > 0
                                     /\ Exchanged(s, i, j) = [b EXCEPT !.stuck = TRUE]
    BY <1>1, <1>4, <2>1, ExchangedFacts
  <2>4. CASE Sound(Exchanged(s, i, j))
    BY <1>1, <2>2, <2>4, SoundStep
  <2>5. CASE ~ExchangesApart /\ \E b : /\ Sound(b) /\ b.siz > 0
                                       /\ Exchanged(s, i, j) = [b EXCEPT !.stuck = TRUE]
    <3>1. PICK b : Sound(b) /\ b.siz > 0 /\ Exchanged(s, i, j) = [b EXCEPT !.stuck = TRUE]
      BY <2>5
    <3> DEFINE x == Exchanged(s, i, j)
    <3>2. x = [b EXCEPT !.stuck = TRUE] /\ Become(x)
      BY <2>2, <3>1
    <3> HIDE DEF x
    <3> QED
      BY <1>1, <2>5, <3>1, <3>2, StuckStep
  <2> QED
    BY <2>3, <2>4, <2>5
<1>13. ASSUME NEW n \in 1 .. MaxSize, NEW v \in Values, Fill(n, v)
       PROVE  IInv'
  <2>1. ~stuck /\ siz = 0 /\ Become(Filled(s, n, v))
    BY <1>1, <1>13 DEF Fill, s
  <2>2. Sound(Filled(s, n, v))
    BY <1>4, <2>1, FilledFacts
  <2> QED
    BY <1>1, <2>1, <2>2, SoundStep
<1>14. ASSUME OthersEvict
       PROVE  IInv'
  <2>1. ~stuck /\ "shared" \in program /\ s.order # <<>> /\ Become(Evict(s, Last(s.order)))
    BY <1>4, <1>14 DEF OthersEvict, s
  <2>2. Sound(Evict(s, Last(s.order)))
    BY <1>4, <2>1, EvictedFacts
  <2> QED
    BY <1>1, <2>1, <2>2, SoundStep
<1> QED
  BY <1>5, <1>6, <1>7, <1>8, <1>9, <1>10, <1>11, <1>12, <1>13, <1>14 DEF Next

LEMMA StutterSound ==
  ASSUME IInv, UNCHANGED vars
  PROVE  IInv'
<1>1. /\ program' = program /\ siz' = siz /\ prevTag' = prevTag /\ prev' = prev /\ aliased' = aliased
      /\ cached' = cached /\ order' = order /\ remote' = remote /\ stuck' = stuck
  BY DEF vars
<1>2. Vec' = Vec
  BY <1>1 DEF Vec, State
<1>3. Sound(Vec)
  BY DEF IInv, Vec
<1> DEFINE x == Vec
           y == Vec'
<1>4. Sound(y)
  <2> HIDE DEF x, y
  <2>1. x = y /\ Sound(x)
    BY <1>2, <1>3 DEF x, y
  <2> QED
    BY <2>1
<1>5. Sound(Vec)'
  BY <1>1, <1>4 DEF Sound, InHand, Forward, PrefetchFits
<1>6. program' \in Programs /\ stuck' \in BOOLEAN /\ (stuck' => siz' > 0 /\ ~ExchangesApart')
  BY <1>1 DEF IInv, ExchangesApart
<1> QED
  BY <1>5, <1>6 DEF IInv, Vec

\* The vector is sound between two calls, or a reference died that a program without
\* the cache to itself held.
THEOREM Invariance == Spec => []IInv
<1>1. Init => IInv
  BY InitSound
<1>2. IInv /\ [Next]_vars => IInv'
  BY StepSound, StutterSound
<1> QED
  BY <1>1, <1>2, PTL DEF Spec

\* A list without repetition is as long as it has elements.
LEMMA ListedOnce ==
  ASSUME NEW S, NEW q \in Seq(S), IsInjective(q)
  PROVE  Len(q) = Cardinality(ToSet(q))
<1>1. Len(q) \in Nat /\ DOMAIN q = 1 .. Len(q)
  OBVIOUS
<1>2. q \in Bijection(1 .. Len(q), ToSet(q))
  <2>1. q \in [1 .. Len(q) -> ToSet(q)]
    BY <1>1 DEF ToSet
  <2>2. \A t \in ToSet(q) : \E s \in 1 .. Len(q) : q[s] = t
    BY <1>1 DEF ToSet
  <2> QED
    BY <2>1, <2>2 DEF Bijection, Injection, Surjection
<1>3. ExistsBijection(1 .. Len(q), ToSet(q))
  BY <1>2 DEF ExistsBijection
<1> QED
  BY <1>1, <1>3, FS_CountingElements

\* A sound vector is well-typed.
LEMMA SoundTyped ==
  ASSUME IInv
  PROVE  TypeOK
<1> DEFINE x == Vec
<1>1. Sound(x) /\ stuck \in BOOLEAN
  BY DEF IInv, Vec
<1>2. /\ x.siz = siz /\ x.prevTag = prevTag /\ x.prev = prev /\ x.aliased = aliased
      /\ x.cached = cached /\ x.order = order /\ x.remote = remote
  BY VecParts
<1>3. State.cached = cached
  BY StateParts
<1> HIDE DEF x
<1>4. x \in States /\ Placed(x)
  BY <1>1, SoundFacts
<1>5. /\ siz \in 0 .. MaxSize /\ prevTag \in Blocks /\ prev \in Payloads \cup {None}
      /\ cached \in [Blocks -> Payloads \cup {None}] /\ order \in Seq(Blocks)
      /\ remote \in [Blocks -> Payloads \cup {None}]
  BY <1>2, <1>4, StateFacts
<1>6. /\ IsInjective(order) /\ Len(order) <= Capacity
      /\ ToSet(order) = {t \in Blocks : Resident(State, t)}
      /\ aliased => Resident(State, prevTag) /\ prev = cached[prevTag]
  BY <1>2, <1>3, <1>4 DEF Placed, Resident
<1>7. Len(order) = Cardinality(ToSet(order))
  BY <1>5, <1>6, ListedOnce
<1> QED
  BY <1>1, <1>5, <1>6, <1>7 DEF TypeOK

\* Types; the manager lists its blocks once and no more than fit; an aliased prevMsg
\* equals what it aliases: whatever the program does.
THEOREM TypeCorrect == Spec => []TypeOK
BY SoundTyped, Invariance, PTL

\* No call uses a null or freed message, or waits for a block nobody has, if two
\* references are held at once only by programs that have the cache to themselves.
THEOREM UseIsSafe ==
  ASSUME ExchangesApart
  PROVE  Spec => []NeverStuck
<1>1. IInv => NeverStuck
  BY DEF IInv, NeverStuck
<1> QED
  BY <1>1, Invariance, PTL

\* What the vector shows through prevMsg is where the next fetch of the block finds it,
\* for the disciplined programs.
THEOREM HeldSaved ==
  ASSUME AssignsFit
  PROVE  Spec => []HeldIsSaved
<1>1. ASSUME IInv
      PROVE  HeldIsSaved
  <2> SUFFICES ASSUME Disciplined, siz > 0
               PROVE  prev = IF Resident(State, prevTag) THEN cached[prevTag] ELSE remote[prevTag]
    BY DEF HeldIsSaved
  <2> DEFINE x == Vec
  <2>1. Sound(x) /\ program \in Programs
    BY <1>1 DEF IInv, Vec
  <2>2. /\ x.siz = siz /\ x.prevTag = prevTag /\ x.prev = prev /\ x.aliased = aliased
        /\ x.cached = cached /\ x.remote = remote /\ State.cached = cached
    BY VecParts, StateParts
  <2> HIDE DEF x
  <2>3. x.prev # None /\ Placed(x)
    BY <2>1, <2>2, SoundFacts
  <2>4. x.prev = Where(x, x.prevTag)
    <3>1. CASE program \cap {"assign", "exchange"} = {}
      BY <2>1, <2>3, <3>1, SoundFacts
    <3>2. CASE program \cap {"assign", "exchange"} # {}
      <4>1. "shared" \notin program /\ PrefetchFits
        BY <2>1, <3>2 DEF Disciplined, AssignsFit, PrefetchFits, Forward
      <4>2. InHand(x)
        BY <2>1, <2>3, <4>1, SoundFacts
      <4> QED
        BY <2>3, <4>2 DEF InHand, Placed, Where
    <3> QED
      BY <3>1, <3>2
  <2> QED
    BY <2>2, <2>4 DEF Where, Resident
<1> QED
  BY <1>1, Invariance, PTL
-------------------------------------------------------------------------------
(* The vector as a sequence: what each call does to the elements. *)

\* An element as the next fetch of its block gets it.
Fetched(s, i) == Where(s, Tag(i))[Place(i)]

\* What the vector shows through prevMsg is saved, because every write is stored, or
\* because the block in hand is in the cache.
Holding ==
  program \cap {"assign", "exchange"} = {} \/ ("shared" \notin program /\ PrefetchFits)

LEMMA SavedFacts ==
  ASSUME Holding, NEW s, Sound(s), s.prev # None
  PROVE  s.prev = Where(s, s.prevTag)
<1>1. CASE program \cap {"assign", "exchange"} = {}
  BY <1>1, SoundFacts
<1>2. CASE "shared" \notin program /\ PrefetchFits
  <2>1. InHand(s) /\ Placed(s)
    BY <1>2, SoundFacts
  <2> QED
    BY <2>1 DEF InHand, Placed, Where
<1> QED
  BY <1>1, <1>2 DEF Holding

\* Where the next element goes, and that no other is there.
LEMMA PlaceFacts ==
  /\ \A i, j \in Nat : Tag(i) = Tag(j) /\ Place(i) = Place(j) => i = j
  /\ \A i \in Nat : Place(i + 1) = 0 \/ Tag(i + 1) = Tag(i)
  /\ \A i, j \in Nat : Place(i) = 0 /\ j < i => Tag(j) # Tag(i)
  /\ Place(0) = 0
<1> DEFINE b == BlockElems
<1>1. b \in Nat \ {0}
  BY VectorAssumption
<1>2. ASSUME NEW i \in Nat
      PROVE  Tag(i) \in Nat /\ Place(i) \in 0 .. b - 1 /\ i = b * Tag(i) + Place(i)
  BY <1>1 DEF Tag, Place
<1> HIDE DEF b
<1>3. ASSUME NEW i \in Nat, NEW j \in Nat, Tag(i) = Tag(j), Place(i) = Place(j)
      PROVE  i = j
  BY <1>2, <1>3
<1> DEFINE f == [i \in Nat |-> b * Tag(i)]
<1>4. \A i \in Nat : f[i] \in Nat /\ i = f[i] + Place(i) /\ Place(i) \in 0 .. b - 1 /\ Tag(i) \in Nat
  BY <1>1, <1>2
<1>8. \A i, j \in Nat : Tag(i) = Tag(j) => f[i] = f[j]
  OBVIOUS
<1>9. ASSUME NEW i \in Nat, NEW j \in Nat, Tag(i) < Tag(j)
      PROVE  f[i] + b <= f[j]
  <2> DEFINE x == Tag(i)
             y == Tag(j)
  <2>1. x \in Nat /\ y \in Nat /\ x + 1 <= y
    BY <1>2, <1>9
  <2>2. f[i] = b * x /\ f[j] = b * y
    OBVIOUS
  <2> HIDE DEF x, y, f
  <2>3. b * (x + 1) <= b * y
    BY <1>1, <2>1
  <2>4. b * (x + 1) = b * x + b
    BY <1>1, <2>1
  <2> QED
    BY <2>2, <2>3, <2>4
<1> HIDE DEF f
<1>5. ASSUME NEW i \in Nat, NEW j \in Nat, Place(i) = 0, j < i
      PROVE  Tag(j) # Tag(i)
  BY <1>4, <1>5, <1>8
<1>6. ASSUME NEW i \in Nat, Place(i + 1) # 0
      PROVE  Tag(i + 1) = Tag(i)
  <2> DEFINE j == i + 1
  <2>1. j \in Nat /\ j = i + 1 /\ Place(j) # 0
    BY <1>6
  <2> HIDE DEF j
  <2>2. Tag(i) < Tag(j) => f[i] + b <= f[j]
    BY <1>9, <2>1
  <2>3. Tag(j) < Tag(i) => f[j] + b <= f[i]
    BY <1>9, <2>1
  <2> DEFINE x == f[i]
             y == f[j]
             p == Place(i)
             q == Place(j)
  <2>6. /\ x \in Nat /\ i = x + p /\ p \in 0 .. b - 1
        /\ y \in Nat /\ j = y + q /\ q \in 0 .. b - 1
    BY <1>4, <2>1
  <2>7. (Tag(i) < Tag(j) => x + b <= y) /\ (Tag(j) < Tag(i) => y + b <= x) /\ q # 0
    BY <2>1, <2>2, <2>3
  <2> HIDE DEF x, y, p, q
  <2>4. ~(Tag(i) < Tag(j)) /\ ~(Tag(j) < Tag(i))
    BY <1>1, <2>1, <2>6, <2>7
  <2>5. Tag(i) \in Nat /\ Tag(j) \in Nat
    BY <1>4, <2>1
  <2> QED
    BY <2>4, <2>5 DEF j
<1>7. Place(0) = 0
  BY <1>1 DEF Place, b
<1> QED
  BY <1>3, <1>5, <1>6, <1>7

\* The payload after a write.
LEMMA PayloadWritten ==
  ASSUME NEW s, Placed(s), s.prev \in Payloads, NEW i \in Nat, NEW v \in Values \cup {Junk}
  PROVE  /\ Written(s, WriteHeld(s, i, v))
         /\ WriteHeld(s, i, v).prev = [s.prev EXCEPT ![Place(i)] = v]
         /\ s.aliased => Where(WriteHeld(s, i, v), s.prevTag) = WriteHeld(s, i, v).prev
<1> DEFINE w == WriteHeld(s, i, v)
           p == [s.prev EXCEPT ![Place(i)] = v]
<1>1. Written(s, w)
  BY WriteFacts
<1>2. s \in States /\ s.stuck = FALSE
  BY StateFacts DEF Placed
<1>3. w.prev = p
  <2>1. w = [s EXCEPT !.prev[Place(i)] = v,
                      !.cached[s.prevTag] = IF s.aliased THEN [@ EXCEPT ![Place(i)] = v] ELSE @]
    BY <1>2 DEF WriteHeld
  <2> HIDE DEF w
  <2> QED
    BY <1>2, <2>1 DEF States
<1> HIDE DEF w, p
<1>4. s.aliased => Where(w, s.prevTag) = w.prev
  BY <1>1 DEF Written, Placed, Where
<1> QED
  BY <1>1, <1>3, <1>4 DEF w, p

\* Same elements.
Shows(s, x) == x.siz = s.siz /\ \A j \in 0 .. s.siz - 1 : Fetched(x, j) = Fetched(s, j)

\* One element is another.
Writes(s, i, v, x) ==
  /\ x.siz = s.siz /\ Fetched(x, i) = v
  /\ \A j \in 0 .. s.siz - 1 : j # i => Fetched(x, j) = Fetched(s, j)

\* One element more.
Grows(s, v, x) ==
  /\ x.siz = s.siz + 1 /\ Fetched(x, s.siz) = v
  /\ \A j \in 0 .. s.siz - 1 : Fetched(x, j) = Fetched(s, j)

\* What is where it was is fetched as it was.
LEMMA SameFetched ==
  ASSUME NEW s, Sound(s), NEW x, x.siz = s.siz, \A u \in Blocks : Where(x, u) = Where(s, u)
  PROVE  Shows(s, x)
<1>1. \A j \in 0 .. s.siz - 1 : Tag(j) \in Blocks
  BY IndexFacts
<1> QED
  BY <1>1 DEF Shows, Fetched

\* A write that is stored, in a block of which the others' elements, at least, are saved.
LEMMA StoredShows ==
  ASSUME NEW s, Placed(s), s.prev \in Payloads, NEW i \in Nat, Tag(i) = s.prevTag,
         NEW v \in Values \cup {Junk}, NEW j \in Nat, Tag(j) \in Blocks,
         Tag(j) = Tag(i) /\ j # i => s.prev = Where(s, Tag(i))
  PROVE  Fetched(WriteStored(s, i, v), j) = IF j = i THEN v ELSE Fetched(s, j)
<1> DEFINE w == WriteHeld(s, i, v)
           x == WriteStored(s, i, v)
           p == [s.prev EXCEPT ![Place(i)] = v]
<1>1. Written(s, w) /\ w.prev = p
  BY PayloadWritten
<1>2. Stored(w, x)
  BY WriteStoredFacts
<1> HIDE DEF w, x
<1>3. /\ w.prevTag = s.prevTag
      /\ \A u \in Blocks \ {s.prevTag} : Where(w, u) = Where(s, u)
  BY <1>1 DEF Written
<1>4. /\ Where(x, s.prevTag) = p
      /\ \A u \in Blocks \ {s.prevTag} : Where(x, u) = Where(s, u)
  BY <1>1, <1>2, <1>3 DEF Stored
<1>5. Place(i) \in 0 .. BlockElems - 1 /\ Place(j) \in 0 .. BlockElems - 1
  BY TagFacts
<1>6. p[Place(i)] = v /\ (Place(j) # Place(i) => p[Place(j)] = s.prev[Place(j)])
  BY <1>5 DEF Payloads
<1> HIDE DEF p
<1>7. CASE j = i
  BY <1>4, <1>6, <1>7 DEF Fetched, x
<1>8. CASE j # i /\ Tag(j) = Tag(i)
  <2>1. Place(j) # Place(i)
    BY <1>8, PlaceFacts
  <2> QED
    BY <1>4, <1>6, <1>8, <2>1 DEF Fetched, x
<1>9. CASE Tag(j) # Tag(i)
  BY <1>4, <1>9 DEF Fetched, x
<1> QED
  BY <1>7, <1>8, <1>9

\* For an element there is, in the block in hand.
LEMMA StoredWrites ==
  ASSUME Holding, NEW s, Sound(s), NEW i \in 0 .. s.siz - 1, Tag(i) = s.prevTag,
         NEW v \in Values \cup {Junk}
  PROVE  Writes(s, i, v, WriteStored(s, i, v))
<1> DEFINE x == WriteStored(s, i, v)
<1>1. Placed(s) /\ s.prev \in Payloads /\ i \in Nat
  BY SoundFacts, IndexFacts
<1>2. s.prev = Where(s, Tag(i))
  BY <1>1, SavedFacts, TagFacts
<1>3. \A j \in 0 .. s.siz - 1 : Fetched(x, j) = IF j = i THEN v ELSE Fetched(s, j)
  BY <1>1, <1>2, StoredShows, IndexFacts
<1>4. x.siz = s.siz
  BY <1>1, SoundWhenStored, IndexFacts
<1> HIDE DEF x
<1>5. Writes(s, i, v, x)
  BY <1>3, <1>4 DEF Writes
<1> QED
  BY <1>5 DEF x

\* Reading changes no element, and gives the one asked for.
LEMMA TouchShows ==
  ASSUME Holding, NEW s, Sound(s), NEW i \in 0 .. s.siz - 1
  PROVE  /\ Shows(s, Touch(s, i)) /\ Sound(Touch(s, i)) /\ Touch(s, i).siz = s.siz
         /\ Touch(s, i).prevTag = Tag(i)
         /\ ValueAt(Touch(s, i), i) = Fetched(s, i) /\ Touch(s, i).prev[Place(i)] = Fetched(s, i)
         /\ Fetched(s, i) \in Values \cup {Junk}
<1> DEFINE t == Touch(s, i)
<1>1. Touched(s, i, t) /\ ValueAt(t, i) \in Values \cup {Junk}
  BY TouchFacts, ValueFacts
<1> HIDE DEF t
<1>2. /\ Sound(t) /\ t.siz = s.siz /\ t.prevTag = Tag(i) /\ t.prev \in Payloads
      /\ \A u \in Blocks : Where(t, u) = Where(s, u)
  BY <1>1 DEF Touched
<1>3. Shows(s, t)
  BY <1>2, SameFetched
<1>4. t.prev = Where(t, t.prevTag) /\ t.stuck = FALSE
  BY <1>2, SavedFacts, SoundFacts, StateFacts, TagFacts
<1>5. t.prev[Place(i)] = Fetched(s, i) /\ ValueAt(t, i) = t.prev[Place(i)]
  BY <1>2, <1>4, IndexFacts DEF Fetched, ValueAt
<1>6. /\ Shows(s, t) /\ Sound(t) /\ t.siz = s.siz /\ t.prevTag = Tag(i)
      /\ ValueAt(t, i) = Fetched(s, i) /\ t.prev[Place(i)] = Fetched(s, i)
      /\ Fetched(s, i) \in Values \cup {Junk}
  BY <1>1, <1>2, <1>3, <1>5
<1> QED
  BY <1>6 DEF t

LEMMA ReplacedShows ==
  ASSUME Holding, NEW s, Sound(s), NEW i \in 0 .. s.siz - 1, NEW v \in Values \cup {Junk}
  PROVE  Writes(s, i, v, Replaced(s, i, v)) /\ Sound(Replaced(s, i, v))
<1> DEFINE t == Touch(s, i)
           x == WriteStored(t, i, v)
<1>1. Shows(s, t) /\ Sound(t) /\ t.siz = s.siz /\ t.prevTag = Tag(i)
  BY TouchShows
<1>2. Replaced(s, i, v) = x /\ Sound(Replaced(s, i, v))
  BY ReplacedFacts DEF Replaced
<1> HIDE DEF t
<1>3. Writes(t, i, v, x)
  BY <1>1, StoredWrites
<1> HIDE DEF x
<1>4. Writes(s, i, v, x)
  BY <1>1, <1>3 DEF Writes, Shows
<1> QED
  BY <1>2, <1>4

LEMMA CopiedShows ==
  ASSUME Holding, NEW s, Sound(s), NEW to \in 0 .. s.siz - 1, NEW from \in 0 .. s.siz - 1
  PROVE  Writes(s, to, Fetched(s, from), Copied(s, to, from)) /\ Sound(Copied(s, to, from))
<1> DEFINE t == Touch(s, from)
           v == Fetched(s, from)
           x == Replaced(t, to, v)
<1>1. Shows(s, t) /\ Sound(t) /\ t.siz = s.siz /\ ValueAt(t, from) = v /\ v \in Values \cup {Junk}
  BY TouchShows
<1>2. Copied(s, to, from) = x
  BY <1>1 DEF Copied
<1> HIDE DEF t, v
<1>3. Writes(t, to, v, x) /\ Sound(x)
  BY <1>1, ReplacedShows
<1> HIDE DEF x
<1>4. Writes(s, to, v, x)
  BY <1>1, <1>3 DEF Writes, Shows
<1> QED
  BY <1>2, <1>3, <1>4 DEF v

\* Two elements change places.
Exchanges(s, i, j, x) ==
  /\ x.siz = s.siz
  /\ \A k \in 0 .. s.siz - 1 :
       Fetched(x, k) = IF k = j THEN Fetched(s, i) ELSE IF k = i THEN Fetched(s, j) ELSE Fetched(s, k)

LEMMA SwappedShows ==
  ASSUME Holding, NEW s, Sound(s), NEW i \in 0 .. s.siz - 1, NEW j \in 0 .. s.siz - 1
  PROVE  Exchanges(s, i, j, Swapped(s, i, j)) /\ Sound(Swapped(s, i, j))
<1> DEFINE t == Touch(s, i)
           v == Fetched(s, i)
           c == Copied(t, i, j)
           x == Replaced(c, j, v)
<1>1. Shows(s, t) /\ Sound(t) /\ t.siz = s.siz /\ ValueAt(t, i) = v /\ v \in Values \cup {Junk}
  BY TouchShows
<1>2. Swapped(s, i, j) = x
  BY <1>1 DEF Swapped
<1> HIDE DEF t, v
<1>3. Writes(t, i, Fetched(t, j), c) /\ Sound(c)
  BY <1>1, CopiedShows
<1> HIDE DEF c
<1>4. c.siz = s.siz
  BY <1>1, <1>3 DEF Writes
<1>5. Writes(c, j, v, x) /\ Sound(x)
  BY <1>1, <1>3, <1>4, ReplacedShows
<1> HIDE DEF x
<1>6. /\ x.siz = s.siz /\ Fetched(x, j) = v /\ Fetched(c, i) = Fetched(t, j)
      /\ \A k \in 0 .. s.siz - 1 :
           /\ k # j => Fetched(x, k) = Fetched(c, k)
           /\ k # i => Fetched(c, k) = Fetched(t, k)
           /\ Fetched(t, k) = Fetched(s, k)
  BY <1>1, <1>3, <1>4, <1>5 DEF Writes, Shows
<1>7. Exchanges(s, i, j, x)
  BY <1>6 DEF Exchanges, v
<1> QED
  BY <1>2, <1>5, <1>7

\* Appending to the block in hand, or starting one.
LEMMA AppendedShows ==
  ASSUME Holding, NEW s, Sound(s), s.siz < MaxSize, NEW v \in Values \cup {Junk},
         Place(s.siz) = 0 \/ s.prevTag = Tag(s.siz)
  PROVE  Grows(s, v, Appended(s, v)) /\ Sound(Appended(s, v))
<1> DEFINE n == s.siz
           m == IF s.prevTag = Tag(n) /\ n > 0 THEN s ELSE FreshMessage(s, Tag(n))
           x == WriteStored(m, n, v)
           y == Appended(s, v)
<1>1. /\ s \in States /\ n \in Nat /\ n \in 0 .. MaxSize /\ Tag(n) \in Blocks /\ s.stuck = FALSE
      /\ \A j \in 0 .. n - 1 : j \in Nat /\ j < n /\ Tag(j) \in Blocks
  <2>1. s \in States
    BY SoundFacts
  <2>2. n \in 0 .. MaxSize /\ MaxSize \in Nat /\ s.stuck = FALSE
    BY <2>1, StateFacts, VectorAssumption
  <2>3. \A j \in 0 .. n - 1 : Tag(j) \in Blocks
    BY IndexFacts
  <2> QED
    BY <2>1, <2>2, <2>3, TagFacts
<1>2. /\ Placed(m) /\ m.siz = n /\ m.prevTag = Tag(n) /\ m.prev \in Payloads
      /\ \A j \in 0 .. m.siz - 1 : Where(m, Tag(j)) # None
  BY LastInHand
<1>3. \A u \in Blocks : Where(m, u) = Where(s, u)
  <2>1. CASE s.prevTag = Tag(n) /\ n > 0
    BY <2>1
  <2>2. CASE ~(s.prevTag = Tag(n) /\ n > 0)
    <3>1. m = FreshMessage(s, Tag(n))
      BY <2>2
    <3>2. m.cached = s.cached /\ m.remote = s.remote
      BY <1>1, <3>1 DEF FreshMessage, States
    <3> QED
      BY <3>2 DEF Where, Resident
  <2> QED
    BY <2>1, <2>2
<1>4. ASSUME NEW j \in 0 .. n - 1, Tag(j) = Tag(n)
      PROVE  m.prev = Where(m, Tag(n))
  <2>1. s.prevTag = Tag(n) /\ n > 0
    BY <1>1, <1>4, PlaceFacts
  <2>2. m = s /\ s.prev # None
    BY <2>1, SoundFacts
  <2> QED
    BY <2>1, <2>2, SavedFacts
<1>5. y = [x EXCEPT !.siz = @ + 1]
  BY <1>1 DEF Appended
<1>6. Sound(y) /\ y.siz = n + 1
  BY AppendedFacts
<1> HIDE DEF m
<1>7. x.siz = n /\ x \in States
  BY <1>1, <1>2, SoundWhenStored, SoundFacts
<1>8. Fetched(x, n) = v
  BY <1>1, <1>2, StoredShows
<1>9. \A j \in 0 .. n - 1 : Fetched(x, j) = Fetched(s, j)
  <2> SUFFICES ASSUME NEW j \in 0 .. n - 1
               PROVE  Fetched(x, j) = Fetched(s, j)
    OBVIOUS
  <2>1. j \in Nat /\ j # n /\ Tag(j) \in Blocks
    BY <1>1
  <2>2. Fetched(x, j) = Fetched(m, j)
    BY <1>1, <1>2, <1>4, <2>1, StoredShows
  <2> QED
    BY <1>3, <2>1, <2>2 DEF Fetched
<1> HIDE DEF x, y
<1>10. y.cached = x.cached /\ y.remote = x.remote
  BY <1>5, <1>7 DEF States
<1>11. \A j \in Nat : Fetched(y, j) = Fetched(x, j)
  BY <1>10 DEF Fetched, Where, Resident
<1>12. Grows(s, v, y)
  BY <1>1, <1>6, <1>8, <1>9, <1>11 DEF Grows
<1> QED
  BY <1>6, <1>12 DEF y


\* Element i is there twice, those behind it one place further.
Opened(s, i, m, x) ==
  \A j \in 0 .. m : Fetched(x, j) = IF j <= i THEN Fetched(s, j) ELSE Fetched(s, j - 1)

\* The rounds of insert: the elements behind i have moved, one by one from the last.
LEMMA ShiftShows ==
  ASSUME Holding, NEW m \in Nat, NEW i \in 0 .. m - 1, NEW s, s.siz = m,
         NEW r, NEW base, NEW q,
         NEW n, n = m - 1 - i, \A k \in 1 .. n : q[k] = m - k,
         ShiftRounds(r, base, q, n, m + 1), Grows(s, Fetched(s, m - 1), base)
  PROVE  Opened(s, i, m, r[n])
<1> DEFINE F(k, j) == IF j <= m - 1 - k THEN Fetched(s, j) ELSE Fetched(s, j - 1)
           W == {k \in 0 .. n : \A j \in 0 .. m : Fetched(r[k], j) = F(k, j)}
<1>1. n \in Nat /\ i \in Nat
  OBVIOUS
<1>2. /\ r[0] = base /\ \A k \in 0 .. n : r[k] \in SoundOf(m + 1)
      /\ \A k \in 1 .. n : r[k] = Copied(r[k - 1], q[k], q[k] - 1)
  BY DEF ShiftRounds
<1>3. 0 \in W
  <2>1. \A j \in 0 .. m - 1 : Fetched(base, j) = Fetched(s, j)
    BY DEF Grows
  <2>2. Fetched(base, m) = Fetched(s, m - 1)
    BY DEF Grows
  <2>3. \A j \in 0 .. m : Fetched(r[0], j) = F(0, j)
    BY <1>2, <2>1, <2>2
  <2> QED
    BY <1>1, <2>3
<1>4. ASSUME NEW k \in 1 .. n, k - 1 \in W
      PROVE  k \in W
  <2> DEFINE x == r[k - 1]
             y == r[k]
             a == m - k
             b == m - k - 1
  <2>1. k \in Nat /\ k <= n /\ a \in 0 .. m /\ b \in 0 .. m /\ k \in 0 .. n /\ k - 1 \in 0 .. n
    BY <1>1
  <2>2. Sound(x) /\ x.siz = m + 1 /\ y = Copied(x, a, b)
    BY <1>2, <2>1 DEF SoundOf
  <2> HIDE DEF a, b, x, y
  <2>3. Writes(x, a, Fetched(x, b), y)
    BY <2>1, <2>2, CopiedShows
  <2>4. \A j \in 0 .. m : Fetched(x, j) = F(k - 1, j)
    BY <1>4 DEF x
  <2>5. Fetched(y, a) = Fetched(x, b) /\ \A j \in 0 .. m : j # a => Fetched(y, j) = Fetched(x, j)
    BY <2>2, <2>3 DEF Writes
  <2>6. \A j \in 0 .. m : Fetched(y, j) = F(k, j)
    <3> SUFFICES ASSUME NEW j \in 0 .. m
                 PROVE  Fetched(y, j) = F(k, j)
      OBVIOUS
    <3>1. CASE j = a
      <4>1. Fetched(x, b) = Fetched(s, b)
        BY <2>1, <2>4 DEF b
      <4>2. ~(a <= m - 1 - k) /\ a - 1 = b
        BY <2>1 DEF a, b
      <4> QED
        BY <2>5, <3>1, <4>1, <4>2
    <3>2. CASE j # a
      <4>1. Fetched(y, j) = F(k - 1, j)
        BY <2>4, <2>5, <3>2
      <4>2. j <= m - 1 - (k - 1) <=> j <= m - 1 - k
        BY <2>1, <3>2 DEF a
      <4> QED
        BY <4>1, <4>2
    <3> QED
      BY <3>1, <3>2
  <2> QED
    BY <2>1, <2>6 DEF y
<1> HIDE DEF W
<1>5. n \in W
  BY <1>1, <1>3, <1>4, RoundsKeep
<1>6. m - 1 - n = i
  BY <1>1
<1> QED
  BY <1>5, <1>6 DEF W, Opened

LEMMA ShiftedShows ==
  ASSUME Holding, NEW s, Sound(s), s.siz < MaxSize, NEW i \in 0 .. s.siz - 1
  PROVE  /\ Opened(s, i, s.siz, Shifted(s, i))
         /\ Shifted(s, i).siz = s.siz + 1 /\ Sound(Shifted(s, i))
<1> DEFINE m == s.siz
           e == m - 1
           last == Touch(s, e)
           v == ValueAt(last, e)
           grown == Appended(last, v)
           q == Downto(grown.siz - 2, i + 1)
           n == m - 1 - i
<1>1. m \in Nat /\ m > 0 /\ i \in Nat /\ e \in Nat /\ e \in 0 .. m - 1 /\ m = e + 1
  <2>1. s.siz \in 1 .. MaxSize /\ i \in Nat
    BY IndexFacts
  <2> QED
    BY <2>1, VectorAssumption
<1>2. Shifted(s, i) = ShiftLoop(grown, q)
  BY Zenon DEF Shifted, ShiftLoop
<1>3. Shifted(s, i) \in SoundOf(m + 1)
  BY ShiftedFacts
<1> HIDE DEF e
<1>4. /\ Shows(s, last) /\ Sound(last) /\ last.siz = m /\ last.prevTag = Tag(e)
      /\ v = Fetched(s, e) /\ v \in Values \cup {Junk}
  BY <1>1, TouchShows
<1>5. Place(last.siz) = 0 \/ last.prevTag = Tag(last.siz)
  BY <1>1, <1>4, PlaceFacts
<1> HIDE DEF last, v, m
<1>6. Grows(last, v, grown) /\ Sound(grown)
  BY <1>4, <1>5, AppendedShows DEF m
<1> HIDE DEF grown
<1>7. Grows(s, Fetched(s, m - 1), grown) /\ grown.siz = m + 1 /\ grown \in SoundOf(m + 1)
  <2>1. grown.siz = m + 1 /\ s.siz = m /\ e = m - 1
    BY <1>1, <1>4, <1>6 DEF Grows, m
  <2>2. Grows(s, v, grown)
    BY <1>4, <1>6 DEF Grows, Shows, m
  <2> QED
    BY <1>4, <1>6, <2>1, <2>2, SoundFacts DEF SoundOf
<1>8. n \in Nat /\ q \in [1 .. n -> 1 .. m] /\ \A k \in 1 .. n : q[k] = m - k
  <2>1. n \in Nat /\ grown.siz - 2 = m - 1
    BY <1>1, <1>7 DEF m
  <2>2. q = [k \in 1 .. (m - 1) - (i + 1) + 1 |-> (m - 1) + 1 - k]
    BY <2>1 DEF Downto
  <2>3. (m - 1) - (i + 1) + 1 = n
    BY <1>1
  <2>4. \A k \in 1 .. n : (m - 1) + 1 - k \in 1 .. m /\ (m - 1) + 1 - k = m - k
    BY <1>1
  <2> HIDE DEF q, n
  <2>5. q = [k \in 1 .. n |-> (m - 1) + 1 - k]
    BY <2>2, <2>3
  <2> QED
    BY <2>1, <2>4, <2>5
<1> HIDE DEF q
<1>9. PICK r : ShiftRounds(r, grown, q, n, m + 1)
  <2> DEFINE l == m + 1
  <2>1. l \in Nat /\ l - 1 = m
    BY <1>1
  <2> HIDE DEF l, n
  <2>2. q \in [1 .. n -> 1 .. l - 1] /\ grown \in SoundOf(l)
    BY <1>7, <1>8, <2>1 DEF l
  <2>3. \E r : ShiftRounds(r, grown, q, n, l)
    BY <1>8, <2>1, <2>2, ShiftKeeps
  <2> QED
    BY <2>3 DEF l
<1>10. Opened(s, i, m, r[n])
  <2>1. i \in 0 .. m - 1 /\ s.siz = m /\ n = m - 1 - i
    BY DEF m
  <2>2. Grows(s, Fetched(s, m - 1), grown)
    BY <1>7
  <2> HIDE DEF n
  <2> QED
    BY <1>1, <1>8, <1>9, <2>1, <2>2, ShiftShows
<1>11. r[n] = Shifted(s, i)
  BY <1>2, <1>9 DEF ShiftRounds
<1>12. Shifted(s, i).siz = s.siz + 1 /\ Sound(Shifted(s, i))
  BY <1>3 DEF SoundOf, m
<1> QED
  BY <1>10, <1>11, <1>12 DEF m

\* A value comes between two others, or behind the last.
Inserts(s, i, v, x) ==
  /\ x.siz = s.siz + 1
  /\ \A j \in 0 .. s.siz :
       Fetched(x, j) = IF j < i THEN Fetched(s, j) ELSE IF j = i THEN v ELSE Fetched(s, j - 1)

LEMMA InsertedShows ==
  ASSUME Holding, NEW s, Sound(s), s.siz < MaxSize, NEW i \in 0 .. s.siz, NEW v \in Values,
         i = s.siz => Place(s.siz) = 0 \/ s.prevTag = Tag(s.siz)
  PROVE  Inserts(s, i, v, Inserted(s, i, v)) /\ Sound(Inserted(s, i, v))
<1>0. s.siz \in Nat /\ i \in Nat
  <2>1. s.siz \in 0 .. MaxSize /\ MaxSize \in Nat
    BY SoundFacts, StateFacts, VectorAssumption
  <2> QED
    BY <2>1
<1>1. CASE i = s.siz
  <2> DEFINE x == Appended(s, v)
  <2>1. Inserted(s, i, v) = x
    BY <1>1 DEF Inserted
  <2>2. Grows(s, v, x) /\ Sound(x)
    BY <1>1, AppendedShows
  <2> HIDE DEF x
  <2>3. Inserts(s, i, v, x)
    BY <1>0, <1>1, <2>2 DEF Inserts, Grows
  <2> QED
    BY <2>1, <2>2, <2>3
<1>2. CASE i # s.siz
  <2> DEFINE t == Shifted(s, i)
             h == Hold(t, Tag(i))
             x == WriteStored(h, i, v)
  <2>1. i \in 0 .. s.siz - 1
    BY <1>0, <1>2
  <2>2. Opened(s, i, s.siz, t) /\ t.siz = s.siz + 1 /\ Sound(t)
    BY <2>1, ShiftedShows
  <2>3. Inserted(s, i, v) = IF t.stuck THEN t ELSE x
    BY <1>2 DEF Inserted
  <2>11. Sound(Inserted(s, i, v))
    BY InsertedFacts
  <2> HIDE DEF t
  <2>4. /\ Placed(t) /\ t.stuck = FALSE /\ i \in 0 .. t.siz - 1
        /\ \A j \in 0 .. s.siz : j \in 0 .. t.siz - 1
    <3>1. Placed(t) /\ t \in States
      BY <2>2, SoundFacts
    <3>2. t.stuck = FALSE
      BY <3>1, StateFacts
    <3>3. i \in 0 .. t.siz - 1 /\ \A j \in 0 .. s.siz : j \in 0 .. t.siz - 1
      BY <1>0, <2>1, <2>2
    <3> QED
      BY <3>1, <3>2, <3>3
  <2>5. i \in Nat /\ Tag(i) \in Blocks /\ Where(t, Tag(i)) # None /\ t.prev \in Payloads
        /\ \A j \in 0 .. s.siz : j \in Nat /\ Tag(j) \in Blocks
    BY <2>2, <2>4, IndexFacts
  <2>6. Holds(t, Tag(i), h)
    BY <2>4, <2>5, HoldFacts
  <2> HIDE DEF h
  <2>7. /\ Placed(h) /\ h.siz = t.siz /\ h.prev \in Payloads /\ h.prevTag = Tag(i)
        /\ \A u \in Blocks : Where(h, u) = Where(t, u)
    BY <2>6 DEF Holds
  <2>8. h.prev = Where(h, Tag(i))
    <3>1. CASE Tag(i) = t.prevTag
      <4>1. h = t
        BY <2>6, <3>1 DEF Holds
      <4> QED
        BY <2>2, <2>5, <3>1, <4>1, SavedFacts, TagFacts
    <3>2. CASE Tag(i) # t.prevTag
      BY <2>6, <3>2 DEF Holds
    <3> QED
      BY <3>1, <3>2
  <2>9. \A j \in 0 .. s.siz : Fetched(x, j) = IF j = i THEN v ELSE Fetched(t, j)
    <3> SUFFICES ASSUME NEW j \in 0 .. s.siz
                 PROVE  Fetched(x, j) = IF j = i THEN v ELSE Fetched(t, j)
      OBVIOUS
    <3>1. Fetched(x, j) = IF j = i THEN v ELSE Fetched(h, j)
      BY <2>5, <2>7, <2>8, StoredShows
    <3>2. Fetched(h, j) = Fetched(t, j)
      BY <2>5, <2>7 DEF Fetched
    <3> QED
      BY <3>1, <3>2
  <2>10. Inserted(s, i, v) = x
    BY <2>3, <2>4
  <2>12. x.siz = s.siz + 1
    BY <2>2, <2>10, InsertedFacts
  <2> HIDE DEF x
  <2>13. Inserts(s, i, v, x)
    <3>1. \A j \in 0 .. s.siz : Fetched(t, j) = IF j <= i THEN Fetched(s, j) ELSE Fetched(s, j - 1)
      BY <2>2 DEF Opened
    <3> QED
      BY <1>0, <2>9, <2>12, <3>1 DEF Inserts
  <2> QED
    BY <2>10, <2>11, <2>13
<1> QED
  BY <1>1, <1>2

\* The rounds of erase: element i goes to the end, place by place.
EraseShown(s, i, k, x) ==
  \A j \in 0 .. s.siz - 1 :
    Fetched(x, j) = IF j < i \/ j > i + k THEN Fetched(s, j)
                    ELSE IF j = i + k THEN Fetched(s, i) ELSE Fetched(s, j + 1)

LEMMA EraseShows ==
  ASSUME Holding, NEW m \in Nat, NEW i \in 0 .. m - 1, NEW s, s.siz = m, NEW r, NEW q,
         NEW n, n = m - 1 - i, \A k \in 1 .. n : q[k] = i + k - 1, EraseRounds(r, s, q, n, m)
  PROVE  EraseShown(s, i, n, r[n])
<1> DEFINE W == {k \in 0 .. n : EraseShown(s, i, k, r[k])}
<1>1. n \in Nat /\ i \in Nat
  OBVIOUS
<1>2. /\ r[0] = s /\ \A k \in 0 .. n : r[k] \in SoundOf(m)
      /\ \A k \in 1 .. n : r[k] = Swapped(r[k - 1], q[k], q[k] + 1)
  BY DEF EraseRounds
<1>3. 0 \in W
  <2>1. EraseShown(s, i, 0, s)
    BY <1>1 DEF EraseShown
  <2> QED
    BY <1>1, <1>2, <2>1
<1>4. ASSUME NEW k \in 1 .. n, k - 1 \in W
      PROVE  k \in W
  <2> DEFINE x == r[k - 1]
             y == r[k]
             a == i + k - 1
             b == i + k
  <2>1. /\ k \in Nat /\ k <= n /\ a \in 0 .. m - 1 /\ b \in 0 .. m - 1 /\ b = a + 1
        /\ k \in 0 .. n /\ k - 1 \in 0 .. n
    BY <1>1
  <2>2. Sound(x) /\ x.siz = m /\ y = Swapped(x, a, b)
    <3>1. q[k] + 1 = b
      BY <1>1
    <3> QED
      BY <1>2, <2>1, <3>1 DEF SoundOf
  <2>3. EraseShown(s, i, k - 1, x)
    BY <1>4
  <2> HIDE DEF x, y
  <2>4. Exchanges(x, a, b, y)
    <3> HIDE DEF a, b
    <3> QED
      BY <2>1, <2>2, SwappedShows
  <2>5. \A j \in 0 .. m - 1 :
          Fetched(y, j) = IF j = b THEN Fetched(x, a) ELSE IF j = a THEN Fetched(x, b) ELSE Fetched(x, j)
    BY <2>2, <2>4 DEF Exchanges
  <2>6. \A j \in 0 .. m - 1 :
          Fetched(x, j) = IF j < i \/ j > a THEN Fetched(s, j)
                          ELSE IF j = a THEN Fetched(s, i) ELSE Fetched(s, j + 1)
    <3>1. i + (k - 1) = a
      BY <1>1
    <3> QED
      BY <2>3, <3>1 DEF EraseShown
  <2>7. Fetched(x, a) = Fetched(s, i) /\ Fetched(x, b) = Fetched(s, a + 1)
    BY <1>1, <2>1, <2>6
  <2>8. EraseShown(s, i, k, y)
    <3> SUFFICES ASSUME NEW j \in 0 .. m - 1
                 PROVE  Fetched(y, j) = IF j < i \/ j > b THEN Fetched(s, j)
                                        ELSE IF j = b THEN Fetched(s, i) ELSE Fetched(s, j + 1)
      BY DEF EraseShown
    <3>1. CASE j = b
      BY <1>1, <2>5, <2>7, <3>1
    <3>2. CASE j = a
      BY <1>1, <2>1, <2>5, <2>7, <3>2
    <3>3. CASE j # a /\ j # b
      <4>1. Fetched(y, j) = Fetched(x, j)
        BY <2>5, <3>3
      <4>2. j > a <=> j > b
        BY <2>1, <3>3
      <4> QED
        BY <2>6, <3>3, <4>1, <4>2
    <3> QED
      BY <3>1, <3>2, <3>3
  <2> QED
    BY <2>1, <2>8 DEF y
<1> HIDE DEF W
<1>5. n \in W
  BY <1>1, <1>3, <1>4, RoundsKeep
<1> QED
  BY <1>5 DEF W

\* An element goes, those behind it close up.
Removes(s, i, x) ==
  /\ x.siz = s.siz - 1
  /\ \A j \in 0 .. s.siz - 2 : Fetched(x, j) = IF j < i THEN Fetched(s, j) ELSE Fetched(s, j + 1)

LEMMA ErasedShows ==
  ASSUME Holding, NEW s, Sound(s), NEW i \in 0 .. s.siz - 1
  PROVE  Removes(s, i, Erased(s, i)) /\ Sound(Erased(s, i))
<1> DEFINE m == s.siz
           n == m - 1 - i
           q == [k \in 1 .. m - 1 - i |-> i + k - 1]
           t == EraseLoop(s, q)
           y == Erased(s, i)
<1>1. m \in Nat /\ i \in Nat /\ s \in States /\ i \in 0 .. m - 1
  <2>1. m \in 1 .. MaxSize /\ MaxSize \in Nat /\ i \in Nat /\ s \in States
    BY IndexFacts, VectorAssumption, SoundFacts
  <2> QED
    BY <2>1
<1>2. y = [t EXCEPT !.siz = @ - 1]
  BY Zenon DEF Erased, EraseLoop
<1>3. n \in Nat /\ q \in [1 .. n -> 0 .. m - 2] /\ \A k \in 1 .. n : q[k] = i + k - 1
  <2>1. n \in Nat
    BY <1>1
  <2>2. \A k \in 1 .. n : i + k - 1 \in 0 .. m - 2
    BY <1>1
  <2> QED
    BY <2>1, <2>2
<1>4. s \in SoundOf(m)
  BY <1>1 DEF SoundOf
<1>5. Sound(y) /\ y.siz = m - 1
  BY ErasedFacts
<1>6. n = m - 1 - i /\ s.siz = m
  OBVIOUS
<1> HIDE DEF q, n, m
<1>7. PICK r : EraseRounds(r, s, q, n, m)
  BY <1>1, <1>3, <1>4, EraseKeeps
<1>8. r[n] = t /\ n \in 0 .. n
  BY <1>3, <1>7 DEF EraseRounds
<1>9. EraseShown(s, i, n, t)
  BY <1>1, <1>3, <1>6, <1>7, <1>8, EraseShows
<1>10. t \in States
  BY <1>7, <1>8 DEF EraseRounds, SoundOf
<1> HIDE DEF t, y
<1>11. y.cached = t.cached /\ y.remote = t.remote
  BY <1>2, <1>10 DEF States
<1>12. \A j \in Nat : Fetched(y, j) = Fetched(t, j)
  BY <1>11 DEF Fetched, Where, Resident
<1>13. ASSUME NEW j \in 0 .. m - 2
       PROVE  Fetched(t, j) = IF j < i THEN Fetched(s, j) ELSE Fetched(s, j + 1)
  <2>1. j \in 0 .. m - 1 /\ j \in Nat /\ j < m - 1 /\ i + n = m - 1
    BY <1>1, <1>6
  <2>2. Fetched(t, j) = IF j < i \/ j > m - 1 THEN Fetched(s, j)
                        ELSE IF j = m - 1 THEN Fetched(s, i) ELSE Fetched(s, j + 1)
    BY <1>6, <1>9, <2>1 DEF EraseShown
  <2>3. ~(j > m - 1) /\ j # m - 1
    BY <1>1, <2>1
  <2> QED
    BY <2>2, <2>3
<1>14. Removes(s, i, y)
  <2>1. \A j \in 0 .. m - 2 : j \in Nat
    OBVIOUS
  <2> QED
    BY <1>5, <1>6, <1>12, <1>13, <2>1 DEF Removes
<1> QED
  BY <1>5, <1>14 DEF y

\* The constructor: the same value everywhere.
LEMMA FilledShows ==
  ASSUME Holding, NEW s, Sound(s), s.siz = 0, NEW n \in 1 .. MaxSize, NEW v \in Values
  PROVE  /\ Sound(Filled(s, n, v)) /\ Filled(s, n, v).siz = n
         /\ \A j \in 0 .. n - 1 : Fetched(Filled(s, n, v), j) = v
<1> DEFINE q == [k \in 1 .. n |-> k]
<1>1. Filled(s, n, v) = FillLoop(s, q, v)
  BY Zenon DEF Filled, FillLoop
<1>2. DOMAIN q = 1 .. n /\ n \in 0 .. MaxSize /\ n \in Nat /\ MaxSize \in Nat
  BY VectorAssumption
<1>3. s \in SoundOf(0)
  BY SoundFacts DEF SoundOf
<1> HIDE DEF q
<1>4. PICK r : FillRounds(r, s, q, n, v)
  BY <1>2, <1>3, FillKeeps
<1>5. /\ r[0] = s /\ r[n] = FillLoop(s, q, v)
      /\ \A k \in 0 .. n : Sound(r[k]) /\ r[k].siz = k
      /\ \A k \in 1 .. n : r[k] = Inserted(r[k - 1], 0, v)
  BY <1>4 DEF FillRounds, SoundOf
<1> DEFINE W == {k \in 0 .. n : \A j \in 0 .. k - 1 : Fetched(r[k], j) = v}
<1>6. 0 \in W
  BY <1>2
<1>7. ASSUME NEW k \in 1 .. n, k - 1 \in W
      PROVE  k \in W
  <2> DEFINE x == r[k - 1]
             y == r[k]
  <2>1. k \in Nat /\ k \in 0 .. n /\ k - 1 \in 0 .. n
    BY <1>2
  <2>2. /\ Sound(x) /\ x.siz = k - 1 /\ x.siz < MaxSize /\ 0 \in 0 .. x.siz
        /\ y = Inserted(x, 0, v)
    BY <1>2, <1>5, <2>1
  <2>3. \A j \in 0 .. k - 2 : Fetched(x, j) = v
    BY <1>7, <2>1
  <2> HIDE DEF x, y
  <2>4. Inserts(x, 0, v, y)
    BY <2>2, InsertedShows, PlaceFacts
  <2>5. \A j \in 0 .. k - 1 : Fetched(y, j) = v
    <3> SUFFICES ASSUME NEW j \in 0 .. k - 1
                 PROVE  Fetched(y, j) = v
      OBVIOUS
    <3>1. Fetched(y, j) = IF j < 0 THEN Fetched(x, j) ELSE IF j = 0 THEN v ELSE Fetched(x, j - 1)
      BY <2>2, <2>4 DEF Inserts
    <3>2. ~(j < 0) /\ (j # 0 => j - 1 \in 0 .. k - 2)
      BY <2>1
    <3> QED
      BY <2>3, <3>1, <3>2
  <2> QED
    BY <2>1, <2>5 DEF y
<1> HIDE DEF W
<1>8. n \in W
  BY <1>2, <1>6, <1>7, RoundsKeep
<1>9. \A j \in 0 .. n - 1 : Fetched(r[n], j) = v
  BY <1>8 DEF W
<1>10. n \in 0 .. n
  BY <1>2
<1> QED
  BY <1>1, <1>5, <1>9, <1>10

\* A write that is not stored reaches the block in hand, which the cache has.
LEMMA HeldWrites ==
  ASSUME Holding, program \cap {"assign", "exchange"} # {},
         NEW s, Sound(s), NEW i \in 0 .. s.siz - 1, Tag(i) = s.prevTag, NEW v \in Values \cup {Junk}
  PROVE  Writes(s, i, v, WriteHeld(s, i, v)) /\ Sound(WriteHeld(s, i, v))
<1> DEFINE w == WriteHeld(s, i, v)
           p == [s.prev EXCEPT ![Place(i)] = v]
<1>1. Placed(s) /\ s.prev \in Payloads /\ s.prev # None /\ i \in Nat
  BY SoundFacts, IndexFacts, TagFacts
<1>2. s.aliased /\ s.prev = Where(s, Tag(i))
  <2>1. InHand(s)
    BY <1>1, SoundFacts DEF Holding
  <2> QED
    BY <1>1, <2>1, SavedFacts DEF InHand
<1>3. Written(s, w) /\ w.prev = p /\ Where(w, s.prevTag) = w.prev
  BY <1>1, <1>2, PayloadWritten
<1>4. Sound(w)
  BY <1>1, SoundWrite
<1> HIDE DEF w
<1>5. /\ w.siz = s.siz /\ \A u \in Blocks \ {s.prevTag} : Where(w, u) = Where(s, u)
  BY <1>3 DEF Written
<1>6. ASSUME NEW j \in 0 .. s.siz - 1
      PROVE  Fetched(w, j) = IF j = i THEN v ELSE Fetched(s, j)
  <2>1. j \in Nat /\ Tag(j) \in Blocks /\ Place(j) \in 0 .. BlockElems - 1
    BY IndexFacts
  <2>2. Place(i) \in 0 .. BlockElems - 1
    BY IndexFacts
  <2>3. p[Place(i)] = v /\ (Place(j) # Place(i) => p[Place(j)] = s.prev[Place(j)])
    BY <1>1, <2>1, <2>2 DEF Payloads
  <2> HIDE DEF p
  <2>4. CASE j = i
    BY <1>3, <2>3, <2>4 DEF Fetched
  <2>5. CASE j # i /\ Tag(j) = Tag(i)
    <3>1. Place(j) # Place(i)
      BY <1>1, <2>1, <2>5, PlaceFacts
    <3> QED
      BY <1>2, <1>3, <2>3, <2>5, <3>1 DEF Fetched
  <2>6. CASE Tag(j) # Tag(i)
    BY <1>5, <2>1, <2>6 DEF Fetched
  <2> QED
    BY <2>4, <2>5, <2>6
<1>7. Writes(s, i, v, w)
  BY <1>5, <1>6 DEF Writes
<1> QED
  BY <1>4, <1>7 DEF w

LEMMA AssignedShows ==
  ASSUME Holding, NEW s, Sound(s), "assign" \in program, NEW i \in 0 .. s.siz - 1, NEW v \in Values
  PROVE  /\ Writes(s, i, v, WriteHeld(Touch(s, i), i, v))
         /\ Sound(WriteHeld(Touch(s, i), i, v))
<1> DEFINE t == Touch(s, i)
           w == WriteHeld(t, i, v)
<1>1. Shows(s, t) /\ Sound(t) /\ t.siz = s.siz /\ t.prevTag = Tag(i)
  BY TouchShows
<1> HIDE DEF t
<1>2. Writes(t, i, v, w) /\ Sound(w)
  BY <1>1, HeldWrites
<1> HIDE DEF w
<1>3. Writes(s, i, v, w)
  BY <1>1, <1>2 DEF Writes, Shows
<1> QED
  BY <1>2, <1>3 DEF w, t

\* What others evict is fetched from its worker.
LEMMA EvictedShows ==
  ASSUME NEW s, Sound(s), s.order # <<>>, "shared" \in program
  PROVE  Shows(s, Evict(s, Last(s.order))) /\ Sound(Evict(s, Last(s.order)))
<1> DEFINE v == Last(s.order)
           e == Evict(s, v)
<1>1. Placed(s) /\ s.order \in Seq(Blocks)
  BY SoundFacts, StateFacts
<1>2. v \in Blocks /\ Resident(s, v)
  <2>1. Len(s.order) \in Nat /\ Len(s.order) # 0 /\ v = s.order[Len(s.order)]
    BY <1>1 DEF Last
  <2>2. Len(s.order) \in 1 .. Len(s.order)
    BY <2>1
  <2> HIDE DEF v
  <2> QED
    BY <1>1, <2>1, <2>2, ListedFacts
<1>3. Sound(e)
  BY EvictedFacts
<1> HIDE DEF v
<1>4. e.siz = s.siz /\ \A u \in Blocks : Where(e, u) = Where(s, u)
  BY <1>1, <1>2, EvictFacts
<1> HIDE DEF e
<1>5. Shows(s, e)
  BY <1>4, SameFetched
<1> QED
  BY <1>3, <1>5 DEF e, v

\* A write through a reference to a block that is resident but no longer in hand.
LEMMA BehindWrites ==
  ASSUME NEW s, Sound(s), NEW i \in 0 .. s.siz - 1, Tag(i) # s.prevTag, Resident(s, Tag(i)),
         NEW v \in Values \cup {Junk}
  PROVE  /\ Writes(s, i, v, [s EXCEPT !.cached[Tag(i)][Place(i)] = v])
         /\ Sound([s EXCEPT !.cached[Tag(i)][Place(i)] = v])
<1> DEFINE t == Tag(i)
           p == [s.cached[t] EXCEPT ![Place(i)] = v]
           c == [s.cached EXCEPT ![t] = p]
           w == [s EXCEPT !.cached[t][Place(i)] = v]
<1>1. /\ s \in States /\ t \in Blocks /\ i \in Nat /\ Place(i) \in 0 .. BlockElems - 1
      /\ s.cached \in [Blocks -> Payloads \cup {None}]
  BY SoundFacts, StateFacts, IndexFacts
<1>2. s.cached[t] \in Payloads
  BY <1>1 DEF Resident
<1>3. p \in Payloads /\ p # None
  <2>1. p \in Payloads
    BY <1>1, <1>2 DEF Payloads
  <2> QED
    BY <2>1, TagFacts
<1>4. w = [s EXCEPT !.cached = c]
  BY <1>1 DEF States
<1>5. Sound(w)
  <2> HIDE DEF w
  <2>1. Sound([s EXCEPT !.cached[t][Place(i)] = v])
    <3> HIDE DEF t
    <3> QED
      BY <1>1, SoundWriteBehind DEF t
  <2> QED
    BY <2>1 DEF w
<1>6. /\ p[Place(i)] = v
      /\ \A k \in 0 .. BlockElems - 1 : k # Place(i) => p[k] = s.cached[t][k]
  BY <1>1, <1>2 DEF Payloads
<1> HIDE DEF w, p
<1>7. c[t] = p /\ \A u \in Blocks \ {t} : c[u] = s.cached[u]
  BY <1>1
<1> HIDE DEF c
<1>8. w.siz = s.siz /\ w.cached = c /\ w.remote = s.remote
  BY <1>1, <1>4 DEF States
<1>9. Where(w, t) = p /\ Where(s, t) = s.cached[t] /\ \A u \in Blocks \ {t} : Where(w, u) = Where(s, u)
  BY <1>3, <1>7, <1>8 DEF Where, Resident
<1>10. ASSUME NEW j \in 0 .. s.siz - 1
       PROVE  Fetched(w, j) = IF j = i THEN v ELSE Fetched(s, j)
  <2>1. j \in Nat /\ Tag(j) \in Blocks /\ Place(j) \in 0 .. BlockElems - 1
    BY IndexFacts
  <2>2. CASE j = i
    BY <1>6, <1>9, <2>2 DEF Fetched, t
  <2>3. CASE j # i /\ Tag(j) = t
    <3>1. Place(j) # Place(i)
      BY <1>1, <2>1, <2>3, PlaceFacts DEF t
    <3> QED
      BY <1>6, <1>9, <2>1, <2>3, <3>1 DEF Fetched
  <2>4. CASE Tag(j) # t
    BY <1>9, <2>1, <2>4, <1>1 DEF Fetched, t
  <2> QED
    BY <2>2, <2>3, <2>4, <1>1 DEF t
<1>11. Writes(s, i, v, w)
  BY <1>8, <1>10 DEF Writes
<1> QED
  BY <1>5, <1>11 DEF w, t

\* std::swap by a program that has the cache to itself.
LEMMA ExchangedShows ==
  ASSUME program \in Programs, ExchangesApart, "exchange" \in program,
         NEW s, Sound(s), NEW i \in 0 .. s.siz - 1, NEW j \in 0 .. s.siz - 1
  PROVE  Exchanges(s, i, j, Exchanged(s, i, j)) /\ Sound(Exchanged(s, i, j))
<1> DEFINE a == Touch(s, i)
           b == Touch(a, j)
           z == a.prev[Place(i)]
           w == WriteHeld(b, j, z)
           y == b.prev[Place(j)]
           x == Exchanged(s, i, j)
<1>1. Holding /\ program \cap {"assign", "exchange"} # {}
  BY DEF ExchangesApart, Holding, PrefetchFits, Forward
<1>2. x = IF b.stuck THEN b
          ELSE IF Tag(i) = Tag(j) THEN WriteHeld(w, i, y)
          ELSE IF a.aliased /\ Resident(b, Tag(i)) THEN [w EXCEPT !.cached[Tag(i)][Place(i)] = y]
          ELSE [b EXCEPT !.stuck = TRUE]
  BY Zenon DEF Exchanged
<1>3. Tag(i) # Tag(j) => a.aliased /\ Resident(b, Tag(i))
  BY BothResident
<1>4. /\ Shows(s, a) /\ Sound(a) /\ a.siz = s.siz /\ z = Fetched(s, i)
      /\ z \in Values \cup {Junk}
  BY <1>1, TouchShows
<1> HIDE DEF a, x
<1>5. /\ Shows(a, b) /\ Sound(b) /\ b.siz = a.siz /\ b.prevTag = Tag(j) /\ y = Fetched(a, j)
      /\ y \in Values \cup {Junk}
  BY <1>1, <1>4, TouchShows
<1> HIDE DEF b, z, y
<1>6. b.stuck = FALSE /\ y = Fetched(s, j) /\ b.siz = s.siz
      /\ \A k \in 0 .. s.siz - 1 : Fetched(b, k) = Fetched(s, k)
  BY <1>4, <1>5, SoundFacts, StateFacts DEF Shows
<1>7. Writes(b, j, z, w) /\ Sound(w)
  BY <1>1, <1>4, <1>5, <1>6, HeldWrites
<1>8. w.prevTag = Tag(j) /\ (\A u \in Blocks : Resident(w, u) <=> Resident(b, u))
  <2>1. Placed(b) /\ b.prev \in Payloads /\ j \in Nat
    BY <1>5, <1>6, SoundFacts, IndexFacts
  <2> QED
    BY <1>4, <1>5, <2>1, WriteFacts DEF Written
<1> HIDE DEF w
<1>9. w.siz = s.siz
  BY <1>6, <1>7 DEF Writes
<1>10. Writes(w, i, y, x) /\ Sound(x)
  <2>1. CASE Tag(i) = Tag(j)
    <3>1. x = WriteHeld(w, i, y)
      BY <1>2, <1>6, <2>1
    <3> QED
      BY <1>1, <1>5, <1>7, <1>8, <1>9, <2>1, <3>1, HeldWrites
  <2>2. CASE Tag(i) # Tag(j)
    <3>1. x = [w EXCEPT !.cached[Tag(i)][Place(i)] = y]
      BY <1>2, <1>3, <1>6, <2>2
    <3>2. Resident(w, Tag(i)) /\ Tag(i) # w.prevTag
      BY <1>3, <1>8, <2>2, IndexFacts
    <3>3. /\ Writes(w, i, y, [w EXCEPT !.cached[Tag(i)][Place(i)] = y])
          /\ Sound([w EXCEPT !.cached[Tag(i)][Place(i)] = y])
      BY <1>5, <1>7, <1>9, <3>2, BehindWrites
    <3> QED
      BY <3>1, <3>3
  <2> QED
    BY <2>1, <2>2
<1>11. /\ x.siz = s.siz /\ Fetched(x, i) = Fetched(s, j) /\ Fetched(w, j) = Fetched(s, i)
       /\ \A k \in 0 .. s.siz - 1 :
            /\ k # i => Fetched(x, k) = Fetched(w, k)
            /\ k # j => Fetched(w, k) = Fetched(s, k)
  BY <1>4, <1>6, <1>7, <1>9, <1>10 DEF Writes
<1>12. Exchanges(s, i, j, x)
  BY <1>11 DEF Exchanges
<1> QED
  BY <1>10, <1>12 DEF x

\* A sequence takes an element in.
LEMMA InsertedAt ==
  ASSUME NEW S, NEW q \in Seq(S), NEW p \in 1 .. Len(q) + 1, NEW e \in S
  PROVE  InsertAt(q, p, e) = [i \in 1 .. Len(q) + 1 |->
                                IF i < p THEN q[i] ELSE IF i = p THEN e ELSE q[i - 1]]
<1> DEFINE front == SubSeq(q, 1, p - 1)
           back == SubSeq(q, p, Len(q))
           one == <<e>>
<1>1. Len(q) \in Nat /\ p \in Nat
  OBVIOUS
<1>2. /\ front \in Seq(S) /\ Len(front) = p - 1 /\ \A i \in 1 .. p - 1 : front[i] = q[i]
  BY <1>1
<1>3. /\ back \in Seq(S) /\ Len(back) = Len(q) - p + 1
      /\ \A i \in 1 .. Len(q) - p + 1 : back[i] = q[i + p - 1]
  BY <1>1
<1>4. one \in Seq(S) /\ Len(one) = 1 /\ one[1] = e
  OBVIOUS
<1>5. InsertAt(q, p, e) = front \o one \o back
  BY DEF InsertAt
<1> HIDE DEF front, back, one
<1> DEFINE half == front \o one
<1>6. /\ half \in Seq(S) /\ Len(half) = p
      /\ \A i \in 1 .. p : half[i] = IF i < p THEN q[i] ELSE e
  <2>1. /\ half \in Seq(S) /\ Len(half) = Len(front) + Len(one)
        /\ \A i \in 1 .. Len(front) + Len(one) :
             half[i] = IF i <= Len(front) THEN front[i] ELSE one[i - Len(front)]
    BY <1>2, <1>4, ConcatProperties
  <2>2. Len(front) + Len(one) = p
    BY <1>1, <1>2, <1>4
  <2>3. ASSUME NEW i \in 1 .. p
        PROVE  half[i] = IF i < p THEN q[i] ELSE e
    <3>1. i <= p - 1 <=> i < p
      BY <1>1
    <3>2. i >= p => i - (p - 1) = 1
      BY <1>1
    <3>3. half[i] = IF i <= p - 1 THEN front[i] ELSE one[i - (p - 1)]
      BY <1>2, <2>1, <2>2
    <3>4. CASE i < p
      <4>1. i \in 1 .. p - 1
        BY <1>1, <3>4
      <4> QED
        BY <1>2, <3>1, <3>3, <3>4, <4>1
    <3>5. CASE ~(i < p)
      <4>1. i - (p - 1) = 1
        BY <1>1, <3>2, <3>5
      <4> QED
        BY <1>4, <3>1, <3>3, <3>5, <4>1
    <3> QED
      BY <3>4, <3>5
  <2> QED
    BY <2>1, <2>2, <2>3
<1> HIDE DEF half
<1> DEFINE all == half \o back
<1>7. /\ all \in Seq(S) /\ Len(all) = Len(q) + 1
      /\ \A i \in 1 .. Len(q) + 1 : all[i] = IF i < p THEN q[i] ELSE IF i = p THEN e ELSE q[i - 1]
  <2>3. /\ all \in Seq(S) /\ Len(all) = Len(half) + Len(back)
        /\ \A i \in 1 .. Len(half) + Len(back) :
             all[i] = IF i <= Len(half) THEN half[i] ELSE back[i - Len(half)]
    BY <1>3, <1>6, ConcatProperties
  <2>4. Len(half) + Len(back) = Len(q) + 1
    BY <1>1, <1>3, <1>6
  <2>1. all \in Seq(S) /\ Len(all) = Len(q) + 1
    BY <2>3, <2>4
  <2>2. ASSUME NEW i \in 1 .. Len(q) + 1
        PROVE  all[i] = IF i < p THEN q[i] ELSE IF i = p THEN e ELSE q[i - 1]
    <3>1. CASE i <= p
      <4>1. all[i] = half[i] /\ i \in 1 .. p
        BY <1>1, <1>6, <2>3, <2>4, <3>1
      <4> QED
        <5>1. ~(i < p) => i = p
          BY <1>1, <3>1
        <5> QED
          BY <1>6, <4>1, <5>1
    <3>2. CASE ~(i <= p)
      <4>1. all[i] = back[i - p]
        BY <1>6, <2>3, <2>4, <3>2
      <4>2. i - p \in 1 .. Len(q) - p + 1 /\ (i - p) + p - 1 = i - 1
        BY <1>1, <3>2
      <4> QED
        <5>1. ~(i < p) /\ i # p
          BY <1>1, <3>2
        <5> QED
          BY <1>3, <4>1, <4>2, <5>1
    <3> QED
      BY <3>1, <3>2
  <2> QED
    BY <2>1, <2>2
<1> HIDE DEF all
<1>8. all = [i \in 1 .. Len(q) + 1 |-> IF i < p THEN q[i] ELSE IF i = p THEN e ELSE q[i - 1]]
  <2>1. all = [i \in 1 .. Len(all) |-> all[i]]
    BY <1>7
  <2> QED
    BY <1>7, <2>1
<1> QED
  BY <1>5, <1>8 DEF all, half

\* The elements as a sequence.
Shown(s) == [k \in 1 .. s.siz |-> Fetched(s, k - 1)]

LEMMA ShownFacts ==
  ASSUME Holding, NEW s, Sound(s)
  PROVE  /\ Shown(s) \in Seq(Values \cup {Junk}) /\ Len(Shown(s)) = s.siz /\ s.siz \in Nat
         /\ \A k \in 1 .. s.siz : Shown(s)[k] = Fetched(s, k - 1)
<1>1. s.siz \in Nat
  <2>1. s.siz \in 0 .. MaxSize /\ MaxSize \in Nat
    BY SoundFacts, StateFacts, VectorAssumption
  <2> QED
    BY <2>1
<1>2. \A i \in 0 .. s.siz - 1 : Fetched(s, i) \in Values \cup {Junk}
  BY TouchShows
<1>3. \A k \in 1 .. s.siz : Fetched(s, k - 1) \in Values \cup {Junk}
  BY <1>1, <1>2
<1>4. Shown(s) \in [1 .. s.siz -> Values \cup {Junk}]
  BY <1>3 DEF Shown
<1> DEFINE q == Shown(s)
<1>5. q = [k \in 1 .. s.siz |-> Fetched(s, k - 1)]
  BY DEF Shown
<1>6. q \in [1 .. s.siz -> Values \cup {Junk}]
  BY <1>4
<1> HIDE DEF q
<1>7. q \in Seq(Values \cup {Junk}) /\ Len(q) = s.siz
  BY <1>1, <1>6
<1>8. \A k \in 1 .. s.siz : q[k] = Fetched(s, k - 1)
  BY <1>5
<1> QED
  BY <1>1, <1>7, <1>8 DEF q

\* What at(i) would return is what the next fetch of its block gets.
LEMMA ElementsBefore ==
  ASSUME Holding, Sound(State)
  PROVE  Elements = Shown(State)
<1> DEFINE s == State
<1>1. /\ s.siz = siz /\ s.prevTag = prevTag /\ s.prev = prev /\ s.cached = cached /\ s.remote = remote
  BY StateParts
<1> HIDE DEF s
<1>2. Sound(s) /\ siz \in Nat
  BY <1>1, ShownFacts DEF s
<1>3. ASSUME NEW k \in 1 .. siz
      PROVE  Seen(k - 1) = Fetched(s, k - 1)
  <2>1. prev # None
    BY <1>1, <1>2, SoundFacts
  <2>2. prev = Where(s, prevTag)
    BY <1>1, <1>2, <2>1, SavedFacts
  <2> QED
    BY <1>1, <2>2 DEF Seen, Fetched, Where, Resident
<1> QED
  BY <1>1, <1>3 DEF Elements, Shown, s

LEMMA ElementsAfter ==
  ASSUME Holding, NEW x, Sound(x), Become(x)
  PROVE  Elements' = Shown(x)
<1>1. /\ siz' = x.siz /\ prevTag' = x.prevTag /\ prev' = x.prev /\ cached' = x.cached
      /\ remote' = x.remote
  BY DEF Become
<1>2. x.siz \in Nat
  BY ShownFacts
<1>3. ASSUME NEW k \in 1 .. x.siz
      PROVE  Seen(k - 1)' = Fetched(x, k - 1)
  <2>1. x.prev # None
    BY <1>2, SoundFacts
  <2>2. x.prev = Where(x, x.prevTag)
    BY <2>1, SavedFacts
  <2> QED
    BY <1>1, <2>2 DEF Seen, Fetched, Where, Resident, Tag, Place
<1>4. Elements' = [k \in 1 .. x.siz |-> Seen(k - 1)']
  BY <1>1 DEF Elements
<1> QED
  BY <1>3, <1>4 DEF Shown

\* The effects on the state are those on the sequence.
LEMMA ShowsSame ==
  ASSUME Holding, NEW s, Sound(s), NEW x, Sound(x), Shows(s, x)
  PROVE  Shown(x) = Shown(s)
<1>1. s.siz \in Nat /\ x.siz = s.siz
  BY ShownFacts DEF Shows
<1>2. \A k \in 1 .. s.siz : Fetched(x, k - 1) = Fetched(s, k - 1)
  BY <1>1 DEF Shows
<1> QED
  BY <1>1, <1>2 DEF Shown

LEMMA WritesOne ==
  ASSUME Holding, NEW s, Sound(s), NEW i \in 0 .. s.siz - 1, NEW v, NEW x, Sound(x), Writes(s, i, v, x)
  PROVE  Shown(x) = [Shown(s) EXCEPT ![i + 1] = v]
<1>1. s.siz \in Nat /\ x.siz = s.siz /\ Fetched(x, i) = v /\ i \in Nat
  BY ShownFacts DEF Writes
<1>2. \A k \in 1 .. s.siz : k # i + 1 => Fetched(x, k - 1) = Fetched(s, k - 1)
  BY <1>1 DEF Writes
<1>3. (i + 1) - 1 = i
  BY <1>1
<1> QED
  BY <1>1, <1>2, <1>3 DEF Shown

LEMMA ExchangesTwo ==
  ASSUME Holding, NEW s, Sound(s), NEW i \in 0 .. s.siz - 1, NEW j \in 0 .. s.siz - 1,
         NEW x, Sound(x), Exchanges(s, i, j, x)
  PROVE  Shown(x) = [Shown(s) EXCEPT ![i + 1] = Shown(s)[j + 1], ![j + 1] = Shown(s)[i + 1]]
<1>1. s.siz \in Nat /\ x.siz = s.siz /\ i \in Nat /\ j \in Nat
  BY ShownFacts DEF Exchanges
<1>2. Shown(s)[i + 1] = Fetched(s, i) /\ Shown(s)[j + 1] = Fetched(s, j)
  <2>1. i + 1 \in 1 .. s.siz /\ j + 1 \in 1 .. s.siz /\ (i + 1) - 1 = i /\ (j + 1) - 1 = j
    BY <1>1
  <2> QED
    BY <2>1, ShownFacts
<1>3. \A k \in 1 .. s.siz :
        Fetched(x, k - 1) = IF k = j + 1 THEN Fetched(s, i) ELSE IF k = i + 1 THEN Fetched(s, j)
                            ELSE Fetched(s, k - 1)
  <2> SUFFICES ASSUME NEW k \in 1 .. s.siz
               PROVE  Fetched(x, k - 1) = IF k = j + 1 THEN Fetched(s, i)
                                          ELSE IF k = i + 1 THEN Fetched(s, j) ELSE Fetched(s, k - 1)
    OBVIOUS
  <2>1. k - 1 \in 0 .. s.siz - 1 /\ (k - 1 = j <=> k = j + 1) /\ (k - 1 = i <=> k = i + 1)
    BY <1>1
  <2> QED
    BY <2>1 DEF Exchanges
<1> DEFINE q == Shown(s)
           a == q[j + 1]
           b == q[i + 1]
<1>4. q = [k \in 1 .. s.siz |-> Fetched(s, k - 1)] /\ a = Fetched(s, j) /\ b = Fetched(s, i)
  BY <1>2 DEF Shown
<1>5. Shown(x) = [k \in 1 .. s.siz |-> Fetched(x, k - 1)]
  BY <1>1 DEF Shown
<1> HIDE DEF a, b, q
<1>6. Shown(x) = [q EXCEPT ![i + 1] = a, ![j + 1] = b]
  BY <1>1, <1>3, <1>4, <1>5
<1> QED
  BY <1>6 DEF a, b, q

LEMMA InsertsOne ==
  ASSUME Holding, NEW s, Sound(s), NEW i \in 0 .. s.siz, NEW v \in Values,
         NEW x, Sound(x), Inserts(s, i, v, x)
  PROVE  Shown(x) = InsertAt(Shown(s), i + 1, v)
<1> DEFINE q == Shown(s)
           y == Shown(x)
<1>1. /\ q \in Seq(Values \cup {Junk}) /\ Len(q) = s.siz /\ s.siz \in Nat
      /\ \A k \in 1 .. s.siz : q[k] = Fetched(s, k - 1)
  BY ShownFacts
<1>2. y = [k \in 1 .. s.siz + 1 |-> Fetched(x, k - 1)]
  BY DEF Shown, Inserts
<1> HIDE DEF q, y
<1>3. i \in Nat /\ i + 1 \in 1 .. Len(q) + 1 /\ v \in Values \cup {Junk}
  BY <1>1
<1>4. InsertAt(q, i + 1, v) = [k \in 1 .. Len(q) + 1 |->
                                 IF k < i + 1 THEN q[k] ELSE IF k = i + 1 THEN v ELSE q[k - 1]]
  <2> DEFINE S == Values \cup {Junk}
             p == i + 1
  <2>1. q \in Seq(S) /\ p \in 1 .. Len(q) + 1 /\ v \in S
    BY <1>1, <1>3
  <2> HIDE DEF S, p
  <2>2. InsertAt(q, p, v) = [k \in 1 .. Len(q) + 1 |->
                               IF k < p THEN q[k] ELSE IF k = p THEN v ELSE q[k - 1]]
    BY <2>1, InsertedAt
  <2> QED
    BY <2>2 DEF p
<1>5. ASSUME NEW k \in 1 .. s.siz + 1
      PROVE  Fetched(x, k - 1) = IF k < i + 1 THEN q[k] ELSE IF k = i + 1 THEN v ELSE q[k - 1]
  <2> DEFINE j == k - 1
  <2>1. j \in 0 .. s.siz /\ (j < i <=> k < i + 1) /\ (j = i <=> k = i + 1)
    BY <1>1, <1>3
  <2>2. Fetched(x, j) = IF j < i THEN Fetched(s, j) ELSE IF j = i THEN v ELSE Fetched(s, j - 1)
    BY <2>1 DEF Inserts
  <2>3. CASE k < i + 1
    <3>1. k \in 1 .. s.siz
      BY <1>1, <1>3, <2>3
    <3> QED
      BY <1>1, <2>1, <2>2, <2>3, <3>1
  <2>4. CASE k = i + 1
    BY <1>3, <2>1, <2>2, <2>4
  <2>5. CASE ~(k < i + 1) /\ k # i + 1
    <3>1. k - 1 \in 1 .. s.siz /\ (k - 1) - 1 = j - 1
      BY <1>1, <1>3, <2>5
    <3> QED
      BY <1>1, <2>1, <2>2, <2>5, <3>1
  <2> QED
    BY <2>3, <2>4, <2>5
<1> QED
  BY <1>1, <1>2, <1>4, <1>5 DEF q, y

LEMMA RemovesOne ==
  ASSUME Holding, NEW s, Sound(s), NEW i \in 0 .. s.siz - 1, NEW x, Sound(x), Removes(s, i, x)
  PROVE  Shown(x) = RemoveAt(Shown(s), i + 1)
<1> DEFINE q == Shown(s)
           y == Shown(x)
<1>1. /\ q \in Seq(Values \cup {Junk}) /\ Len(q) = s.siz /\ s.siz \in Nat
      /\ \A k \in 1 .. s.siz : q[k] = Fetched(s, k - 1)
  BY ShownFacts
<1>2. y = [k \in 1 .. s.siz - 1 |-> Fetched(x, k - 1)]
  BY DEF Shown, Removes
<1> HIDE DEF q, y
<1>3. i \in Nat /\ i + 1 \in 1 .. Len(q)
  BY <1>1
<1>4. RemoveAt(q, i + 1) = [k \in 1 .. Len(q) - 1 |-> IF k < i + 1 THEN q[k] ELSE q[k + 1]]
  BY <1>1, <1>3, RemovedAt
<1>5. ASSUME NEW k \in 1 .. s.siz - 1
      PROVE  Fetched(x, k - 1) = IF k < i + 1 THEN q[k] ELSE q[k + 1]
  <2> DEFINE j == k - 1
  <2>1. /\ j \in 0 .. s.siz - 2 /\ (j < i <=> k < i + 1) /\ k \in 1 .. s.siz /\ k + 1 \in 1 .. s.siz
        /\ (k + 1) - 1 = j + 1
    BY <1>1, <1>3
  <2>2. Fetched(x, j) = IF j < i THEN Fetched(s, j) ELSE Fetched(s, j + 1)
    BY <2>1 DEF Removes
  <2>3. q[k] = Fetched(s, j) /\ q[k + 1] = Fetched(s, j + 1)
    BY <1>1, <2>1
  <2> QED
    BY <2>1, <2>2, <2>3
<1> QED
  BY <1>1, <1>2, <1>4, <1>5 DEF q, y
-------------------------------------------------------------------------------
(* The refinement: a step of a disciplined program is one of the sequence's. *)

\* The sequence's library operators are the library's.
LEMMA SequenceOperators ==
  /\ \A q, p, e : Contents!InsertAt(q, p, e) = InsertAt(q, p, e)
  /\ \A q, p : Contents!RemoveAt(q, p) = RemoveAt(q, p)
<1>1. \A q, p, e : Contents!InsertAt(q, p, e) = InsertAt(q, p, e)
  BY DEF Contents!InsertAt, InsertAt
<1>2. \A q, p : Contents!RemoveAt(q, p) = RemoveAt(q, p)
  BY DEF Contents!RemoveAt, RemoveAt
<1> QED
  BY <1>1, <1>2

LEMMA DisciplinedHolds ==
  ASSUME AssignsFit, program \in Programs, Disciplined
  PROVE  Holding
BY DEF AssignsFit, Disciplined, Holding, PrefetchFits, Forward

\* What the sequence may become is what a call made of the elements.
LEMMA SequenceSteps ==
  ASSUME NEW n \in Nat, Len(Elements) = n
  PROVE  /\ \A i \in 0 .. n, v \in Values : Elements' = InsertAt(Elements, i + 1, v) => Contents!Next
         /\ \A i \in 0 .. n - 1, v \in Values : Elements' = [Elements EXCEPT ![i + 1] = v] => Contents!Next
         /\ \A i, j \in 0 .. n - 1 :
              Elements' = [Elements EXCEPT ![i + 1] = Elements[j + 1], ![j + 1] = Elements[i + 1]]
                => Contents!Next
         /\ \A i \in 0 .. n - 1 : Elements' = RemoveAt(Elements, i + 1) => Contents!Next
<1>1. ASSUME NEW i \in 0 .. n, NEW v \in Values, Elements' = InsertAt(Elements, i + 1, v)
      PROVE  Contents!Next
  <2>1. Elements' = Contents!InsertAt(Elements, i + 1, v)
    BY <1>1, SequenceOperators
  <2>2. Elements' \in Contents!Insert
    BY <2>1 DEF Contents!Insert
  <2> QED
    BY <2>2 DEF Contents!Next
<1>2. ASSUME NEW i \in 0 .. n - 1, NEW v \in Values, Elements' = [Elements EXCEPT ![i + 1] = v]
      PROVE  Contents!Next
  <2>1. i \in Contents!Indices
    BY DEF Contents!Indices
  <2> DEFINE written(k, w) == [Elements EXCEPT ![k + 1] = w]
  <2>2. Contents!Replace = {written(k, w) : k \in Contents!Indices, w \in Values}
    BY DEF Contents!Replace
  <2>3. Elements' = written(i, v)
    BY <1>2
  <2> HIDE DEF written
  <2>4. Elements' \in Contents!Replace
    BY <2>1, <2>2, <2>3
  <2> QED
    BY <2>4 DEF Contents!Next
<1>3. ASSUME NEW i \in 0 .. n - 1, NEW j \in 0 .. n - 1,
             Elements' = [Elements EXCEPT ![i + 1] = Elements[j + 1], ![j + 1] = Elements[i + 1]]
      PROVE  Contents!Next
  <2>1. i \in Contents!Indices /\ j \in Contents!Indices
    BY DEF Contents!Indices
  <2> DEFINE swapped(k, l) == [Elements EXCEPT ![k + 1] = Elements[l + 1], ![l + 1] = Elements[k + 1]]
  <2>2. Contents!Swap = {swapped(k, l) : k, l \in Contents!Indices}
    BY DEF Contents!Swap
  <2>3. Elements' = swapped(i, j)
    BY <1>3
  <2> HIDE DEF swapped
  <2>4. Elements' \in Contents!Swap
    BY <2>1, <2>2, <2>3
  <2> QED
    BY <2>4 DEF Contents!Next
<1>4. ASSUME NEW i \in 0 .. n - 1, Elements' = RemoveAt(Elements, i + 1)
      PROVE  Contents!Next
  <2>1. Elements' = Contents!RemoveAt(Elements, i + 1)
    BY <1>4, SequenceOperators
  <2>2. Elements' \in Contents!Erase
    BY <2>1 DEF Contents!Erase, Contents!Indices
  <2> QED
    BY <2>2 DEF Contents!Next
<1> QED
  BY <1>1, <1>2, <1>3, <1>4

\* Every call of a disciplined program.
LEMMA SequenceStep ==
  ASSUME ExchangesApart, AssignsFit, IInv, Next, Disciplined
  PROVE  Contents!Next \/ Elements' = Elements
<1>1. program \in Programs /\ ~stuck /\ Holding
  BY DisciplinedHolds DEF IInv
<1> DEFINE s == State
<1>2. Sound(s) /\ s.siz = siz /\ s.order = order /\ s.prevTag = prevTag
  BY <1>1, SoundBefore, StateParts
<1>3. Elements = Shown(s)
  BY <1>1, <1>2, ElementsBefore
<1>4. \A x : Sound(x) /\ Become(x) => Elements' = Shown(x)
  BY <1>1, ElementsAfter
<1> HIDE DEF s
<1>5. Len(Elements) = siz /\ siz \in Nat
  BY <1>1, <1>2, <1>3, ShownFacts
<1>6. ASSUME NEW i \in 0 .. siz, NEW v \in Values, Insert(i, v)
      PROVE  Contents!Next
  <2> DEFINE x == Inserted(s, i, v)
  <2>1. Become(x) /\ siz < MaxSize
    BY <1>6 DEF Insert, s
  <2>2. i = s.siz => Place(s.siz) = 0 \/ s.prevTag = Tag(s.siz)
    BY <1>2, <1>6 DEF Insert, MayAppend, Disciplined
  <2>3. Inserts(s, i, v, x) /\ Sound(x)
    BY <1>1, <1>2, <2>1, <2>2, InsertedShows
  <2> HIDE DEF x
  <2>4. Shown(x) = InsertAt(Shown(s), i + 1, v)
    BY <1>1, <1>2, <2>3, InsertsOne
  <2>5. Elements' = InsertAt(Elements, i + 1, v)
    BY <1>3, <1>4, <2>1, <2>3, <2>4
  <2> QED
    BY <1>5, <2>5, SequenceSteps
<1>7. ASSUME NEW i \in Indices, NEW v \in Values, Replace(i, v)
      PROVE  Contents!Next
  <2> DEFINE x == Replaced(s, i, v)
  <2>1. Become(x) /\ i \in 0 .. s.siz - 1
    BY <1>2, <1>7 DEF Replace, Indices, s
  <2>2. Writes(s, i, v, x) /\ Sound(x)
    BY <1>1, <1>2, <2>1, ReplacedShows
  <2> HIDE DEF x
  <2>3. Shown(x) = [Shown(s) EXCEPT ![i + 1] = v]
    BY <1>1, <1>2, <2>1, <2>2, WritesOne
  <2>4. Elements' = [Elements EXCEPT ![i + 1] = v]
    BY <1>3, <1>4, <2>1, <2>2, <2>3
  <2> QED
    BY <1>2, <1>5, <2>1, <2>4, SequenceSteps
<1>8. ASSUME NEW i \in Indices, NEW j \in Indices, Swap(i, j)
      PROVE  Contents!Next
  <2> DEFINE x == Swapped(s, i, j)
  <2>1. Become(x) /\ i \in 0 .. s.siz - 1 /\ j \in 0 .. s.siz - 1
    BY <1>2, <1>8 DEF Swap, Indices, s
  <2>2. Exchanges(s, i, j, x) /\ Sound(x)
    BY <1>1, <1>2, <2>1, SwappedShows
  <2> HIDE DEF x
  <2>3. Shown(x) = [Shown(s) EXCEPT ![i + 1] = Shown(s)[j + 1], ![j + 1] = Shown(s)[i + 1]]
    BY <1>1, <1>2, <2>1, <2>2, ExchangesTwo
  <2>4. Elements' = [Elements EXCEPT ![i + 1] = Elements[j + 1], ![j + 1] = Elements[i + 1]]
    BY <1>3, <1>4, <2>1, <2>2, <2>3
  <2> QED
    BY <1>2, <1>5, <2>1, <2>4, SequenceSteps
<1>9. ASSUME NEW i \in Indices, Erase(i)
      PROVE  Contents!Next
  <2> DEFINE x == Erased(s, i)
  <2>1. Become(x) /\ i \in 0 .. s.siz - 1
    BY <1>2, <1>9 DEF Erase, Indices, s
  <2>2. Removes(s, i, x) /\ Sound(x)
    BY <1>1, <1>2, <2>1, ErasedShows
  <2> HIDE DEF x
  <2>3. Shown(x) = RemoveAt(Shown(s), i + 1)
    BY <1>1, <1>2, <2>1, <2>2, RemovesOne
  <2>4. Elements' = RemoveAt(Elements, i + 1)
    BY <1>3, <1>4, <2>1, <2>2, <2>3
  <2> QED
    BY <1>2, <1>5, <2>1, <2>4, SequenceSteps
<1>10. ~Clear
  BY DEF Clear, Disciplined
<1>11. ASSUME NEW i \in Indices, At(i)
       PROVE  Elements' = Elements
  <2> DEFINE x == Touch(s, i)
  <2>1. Become(x) /\ i \in 0 .. s.siz - 1
    BY <1>2, <1>11 DEF At, Indices, s
  <2>2. Shows(s, x) /\ Sound(x)
    BY <1>1, <1>2, <2>1, TouchShows
  <2> HIDE DEF x
  <2> QED
    BY <1>1, <1>2, <1>3, <1>4, <2>1, <2>2, ShowsSame
<1>12. ASSUME NEW i \in Indices, NEW v \in Values, Assign(i, v)
       PROVE  Contents!Next
  <2> DEFINE x == WriteHeld(Touch(s, i), i, v)
  <2>1. Become(x) /\ i \in 0 .. s.siz - 1 /\ "assign" \in program
    BY <1>2, <1>12 DEF Assign, Indices, s
  <2>2. Writes(s, i, v, x) /\ Sound(x)
    BY <1>1, <1>2, <2>1, AssignedShows
  <2> HIDE DEF x
  <2>3. Shown(x) = [Shown(s) EXCEPT ![i + 1] = v]
    BY <1>1, <1>2, <2>1, <2>2, WritesOne
  <2>4. Elements' = [Elements EXCEPT ![i + 1] = v]
    BY <1>3, <1>4, <2>1, <2>2, <2>3
  <2> QED
    BY <1>2, <1>5, <2>1, <2>4, SequenceSteps
<1>13. ASSUME NEW i \in Indices, NEW j \in Indices, Exchange(i, j)
       PROVE  Contents!Next
  <2> DEFINE x == Exchanged(s, i, j)
  <2>1. Become(x) /\ i \in 0 .. s.siz - 1 /\ j \in 0 .. s.siz - 1 /\ "exchange" \in program
    BY <1>2, <1>13 DEF Exchange, Indices, s
  <2>2. Exchanges(s, i, j, x) /\ Sound(x)
    BY <1>1, <1>2, <2>1, ExchangedShows
  <2> HIDE DEF x
  <2>3. Shown(x) = [Shown(s) EXCEPT ![i + 1] = Shown(s)[j + 1], ![j + 1] = Shown(s)[i + 1]]
    BY <1>1, <1>2, <2>1, <2>2, ExchangesTwo
  <2>4. Elements' = [Elements EXCEPT ![i + 1] = Elements[j + 1], ![j + 1] = Elements[i + 1]]
    BY <1>3, <1>4, <2>1, <2>2, <2>3
  <2> QED
    BY <1>2, <1>5, <2>1, <2>4, SequenceSteps
<1>14. ASSUME NEW n \in 1 .. MaxSize, NEW v \in Values, Fill(n, v)
       PROVE  Contents!Next
  <2> DEFINE x == Filled(s, n, v)
  <2>1. Become(x) /\ s.siz = 0
    BY <1>2, <1>14 DEF Fill, s
  <2>2. Sound(x) /\ x.siz = n /\ \A j \in 0 .. n - 1 : Fetched(x, j) = v
    BY <1>1, <1>2, <2>1, FilledShows
  <2> HIDE DEF x
  <2>3. Elements' = Shown(x)
    BY <1>4, <2>1, <2>2
  <2>4. \A k \in 1 .. n : Fetched(x, k - 1) = v
    BY <2>2
  <2>5. \A k \in DOMAIN Elements' : Elements'[k] = v
    BY <2>2, <2>3, <2>4 DEF Shown
  <2>6. Elements = <<>>
    BY <1>2, <1>3, <2>1 DEF Shown
  <2>7. Contents!Fill
    BY <2>5, <2>6 DEF Contents!Fill
  <2> QED
    BY <2>7 DEF Contents!Next
<1>15. ASSUME OthersEvict
       PROVE  Elements' = Elements
  <2> DEFINE x == Evict(s, Last(s.order))
  <2>1. Become(x) /\ s.order # <<>> /\ "shared" \in program
    BY <1>2, <1>15 DEF OthersEvict, s
  <2>2. Shows(s, x) /\ Sound(x)
    BY <1>2, <2>1, EvictedShows
  <2> HIDE DEF x
  <2> QED
    BY <1>1, <1>2, <1>3, <1>4, <2>1, <2>2, ShowsSame
<1> QED
  BY <1>6, <1>7, <1>8, <1>9, <1>10, <1>11, <1>12, <1>13, <1>14, <1>15 DEF Next

\* A vector is the sequence its user takes it for, if the program is disciplined: every
\* call does to the elements what it does to a sequence, and nothing else changes them.
THEOREM IsASequence ==
  ASSUME ExchangesApart, AssignsFit
  PROVE  Spec => SequenceIfDisciplined
<1>1. Init => Contents!Init
  BY DEF Init, Contents!Init, Elements
<1>2. IInv /\ [Next]_vars => [Disciplined => Contents!Next]_Elements
  <2> SUFFICES ASSUME IInv, [Next]_vars, Disciplined
               PROVE  Contents!Next \/ Elements' = Elements
    OBVIOUS
  <2>1. CASE Next
    BY <2>1, SequenceStep
  <2>2. CASE UNCHANGED vars
    BY <2>2 DEF vars, Elements, Seen
  <2> QED
    BY <2>1, <2>2
<1> QED
  BY <1>1, <1>2, Invariance, PTL DEF Spec, SequenceIfDisciplined
-------------------------------------------------------------------------------
(* The map: its search. *)

\* The elements are pairs, in the order of their keys.
Keyed(s) ==
  /\ \A i \in 0 .. s.siz - 1 : Fetched(s, i) \in Pairs
  /\ \A i, j \in 0 .. s.siz - 1 : i < j => Fetched(s, i).first < Fetched(s, j).first

\* std::lower_bound between two rounds: what lies before the range is below k, what lies
\* behind it is not, and if the range is the end, the last element was looked at.
Searching(s, k, x) ==
  /\ Sound(x.s) /\ Shows(s, x.s)
  /\ x.first + x.len <= s.siz
  /\ \A i \in 0 .. x.first - 1 : Fetched(s, i).first < k
  /\ \A i \in x.first + x.len .. s.siz - 1 : ~(Fetched(s, i).first < k)
  /\ x.first = s.siz /\ s.siz > 0 => x.s.prevTag = Tag(s.siz - 1)

\* After n rounds.
SearchesOf(s, k, n) ==
  {x \in [s : States, first : 0 .. s.siz, len : 0 .. s.siz] : Searching(s, k, x) /\ x.len <= s.siz - n}

LEMMA HalvedFacts ==
  ASSUME Holding, PairsInVector, NEW s, Sound(s), Keyed(s), NEW k \in Keys, NEW n \in Nat,
         NEW x \in SearchesOf(s, k, n), n < s.siz
  PROVE  Halved(x, k) \in SearchesOf(s, k, n + 1)
<1> DEFINE m == s.siz
           a == x.first
           l == x.len
           half == l \div 2
           mid == a + half
           d == Touch(x.s, mid)
           v == Fetched(s, mid)
           z == Halved(x, k)
<1>1. /\ m \in Nat /\ a \in 0 .. m /\ l \in 0 .. m /\ a \in Nat /\ l \in Nat /\ l <= m - n
      /\ x.s \in States /\ Sound(x.s) /\ Shows(s, x.s) /\ a + l <= m
      /\ \A i \in 0 .. a - 1 : Fetched(s, i).first < k
      /\ \A i \in a + l .. m - 1 : ~(Fetched(s, i).first < k)
      /\ a = m /\ m > 0 => x.s.prevTag = Tag(m - 1)
      /\ x = [s |-> x.s, first |-> a, len |-> l]
  BY ShownFacts DEF SearchesOf, Searching
<1>2. CASE l = 0
  <2>1. z = x
    BY <1>2 DEF Halved
  <2>2. l <= m - (n + 1)
    BY <1>1, <1>2
  <2> HIDE DEF z
  <2>3. x \in SearchesOf(s, k, n + 1)
    BY <2>2 DEF SearchesOf
  <2> QED
    BY <2>1, <2>3 DEF z
<1>3. CASE l # 0
  <2>1. half \in Nat /\ half < l /\ l - half - 1 \in Nat
    BY <1>1, <1>3
  <2>2. mid \in Nat /\ mid \in 0 .. m - 1 /\ a <= mid /\ mid < a + l
    BY <1>1, <2>1
  <2>3. x.s.siz = m
    BY <1>1 DEF Shows
  <2>4. /\ Shows(x.s, d) /\ Sound(d) /\ d.prevTag = Tag(mid)
        /\ ValueAt(d, mid) = Fetched(x.s, mid)
    BY <1>1, <2>2, <2>3, TouchShows
  <2>5. ValueAt(d, mid) = v
    BY <1>1, <2>2, <2>4 DEF Shows
  <2>6. Shows(s, d) /\ d \in States
    BY <1>1, <2>4, SoundFacts DEF Shows
  <2>7. z = IF v.first < k THEN [s |-> d, first |-> mid + 1, len |-> l - half - 1]
            ELSE [s |-> d, first |-> a, len |-> half]
    BY <1>3, <2>5 DEF Halved, Deref
  <2>8. /\ \A i \in 0 .. m - 1 : Fetched(s, i).first \in Int
        /\ \A i, j \in 0 .. m - 1 : i < j => Fetched(s, i).first < Fetched(s, j).first
        /\ k \in Int /\ v.first \in Int
    <3>1. \A i \in 0 .. m - 1 : Fetched(s, i).first \in Keys
      BY DEF Keyed, Pairs
    <3> QED
      BY <2>2, <3>1 DEF Keyed, PairsInVector
  <2> HIDE DEF half, mid, d, z
  <2>9. CASE v.first < k
    <3> DEFINE y == [s |-> d, first |-> mid + 1, len |-> l - half - 1]
    <3>1. y.s = d /\ y.first = mid + 1 /\ y.len = l - half - 1
      OBVIOUS
    <3>2. y \in [s : States, first : 0 .. m, len : 0 .. m]
      BY <1>1, <2>1, <2>2, <2>6
    <3> HIDE DEF y
    <3>3. y.first + y.len = a + l
      BY <1>1, <2>1, <2>2, <3>1 DEF mid
    <3>4. ASSUME NEW i \in 0 .. y.first - 1
          PROVE  Fetched(s, i).first < k
      <4>1. i \in 0 .. m - 1 /\ i <= mid
        BY <1>1, <2>2, <3>1
      <4>2. i < mid => Fetched(s, i).first < v.first
        BY <2>2, <2>8, <4>1
      <4>3. i = mid \/ i < mid
        BY <2>2, <4>1
      <4>4. i < mid => Fetched(s, i).first < k
        BY <2>8, <2>9, <4>1, <4>2
      <4> QED
        BY <2>9, <4>3, <4>4
    <3>5. y.first = m => y.s.prevTag = Tag(m - 1)
      <4>1. y.first = m => mid = m - 1
        BY <1>1, <2>2, <3>1
      <4> QED
        BY <2>4, <3>1, <4>1
    <3>6. y.len <= m - (n + 1)
      BY <1>1, <2>1, <3>1
    <3>7. Searching(s, k, y)
      BY <1>1, <2>4, <2>6, <3>1, <3>3, <3>4, <3>5 DEF Searching
    <3> QED
      BY <2>7, <2>9, <3>2, <3>6, <3>7 DEF SearchesOf, y, z
  <2>10. CASE ~(v.first < k)
    <3> DEFINE y == [s |-> d, first |-> a, len |-> half]
    <3>1. y.s = d /\ y.first = a /\ y.len = half
      OBVIOUS
    <3>2. y \in [s : States, first : 0 .. m, len : 0 .. m]
      BY <1>1, <2>1, <2>2, <2>6
    <3> HIDE DEF y
    <3>3. y.first + y.len = mid
      BY <3>1 DEF mid
    <3>4. ASSUME NEW i \in mid .. m - 1
          PROVE  ~(Fetched(s, i).first < k)
      <4>1. i \in 0 .. m - 1 /\ mid <= i
        BY <2>2
      <4>2. mid < i => v.first < Fetched(s, i).first
        BY <2>2, <2>8, <4>1
      <4>3. i = mid \/ mid < i
        BY <2>2, <4>1
      <4>4. mid < i => ~(Fetched(s, i).first < k)
        BY <2>8, <2>10, <4>1, <4>2
      <4> QED
        BY <2>10, <4>3, <4>4
    <3>5. y.first # m
      BY <1>1, <2>2, <3>1
    <3>6. y.len <= m - (n + 1)
      BY <1>1, <2>1, <3>1
    <3>7. y.first + y.len <= m
      BY <1>1, <2>2, <3>3
    <3>8. Searching(s, k, y)
      BY <1>1, <2>4, <2>6, <3>1, <3>3, <3>4, <3>5, <3>7 DEF Searching
    <3> QED
      BY <2>7, <2>10, <3>2, <3>6, <3>8 DEF SearchesOf, y, z
  <2> QED
    BY <2>9, <2>10
<1> QED
  BY <1>2, <1>3

\* The loop of std::lower_bound.
SearchLoop(base, q, k) == FoldLeft(LAMBDA x, n : Halved(x, k), base, q)

IsSearch(g, q, base, k) ==
  g = [s \in SUBSET (DOMAIN q) |-> IF s = {} THEN base ELSE Halved(g[s \ {Max(s)}], k)]

LEMMA SearchIsLoop ==
  ASSUME NEW base, NEW q, NEW k
  PROVE  SearchLoop(base, q, k) = (CHOOSE g : IsSearch(g, q, base, k))[DOMAIN q]
BY DEF SearchLoop, FoldLeft, MapThenFoldSet, IsSearch

LEMMA SearchEnds ==
  ASSUME Holding, PairsInVector, NEW s, Sound(s), Keyed(s), NEW k \in Keys, NEW q,
         NEW n \in Nat, DOMAIN q = 1 .. n, n = s.siz, NEW base \in SearchesOf(s, k, 0)
  PROVE  SearchLoop(base, q, k) \in SearchesOf(s, k, n)
<1> DEFINE All == [s : States, first : 0 .. s.siz, len : 0 .. s.siz]
           V == [m \in 0 .. n |-> SearchesOf(s, k, m)]
           h == [p \in All \X (1 .. n) |-> Halved(p[1], k)]
           f == CHOOSE f : IsSearch(f, q, base, k)
<1>1. ASSUME NEW m \in 1 .. n, NEW x \in SearchesOf(s, k, m - 1)
      PROVE  Halved(x, k) \in SearchesOf(s, k, m)
  <2> DEFINE l == m - 1
  <2>1. l \in Nat /\ l < s.siz /\ l + 1 = m
    OBVIOUS
  <2> HIDE DEF l
  <2>2. x \in SearchesOf(s, k, l)
    BY <1>1 DEF l
  <2>3. Halved(x, k) \in SearchesOf(s, k, l + 1)
    BY <2>1, <2>2, HalvedFacts
  <2> QED
    BY <2>1, <2>3
<1>2. \A x \in All : \A i \in 1 .. n : h[<<x, i>>] = Halved(x, k)
  OBVIOUS
<1>3. /\ \A m \in 0 .. n : V[m] = SearchesOf(s, k, m)
      /\ \A m \in 0 .. n : SearchesOf(s, k, m) \subseteq All
  BY DEF SearchesOf
<1> HIDE DEF V, h, f, All
<1>4. base \in V[0]
  BY <1>3
<1>5. ASSUME NEW m \in 1 .. n, NEW i \in 1 .. n, NEW x \in V[m - 1]
      PROVE  h[<<x, i>>] \in V[m]
  <2>1. m - 1 \in 0 .. n /\ m \in 0 .. n
    OBVIOUS
  <2>2. x \in SearchesOf(s, k, m - 1) /\ x \in All
    BY <1>3, <1>5, <2>1
  <2>3. Halved(x, k) \in SearchesOf(s, k, m)
    BY <1>1, <2>2
  <2> QED
    BY <1>2, <1>3, <2>1, <2>2, <2>3
<1>6. PICK g : /\ IsLoop(g, n, h, base)
               /\ \A r \in SUBSET (1 .. n) : r # {} =>
                    /\ Max(r) \in 1 .. n /\ Cardinality(r) \in 1 .. n
                    /\ g[r \ {Max(r)}] \in V[Cardinality(r) - 1]
  BY <1>4, <1>5, LoopWithin
<1>7. ASSUME NEW r \in SUBSET (1 .. n), r # {}
      PROVE  h[<<g[r \ {Max(r)}], Max(r)>>] = Halved(g[r \ {Max(r)}], k)
  <2>1. /\ Max(r) \in 1 .. n /\ Cardinality(r) \in 1 .. n
        /\ g[r \ {Max(r)}] \in V[Cardinality(r) - 1]
    BY <1>6, <1>7
  <2>2. Cardinality(r) - 1 \in 0 .. n
    BY <2>1
  <2>3. g[r \ {Max(r)}] \in All
    BY <1>3, <2>1, <2>2
  <2> QED
    BY <1>2, <2>1, <2>3
<1>8. IsSearch(g, q, base, k)
  BY <1>6, <1>7 DEF IsSearch, IsLoop
<1>9. IsSearch(f, q, base, k)
  BY <1>8 DEF f
<1>10. \A r \in SUBSET (1 .. n) :
         f[r] = IF r = {} THEN base ELSE Halved(f[r \ {Max(r)}], k)
  BY <1>9 DEF IsSearch
<1>11. ASSUME NEW r \in SUBSET (1 .. n), r # {}, Max(r) \in 1 .. n, Cardinality(r) \in 1 .. n,
              f[r \ {Max(r)}] \in V[Cardinality(r) - 1]
       PROVE  f[r] \in V[Cardinality(r)]
  <2>1. Cardinality(r) - 1 \in 0 .. n /\ Cardinality(r) \in 0 .. n
    BY <1>11
  <2>2. f[r \ {Max(r)}] \in SearchesOf(s, k, Cardinality(r) - 1)
    BY <1>3, <1>11, <2>1
  <2>3. f[r] = Halved(f[r \ {Max(r)}], k)
    BY <1>10, <1>11
  <2>4. f[r] \in SearchesOf(s, k, Cardinality(r))
    BY <1>1, <1>11, <2>2, <2>3
  <2> QED
    BY <1>3, <2>1, <2>4
<1>12. f[{}] \in V[0]
  BY <1>4, <1>10
<1>13. ASSUME NEW r \in SUBSET (1 .. n), r # {}, f[r \ {Max(r)}] \in V[Cardinality(r) - 1]
       PROVE  f[r] \in V[Cardinality(r)]
  <2>1. Max(r) \in 1 .. n /\ Cardinality(r) \in 1 .. n
    BY <1>13, RoundLess
  <2> QED
    BY <1>11, <1>13, <2>1
<1>14. \A r \in SUBSET (1 .. n) : f[r] \in V[Cardinality(r)]
  BY <1>12, <1>13, LoopKeeps
<1>15. 1 .. n \in SUBSET (1 .. n) /\ Cardinality(1 .. n) = n
  BY FS_Interval
<1>16. f[1 .. n] \in V[n]
  BY <1>14, <1>15
<1>17. V[n] = SearchesOf(s, k, n)
  BY <1>3
<1>18. SearchLoop(base, q, k) = f[1 .. n]
  BY SearchIsLoop DEF f
<1> QED
  BY <1>16, <1>17, <1>18

\* std::lower_bound finds the first element whose key is not below k, and if there is none
\* the last element is the one it looked at last.
LEMMA LowerBoundFacts ==
  ASSUME Holding, PairsInVector, NEW s, Sound(s), Keyed(s), NEW k \in Keys
  PROVE  LowerBound(s, k) \in SearchesOf(s, k, s.siz)
<1> DEFINE q == Downto(s.siz, 1)
           base == [s |-> s, first |-> 0, len |-> s.siz]
<1>1. s.siz \in Nat /\ s \in States
  BY ShownFacts, SoundFacts
<1>2. DOMAIN q = 1 .. s.siz
  BY <1>1 DEF Downto
<1>3. base \in SearchesOf(s, k, 0)
  <2>1. base.s = s /\ base.first = 0 /\ base.len = s.siz
    OBVIOUS
  <2>2. base \in [s : States, first : 0 .. s.siz, len : 0 .. s.siz]
    BY <1>1
  <2> HIDE DEF base
  <2>3. Shows(s, s)
    BY DEF Shows
  <2>4. Searching(s, k, base)
    BY <1>1, <2>1, <2>3 DEF Searching
  <2> QED
    BY <1>1, <2>1, <2>2, <2>4 DEF SearchesOf
<1>4. LowerBound(s, k) = SearchLoop(base, q, k)
  BY Zenon DEF LowerBound, SearchLoop
<1> HIDE DEF q, base
<1> QED
  BY <1>1, <1>2, <1>3, <1>4, SearchEnds

\* What find(k) finds: the pair, or the place where it belongs; behind the last element
\* only with its block in hand.
Finds(s, k, f) ==
  /\ Sound(f.s) /\ Shows(s, f.s) /\ f.at \in 0 .. s.siz /\ f.found \in BOOLEAN
  /\ f.found => f.at # s.siz /\ Fetched(s, f.at).first = k
  /\ ~f.found => /\ \A i \in 0 .. f.at - 1 : Fetched(s, i).first < k
                 /\ \A i \in f.at .. s.siz - 1 : k < Fetched(s, i).first
  /\ f.at = s.siz => Place(s.siz) = 0 \/ f.s.prevTag = Tag(s.siz)

LEMMA FindFacts ==
  ASSUME Holding, PairsInVector, NEW s, Sound(s), Keyed(s), NEW k \in Keys
  PROVE  Finds(s, k, Find(s, k))
<1> DEFINE b == LowerBound(s, k)
           m == s.siz
           a == b.first
           d == Touch(b.s, a)
           f == Find(s, k)
<1>1. b \in SearchesOf(s, k, m) /\ m \in Nat
  BY LowerBoundFacts, ShownFacts
<1> HIDE DEF b
<1>2. /\ Sound(b.s) /\ Shows(s, b.s) /\ a \in 0 .. m /\ b.len = 0 /\ b.s.siz = m
      /\ \A i \in 0 .. a - 1 : Fetched(s, i).first < k
      /\ \A i \in a .. m - 1 : ~(Fetched(s, i).first < k)
      /\ a = m /\ m > 0 => b.s.prevTag = Tag(m - 1)
  <2>1. b.len \in 0 .. m /\ b.len <= m - m /\ Searching(s, k, b) /\ a \in 0 .. m
    BY <1>1 DEF SearchesOf
  <2>2. b.len = 0 /\ a + b.len = a
    BY <1>1, <2>1
  <2> QED
    BY <2>1, <2>2 DEF Searching, Shows
<1>3. \A i \in 0 .. m - 1 : Fetched(s, i).first \in Int
  BY DEF Keyed, Pairs, PairsInVector
<1>4. k \in Int
  BY DEF PairsInVector
<1>5. CASE a = m
  <2>1. f = [s |-> b.s, at |-> a, found |-> FALSE]
    BY <1>2, <1>5 DEF Find, Found, b
  <2>2. Place(m) = 0 \/ b.s.prevTag = Tag(m)
    <3>1. CASE m = 0
      BY <3>1, PlaceFacts
    <3>2. CASE m # 0
      <4>1. m - 1 \in Nat /\ (m - 1) + 1 = m /\ b.s.prevTag = Tag(m - 1)
        BY <1>1, <1>2, <1>5, <3>2
      <4> QED
        BY <4>1, PlaceFacts
    <3> QED
      BY <3>1, <3>2
  <2>3. \A i \in m .. m - 1 : FALSE
    BY <1>1
  <2> HIDE DEF f
  <2>4. f.s = b.s /\ f.at = a /\ f.found = FALSE
    BY <2>1
  <2>5. Finds(s, k, f)
    BY <1>2, <1>5, <2>2, <2>3, <2>4 DEF Finds
  <2> QED
    BY <2>5 DEF f
<1>6. CASE a # m
  <2>1. f = [s |-> d, at |-> a, found |-> ~(k < ValueAt(d, a).first)]
    BY <1>2, <1>6 DEF Find, Found, Deref, b
  <2>2. a \in 0 .. m - 1
    BY <1>1, <1>2, <1>6
  <2>3. Shows(b.s, d) /\ Sound(d) /\ ValueAt(d, a) = Fetched(b.s, a)
    BY <1>2, <2>2, TouchShows
  <2> HIDE DEF f, d
  <2>4. ValueAt(d, a) = Fetched(s, a) /\ Shows(s, d)
    BY <1>2, <2>2, <2>3 DEF Shows
  <2>5. f.s = d /\ f.at = a /\ f.found = ~(k < Fetched(s, a).first)
    BY <2>1, <2>4
  <2>6. f.found \in BOOLEAN
    BY <2>5
  <2>7. f.found => Fetched(s, a).first = k
    <3>1. a \in a .. m - 1
      BY <1>1, <2>2
    <3>2. ~(Fetched(s, a).first < k) /\ Fetched(s, a).first \in Int
      BY <1>2, <1>3, <2>2, <3>1
    <3>3. f.found => ~(k < Fetched(s, a).first)
      BY <2>5
    <3> QED
      BY <1>4, <3>2, <3>3
  <2>8. ASSUME ~f.found, NEW i \in a .. m - 1
        PROVE  k < Fetched(s, i).first
    <3>1. i \in 0 .. m - 1 /\ (i = a \/ a < i)
      BY <1>1, <2>2
    <3>2. a < i => Fetched(s, a).first < Fetched(s, i).first
      BY <2>2, <3>1 DEF Keyed
    <3>3. k < Fetched(s, a).first
      BY <2>5, <2>8
    <3> QED
      BY <1>3, <1>4, <2>2, <3>1, <3>2, <3>3
  <2>9. Finds(s, k, f)
    BY <1>2, <1>6, <2>3, <2>4, <2>5, <2>6, <2>7, <2>8 DEF Finds
  <2> QED
    BY <2>9 DEF f
<1> QED
  BY <1>5, <1>6

\* What holds of what the vector shows.
LEMMA ShowsKeyed ==
  ASSUME NEW s, Keyed(s), s.siz \in Nat, NEW x, Shows(s, x)
  PROVE  Keyed(x)
<1>1. x.siz = s.siz /\ \A i \in 0 .. s.siz - 1 : Fetched(x, i) = Fetched(s, i)
  BY DEF Shows
<1> QED
  BY <1>1 DEF Keyed

\* A pair put where find() says it belongs keeps the order.
LEMMA InsertKeyed ==
  ASSUME PairsInVector, NEW s, Keyed(s), s.siz \in Nat, NEW k \in Keys, NEW v \in Vals,
         NEW a \in 0 .. s.siz,
         \A i \in 0 .. a - 1 : Fetched(s, i).first < k,
         \A i \in a .. s.siz - 1 : k < Fetched(s, i).first,
         NEW x, Inserts(s, a, [first |-> k, second |-> v], x)
  PROVE  Keyed(x)
<1> DEFINE m == s.siz
           e == [first |-> k, second |-> v]
           K(i) == Fetched(s, i).first
           L(i) == Fetched(x, i).first
<1>1. x.siz = m + 1 /\ m \in Nat /\ a \in Nat /\ e \in Pairs /\ e.first = k /\ k \in Int
  BY DEF Inserts, Pairs, PairsInVector
<1>2. \A j \in 0 .. m :
        Fetched(x, j) = IF j < a THEN Fetched(s, j) ELSE IF j = a THEN e ELSE Fetched(s, j - 1)
  BY DEF Inserts
<1>3. /\ \A i \in 0 .. m - 1 : Fetched(s, i) \in Pairs /\ K(i) \in Int
      /\ \A i, j \in 0 .. m - 1 : i < j => K(i) < K(j)
  BY DEF Keyed, Pairs, PairsInVector
<1> HIDE DEF e
<1>4. ASSUME NEW j \in 0 .. m
      PROVE  /\ Fetched(x, j) \in Pairs
             /\ j < a => j \in 0 .. m - 1 /\ L(j) = K(j) /\ L(j) < k
             /\ j = a => L(j) = k
             /\ a < j => j - 1 \in 0 .. m - 1 /\ L(j) = K(j - 1) /\ k < L(j)
  <2>1. CASE j < a
    <3>1. j \in 0 .. m - 1 /\ j \in 0 .. a - 1 /\ ~(a < j) /\ j # a
      BY <1>1, <2>1
    <3> QED
      BY <1>2, <1>3, <2>1, <3>1
  <2>2. CASE j = a
    <3>1. ~(j < a) /\ ~(a < j)
      BY <1>1, <2>2
    <3> QED
      BY <1>1, <1>2, <2>2, <3>1
  <2>3. CASE a < j
    <3>1. j - 1 \in 0 .. m - 1 /\ j - 1 \in a .. m - 1 /\ ~(j < a) /\ j # a
      BY <1>1, <2>3
    <3> QED
      BY <1>2, <1>3, <2>3, <3>1
  <2> QED
    BY <1>1, <2>1, <2>2, <2>3
<1>5. ASSUME NEW i \in 0 .. m, NEW j \in 0 .. m, i < j
      PROVE  L(i) < L(j)
  <2>0. i \in Int /\ j \in Int /\ a \in Int
    BY <1>1
  <2> HIDE DEF K, L
  <2>1. CASE j < a
    <3>1. i < a
      BY <1>5, <2>0, <2>1
    <3> QED
      BY <1>3, <1>4, <1>5, <2>1, <3>1
  <2>2. CASE a < i
    <3>1. a < j /\ i - 1 < j - 1
      BY <1>5, <2>0, <2>2
    <3> QED
      BY <1>3, <1>4, <2>2, <3>1
  <2>3. CASE i <= a /\ a <= j
    <3>1. i < a \/ i = a
      BY <2>0, <2>3
    <3>2. a < j \/ a = j
      BY <2>0, <2>3
    <3>3. L(i) < k \/ L(i) = k
      BY <1>4, <3>1
    <3>4. k < L(j) \/ k = L(j)
      BY <1>4, <3>2
    <3>5. ~(i = a /\ a = j)
      BY <1>5, <2>0
    <3>6. L(i) \in Int /\ L(j) \in Int
      BY <1>1, <1>3, <1>4, <3>1, <3>2
    <3>7. L(i) < k \/ k < L(j)
      BY <1>4, <3>1, <3>2, <3>5
    <3> QED
      BY <1>1, <3>3, <3>4, <3>6, <3>7
  <2> QED
    BY <2>0, <2>1, <2>2, <2>3
<1>6. x.siz - 1 = m
  BY <1>1
<1> QED
  BY <1>4, <1>5, <1>6 DEF Keyed

LEMMA SameInserts ==
  ASSUME NEW s, s.siz \in Nat, NEW t, Shows(s, t), NEW a \in 0 .. s.siz, NEW e, NEW x, Inserts(t, a, e, x)
  PROVE  Inserts(s, a, e, x)
<1> DEFINE m == s.siz
<1>1. t.siz = m /\ \A i \in 0 .. m - 1 : Fetched(t, i) = Fetched(s, i)
  BY DEF Shows
<1>2. x.siz = m + 1
  BY <1>1 DEF Inserts
<1>3. ASSUME NEW j \in 0 .. m
      PROVE  Fetched(x, j) = IF j < a THEN Fetched(s, j) ELSE IF j = a THEN e ELSE Fetched(s, j - 1)
  <2>1. Fetched(x, j) = IF j < a THEN Fetched(t, j) ELSE IF j = a THEN e ELSE Fetched(t, j - 1)
    BY <1>1 DEF Inserts
  <2>2. j < a => j \in 0 .. m - 1
    OBVIOUS
  <2>3. ~(j < a) /\ j # a => j - 1 \in 0 .. m - 1
    OBVIOUS
  <2> QED
    BY <1>1, <2>1, <2>2, <2>3
<1> QED
  BY <1>2, <1>3 DEF Inserts

\* The pair of k is at p.at: it was there, or it has been added with the value v.
Has(s, k, p) ==
  /\ Sound(p.s) /\ Shows(s, p.s) /\ p.at \in 0 .. s.siz - 1 /\ Fetched(s, p.at).first = k

Adds(s, k, v, p) ==
  /\ Sound(p.s) /\ Keyed(p.s) /\ p.at \in 0 .. s.siz
  /\ \A i \in 0 .. s.siz - 1 : Fetched(s, i).first # k
  /\ Inserts(s, p.at, [first |-> k, second |-> v], p.s)

\* insert(k, v)
LEMMA PutFacts ==
  ASSUME Holding, PairsInVector, NEW s, Sound(s), Keyed(s), s.siz < MaxSize,
         NEW k \in Keys, NEW v \in Vals
  PROVE  Has(s, k, Put(s, k, v)) \/ Adds(s, k, v, Put(s, k, v))
<1> DEFINE f == Find(s, k)
           m == s.siz
           e == [first |-> k, second |-> v]
           p == Put(s, k, v)
           x == Inserted(f.s, f.at, e)
<1>1. Finds(s, k, f) /\ m \in Nat
  BY FindFacts, ShownFacts
<1>2. p = IF f.found THEN [s |-> f.s, at |-> f.at] ELSE [s |-> x, at |-> f.at]
  BY DEF Put
<1> HIDE DEF f, p
<1>3. /\ Sound(f.s) /\ Shows(s, f.s) /\ f.at \in 0 .. m /\ f.found \in BOOLEAN
      /\ f.s.siz = m /\ \A i \in 0 .. m - 1 : Fetched(f.s, i) = Fetched(s, i)
  BY <1>1 DEF Finds, Shows
<1>4. CASE f.found
  <2>1. p.s = f.s /\ p.at = f.at /\ f.at \in 0 .. m - 1 /\ Fetched(s, f.at).first = k
    BY <1>1, <1>2, <1>3, <1>4 DEF Finds
  <2>2. Has(s, k, p)
    BY <1>3, <2>1 DEF Has
  <2> QED
    BY <2>2 DEF p
<1>5. CASE ~f.found
  <2>1. e \in Values
    BY DEF PairsInVector, Pairs
  <2>2. /\ \A i \in 0 .. f.at - 1 : Fetched(s, i).first < k
        /\ \A i \in f.at .. m - 1 : k < Fetched(s, i).first
        /\ f.at = m => Place(m) = 0 \/ f.s.prevTag = Tag(m)
    BY <1>1, <1>5 DEF Finds
  <2>3. Inserts(f.s, f.at, e, x) /\ Sound(x)
    BY <1>3, <2>1, <2>2, InsertedShows
  <2>4. p.s = x /\ p.at = f.at
    BY <1>2, <1>5
  <2> HIDE DEF x, e
  <2>5. Inserts(s, f.at, e, x)
    BY <1>1, <1>3, <2>3, SameInserts
  <2>6. Keyed(x)
    BY <1>1, <1>3, <2>2, <2>5, InsertKeyed DEF e
  <2>7. ASSUME NEW i \in 0 .. m - 1
        PROVE  Fetched(s, i).first # k
    <3>1. i \in 0 .. f.at - 1 \/ i \in f.at .. m - 1
      BY <1>1, <1>3
    <3>2. Fetched(s, i).first \in Int /\ k \in Int
      BY DEF Keyed, Pairs, PairsInVector
    <3> QED
      BY <2>2, <3>1, <3>2
  <2>8. Adds(s, k, v, p)
    BY <1>3, <2>3, <2>4, <2>5, <2>6, <2>7 DEF Adds, e
  <2> QED
    BY <2>8 DEF p
<1> QED
  BY <1>3, <1>4, <1>5

\* map[k] up to the pair
LEMMA SlotFacts ==
  ASSUME Holding, PairsInVector, NEW s, Sound(s), Keyed(s), s.siz < MaxSize, NEW k \in Keys
  PROVE  Has(s, k, Slot(Find(s, k), k)) \/ Adds(s, k, 1, Slot(Find(s, k), k))
<1> DEFINE f == Find(s, k)
           m == s.siz
           p == Put(f.s, k, 1)
<1>1. Finds(s, k, f) /\ m \in Nat
  BY FindFacts, ShownFacts
<1>2. Slot(f, k) = IF f.found THEN f ELSE p
  BY DEF Slot
<1> HIDE DEF f
<1>3. /\ Sound(f.s) /\ Shows(s, f.s) /\ f.at \in 0 .. m /\ f.found \in BOOLEAN
      /\ f.s.siz = m /\ \A i \in 0 .. m - 1 : Fetched(f.s, i) = Fetched(s, i)
  BY <1>1 DEF Finds, Shows
<1>4. CASE f.found
  <2>1. f.at \in 0 .. m - 1 /\ Fetched(s, f.at).first = k
    BY <1>1, <1>3, <1>4 DEF Finds
  <2>2. Has(s, k, f)
    BY <1>3, <2>1 DEF Has
  <2> QED
    BY <1>2, <1>4, <2>2 DEF f
<1>5. CASE ~f.found
  <2>1. Keyed(f.s)
    BY <1>1, <1>3, ShowsKeyed
  <2>2. Has(f.s, k, p) \/ Adds(f.s, k, 1, p)
    BY <1>3, <2>1, PutFacts DEF PairsInVector
  <2> HIDE DEF p
  <2>3. Has(f.s, k, p) => Has(s, k, p)
    BY <1>3 DEF Has, Shows
  <2>4. ASSUME Adds(f.s, k, 1, p)
        PROVE  Adds(s, k, 1, p)
    <3>1. /\ Sound(p.s) /\ Keyed(p.s) /\ p.at \in 0 .. m
          /\ \A i \in 0 .. m - 1 : Fetched(s, i).first # k
          /\ Inserts(f.s, p.at, [first |-> k, second |-> 1], p.s)
      BY <1>3, <2>4 DEF Adds
    <3>2. Inserts(s, p.at, [first |-> k, second |-> 1], p.s)
      BY <1>1, <1>3, <3>1, SameInserts
    <3> QED
      BY <3>1, <3>2 DEF Adds
  <2> QED
    BY <1>2, <1>5, <2>2, <2>3, <2>4 DEF f, p
<1> QED
  BY <1>3, <1>4, <1>5
-------------------------------------------------------------------------------
(* What the map's calls do to its pairs. *)

\* A pair more, of a key that was not there.
Adding(s, x) ==
  \E k \in Keys, v \in Vals, a \in 0 .. s.siz :
    /\ \A i \in 0 .. s.siz - 1 : Fetched(s, i).first # k
    /\ Inserts(s, a, [first |-> k, second |-> v], x)

\* Another value of a key that is there.
Changing(s, x) ==
  \E k \in Keys, v \in Vals, a \in 0 .. s.siz - 1 :
    Fetched(s, a).first = k /\ Writes(s, a, [first |-> k, second |-> v], x)

MapEffect(s, x) ==
  Sound(x) /\ Keyed(x) /\ (Shows(s, x) \/ Adding(s, x) \/ ("assign" \in program /\ Changing(s, x)))

LEMMA WriteKeyed ==
  ASSUME NEW s, Keyed(s), s.siz \in Nat, NEW a \in 0 .. s.siz - 1, NEW e \in Pairs,
         e.first = Fetched(s, a).first, NEW x, Writes(s, a, e, x)
  PROVE  Keyed(x)
<1>1. /\ x.siz = s.siz /\ Fetched(x, a) = e
      /\ \A j \in 0 .. s.siz - 1 : j # a => Fetched(x, j) = Fetched(s, j)
  BY DEF Writes
<1>2. \A j \in 0 .. s.siz - 1 : Fetched(x, j).first = Fetched(s, j).first /\ Fetched(x, j) \in Pairs
  BY <1>1 DEF Keyed
<1> QED
  BY <1>1, <1>2 DEF Keyed

LEMMA InsertWritten ==
  ASSUME NEW s, s.siz \in Nat, NEW a \in 0 .. s.siz, NEW d, NEW y, Inserts(s, a, d, y),
         NEW e, NEW x, Writes(y, a, e, x)
  PROVE  Inserts(s, a, e, x)
<1> DEFINE m == s.siz
<1>1. y.siz = m + 1 /\ x.siz = m + 1 /\ Fetched(x, a) = e
  BY DEF Inserts, Writes
<1>2. \A j \in 0 .. m : j # a => Fetched(x, j) = Fetched(y, j)
  <2>1. y.siz - 1 = m
    BY <1>1
  <2> QED
    BY <2>1 DEF Writes
<1>3. \A j \in 0 .. m : Fetched(y, j) = IF j < a THEN Fetched(s, j)
                                        ELSE IF j = a THEN d ELSE Fetched(s, j - 1)
  BY DEF Inserts
<1>4. \A j \in 0 .. m : Fetched(x, j) = IF j < a THEN Fetched(s, j)
                                        ELSE IF j = a THEN e ELSE Fetched(s, j - 1)
  <2> SUFFICES ASSUME NEW j \in 0 .. m
               PROVE  Fetched(x, j) = IF j < a THEN Fetched(s, j)
                                      ELSE IF j = a THEN e ELSE Fetched(s, j - 1)
    OBVIOUS
  <2>1. CASE j = a
    <3>1. ~(j < a)
      BY <2>1
    <3> QED
      BY <1>1, <2>1, <3>1
  <2>2. CASE j # a
    BY <1>2, <1>3, <2>2
  <2> QED
    BY <2>1, <2>2
<1> QED
  BY <1>1, <1>4 DEF Inserts

\* The pair that insert() or map[k] comes to.
LEMMA PairFacts ==
  ASSUME PairsInVector, NEW s, Sound(s), Keyed(s), s.siz \in Nat, NEW k \in Keys, NEW v \in Vals,
         NEW p, Has(s, k, p) \/ Adds(s, k, v, p)
  PROVE  /\ Sound(p.s) /\ Keyed(p.s) /\ p.at \in 0 .. p.s.siz - 1 /\ p.s.siz \in Nat
         /\ Fetched(p.s, p.at).first = k /\ MapEffect(s, p.s)
<1> DEFINE m == s.siz
           y == p.s
           a == p.at
<1>1. CASE Has(s, k, p)
  <2>1. Sound(y) /\ Shows(s, y) /\ a \in 0 .. m - 1 /\ Fetched(s, a).first = k
    BY <1>1 DEF Has
  <2>2. y.siz = m /\ Fetched(y, a) = Fetched(s, a)
    BY <2>1 DEF Shows
  <2>3. Keyed(y)
    BY <2>1, ShowsKeyed
  <2> QED
    BY <2>1, <2>2, <2>3 DEF MapEffect
<1>2. CASE Adds(s, k, v, p)
  <2>1. /\ Sound(y) /\ Keyed(y) /\ a \in 0 .. m
        /\ \A i \in 0 .. m - 1 : Fetched(s, i).first # k
        /\ Inserts(s, a, [first |-> k, second |-> v], y)
    BY <1>2 DEF Adds
  <2>2. y.siz = m + 1 /\ ~(a < a)
    BY <2>1 DEF Inserts
  <2>3. Fetched(y, a) = [first |-> k, second |-> v]
    BY <2>1, <2>2 DEF Inserts
  <2>4. Fetched(y, a).first = k
    BY <2>3
  <2>5. Adding(s, y)
    BY <2>1 DEF Adding
  <2> QED
    BY <2>1, <2>2, <2>4, <2>5 DEF MapEffect
<1> QED
  BY <1>1, <1>2

\* To look at an element after a call makes no difference.
LEMMA EffectShown ==
  ASSUME NEW s, s.siz \in Nat, NEW y, MapEffect(s, y), y.siz \in Nat, NEW x, Sound(x), Shows(y, x)
  PROVE  MapEffect(s, x)
<1>1. Keyed(x) /\ x.siz = y.siz /\ \A j \in 0 .. y.siz - 1 : Fetched(x, j) = Fetched(y, j)
  BY ShowsKeyed DEF MapEffect, Shows
<1>2. CASE Shows(s, y)
  <2>1. Shows(s, x)
    BY <1>1, <1>2 DEF Shows
  <2> QED
    BY <1>1, <2>1 DEF MapEffect
<1>3. CASE Adding(s, y)
  <2>1. PICK k \in Keys, v \in Vals, a \in 0 .. s.siz :
               /\ \A i \in 0 .. s.siz - 1 : Fetched(s, i).first # k
               /\ Inserts(s, a, [first |-> k, second |-> v], y)
    BY <1>3 DEF Adding
  <2>2. y.siz - 1 = s.siz
    BY <2>1 DEF Inserts
  <2>3. Inserts(s, a, [first |-> k, second |-> v], x)
    BY <1>1, <2>1, <2>2 DEF Inserts
  <2>4. Adding(s, x)
    BY <2>1, <2>3 DEF Adding
  <2> QED
    BY <1>1, <2>4 DEF MapEffect
<1>4. CASE "assign" \in program /\ Changing(s, y)
  <2>1. PICK k \in Keys, v \in Vals, a \in 0 .. s.siz - 1 :
               Fetched(s, a).first = k /\ Writes(s, a, [first |-> k, second |-> v], y)
    BY <1>4 DEF Changing
  <2>2. Writes(s, a, [first |-> k, second |-> v], x)
    BY <1>1, <2>1 DEF Writes
  <2>3. Changing(s, x)
    BY <2>1, <2>2 DEF Changing
  <2> QED
    BY <1>1, <1>4, <2>3 DEF MapEffect
<1> QED
  BY <1>2, <1>3, <1>4 DEF MapEffect

\* map[k] = v
LEMMA AssignFacts ==
  ASSUME Holding, PairsInVector, "assign" \in program, NEW s, Sound(s), Keyed(s), s.siz \in Nat,
         NEW k \in Keys, NEW v \in Vals, NEW w \in Vals, NEW p, Has(s, k, p) \/ Adds(s, k, w, p)
  PROVE  MapEffect(s, WriteHeld(Touch(p.s, p.at), p.at, [first |-> k, second |-> v]))
<1> DEFINE m == s.siz
           y == p.s
           a == p.at
           e == [first |-> k, second |-> v]
           x == WriteHeld(Touch(y, a), a, e)
<1>1. /\ Sound(y) /\ Keyed(y) /\ a \in 0 .. y.siz - 1 /\ y.siz \in Nat /\ Fetched(y, a).first = k
  BY PairFacts
<1>2. e \in Pairs /\ e.first = k /\ e \in Values
  BY DEF PairsInVector, Pairs
<1> HIDE DEF e
<1>3. Writes(y, a, e, x) /\ Sound(x)
  BY <1>1, <1>2, AssignedShows
<1> HIDE DEF x
<1>4. Keyed(x)
  BY <1>1, <1>2, <1>3, WriteKeyed
<1>5. CASE Has(s, k, p)
  <2>1. Shows(s, y) /\ a \in 0 .. m - 1 /\ Fetched(s, a).first = k
    BY <1>5 DEF Has
  <2>2. Writes(s, a, e, x)
    BY <1>3, <2>1 DEF Writes, Shows
  <2>3. Changing(s, x)
    BY <2>1, <2>2 DEF Changing, e
  <2> QED
    BY <1>3, <1>4, <2>3 DEF MapEffect, x, e
<1>6. CASE Adds(s, k, w, p)
  <2>1. /\ a \in 0 .. m /\ \A i \in 0 .. m - 1 : Fetched(s, i).first # k
        /\ Inserts(s, a, [first |-> k, second |-> w], y)
    BY <1>6 DEF Adds
  <2>2. Inserts(s, a, e, x)
    BY <1>3, <2>1, InsertWritten
  <2>3. Adding(s, x)
    BY <2>1, <2>2 DEF Adding, e
  <2> QED
    BY <1>3, <1>4, <2>3 DEF MapEffect, x, e
<1> QED
  BY <1>5, <1>6

\* Every call of the map.
LEMMA MapStep ==
  ASSUME Holding, PairsInVector, Sound(State), Keyed(State), MapNext
  PROVE  \E x : Become(x) /\ MapEffect(State, x)
<1> DEFINE s == State
<1>1. s.siz = siz /\ s.order = order /\ s.siz \in Nat /\ Shows(s, s)
  BY StateParts, ShownFacts DEF Shows
<1>2. ASSUME NEW x, Sound(x), Shows(s, x)
      PROVE  MapEffect(s, x)
  BY <1>1, <1>2, ShowsKeyed DEF MapEffect
<1>3. ASSUME NEW k \in Keys, NEW v \in Vals, MapInsert(k, v)
      PROVE  \E x : Become(x) /\ MapEffect(s, x)
  <2> DEFINE p == Put(s, k, v)
  <2>1. s.siz < MaxSize /\ Become(p.s)
    BY <1>1, <1>3 DEF MapInsert
  <2>2. Has(s, k, p) \/ Adds(s, k, v, p)
    BY <2>1, PutFacts
  <2> HIDE DEF p, s
  <2>3. MapEffect(s, p.s)
    BY <1>1, <2>2, PairFacts DEF s
  <2> QED
    BY <2>1, <2>3
<1>4. ASSUME NEW k \in Keys, MapFind(k)
      PROVE  \E x : Become(x) /\ MapEffect(s, x)
  <2> DEFINE f == Find(s, k)
  <2>1. Become(f.s) /\ Finds(s, k, f)
    BY <1>4, FindFacts DEF MapFind
  <2> HIDE DEF f, s
  <2>2. Sound(f.s) /\ Shows(s, f.s)
    BY <2>1 DEF Finds
  <2> QED
    BY <1>2, <2>1, <2>2
<1>5. ASSUME NEW k \in Keys, MapIndex(k)
      PROVE  \E x : Become(x) /\ MapEffect(s, x)
  <2> DEFINE p == Slot(Find(s, k), k)
             x == Touch(p.s, p.at)
  <2>1. s.siz < MaxSize /\ Become(x)
    BY <1>1, <1>5 DEF MapIndex, Deref
  <2>2. Has(s, k, p) \/ Adds(s, k, 1, p)
    BY <2>1, SlotFacts
  <2>3. 1 \in Vals
    BY DEF PairsInVector
  <2> HIDE DEF p, s
  <2>4. Sound(p.s) /\ Keyed(p.s) /\ p.at \in 0 .. p.s.siz - 1 /\ p.s.siz \in Nat /\ MapEffect(s, p.s)
    BY <1>1, <2>2, <2>3, PairFacts DEF s
  <2>5. Shows(p.s, x) /\ Sound(x)
    BY <2>4, TouchShows
  <2> HIDE DEF x
  <2>6. MapEffect(s, x)
    BY <1>1, <2>4, <2>5, EffectShown
  <2> QED
    BY <2>1, <2>6
<1>6. ASSUME NEW k \in Keys, NEW v \in Vals, MapAssign(k, v)
      PROVE  \E x : Become(x) /\ MapEffect(s, x)
  <2> DEFINE p == Slot(Find(s, k), k)
             x == WriteHeld(Touch(p.s, p.at), p.at, [first |-> k, second |-> v])
  <2>1. s.siz < MaxSize /\ "assign" \in program /\ Become(x)
    BY <1>1, <1>6 DEF MapAssign, Deref
  <2>2. Has(s, k, p) \/ Adds(s, k, 1, p)
    BY <2>1, SlotFacts
  <2>3. 1 \in Vals
    BY DEF PairsInVector
  <2> HIDE DEF p, s
  <2>4. MapEffect(s, x)
    BY <1>1, <2>1, <2>2, <2>3, AssignFacts DEF s
  <2> HIDE DEF x
  <2> QED
    BY <2>1, <2>4
<1>7. ASSUME NEW i \in Indices, At(i)
      PROVE  \E x : Become(x) /\ MapEffect(s, x)
  <2> DEFINE x == Touch(s, i)
  <2>1. Become(x) /\ i \in 0 .. s.siz - 1
    BY <1>1, <1>7 DEF At, Indices
  <2>2. Shows(s, x) /\ Sound(x)
    BY <2>1, TouchShows
  <2> HIDE DEF x, s
  <2> QED
    BY <1>2, <2>1, <2>2
<1>8. ASSUME OthersEvict
      PROVE  \E x : Become(x) /\ MapEffect(s, x)
  <2> DEFINE x == Evict(s, Last(s.order))
  <2>1. Become(x) /\ s.order # <<>> /\ "shared" \in program
    BY <1>1, <1>8 DEF OthersEvict
  <2>2. Shows(s, x) /\ Sound(x)
    BY <2>1, EvictedShows
  <2> HIDE DEF x, s
  <2> QED
    BY <1>2, <2>1, <2>2
<1> QED
  BY <1>3, <1>4, <1>5, <1>6, <1>7, <1>8 DEF MapNext
-------------------------------------------------------------------------------
(* The map keeps its order. *)

\* Between two calls of a map.
MapInv == IInv /\ ~stuck /\ Keyed(State)

LEMMA MapsHold ==
  ASSUME MapsFit, program \in Programs
  PROVE  Holding
BY DEF MapsFit, AssignsFit, Disciplined, Holding, PrefetchFits, Forward

\* Keys are read from the parts of a state.
LEMMA KeyedOfParts ==
  ASSUME NEW x, Keyed(x), NEW y, y.siz = x.siz, y.cached = x.cached, y.remote = x.remote
  PROVE  Keyed(y)
<1>1. \A i : Fetched(y, i) = Fetched(x, i)
  BY DEF Fetched, Where, Resident
<1> QED
  BY <1>1 DEF Keyed

LEMMA MapInit ==
  ASSUME Init
  PROVE  MapInv
<1>1. IInv /\ ~stuck /\ State.siz = 0
  BY InitSound, StateParts DEF Init
<1> QED
  BY <1>1 DEF MapInv, Keyed

LEMMA MapStepKeeps ==
  ASSUME MapsFit, PairsInVector, MapInv, MapNext
  PROVE  MapInv'
<1>1. program \in Programs /\ Sound(State) /\ Keyed(State)
  BY SoundBefore DEF MapInv, IInv
<1>2. Holding
  BY <1>1, MapsHold
<1>3. PICK x : Become(x) /\ MapEffect(State, x)
  BY <1>1, <1>2, MapStep
<1>4. Sound(x) /\ Keyed(x) /\ x.stuck = FALSE
  BY <1>3, SoundFacts, StateFacts DEF MapEffect
<1>5. IInv'
  BY <1>1, <1>3, <1>4, SoundStep
<1>6. stuck' = FALSE /\ siz' = x.siz /\ cached' = x.cached /\ remote' = x.remote
  BY <1>3, <1>4 DEF Become
<1> DEFINE y == State'
<1>7. y.siz = x.siz /\ y.cached = x.cached /\ y.remote = x.remote
  BY <1>6 DEF State
<1>8. Keyed(y)
  <2> HIDE DEF y
  <2> QED
    BY <1>4, <1>7, KeyedOfParts
<1>9. Keyed(State)'
  BY <1>8 DEF Keyed, Fetched, Where, Resident, Tag, Place
<1> QED
  BY <1>5, <1>6, <1>9 DEF MapInv

LEMMA MapStutterKeeps ==
  ASSUME MapInv, UNCHANGED vars
  PROVE  MapInv'
<1>1. IInv'
  BY StutterSound DEF MapInv
<1>2. stuck' = stuck /\ State' = State
  BY DEF vars, State
<1> DEFINE x == State
           y == State'
<1>3. Keyed(y)
  <2>1. Keyed(x) /\ y = x
    BY <1>2 DEF MapInv
  <2> HIDE DEF x, y
  <2> QED
    BY <2>1
<1>4. Keyed(State)'
  BY <1>3 DEF Keyed, Fetched, Where, Resident, Tag, Place
<1> QED
  BY <1>1, <1>2, <1>4 DEF MapInv

LEMMA MapInvariance ==
  ASSUME MapsFit, PairsInVector
  PROVE  MapSpec => []MapInv
<1>1. Init => MapInv
  BY MapInit
<1>2. MapInv /\ [MapNext]_vars => MapInv'
  BY MapStepKeeps, MapStutterKeeps
<1> QED
  BY <1>1, <1>2, PTL DEF MapSpec

\* The iterators of a map give its keys in strictly ascending order, though they read
\* blocks that its calls have moved to workers and back, and none is ever asked for in
\* vain.
THEOREM MapAscends ==
  ASSUME MapsFit, PairsInVector
  PROVE  MapSpec => []Ascending
<1>1. ASSUME MapInv
      PROVE  Ascending
  <2> DEFINE s == State
             e == Shown(s)
  <2>1. Sound(s) /\ Keyed(s) /\ program \in Programs /\ ~stuck
    BY <1>1, SoundBefore DEF MapInv, IInv
  <2>2. Holding
    BY <2>1, MapsHold
  <2>3. Elements = e
    BY <2>1, <2>2, ElementsBefore
  <2>4. Len(e) = s.siz /\ s.siz \in Nat /\ \A i \in 1 .. s.siz : e[i] = Fetched(s, i - 1)
    BY <2>1, <2>2, ShownFacts
  <2> HIDE DEF s, e
  <2>5. ASSUME NEW i \in 1 .. Len(e) - 1
        PROVE  e[i].first < e[i + 1].first
    <3>1. i \in 1 .. s.siz /\ i + 1 \in 1 .. s.siz /\ (i + 1) - 1 = i
      BY <2>4
    <3>2. i - 1 \in 0 .. s.siz - 1 /\ i \in 0 .. s.siz - 1 /\ i - 1 < i
      BY <2>4
    <3>3. Fetched(s, i - 1).first < Fetched(s, i).first
      BY <2>1, <3>2 DEF Keyed
    <3> QED
      BY <2>4, <3>1, <3>3
  <2> QED
    BY <2>1, <2>3, <2>5 DEF Ascending
<1> QED
  BY <1>1, MapInvariance, PTL
-------------------------------------------------------------------------------
(* The map as a function of keys. *)

\* The function m has the pairs that the vector shows.
Lists(s, m) ==
  /\ m = [k \in {Fetched(s, i).first : i \in 0 .. s.siz - 1} |-> m[k]]
  /\ \A i \in 0 .. s.siz - 1 : m[Fetched(s, i).first] = Fetched(s, i).second

\* The function of a sequence of pairs.
EntriesOf(e) ==
  [k \in {e[i].first : i \in DOMAIN e} |-> e[CHOOSE i \in DOMAIN e : e[i].first = k].second]

LEMMA EntriesListed ==
  ASSUME PairsInVector, NEW s, Keyed(s), s.siz \in Nat,
         NEW e, DOMAIN e = 1 .. s.siz, \A i \in 1 .. s.siz : e[i] = Fetched(s, i - 1)
  PROVE  Lists(s, EntriesOf(e))
<1> DEFINE m == EntriesOf(e)
           D == {Fetched(s, i).first : i \in 0 .. s.siz - 1}
           at(k) == CHOOSE i \in DOMAIN e : e[i].first = k
<1>1. {e[i].first : i \in DOMAIN e} = D
  <2>1. \A i \in 1 .. s.siz : i - 1 \in 0 .. s.siz - 1
    OBVIOUS
  <2>2. \A i \in 0 .. s.siz - 1 : i + 1 \in 1 .. s.siz /\ (i + 1) - 1 = i
    OBVIOUS
  <2> QED
    BY <2>1, <2>2
<1>2. m = [k \in D |-> e[at(k)].second]
  BY <1>1 DEF EntriesOf
<1> HIDE DEF m
<1>3. ASSUME NEW i \in 0 .. s.siz - 1
      PROVE  m[Fetched(s, i).first] = Fetched(s, i).second
  <2> DEFINE k == Fetched(s, i).first
             c == at(k)
  <2>1. i + 1 \in DOMAIN e /\ e[i + 1] = Fetched(s, i)
    OBVIOUS
  <2>2. c \in DOMAIN e /\ e[c].first = k
    BY <2>1
  <2> HIDE DEF at
  <2>3. m[k] = e[c].second
    <3>1. k \in D
      OBVIOUS
    <3> QED
      BY <1>2, <3>1
  <2> HIDE DEF c
  <2>4. c - 1 \in 0 .. s.siz - 1 /\ e[c] = Fetched(s, c - 1)
    BY <2>2
  <2>5. \A j \in 0 .. s.siz - 1 : Fetched(s, j).first \in Int
    BY DEF Keyed, Pairs, PairsInVector
  <2>6. c - 1 = i
    <3> DEFINE b == c - 1
    <3>1. b \in 0 .. s.siz - 1 /\ Fetched(s, b).first = Fetched(s, i).first
      BY <2>2, <2>4
    <3> HIDE DEF b
    <3>2. ~(b < i)
      BY <2>5, <3>1 DEF Keyed
    <3>3. ~(i < b)
      BY <2>5, <3>1 DEF Keyed
    <3>4. b = i
      BY <3>1, <3>2, <3>3
    <3> QED
      BY <3>4 DEF b
  <2> QED
    BY <2>3, <2>4, <2>6
<1>4. m = [k \in D |-> m[k]]
  <2> HIDE DEF at
  <2> QED
    BY <1>2
<1>5. Lists(s, m)
  BY <1>3, <1>4 DEF Lists
<1> QED
  BY <1>5 DEF m

\* Only one function lists them.
LEMMA ListsOne ==
  ASSUME NEW s, NEW m, Lists(s, m), NEW n, Lists(s, n)
  PROVE  m = n
<1> DEFINE D == {Fetched(s, i).first : i \in 0 .. s.siz - 1}
<1>1. m = [k \in D |-> m[k]] /\ n = [k \in D |-> n[k]]
  BY DEF Lists
<1>2. \A k \in D : m[k] = n[k]
  BY DEF Lists
<1> HIDE DEF D
<1> QED
  BY <1>1, <1>2

LEMMA ShownListed ==
  ASSUME NEW s, NEW m, Lists(s, m), NEW x, Shows(s, x)
  PROVE  Lists(x, m)
<1>1. x.siz = s.siz /\ \A i \in 0 .. s.siz - 1 : Fetched(x, i) = Fetched(s, i)
  BY DEF Shows
<1>2. {Fetched(x, i).first : i \in 0 .. x.siz - 1} = {Fetched(s, i).first : i \in 0 .. s.siz - 1}
  BY <1>1
<1>3. m = [k \in {Fetched(s, i).first : i \in 0 .. s.siz - 1} |-> m[k]]
  BY DEF Lists
<1>4. \A i \in 0 .. x.siz - 1 : m[Fetched(x, i).first] = Fetched(x, i).second
  BY <1>1 DEF Lists
<1> QED
  BY <1>2, <1>3, <1>4 DEF Lists

\* The function in which k has the value v.
Having(m, k, v) == [j \in DOMAIN m \cup {k} |-> IF j = k THEN v ELSE m[j]]

LEMMA AddedListed ==
  ASSUME NEW s, s.siz \in Nat, NEW m, Lists(s, m), NEW k, NEW v, NEW a \in 0 .. s.siz,
         \A i \in 0 .. s.siz - 1 : Fetched(s, i).first # k,
         NEW x, Inserts(s, a, [first |-> k, second |-> v], x)
  PROVE  Lists(x, Having(m, k, v)) /\ k \notin DOMAIN m
<1> DEFINE n == s.siz
           D == {Fetched(s, i).first : i \in 0 .. n - 1}
           C == {Fetched(x, i).first : i \in 0 .. x.siz - 1}
           e == [first |-> k, second |-> v]
           h == Having(m, k, v)
<1>1. m = [j \in D |-> m[j]] /\ \A i \in 0 .. n - 1 : m[Fetched(s, i).first] = Fetched(s, i).second
  BY DEF Lists
<1>2. /\ x.siz = n + 1
      /\ \A j \in 0 .. n :
           Fetched(x, j) = IF j < a THEN Fetched(s, j) ELSE IF j = a THEN e ELSE Fetched(s, j - 1)
  BY DEF Inserts
<1>3. e.first = k /\ e.second = v
  OBVIOUS
<1> HIDE DEF e
<1>4. /\ Fetched(x, a) = e /\ a \in 0 .. n
      /\ \A i \in 0 .. n - 1 : \E j \in 0 .. n : Fetched(x, j) = Fetched(s, i)
      /\ \A j \in 0 .. n : Fetched(x, j) = e \/ \E i \in 0 .. n - 1 : Fetched(x, j) = Fetched(s, i)
  <2>1. Fetched(x, a) = e
    <3>1. ~(a < a)
      OBVIOUS
    <3> QED
      BY <1>2, <3>1
  <2>2. ASSUME NEW i \in 0 .. n - 1
        PROVE  \E j \in 0 .. n : Fetched(x, j) = Fetched(s, i)
    <3>1. CASE i < a
      <4>1. i \in 0 .. n
        OBVIOUS
      <4> QED
        BY <1>2, <3>1, <4>1
    <3>2. CASE ~(i < a)
      <4> DEFINE j == i + 1
      <4>1. j \in 0 .. n /\ ~(j < a) /\ j # a /\ j - 1 = i
        BY <3>2
      <4>2. Fetched(x, j) = Fetched(s, i)
        BY <1>2, <4>1
      <4> QED
        BY <4>1, <4>2
    <3> QED
      BY <3>1, <3>2
  <2>3. ASSUME NEW j \in 0 .. n
        PROVE  Fetched(x, j) = e \/ \E i \in 0 .. n - 1 : Fetched(x, j) = Fetched(s, i)
    <3>1. CASE j < a
      <4>1. j \in 0 .. n - 1
        BY <3>1
      <4> QED
        BY <1>2, <3>1, <4>1
    <3>2. CASE j = a
      BY <2>1, <3>2
    <3>3. CASE ~(j < a) /\ j # a
      <4>1. j - 1 \in 0 .. n - 1
        BY <3>3
      <4> QED
        BY <1>2, <3>3, <4>1
    <3> QED
      BY <3>1, <3>2, <3>3
  <2> QED
    BY <2>1, <2>2, <2>3
<1>5. x.siz - 1 = n
  <2>1. x.siz = n + 1
    BY <1>2
  <2> QED
    BY <2>1
<1>6. C = D \cup {k}
  <2>1. \A c \in C : c \in D \cup {k}
    BY <1>3, <1>4, <1>5
  <2>2. k \in C
    BY <1>3, <1>4, <1>5
  <2>3. ASSUME NEW d \in D
        PROVE  d \in C
    <3>1. PICK i \in 0 .. n - 1 : d = Fetched(s, i).first
      OBVIOUS
    <3>2. PICK j \in 0 .. n : Fetched(x, j) = Fetched(s, i)
      BY <1>4
    <3> QED
      BY <1>5, <3>1, <3>2
  <2> QED
    BY <2>1, <2>2, <2>3
<1>7. DOMAIN m = D /\ k \notin D
  BY <1>1
<1>8. h = [j \in D \cup {k} |-> IF j = k THEN v ELSE m[j]]
  BY <1>7 DEF Having
<1> HIDE DEF h
<1>9. ASSUME NEW j \in 0 .. n
      PROVE  h[Fetched(x, j).first] = Fetched(x, j).second
  <2>1. CASE Fetched(x, j) = e
    BY <1>3, <1>8, <2>1
  <2>2. ASSUME NEW i \in 0 .. n - 1, Fetched(x, j) = Fetched(s, i)
        PROVE  h[Fetched(x, j).first] = Fetched(x, j).second
    <3>1. Fetched(s, i).first \in D /\ Fetched(s, i).first # k
      OBVIOUS
    <3>2. h[Fetched(s, i).first] = m[Fetched(s, i).first]
      BY <1>8, <3>1
    <3> QED
      BY <1>1, <2>2, <3>2
  <2> QED
    BY <1>4, <2>1, <2>2
<1>10. h = [j \in C |-> h[j]]
  BY <1>6, <1>8
<1>11. Lists(x, h)
  BY <1>5, <1>9, <1>10 DEF Lists
<1> QED
  BY <1>7, <1>11 DEF h

LEMMA ChangedListed ==
  ASSUME NEW s, s.siz \in Nat, Keyed(s), PairsInVector, NEW m, Lists(s, m), NEW k, NEW v,
         NEW a \in 0 .. s.siz - 1, Fetched(s, a).first = k,
         NEW x, Writes(s, a, [first |-> k, second |-> v], x)
  PROVE  Lists(x, Having(m, k, v))
<1> DEFINE n == s.siz
           D == {Fetched(s, i).first : i \in 0 .. n - 1}
           C == {Fetched(x, i).first : i \in 0 .. x.siz - 1}
           e == [first |-> k, second |-> v]
           h == Having(m, k, v)
<1>1. m = [j \in D |-> m[j]] /\ \A i \in 0 .. n - 1 : m[Fetched(s, i).first] = Fetched(s, i).second
  BY DEF Lists
<1>2. /\ x.siz = n /\ Fetched(x, a) = e
      /\ \A j \in 0 .. n - 1 : j # a => Fetched(x, j) = Fetched(s, j)
  BY DEF Writes
<1>3. e.first = k /\ e.second = v
  OBVIOUS
<1> HIDE DEF e
<1>4. \A j \in 0 .. n - 1 : Fetched(x, j).first = Fetched(s, j).first
  BY <1>2, <1>3
<1>5. C = D
  BY <1>2, <1>4
<1>6. DOMAIN m = D /\ k \in D
  BY <1>1
<1>7. h = [j \in D |-> IF j = k THEN v ELSE m[j]]
  <2>1. D \cup {k} = D
    BY <1>6
  <2> QED
    BY <1>6, <2>1 DEF Having
<1> HIDE DEF h
<1>8. ASSUME NEW j \in 0 .. n - 1
      PROVE  h[Fetched(x, j).first] = Fetched(x, j).second
  <2>1. CASE j = a
    BY <1>2, <1>3, <1>6, <1>7, <2>1
  <2>2. CASE j # a
    <3>1. Fetched(x, j) = Fetched(s, j) /\ Fetched(s, j).first \in D
      BY <1>2, <2>2
    <3>2. \A i \in 0 .. n - 1 : Fetched(s, i).first \in Int
      BY DEF Keyed, Pairs, PairsInVector
    <3>3. j < a \/ a < j
      BY <2>2
    <3>4. Fetched(s, j).first # k
      BY <3>2, <3>3 DEF Keyed
    <3>5. h[Fetched(s, j).first] = m[Fetched(s, j).first]
      BY <1>7, <3>1, <3>4
    <3> QED
      BY <1>1, <3>1, <3>5
  <2> QED
    BY <2>1, <2>2
<1>9. h = [j \in C |-> h[j]]
  BY <1>5, <1>7
<1>10. Lists(x, h)
  BY <1>2, <1>8, <1>9 DEF Lists
<1> QED
  BY <1>10 DEF h

\* The map's functions are those of MapStore.
LEMMA MapStoreSteps ==
  /\ \A k \in Keys \ DOMAIN Entries, v \in Vals : Entries' = Having(Entries, k, v) => Function!Add
  /\ \A k \in Keys, v \in Vals : Entries' = Having(Entries, k, v) => Function!Next
<1> DEFINE with(k, v) == Function!With(k, v)
<1>1. \A k, v : with(k, v) = Having(Entries, k, v)
  BY DEF Function!With, Having
<1>2. /\ Function!Insert = {with(k, v) : k \in Keys \ DOMAIN Entries, v \in Vals}
      /\ Function!Assign = {with(k, v) : k \in Keys, v \in Vals}
  BY DEF Function!Insert, Function!Assign
<1> HIDE DEF with
<1>3. ASSUME NEW k \in Keys \ DOMAIN Entries, NEW v \in Vals, Entries' = Having(Entries, k, v)
      PROVE  Function!Add
  <2>1. Entries' = with(k, v)
    BY <1>1, <1>3
  <2>2. Entries' \in Function!Insert
    BY <1>2, <2>1
  <2> QED
    BY <2>2 DEF Function!Add
<1>4. ASSUME NEW k \in Keys, NEW v \in Vals, Entries' = Having(Entries, k, v)
      PROVE  Function!Next
  <2>1. Entries' = with(k, v)
    BY <1>1, <1>4
  <2>2. Entries' \in Function!Assign
    BY <1>2, <2>1
  <2> QED
    BY <2>2 DEF Function!Next
<1> QED
  BY <1>3, <1>4

\* Entries is the function of the sequence that the vector shows.
LEMMA EntriesBefore ==
  ASSUME PairsInVector, Holding, Sound(State), Keyed(State)
  PROVE  Lists(State, Entries)
<1> DEFINE s == State
           e == Shown(s)
<1>1. Elements = e
  BY ElementsBefore
<1>2. e \in Seq(Values \cup {Junk}) /\ Len(e) = s.siz /\ s.siz \in Nat
      /\ \A i \in 1 .. s.siz : e[i] = Fetched(s, i - 1)
  BY ShownFacts
<1>3. Entries = EntriesOf(e)
  BY <1>1 DEF Entries, EntriesOf
<1> HIDE DEF s, e
<1>4. DOMAIN e = 1 .. s.siz
  BY <1>2
<1>5. Keyed(s)
  BY DEF s
<1>6. Lists(s, EntriesOf(e))
  BY <1>2, <1>4, <1>5, EntriesListed
<1> QED
  BY <1>3, <1>6 DEF s

LEMMA EntriesAfter ==
  ASSUME PairsInVector, Holding, NEW x, Sound(x), Keyed(x), Become(x)
  PROVE  Lists(x, Entries')
<1> DEFINE e == Shown(x)
<1>1. Elements' = e
  BY ElementsAfter
<1>2. e \in Seq(Values \cup {Junk}) /\ Len(e) = x.siz /\ x.siz \in Nat
      /\ \A i \in 1 .. x.siz : e[i] = Fetched(x, i - 1)
  BY ShownFacts
<1>3. Entries' = EntriesOf(e)
  BY <1>1 DEF Entries, EntriesOf
<1> HIDE DEF e
<1>4. DOMAIN e = 1 .. x.siz
  BY <1>2
<1>5. Lists(x, EntriesOf(e))
  BY <1>2, <1>4, EntriesListed
<1> QED
  BY <1>3, <1>5

\* Every call of the map does to the function what MapStore says, or nothing.
LEMMA FunctionStep ==
  ASSUME MapsFit, PairsInVector, MapInv, MapNext
  PROVE  (IF "assign" \in program THEN Function!Next ELSE Function!Add) \/ Entries' = Entries
<1> DEFINE s == State
           m == Entries
           n == Entries'
<1>1. program \in Programs /\ Sound(s) /\ Keyed(s)
  BY SoundBefore DEF MapInv, IInv
<1>2. Holding
  BY <1>1, MapsHold
<1>3. PICK x : Become(x) /\ MapEffect(s, x)
  BY <1>1, <1>2, MapStep
<1>4. Sound(x) /\ Keyed(x)
  BY <1>3 DEF MapEffect
<1>5. Lists(s, m) /\ Lists(x, n) /\ s.siz \in Nat
  BY <1>1, <1>2, <1>3, <1>4, EntriesBefore, EntriesAfter, ShownFacts
<1>6. Function!Add => Function!Next
  BY DEF Function!Next
<1>7. CASE Shows(s, x)
  <2> HIDE DEF s, m, n
  <2>1. Lists(x, m)
    BY <1>5, <1>7, ShownListed
  <2>2. m = n
    BY <1>5, <2>1, ListsOne
  <2> QED
    BY <2>2 DEF m, n
<1>8. CASE Adding(s, x)
  <2> HIDE DEF s, m, n
  <2>1. PICK k \in Keys, v \in Vals, a \in 0 .. s.siz :
               /\ \A i \in 0 .. s.siz - 1 : Fetched(s, i).first # k
               /\ Inserts(s, a, [first |-> k, second |-> v], x)
    BY <1>8 DEF Adding
  <2>2. Lists(x, Having(m, k, v)) /\ k \notin DOMAIN m
    BY <1>5, <2>1, AddedListed
  <2>3. n = Having(m, k, v)
    BY <1>5, <2>2, ListsOne
  <2>4. Function!Add
    BY <2>2, <2>3, MapStoreSteps DEF m, n
  <2> QED
    BY <1>6, <2>4
<1>9. CASE "assign" \in program /\ Changing(s, x)
  <2> HIDE DEF s, m, n
  <2>1. PICK k \in Keys, v \in Vals, a \in 0 .. s.siz - 1 :
               Fetched(s, a).first = k /\ Writes(s, a, [first |-> k, second |-> v], x)
    BY <1>9 DEF Changing
  <2>2. Lists(x, Having(m, k, v))
    BY <1>1, <1>5, <2>1, ChangedListed
  <2>3. n = Having(m, k, v)
    BY <1>5, <2>2, ListsOne
  <2>4. Function!Next
    BY <2>3, MapStoreSteps DEF m, n
  <2> QED
    BY <1>9, <2>4
<1> QED
  BY <1>3, <1>7, <1>8, <1>9 DEF MapEffect

\* A map is the function its user takes it for: insert() and map[k] add pairs of new keys,
\* map[k] = v changes values, and searching and evictions change nothing.
THEOREM MapIsFunction ==
  ASSUME MapsFit, PairsInVector
  PROVE  MapSpec => IsFunction
<1>1. Init => Function!Init
  <2> SUFFICES ASSUME Init
               PROVE  Entries = <<>>
    BY DEF Function!Init
  <2>1. DOMAIN Elements = {}
    BY DEF Init, Elements
  <2>2. Entries = EntriesOf(Elements)
    BY DEF Entries, EntriesOf
  <2> QED
    BY <2>1, <2>2 DEF EntriesOf
<1>2. MapInv /\ [MapNext]_vars
        => [Disciplined => IF "assign" \in program THEN Function!Next ELSE Function!Add]_Entries
  <2> SUFFICES ASSUME MapInv, [MapNext]_vars
               PROVE  (IF "assign" \in program THEN Function!Next ELSE Function!Add)
                        \/ Entries' = Entries
    OBVIOUS
  <2>1. CASE MapNext
    BY <2>1, FunctionStep
  <2>2. CASE UNCHANGED vars
    BY <2>2 DEF vars, Entries, Elements, Seen
  <2> QED
    BY <2>1, <2>2
<1> QED
  BY <1>1, <1>2, MapInvariance, PTL DEF MapSpec, IsFunction
===============================================================================
