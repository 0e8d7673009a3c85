---------------------------- MODULE StrategiesProofs ----------------------------
(* Theorems about Strategies, for any blocks, contents and capacity.  What is said *)
(* of LRU and MRU holds if an allocation gets the list node freed just before.     *)
EXTENDS Strategies, CommonLemmas

-------------------------------------------------------------------------------
(* Operators of the library, and a set that exchanges an element. *)

\* The strategies' library operators are the library's.
LEMMA ListOperators ==
  /\ \A q : List!ToSet(q) = ToSet(q) /\ List!IsInjective(q) = IsInjective(q) /\ List!Last(q) = Last(q)
  /\ \A q, e : List!RemoveFirst(q, e) = RemoveFirst(q, e)
  /\ \A S : List!Cardinality(S) = Cardinality(S) /\ List!IsFiniteSet(S) = IsFiniteSet(S)
  /\ \A S : List!Residents!Cardinality(S) = Cardinality(S)
<1>1. \A q : List!ToSet(q) = ToSet(q) /\ List!IsInjective(q) = IsInjective(q) /\ List!Last(q) = Last(q)
  BY DEF List!ToSet, ToSet, List!IsInjective, IsInjective, List!Last, Last
<1>2. \A q, e : List!RemoveFirst(q, e) = RemoveFirst(q, e)
  BY DEF List!RemoveFirst, RemoveFirst, List!RemoveAt, RemoveAt, List!SelectInSeq, SelectInSeq, List!Min, Min
<1>3. \A S : List!Cardinality(S) = Cardinality(S) /\ List!IsFiniteSet(S) = IsFiniteSet(S)
  BY DEF List!Cardinality, Cardinality, List!IsFiniteSet, IsFiniteSet
<1>4. \A S : List!Residents!Cardinality(S) = Cardinality(S)
  BY DEF List!Residents!Cardinality, Cardinality
<1> QED
  BY <1>1, <1>2, <1>3, <1>4

LEMMA OrderOperators ==
  /\ \A q : List!Order!ToSet(q) = ToSet(q) /\ List!Order!Last(q) = Last(q)
  /\ \A q, e : List!Order!RemoveFirst(q, e) = RemoveFirst(q, e)
<1>1. \A q : List!Order!ToSet(q) = ToSet(q) /\ List!Order!Last(q) = Last(q)
  BY DEF List!Order!ToSet, ToSet, List!Order!Last, Last
<1>2. \A q, e : List!Order!RemoveFirst(q, e) = RemoveFirst(q, e)
  BY DEF List!Order!RemoveFirst, RemoveFirst, List!Order!RemoveAt, RemoveAt, List!Order!SelectInSeq,
         SelectInSeq, List!Order!Min, Min
<1> QED
  BY <1>1, <1>2

LEMMA LfuOperators ==
  /\ \A q : Lfu!ToSet(q) = ToSet(q) /\ Lfu!IsInjective(q) = IsInjective(q) /\ Lfu!Last(q) = Last(q)
  /\ \A q, e : Lfu!RemoveFirst(q, e) = RemoveFirst(q, e)
  /\ \A S : Lfu!Cardinality(S) = Cardinality(S) /\ Lfu!IsFiniteSet(S) = IsFiniteSet(S) /\ Lfu!Min(S) = Min(S)
  /\ \A S : Lfu!Residents!Cardinality(S) = Cardinality(S)
<1>1. \A q : Lfu!ToSet(q) = ToSet(q) /\ Lfu!IsInjective(q) = IsInjective(q) /\ Lfu!Last(q) = Last(q)
  BY DEF Lfu!ToSet, ToSet, Lfu!IsInjective, IsInjective, Lfu!Last, Last
<1>2. \A q, e : Lfu!RemoveFirst(q, e) = RemoveFirst(q, e)
  BY DEF Lfu!RemoveFirst, RemoveFirst, Lfu!RemoveAt, RemoveAt, Lfu!SelectInSeq, SelectInSeq, Lfu!Min, Min
<1>3. \A S : Lfu!Cardinality(S) = Cardinality(S) /\ Lfu!IsFiniteSet(S) = IsFiniteSet(S) /\ Lfu!Min(S) = Min(S)
  BY DEF Lfu!Cardinality, Cardinality, Lfu!IsFiniteSet, IsFiniteSet, Lfu!Min, Min
<1>4. \A S : Lfu!Residents!Cardinality(S) = Cardinality(S)
  BY DEF Lfu!Residents!Cardinality, Cardinality
<1> QED
  BY <1>1, <1>2, <1>3, <1>4

LEMMA PlruOperators ==
  /\ \A S : Plru!Cardinality(S) = Cardinality(S) /\ Plru!IsFiniteSet(S) = IsFiniteSet(S)
  /\ \A S : Plru!Residents!Cardinality(S) = Cardinality(S)
<1>1. \A S : Plru!Cardinality(S) = Cardinality(S) /\ Plru!IsFiniteSet(S) = IsFiniteSet(S)
  BY DEF Plru!Cardinality, Cardinality, Plru!IsFiniteSet, IsFiniteSet
<1>2. \A S : Plru!Residents!Cardinality(S) = Cardinality(S)
  BY DEF Plru!Residents!Cardinality, Cardinality
<1> QED
  BY <1>1, <1>2

\* A set that gives up one element for another is as large as before.
LEMMA Swapped ==
  ASSUME NEW S, IsFiniteSet(S), NEW v \in S, NEW k, k \notin S
  PROVE  /\ IsFiniteSet((S \ {v}) \cup {k})
         /\ Cardinality((S \ {v}) \cup {k}) = Cardinality(S)
         /\ IsFiniteSet(S \ {v}) /\ Cardinality(S \ {v}) = Cardinality(S) - 1
<1>1. IsFiniteSet(S \ {v}) /\ Cardinality(S \ {v}) = Cardinality(S) - 1
  BY FS_RemoveElement
<1>2. /\ IsFiniteSet((S \ {v}) \cup {k})
      /\ Cardinality((S \ {v}) \cup {k}) = Cardinality(S \ {v}) + 1
  BY <1>1, FS_AddElement
<1>3. Cardinality(S) \in Nat
  BY FS_CardinalityType
<1> QED
  BY <1>1, <1>2, <1>3
-------------------------------------------------------------------------------
(* Pseudo-LRU: the states of a manager that is alive. *)

Alive(s) ==
  /\ s \in [resident : SUBSET Keys, used : SUBSET Keys, trueCount : Nat, full : BOOLEAN,
            remote : SUBSET Keys, crashed : {FALSE}]
  /\ s.used \subseteq s.resident
  /\ IsFiniteSet(s.resident) /\ Cardinality(s.resident) <= Capacity
  /\ s.remote # {} => s.full
  /\ s.full => Cardinality(s.resident) = Capacity

\* A reference to a resident block sets its bit; trueCount of a full cache stays below
\* the number of blocks.
LEMMA PlruReferHeld ==
  ASSUME NEW s, Alive(s), NEW k \in s.resident, NEW t, t = Plru!ReferHeld(s, k)
  PROVE  /\ Alive(t)
         /\ t.resident = s.resident /\ t.used = s.used \cup {k}
         /\ t.remote = s.remote /\ t.full = s.full
         /\ t.trueCount <= s.trueCount + 1
         /\ s.full => t.trueCount < Capacity
<1> DEFINE n == s.trueCount + 1
           reset == n >= Cardinality(s.resident) /\ s.full
<1>1. t = [s EXCEPT !.used = @ \cup {k}, !.trueCount = IF reset THEN 0 ELSE n]
  BY PlruOperators DEF Plru!ReferHeld
<1>2. /\ s.resident \in SUBSET Keys /\ s.used \in SUBSET Keys /\ s.trueCount \in Nat
      /\ s.full \in BOOLEAN /\ s.remote \in SUBSET Keys /\ s.crashed = FALSE
      /\ Cardinality(s.resident) \in Nat
  BY FS_CardinalityType DEF Alive
<1>3. n \in Nat /\ n <= s.trueCount + 1 /\ (s.full => reset \/ n < Capacity)
  BY <1>2 DEF Alive
<1> HIDE DEF n, reset
<1> DEFINE count == IF reset THEN 0 ELSE n
<1>7. count \in Nat /\ count <= s.trueCount + 1 /\ (s.full => count < Capacity)
  BY <1>2, <1>3, StrategyAssumption
<1>8. t = [s EXCEPT !.used = @ \cup {k}, !.trueCount = count]
  BY <1>1
<1> HIDE DEF count
<1>9. s.used \cup {k} \in SUBSET Keys
  BY <1>2
<1>4. /\ t.resident = s.resident /\ t.used = s.used \cup {k}
      /\ t.trueCount = count
      /\ t.full = s.full /\ t.remote = s.remote /\ t.crashed = s.crashed
      /\ t \in [resident : SUBSET Keys, used : SUBSET Keys, trueCount : Nat, full : BOOLEAN,
                remote : SUBSET Keys, crashed : {FALSE}]
  BY <1>2, <1>7, <1>8, <1>9 DEF Alive
<1>5. Alive(t)
  BY <1>2, <1>4 DEF Alive
<1> QED
  BY <1>4, <1>5, <1>7

\* storeCacheBlock of a block that is not resident: there is room, or a block whose bit
\* is clear goes, or there is none and the program dies.
LEMMA PlruStored ==
  ASSUME NEW s, Alive(s), NEW k \in Keys, k \notin s.resident,
         NEW t \in Plru!StoreCacheBlock(s, k)
  PROVE  /\ t.trueCount = s.trueCount /\ t.used = s.used
         /\ \/ /\ Alive(t) /\ Cardinality(s.resident) < Capacity
               /\ t.resident = s.resident \cup {k} /\ t.remote = s.remote
            \/ /\ Alive(t) /\ t.full /\ Cardinality(s.resident) >= Capacity
               /\ \E v \in s.resident \ s.used :
                    t.resident = (s.resident \ {v}) \cup {k} /\ t.remote = s.remote \cup {v}
            \/ /\ t = [s EXCEPT !.full = TRUE, !.crashed = TRUE]
               /\ s.used = s.resident /\ Cardinality(s.resident) = Capacity
<1>1. PICK u \in Plru!ReferNew(s) : t = Plru!AddToCache(u, k)
  BY DEF Plru!StoreCacheBlock, Plru!Refer, Alive
<1>2. /\ s \in [resident : SUBSET Keys, used : SUBSET Keys, trueCount : Nat, full : BOOLEAN,
                remote : SUBSET Keys, crashed : {FALSE}]
      /\ s.used \subseteq s.resident
      /\ IsFiniteSet(s.resident) /\ Cardinality(s.resident) \in Nat
      /\ Capacity \in Nat \ {0} /\ Cardinality(s.resident) <= Capacity
  BY FS_CardinalityType, StrategyAssumption DEF Alive
<1>3. CASE Cardinality(s.resident) < Capacity
  <2>1. u = s
    BY <1>1, <1>2, <1>3, PlruOperators DEF Plru!ReferNew
  <2>2. t = [s EXCEPT !.resident = @ \cup {k}, !.used = @ \ {k}]
    BY <1>1, <1>2, <2>1 DEF Plru!AddToCache
  <2>3. /\ t.resident = s.resident \cup {k} /\ t.used = s.used /\ t.trueCount = s.trueCount
        /\ t.full = s.full /\ t.remote = s.remote
        /\ t \in [resident : SUBSET Keys, used : SUBSET Keys, trueCount : Nat, full : BOOLEAN,
                  remote : SUBSET Keys, crashed : {FALSE}]
    BY <1>2, <2>2
  <2>4. /\ IsFiniteSet(t.resident) /\ Cardinality(t.resident) = Cardinality(s.resident) + 1
        /\ ~s.full
    BY <1>2, <1>3, <2>3, FS_AddElement DEF Alive
  <2>5. t.remote = {} /\ t.used \subseteq t.resident
    BY <1>2, <2>3, <2>4 DEF Alive
  <2>6. Cardinality(t.resident) <= Capacity
    BY <1>2, <1>3, <2>4
  <2>7. Alive(t)
    BY <2>3, <2>4, <2>5, <2>6 DEF Alive
  <2> QED
    BY <1>3, <2>3, <2>7
<1>4. CASE Cardinality(s.resident) >= Capacity
  <2>1. u \in Plru!Evict(s) /\ Cardinality(s.resident) = Capacity
    BY <1>1, <1>2, <1>4, PlruOperators DEF Plru!ReferNew
  <2>2. CASE s.resident \ s.used = {}
    <3>1. u = [s EXCEPT !.full = TRUE, !.crashed = TRUE]
      BY <2>1, <2>2 DEF Plru!Evict
    <3>2. u.crashed /\ u.used = s.used /\ u.trueCount = s.trueCount
      BY <1>2, <3>1
    <3>3. t = u
      BY <1>1, <3>2 DEF Plru!AddToCache
    <3> QED
      BY <1>2, <2>1, <2>2, <3>1, <3>2, <3>3
  <2>3. CASE s.resident \ s.used # {}
    <3>1. PICK v \in s.resident \ s.used : u = Plru!EvictBlock([s EXCEPT !.full = TRUE], v)
      BY <2>1, <2>3 DEF Plru!Evict
    <3>2. /\ u.resident = s.resident \ {v} /\ u.used = s.used /\ u.trueCount = s.trueCount
          /\ u.full = TRUE /\ u.remote = s.remote \cup {v} /\ u.crashed = FALSE
          /\ u \in [resident : SUBSET Keys, used : SUBSET Keys, trueCount : Nat, full : BOOLEAN,
                    remote : SUBSET Keys, crashed : {FALSE}]
      BY <1>2, <3>1 DEF Plru!EvictBlock
    <3>3. t = [u EXCEPT !.resident = @ \cup {k}, !.used = @ \ {k}]
      BY <1>1, <3>2 DEF Plru!AddToCache
    <3>4. /\ t.resident = (s.resident \ {v}) \cup {k} /\ t.used = s.used
          /\ t.trueCount = s.trueCount /\ t.full = TRUE /\ t.remote = s.remote \cup {v}
          /\ t \in [resident : SUBSET Keys, used : SUBSET Keys, trueCount : Nat, full : BOOLEAN,
                    remote : SUBSET Keys, crashed : {FALSE}]
      BY <1>2, <3>2, <3>3
    <3>5. IsFiniteSet(t.resident) /\ Cardinality(t.resident) = Capacity
      <4>1. v \in s.resident /\ IsFiniteSet(s.resident)
        BY <1>2, <3>1
      <4>2. /\ IsFiniteSet((s.resident \ {v}) \cup {k})
            /\ Cardinality((s.resident \ {v}) \cup {k}) = Cardinality(s.resident)
        BY <4>1, Swapped
      <4> QED
        BY <2>1, <3>4, <4>2
    <3>6. t.used \subseteq t.resident
      BY <1>2, <3>1, <3>4
    <3>7. Alive(t)
      <4>1. Cardinality(t.resident) <= Capacity
        BY <1>2, <3>5
      <4> QED
        BY <3>4, <3>5, <3>6, <4>1 DEF Alive
    <3> QED
      BY <1>4, <3>1, <3>4, <3>7
  <2> QED
    BY <2>2, <2>3
<1> QED
  BY <1>2, <1>3, <1>4

\* A step of the manager: it keeps the bits those of the blocks got, spares these, and
\* moves the resident set as every strategy must, unless the program dies.
LEMMA PlruStep ==
  ASSUME Plru!IInv, Plru!Next
  PROVE  /\ Plru!IInv'
         /\ \A v \in resident \ resident' : v \notin got /\ v \in gone'
         /\ ~crashed' => Plru!Residents!Next
<1> DEFINE s == Plru!State
<1>1. /\ s.resident = resident /\ s.used = used /\ s.trueCount = trueCount
      /\ s.full = full /\ s.remote = gone /\ s.crashed = crashed
  BY DEF Plru!State
<1>2. ASSUME ~crashed
      PROVE  /\ Alive(s) /\ resident \subseteq Keys /\ used = got /\ used \subseteq resident
             /\ trueCount \in 0 .. MaxCount + 2 /\ gone \subseteq Keys /\ full \in BOOLEAN
  <2>1. IsFiniteSet(resident) /\ Cardinality(resident) <= Capacity /\ (full => Cardinality(resident) = Capacity)
    BY PlruOperators DEF Plru!IInv, Plru!TypeOK
  <2>2. s \in [resident : SUBSET Keys, used : SUBSET Keys, trueCount : Nat, full : BOOLEAN,
               remote : SUBSET Keys, crashed : {FALSE}]
    <3>1. /\ resident \in SUBSET Keys /\ used \in SUBSET Keys /\ trueCount \in Nat
          /\ full \in BOOLEAN /\ gone \in SUBSET Keys /\ crashed \in BOOLEAN
      BY StrategyAssumption DEF Plru!IInv, Plru!TypeOK
    <3>2. crashed = FALSE
      BY <1>2, <3>1
    <3> QED
      BY <3>1, <3>2 DEF Plru!State
  <2> QED
    BY <1>1, <2>1, <2>2 DEF Alive, Plru!IInv, Plru!TypeOK
<1> HIDE DEF s
\* What is left to show of an action that leaves the manager alive.
<1>3. ASSUME NEW t, Plru!Become(t), Alive(t), t.trueCount <= MaxCount + 2, got' = t.used
      PROVE  Plru!IInv' /\ crashed' = FALSE
  <2>1. /\ resident' = t.resident /\ used' = t.used /\ trueCount' = t.trueCount
        /\ full' = t.full /\ gone' = t.remote /\ crashed' = t.crashed
    BY <1>3 DEF Plru!Become
  <2>2. /\ t.resident \in SUBSET Keys /\ t.used \in SUBSET Keys /\ t.trueCount \in Nat
        /\ t.full \in BOOLEAN /\ t.remote \in SUBSET Keys /\ t.crashed = FALSE
        /\ t.used \subseteq t.resident /\ (t.remote # {} => t.full)
        /\ Plru!IsFiniteSet(t.resident) /\ Plru!Cardinality(t.resident) <= Capacity
        /\ t.full => Plru!Cardinality(t.resident) = Capacity
    BY <1>3, PlruOperators DEF Alive
  <2>3. t.trueCount \in 0 .. MaxCount + 2
    BY <1>3, <2>2, StrategyAssumption
  <2>4. Plru!TypeOK'
    <3>1. resident' \subseteq Keys /\ gone' \subseteq Keys /\ used' \subseteq resident' /\ got' \subseteq resident'
      BY <1>3, <2>1, <2>2
    <3>2. Plru!Cardinality(resident)' <= Capacity
      BY <2>1, <2>2
    <3>3. trueCount' \in 0 .. MaxCount + 2
      BY <2>1, <2>3
    <3>4. full' \in BOOLEAN /\ crashed' \in BOOLEAN
      BY <2>1, <2>2
    <3> QED
      BY <3>1, <3>2, <3>3, <3>4 DEF Plru!TypeOK
  <2>5. Plru!IsFiniteSet(resident)' /\ (full' => Plru!Cardinality(resident)' = Capacity)
    BY <2>1, <2>2
  <2>6. used' = got' /\ (gone' # {} => full') /\ crashed' = FALSE
    BY <1>3, <2>1, <2>2
  <2> QED
    BY <2>4, <2>5, <2>6 DEF Plru!IInv
\* The same when no block leaves.
<1>4. ASSUME NEW k \in resident, resident' = resident
      PROVE  (\A v \in resident \ resident' : FALSE) /\ Plru!Residents!Use(k)
  BY <1>4 DEF Plru!Residents!Use
\* A block that was not resident is stored, and a victim given up for it.
<1>5. ASSUME ~crashed, NEW k \in Keys, k \notin resident, NEW t \in Plru!StoreCacheBlock(s, k)
      PROVE  /\ t.trueCount = trueCount /\ t.used = used
             /\ Alive(t) => /\ k \in t.resident /\ gone \subseteq t.remote
                            /\ \A v \in resident \ t.resident : v \notin got /\ v \in t.remote
                            /\ resident' = t.resident => Plru!Residents!Use(k)
             /\ ~Alive(t) => /\ t = [s EXCEPT !.full = TRUE, !.crashed = TRUE]
                             /\ used = resident /\ Cardinality(resident) = Capacity
  <2>1. Alive(s) /\ used = got
    BY <1>2, <1>5
  <2>2. t.trueCount = trueCount /\ t.used = used
    BY <1>1, <1>5, <2>1, PlruStored
  <2>3. CASE /\ Alive(t) /\ Cardinality(resident) < Capacity
             /\ t.resident = resident \cup {k} /\ t.remote = gone
    <3>1. resident' = t.resident => Plru!Residents!Use(k)
      BY <2>3, PlruOperators DEF Plru!Residents!Use
    <3> QED
      BY <2>2, <2>3, <3>1
  <2>4. CASE /\ Alive(t) /\ t.full /\ Cardinality(resident) >= Capacity
             /\ \E v \in resident \ used :
                  t.resident = (resident \ {v}) \cup {k} /\ t.remote = gone \cup {v}
    <3>1. PICK v \in resident \ used :
            t.resident = (resident \ {v}) \cup {k} /\ t.remote = gone \cup {v}
      BY <2>4
    <3>2. resident' = t.resident => Plru!Residents!Use(k)
      BY <1>5, <2>4, <3>1, PlruOperators DEF Plru!Residents!Use
    <3>3. \A w \in resident \ t.resident : w = v
      BY <3>1
    <3> QED
      BY <2>1, <2>2, <2>4, <3>1, <3>2, <3>3
  <2>5. CASE /\ t = [s EXCEPT !.full = TRUE, !.crashed = TRUE]
             /\ used = resident /\ Cardinality(resident) = Capacity
    <3>1. ~Alive(t)
      <4>1. s \in [resident : SUBSET Keys, used : SUBSET Keys, trueCount : Nat, full : BOOLEAN,
                   remote : SUBSET Keys, crashed : {FALSE}]
        BY <2>1 DEF Alive
      <4>2. t.crashed = TRUE
        BY <2>5, <4>1
      <4> QED
        BY <4>2 DEF Alive
    <3> QED
      BY <2>2, <2>5, <3>1
  <2>6. k \in Keys /\ k \notin s.resident /\ t \in Plru!StoreCacheBlock(s, k)
    BY <1>1, <1>5
  <2>7. \/ /\ Alive(t) /\ Cardinality(s.resident) < Capacity
           /\ t.resident = s.resident \cup {k} /\ t.remote = s.remote
        \/ /\ Alive(t) /\ t.full /\ Cardinality(s.resident) >= Capacity
           /\ \E v \in s.resident \ s.used :
                t.resident = (s.resident \ {v}) \cup {k} /\ t.remote = s.remote \cup {v}
        \/ /\ t = [s EXCEPT !.full = TRUE, !.crashed = TRUE]
           /\ s.used = s.resident /\ Cardinality(s.resident) = Capacity
    BY <2>1, <2>6, PlruStored
  <2> QED
    BY <1>1, <2>3, <2>4, <2>5, <2>7
\* The program dies: no victim was found.
<1>6. ASSUME ~crashed, NEW t, t = [s EXCEPT !.full = TRUE, !.crashed = TRUE], Plru!Become(t),
             used = resident, Cardinality(resident) = Capacity, got' = got
      PROVE  Plru!IInv' /\ resident' = resident /\ crashed' = TRUE
  <2>1. s \in [resident : SUBSET Keys, used : SUBSET Keys, trueCount : Nat, full : BOOLEAN,
               remote : SUBSET Keys, crashed : {FALSE}]
    BY <1>2, <1>6 DEF Alive
  <2>2. /\ resident' = resident /\ used' = used /\ trueCount' = trueCount
        /\ full' = TRUE /\ gone' = gone /\ crashed' = TRUE
    BY <1>1, <1>6, <2>1 DEF Plru!Become
  <2> QED
    BY <1>6, <2>2, PlruOperators DEF Plru!IInv, Plru!TypeOK
<1>7. ASSUME NEW k \in Keys, Plru!Store(k)
      PROVE  /\ Plru!IInv'
             /\ \A v \in resident \ resident' : v \notin got /\ v \in gone'
             /\ ~crashed' => Plru!Residents!Use(k)
  <2>1. ~crashed
    BY <1>7 DEF Plru!Store, Plru!Ready
  <2>2. PICK t \in Plru!StoreCacheBlock(s, k) : Plru!Become(t)
    BY <1>7 DEF Plru!Store, s
  <2>3. got' = (got \ {k}) \cap resident'
    BY <1>7 DEF Plru!Store
  <2>4. CASE k \in resident
    <3>1. PICK u : u = Plru!ReferHeld(s, k) /\ t = Plru!AddToCache(u, k)
      BY <1>1, <2>1, <2>2, <2>4 DEF Plru!StoreCacheBlock, Plru!Refer
    <3>2. /\ Alive(u) /\ u.resident = resident /\ u.used = used \cup {k}
          /\ u.remote = gone /\ u.full = full /\ u.trueCount <= trueCount + 1
      BY <1>1, <1>2, <2>1, <2>4, <3>1, PlruReferHeld
    <3>3. t = [u EXCEPT !.resident = @ \cup {k}, !.used = @ \ {k}]
      BY <3>1, <3>2 DEF Plru!AddToCache, Alive
    <3>4. u \in [resident : SUBSET Keys, used : SUBSET Keys, trueCount : Nat, full : BOOLEAN,
                 remote : SUBSET Keys, crashed : {FALSE}]
      BY <3>2 DEF Alive
    <3>5. /\ t.resident = resident /\ t.used = used \ {k} /\ t.remote = gone /\ t.full = full
          /\ t.trueCount = u.trueCount
          /\ t \in [resident : SUBSET Keys, used : SUBSET Keys, trueCount : Nat, full : BOOLEAN,
                    remote : SUBSET Keys, crashed : {FALSE}]
      BY <2>4, <3>2, <3>3, <3>4
    <3>6. Alive(t)
      BY <1>2, <2>1, <3>2, <3>5 DEF Alive
    <3>7. t.trueCount <= MaxCount + 2
      <4>1. trueCount <= MaxCount /\ trueCount \in Nat /\ u.trueCount \in Nat
        BY <1>2, <1>7, <2>1, <2>4, <3>4 DEF Plru!Store, Plru!Ready
      <4> QED
        BY <3>2, <3>5, <4>1, StrategyAssumption
    <3>8. resident' = resident
      BY <2>2, <3>5 DEF Plru!Become
    <3>9. got' = t.used
      BY <1>2, <2>1, <2>3, <3>5, <3>8
    <3> QED
      BY <1>3, <1>4, <2>2, <2>4, <3>6, <3>7, <3>8, <3>9
  <2>5. CASE k \notin resident
    <3>1. /\ resident' = t.resident /\ gone' = t.remote /\ crashed' = t.crashed
          /\ t.trueCount = trueCount /\ t.used = used
      BY <1>5, <2>1, <2>2, <2>5 DEF Plru!Become
    <3>2. CASE Alive(t)
      <4>1. used = got /\ used \subseteq resident /\ trueCount \in 0 .. MaxCount + 2
        BY <1>2, <2>1
      <4>2. \A v \in resident \ t.resident : v \notin got /\ v \in t.remote
        BY <1>5, <2>1, <2>2, <2>5, <3>2
      <4>3. got' = t.used
        BY <2>3, <2>5, <3>1, <3>2, <4>1 DEF Alive
      <4>6. t.trueCount <= MaxCount + 2
        BY <3>1, <4>1, StrategyAssumption
      <4>4. Plru!IInv'
        BY <1>3, <2>2, <3>2, <4>3, <4>6
      <4>5. Plru!Residents!Use(k)
        BY <1>5, <2>1, <2>2, <2>5, <3>1, <3>2
      <4> QED
        BY <3>1, <4>2, <4>4, <4>5
    <3>3. CASE ~Alive(t)
      <4>1. /\ t = [s EXCEPT !.full = TRUE, !.crashed = TRUE]
            /\ used = resident /\ Cardinality(resident) = Capacity
        BY <1>5, <2>1, <2>2, <2>5, <3>3
      <4>2. resident' = resident
        <5>1. s.resident = [s EXCEPT !.full = TRUE, !.crashed = TRUE].resident
          BY <1>2, <2>1 DEF Alive
        <5> QED
          BY <1>1, <3>1, <4>1, <5>1
      <4>3. got' = got
        BY <1>2, <2>1, <2>3, <2>5, <4>2
      <4> QED
        BY <1>6, <2>1, <2>2, <4>1, <4>3
    <3> QED
      BY <3>2, <3>3
  <2> QED
    BY <2>4, <2>5
<1>8. ASSUME NEW k \in Keys, Plru!GetBlock(k) \/ Plru!GetHit(k)
      PROVE  /\ Plru!IInv'
             /\ \A v \in resident \ resident' : v \notin got /\ v \in gone'
             /\ ~crashed' => Plru!Residents!Use(k)
  <2>1. ~crashed /\ k \in resident /\ trueCount <= MaxCount /\ got' = got \cup {k}
    BY <1>8 DEF Plru!GetBlock, Plru!GetHit, Plru!Ready
  <2> DEFINE u == Plru!ReferHeld(s, k)
             w == Plru!ReferHeld(u, k)
  <2>2. /\ Alive(u) /\ u.resident = resident /\ u.used = used \cup {k}
        /\ u.trueCount <= trueCount + 1
    BY <1>1, <1>2, <2>1, PlruReferHeld
  <2>3. /\ Alive(w) /\ w.resident = resident /\ w.used = used \cup {k}
        /\ w.trueCount <= u.trueCount + 1
    <3>1. k \in u.resident
      BY <2>1, <2>2
    <3> HIDE DEF u
    <3>2. /\ Alive(w) /\ w.resident = u.resident /\ w.used = u.used \cup {k}
          /\ w.trueCount <= u.trueCount + 1
      BY <2>2, <3>1, PlruReferHeld
    <3> QED
      BY <2>2, <3>2
  <2>4. Plru!Refer(s, k) = {u} /\ Plru!Refer(u, k) = {w}
    <3>1. s.crashed = FALSE /\ k \in s.resident
      BY <1>1, <2>1, <1>2 DEF Alive
    <3>2. u.crashed = FALSE /\ k \in u.resident
      BY <2>1, <2>2 DEF Alive
    <3>3. Plru!Refer(s, k) = {u}
      BY <3>1 DEF Plru!Refer
    <3> HIDE DEF u
    <3>4. Plru!Refer(u, k) = {w}
      BY <3>2 DEF Plru!Refer
    <3> QED
      BY <3>3, <3>4
  <2> HIDE DEF u, w
  <2>5. PICK t \in {u, w} : Plru!Become(t)
    BY <1>8, <2>4 DEF Plru!GetBlock, Plru!GetHit, s
  <2>6. t.trueCount <= MaxCount + 2
    <3>1. u.trueCount \in Nat /\ w.trueCount \in Nat /\ trueCount \in Nat
      BY <1>2, <2>1, <2>2, <2>3 DEF Alive
    <3> QED
      BY <2>1, <2>2, <2>3, <2>5, <3>1, StrategyAssumption
  <2>7. Alive(t) /\ got' = t.used /\ resident' = t.resident /\ t.resident = resident
    BY <1>2, <2>1, <2>2, <2>3, <2>5 DEF Plru!Become
  <2> QED
    BY <1>3, <1>4, <2>1, <2>5, <2>6, <2>7
<1>9. ASSUME NEW k \in Keys, Plru!GetMiss(k)
      PROVE  /\ Plru!IInv'
             /\ \A v \in resident \ resident' : v \notin got /\ v \in gone'
             /\ ~crashed' => Plru!Residents!Use(k)
  <2>1. /\ ~crashed /\ k \notin resident /\ k \in gone
        /\ got' = (got \cup {k}) \cap resident'
    BY <1>9 DEF Plru!GetMiss, Plru!Ready
  <2>0. PICK t \in Plru!StoreCacheBlock(s, k) : \E u \in Plru!Refer(t, k) : Plru!Become(u)
    BY <1>9 DEF Plru!GetMiss, s
  <2>2. PICK u \in Plru!Refer(t, k) : Plru!Become(u)
    BY <2>0
  <2>3. /\ resident' = u.resident /\ gone' = u.remote /\ crashed' = u.crashed
        /\ t.trueCount = trueCount /\ t.used = used
    BY <1>5, <2>1, <2>2 DEF Plru!Become
  <2>4. used = got /\ used \subseteq resident /\ trueCount \in 0 .. MaxCount + 2
    BY <1>2, <2>1
  <2>5. CASE Alive(t)
    <3>1. /\ k \in t.resident /\ gone \subseteq t.remote
          /\ \A v \in resident \ t.resident : v \notin got /\ v \in t.remote
      BY <1>5, <2>1, <2>2, <2>5
    <3>2. t.crashed = FALSE
      BY <2>5 DEF Alive
    <3>3. u = Plru!ReferHeld(t, k)
      BY <2>2, <3>1, <3>2 DEF Plru!Refer
    <3>4. /\ Alive(u) /\ u.resident = t.resident /\ u.used = t.used \cup {k}
          /\ u.remote = t.remote /\ (t.full => u.trueCount < Capacity)
      BY <2>5, <3>1, <3>3, PlruReferHeld
    <3>5. t.full
      BY <2>1, <2>5, <3>1 DEF Alive
    <3>6. u.trueCount <= MaxCount + 2
      BY <3>4, <3>5, StrategyAssumption DEF Alive
    <3>7. got' = u.used
      BY <2>1, <2>3, <2>4, <3>4 DEF Alive
    <3>8. Plru!IInv'
      BY <1>3, <2>2, <3>4, <3>6, <3>7
    <3>9. Plru!Residents!Use(k)
      BY <1>5, <2>1, <2>2, <2>3, <2>5, <3>4
    <3> QED
      BY <2>3, <3>1, <3>4, <3>8, <3>9
  <2>6. CASE ~Alive(t)
    <3>1. /\ t = [s EXCEPT !.full = TRUE, !.crashed = TRUE]
          /\ used = resident /\ Cardinality(resident) = Capacity
      BY <1>5, <2>1, <2>2, <2>6
    <3>2. t.crashed = TRUE /\ t.resident = resident
      <4>1. s \in [resident : SUBSET Keys, used : SUBSET Keys, trueCount : Nat, full : BOOLEAN,
                   remote : SUBSET Keys, crashed : {FALSE}]
        BY <1>2, <2>1 DEF Alive
      <4> QED
        BY <1>1, <3>1, <4>1
    <3>3. u = t
      BY <2>2, <3>2 DEF Plru!Refer
    <3>4. got' = got
      BY <2>1, <2>3, <2>4, <3>2, <3>3
    <3> QED
      BY <1>6, <2>1, <2>2, <3>1, <3>3, <3>4
  <2> QED
    BY <2>5, <2>6
<1> QED
  BY <1>7, <1>8, <1>9 DEF Plru!Next, Plru!Residents!Next
-------------------------------------------------------------------------------
(* A sequence seen through a function, as the order of blocks is the list of nodes seen *)
(* through their keys.                                                                  *)

Through(f, q) == [i \in DOMAIN q |-> f[q[i]]]

\* Taking an element out commutes with looking through a one-to-one function.
LEMMA ThroughRemoved ==
  ASSUME NEW S, NEW T, NEW q \in Seq(S), IsInjective(q), NEW f \in [S -> T],
         \A a, b \in ToSet(q) : f[a] = f[b] => a = b
  PROVE  /\ Through(f, q) \in Seq(T) /\ Len(Through(f, q)) = Len(q)
         /\ IsInjective(Through(f, q))
         /\ ToSet(Through(f, q)) = {f[n] : n \in ToSet(q)}
         /\ \A n \in ToSet(q) : Through(f, RemoveFirst(q, n)) = RemoveFirst(Through(f, q), f[n])
<1> DEFINE m == Through(f, q)
<1>1. DOMAIN q = 1 .. Len(q) /\ Len(q) \in Nat /\ \A i \in 1 .. Len(q) : q[i] \in S /\ q[i] \in ToSet(q)
  BY DEF ToSet
<1>2. DOMAIN m = 1 .. Len(q) /\ \A i \in 1 .. Len(q) : m[i] = f[q[i]] /\ m[i] \in T
  BY <1>1 DEF Through
<1>3. m \in Seq(T) /\ Len(m) = Len(q)
  <2>1. m \in [1 .. Len(q) -> T]
    BY <1>1, <1>2 DEF Through
  <2> HIDE DEF m
  <2> QED
    BY <1>1, <1>2, <2>1
<1> HIDE DEF m
<1>4. IsInjective(m)
  BY <1>1, <1>2 DEF IsInjective
<1>5. ToSet(m) = {f[n] : n \in ToSet(q)}
  BY <1>1, <1>2 DEF ToSet
<1>6. ASSUME NEW n \in ToSet(q)
      PROVE  Through(f, RemoveFirst(q, n)) = RemoveFirst(m, f[n])
  <2>1. PICK p \in 1 .. Len(q) : q[p] = n
    BY <1>1 DEF ToSet
  <2>2. RemoveFirst(q, n) = [i \in 1 .. Len(q) - 1 |-> IF i < p THEN q[i] ELSE q[i + 1]]
    BY <1>1, <2>1, RemovedFirst
  <2>3. RemoveFirst(m, f[n]) = [i \in 1 .. Len(q) - 1 |-> IF i < p THEN m[i] ELSE m[i + 1]]
    <3>1. m[p] = f[n] /\ p \in DOMAIN m
      BY <1>2, <2>1
    <3> QED
      BY <1>3, <1>4, <3>1, RemovedFirst
  <2>4. DOMAIN RemoveFirst(q, n) = 1 .. Len(q) - 1
    BY <2>2
  <2>5. ASSUME NEW i \in 1 .. Len(q) - 1
        PROVE  f[RemoveFirst(q, n)[i]] = IF i < p THEN m[i] ELSE m[i + 1]
    <3>1. i \in 1 .. Len(q) /\ i + 1 \in 1 .. Len(q)
      BY <1>1
    <3>2. RemoveFirst(q, n)[i] = IF i < p THEN q[i] ELSE q[i + 1]
      BY <2>2
    <3> QED
      BY <1>2, <3>1, <3>2
  <2> QED
    BY <2>3, <2>4, <2>5 DEF Through
<1> QED
  BY <1>3, <1>4, <1>5, <1>6 DEF m

\* So does putting one in front.
LEMMA ThroughFront ==
  ASSUME NEW S, NEW q \in Seq(S), NEW e \in S, NEW f
  PROVE  Through(f, <<e>> \o q) = <<f[e]>> \o Through(f, q)
<1> DEFINE T == {f[n] : n \in S}
           m == Through(f, q)
           r == <<e>> \o q
           t == <<f[e]>> \o m
<1>1. DOMAIN q = 1 .. Len(q) /\ Len(q) \in Nat /\ \A i \in 1 .. Len(q) : q[i] \in S
  OBVIOUS
<1>2. m \in Seq(T) /\ Len(m) = Len(q) /\ \A i \in 1 .. Len(q) : m[i] = f[q[i]]
  <2>1. m \in [1 .. Len(q) -> T] /\ \A i \in 1 .. Len(q) : m[i] = f[q[i]]
    BY <1>1 DEF Through
  <2> HIDE DEF m, T
  <2> QED
    BY <1>1, <2>1
<1>10. f[e] \in T
  OBVIOUS
<1>3. /\ DOMAIN r = 1 .. Len(q) + 1
      /\ \A i \in 1 .. Len(q) + 1 : r[i] = IF i = 1 THEN e ELSE q[i - 1]
  BY <1>1
<1> HIDE DEF m, T
<1>4. /\ t \in Seq(T) /\ Len(t) = Len(q) + 1
      /\ \A i \in 1 .. Len(q) + 1 : t[i] = IF i = 1 THEN f[e] ELSE m[i - 1]
  BY <1>1, <1>2, <1>10
<1>5. t = [i \in 1 .. Len(q) + 1 |-> t[i]]
  BY <1>4
<1> HIDE DEF r, t
<1>6. ASSUME NEW i \in 1 .. Len(q) + 1
      PROVE  f[r[i]] = t[i]
  <2>1. CASE i = 1
    BY <1>3, <1>4, <2>1
  <2>2. CASE i # 1
    <3>1. i - 1 \in 1 .. Len(q)
      BY <1>1, <2>2
    <3> QED
      BY <1>2, <1>3, <1>4, <2>2, <3>1
  <2> QED
    BY <2>1, <2>2
<1>7. Through(f, r) = [i \in 1 .. Len(q) + 1 |-> t[i]]
  BY <1>3, <1>6 DEF Through
<1> QED
  BY <1>5, <1>7 DEF m, r, t

\* Only what the function gives for the sequence's own elements matters.
LEMMA ThroughSame ==
  ASSUME NEW S, NEW q \in Seq(S), NEW f, NEW g, \A n \in ToSet(q) : f[n] = g[n]
  PROVE  Through(f, q) = Through(g, q)
BY DEF Through, ToSet

\* The ends of a sequence are its own.
LEMMA Ends ==
  ASSUME NEW S, NEW q \in Seq(S), q # <<>>
  PROVE  /\ Head(q) \in ToSet(q) /\ Last(q) \in ToSet(q)
         /\ \A f : Head(Through(f, q)) = f[Head(q)] /\ Last(Through(f, q)) = f[Last(q)]
<1>1. /\ Len(q) \in Nat /\ Len(q) # 0 /\ DOMAIN q = 1 .. Len(q)
      /\ Head(q) = q[1] /\ Last(q) = q[Len(q)] /\ 1 \in DOMAIN q /\ Len(q) \in DOMAIN q
  BY DEF Last
<1>2. ASSUME NEW f
      PROVE  Head(Through(f, q)) = f[Head(q)] /\ Last(Through(f, q)) = f[Last(q)]
  <2> DEFINE m == Through(f, q)
             T == {f[q[i]] : i \in 1 .. Len(q)}
  <2>1. m \in [1 .. Len(q) -> T] /\ m[1] = f[q[1]] /\ m[Len(q)] = f[q[Len(q)]]
    BY <1>1 DEF Through
  <2> HIDE DEF m, T
  <2>2. m \in Seq(T) /\ Len(m) = Len(q)
    BY <1>1, <2>1
  <2>3. Head(m) = m[1] /\ Last(m) = m[Len(m)]
    BY <1>1, <2>2 DEF Last
  <2> QED
    BY <1>1, <2>1, <2>2, <2>3 DEF m
<1> QED
  BY <1>1, <1>2 DEF ToSet

\* What was pushed to the front comes off it again.
LEMMA FrontRemoved ==
  ASSUME NEW S, NEW q \in Seq(S), IsInjective(q), NEW e \in S, e \notin ToSet(q)
  PROVE  RemoveFirst(<<e>> \o q, e) = q
<1> DEFINE r == <<e>> \o q
<1>1. /\ r \in Seq(S) /\ IsInjective(r) /\ Len(r) = Len(q) + 1
      /\ \A i \in 1 .. Len(q) + 1 : r[i] = IF i = 1 THEN e ELSE q[i - 1]
  BY PushedFront
<1> HIDE DEF r
<1>2. Len(q) \in Nat /\ 1 \in DOMAIN r /\ r[1] = e
  BY <1>1
<1>3. RemoveFirst(r, e) = [i \in 1 .. Len(r) - 1 |-> IF i < 1 THEN r[i] ELSE r[i + 1]]
  BY <1>1, <1>2, RemovedFirst
<1>4. RemoveFirst(r, e) = [i \in 1 .. Len(q) |-> q[i]]
  <2>1. Len(r) - 1 = Len(q)
    BY <1>1, <1>2
  <2>2. \A i \in 1 .. Len(q) : ~(i < 1) /\ r[i + 1] = q[i]
    BY <1>1, <1>2
  <2> QED
    BY <1>3, <2>1, <2>2
<1> QED
  BY <1>4 DEF r
-------------------------------------------------------------------------------
(* LRU and MRU: the states of a list and entries that are two views of one set of *)
(* blocks, and what the methods make of them.                                     *)

ListRecord == [queue : Seq(Nodes), keyAt : [Nodes -> Keys \cup {None}],
               place : [Keys -> Nodes \cup {None}], remote : SUBSET Keys, broken : {FALSE}]

\* The order of use as the list has it.
ListOrder(s) == Through(s.keyAt, s.queue)

\* What a linked list and its entries say of each other.
LEMMA LinkedFacts ==
  ASSUME NEW s, List!Linked(s)
  PROVE  /\ s \in ListRecord /\ s.queue \in Seq(Nodes) /\ s.keyAt \in [Nodes -> Keys \cup {None}]
         /\ s.place \in [Keys -> Nodes \cup {None}] /\ s.remote \in SUBSET Keys /\ s.broken = FALSE
         /\ IsInjective(s.queue) /\ ToSet(s.queue) \subseteq Nodes
         /\ \A n \in Nodes : n \in ToSet(s.queue) <=> s.keyAt[n] # None
         /\ \A n \in Nodes, k \in Keys : s.keyAt[n] = k <=> s.place[k] = n
         /\ \A n \in ToSet(s.queue) : s.keyAt[n] \in List!Held(s) /\ s.place[s.keyAt[n]] = n
         /\ \A k \in List!Held(s) : s.place[k] \in ToSet(s.queue) /\ s.keyAt[s.place[k]] = k
         /\ \A k \in Keys : k \in List!Held(s) <=> s.place[k] # None
         /\ \A a, b \in ToSet(s.queue) : s.keyAt[a] = s.keyAt[b] => a = b
         /\ List!Held(s) = {s.keyAt[n] : n \in ToSet(s.queue)}
         /\ IsFiniteSet(List!Held(s)) /\ Cardinality(List!Held(s)) = Len(s.queue)
         /\ Len(s.queue) \in Nat /\ Len(s.queue) <= Capacity
<1>1. /\ s \in ListRecord /\ s.queue \in Seq(Nodes) /\ s.keyAt \in [Nodes -> Keys \cup {None}]
      /\ s.place \in [Keys -> Nodes \cup {None}] /\ s.remote \in SUBSET Keys /\ s.broken = FALSE
  BY DEF List!Linked, ListRecord
<1>2. /\ IsInjective(s.queue) /\ \A n \in Nodes : n \in ToSet(s.queue) <=> s.keyAt[n] # None
      /\ IsFiniteSet(List!Held(s)) /\ Cardinality(List!Held(s)) = Len(s.queue)
  BY ListOperators DEF List!Linked
<1>3. ToSet(s.queue) \subseteq Nodes
  BY <1>1 DEF ToSet
<1>4. \A n \in Nodes, k \in Keys : s.keyAt[n] = k <=> s.place[k] = n
  BY DEF List!Linked
<1>5. \A k \in Keys : k \in List!Held(s) <=> s.place[k] # None
  BY DEF List!Held, List!Has
<1>6. \A n \in ToSet(s.queue) : s.keyAt[n] \in List!Held(s) /\ s.place[s.keyAt[n]] = n
  <2> SUFFICES ASSUME NEW n \in ToSet(s.queue)
               PROVE  s.keyAt[n] \in List!Held(s) /\ s.place[s.keyAt[n]] = n
    OBVIOUS
  <2>1. n \in Nodes /\ s.keyAt[n] \in Keys
    BY <1>1, <1>2, <1>3
  <2>2. s.place[s.keyAt[n]] = n /\ n # None
    BY <1>4, <2>1, NoneIsNothing
  <2> QED
    BY <1>5, <2>1, <2>2
<1>7. \A k \in List!Held(s) : s.place[k] \in ToSet(s.queue) /\ s.keyAt[s.place[k]] = k
  <2> SUFFICES ASSUME NEW k \in List!Held(s)
               PROVE  s.place[k] \in ToSet(s.queue) /\ s.keyAt[s.place[k]] = k
    OBVIOUS
  <2>1. k \in Keys /\ s.place[k] \in Nodes
    BY <1>1, <1>5 DEF List!Held
  <2> QED
    BY <1>2, <1>4, <2>1, NoneIsNothing
<1>8. \A a, b \in ToSet(s.queue) : s.keyAt[a] = s.keyAt[b] => a = b
  BY <1>6
<1>9. List!Held(s) = {s.keyAt[n] : n \in ToSet(s.queue)}
  BY <1>6, <1>7
<1>10. Len(s.queue) \in Nat /\ Len(s.queue) <= Capacity
  BY <1>1 DEF List!Linked
<1> QED
  BY <1>1, <1>2, <1>3, <1>4, <1>5, <1>6, <1>7, <1>8, <1>9, <1>10

\* The order of use has each resident block once.
LEMMA OrderFacts ==
  ASSUME NEW s, List!Linked(s)
  PROVE  /\ ListOrder(s) \in Seq(Keys \cup {None}) /\ IsInjective(ListOrder(s))
         /\ ToSet(ListOrder(s)) = List!Held(s)
         /\ Len(ListOrder(s)) = Cardinality(List!Held(s))
         /\ \A n \in ToSet(s.queue) :
              Through(s.keyAt, RemoveFirst(s.queue, n)) = RemoveFirst(ListOrder(s), s.keyAt[n])
<1> DEFINE q == s.queue
           f == s.keyAt
           T == Keys \cup {None}
<1>1. /\ q \in Seq(Nodes) /\ IsInjective(q) /\ f \in [Nodes -> T]
      /\ \A a, b \in ToSet(q) : f[a] = f[b] => a = b
  BY LinkedFacts
<1>2. List!Held(s) = {f[n] : n \in ToSet(q)} /\ Cardinality(List!Held(s)) = Len(q)
  BY LinkedFacts
<1> HIDE DEF q, f, T
<1>3. /\ Through(f, q) \in Seq(T) /\ Len(Through(f, q)) = Len(q)
      /\ IsInjective(Through(f, q))
      /\ ToSet(Through(f, q)) = {f[n] : n \in ToSet(q)}
      /\ \A n \in ToSet(q) : Through(f, RemoveFirst(q, n)) = RemoveFirst(Through(f, q), f[n])
  BY <1>1, ThroughRemoved
<1> QED
  BY <1>2, <1>3 DEF ListOrder, q, f, T

\* refer() of a resident block: its node, its entry and its address stay, and it moves to
\* the front; if it is there already, nothing changes.
LEMMA Referred ==
  ASSUME Reuse, NEW s, List!Linked(s), NEW k \in List!Held(s)
  PROVE  \E t : /\ List!Refer(s, k) = {t} /\ List!Linked(t)
                /\ List!Held(t) = List!Held(s) /\ t.remote = s.remote
                /\ t.place[k] = Head(t.queue) /\ t.queue # <<>>
                /\ ListOrder(t) = <<k>> \o RemoveFirst(ListOrder(s), k)
                /\ List!Refer(t, k) = {t}
<1> DEFINE n == s.place[k]
           rest == RemoveFirst(s.queue, n)
           t == [s EXCEPT !.queue = <<n>> \o rest]
<1>1. /\ n \in ToSet(s.queue) /\ n \in Nodes /\ s.keyAt[n] = k /\ k \in Keys /\ k # None
      /\ s.place[k] # None
  <2>1. k \in Keys /\ k # None
    BY NoneIsNothing DEF List!Held
  <2>2. s.place[k] \in ToSet(s.queue) /\ s.keyAt[s.place[k]] = k /\ ToSet(s.queue) \subseteq Nodes
    BY LinkedFacts
  <2>3. s.place[k] # None
    BY LinkedFacts, <2>1
  <2> QED
    BY <2>1, <2>2, <2>3
<1>2. /\ rest \in Seq(Nodes) /\ IsInjective(rest) /\ ToSet(rest) = ToSet(s.queue) \ {n}
      /\ Len(rest) = Len(s.queue) - 1
  <2>1. s.queue \in Seq(Nodes) /\ IsInjective(s.queue)
    BY LinkedFacts
  <2> HIDE DEF n
  <2> QED
    BY <1>1, <2>1, Removed
<1>3. /\ <<n>> \o rest \in Seq(Nodes) /\ IsInjective(<<n>> \o rest)
      /\ ToSet(<<n>> \o rest) = ToSet(rest) \cup {n}
      /\ Len(<<n>> \o rest) = Len(rest) + 1 /\ Head(<<n>> \o rest) = n
  BY <1>1, <1>2, PushedFront
<1>4. RemoveFirst(<<n>> \o rest, n) = rest
  BY <1>1, <1>2, FrontRemoved
<1>5. <<n>> \o rest # <<>>
  BY <1>2, <1>3, LinkedFacts
<1>6. /\ t.queue = <<n>> \o rest /\ t.keyAt = s.keyAt /\ t.place = s.place
      /\ t.remote = s.remote /\ t.broken = FALSE /\ t \in ListRecord
  <2>1. s \in ListRecord /\ s.broken = FALSE
    BY LinkedFacts
  <2> HIDE DEF n, rest
  <2> QED
    BY <1>3, <2>1 DEF ListRecord
\* What refer makes of a state that differs from s at most in the order of the list.
<1>7. ASSUME NEW u \in ListRecord, u.keyAt = s.keyAt, u.place = s.place,
             u.broken = FALSE, RemoveFirst(u.queue, n) = rest, u = [s EXCEPT !.queue = u.queue]
      PROVE  List!Refer(u, k) = {t}
  <2>1. List!Has(u, k) /\ u.keyAt[n] = k /\ u.place[k] = n
    BY <1>1, <1>7 DEF List!Has
  <2>2. List!Refer(u, k) = List!ReferHeld(u, k)
    BY <1>7, <2>1 DEF List!Refer
  <2>3. List!ReferHeld(u, k) = {List!PushFront(List!Unlink(u, n), k, n)}
    BY <1>1, <2>1 DEF List!ReferHeld
  <2>4. List!Unlink(u, n) = [u EXCEPT !.queue = rest, !.keyAt[n] = None]
    BY <1>7, ListOperators DEF List!Unlink
  <2>5. List!PushFront(List!Unlink(u, n), k, n) = t
    <3> HIDE DEF n, rest
    <3> DEFINE v == List!Unlink(u, n)
    <3>1. /\ v.queue = rest /\ v.keyAt = [s.keyAt EXCEPT ![n] = None] /\ v.place = s.place
          /\ v.remote = u.remote /\ v.broken = FALSE
          /\ v = [queue |-> rest, keyAt |-> v.keyAt, place |-> v.place, remote |-> v.remote, broken |-> v.broken]
      BY <1>7, <2>4 DEF ListRecord
    <3> HIDE DEF v
    <3>2. List!PushFront(v, k, n) = [v EXCEPT !.queue = <<n>> \o rest, !.keyAt = [v.keyAt EXCEPT ![n] = k]]
      BY <3>1 DEF List!PushFront
    <3>3. [v.keyAt EXCEPT ![n] = k] = s.keyAt
      <4>1. s.keyAt \in [Nodes -> Keys \cup {None}]
        BY LinkedFacts
      <4> QED
        BY <1>1, <3>1, <4>1
    <3>4. s \in ListRecord /\ u.remote = s.remote
      <4>1. s \in ListRecord
        BY LinkedFacts
      <4> QED
        BY <1>7, <4>1 DEF ListRecord
    <3>5. t = [queue |-> <<n>> \o rest, keyAt |-> s.keyAt, place |-> s.place, remote |-> s.remote, broken |-> FALSE]
      <4> HIDE DEF t
      <4> QED
        BY <1>6 DEF ListRecord
    <3> QED
      BY <3>1, <3>2, <3>3, <3>4, <3>5 DEF v
  <2> QED
    BY <2>2, <2>3, <2>5
<1>8. List!Refer(s, k) = {t} /\ List!Refer(t, k) = {t}
  <2>1. s \in ListRecord /\ s.broken = FALSE /\ s = [s EXCEPT !.queue = s.queue]
    <3>1. s \in ListRecord /\ s.broken = FALSE
      BY LinkedFacts
    <3> QED
      BY <3>1 DEF ListRecord
  <2>2. List!Refer(s, k) = {t}
    BY <1>7, <2>1
  <2>3. RemoveFirst(t.queue, n) = rest
    BY <1>4, <1>6
  <2>4. t = [s EXCEPT !.queue = t.queue]
    BY <1>6
  <2> HIDE DEF n, rest, t
  <2> QED
    BY <1>6, <1>7, <2>2, <2>3, <2>4
<1>9. List!Held(t) = List!Held(s)
  BY <1>6 DEF List!Held, List!Has
<1>10. ToSet(<<n>> \o rest) = ToSet(s.queue) /\ Len(<<n>> \o rest) = Len(s.queue)
  <2>1. Len(s.queue) \in Nat
    BY LinkedFacts
  <2> HIDE DEF n, rest
  <2>2. Len(<<n>> \o rest) = (Len(s.queue) - 1) + 1
    BY <1>2, <1>3
  <2>3. ToSet(<<n>> \o rest) = (ToSet(s.queue) \ {n}) \cup {n}
    BY <1>2, <1>3
  <2>4. (ToSet(s.queue) \ {n}) \cup {n} = ToSet(s.queue)
    BY <1>1
  <2>5. Len(<<n>> \o rest) = Len(s.queue)
    BY <2>1, <2>2
  <2> QED
    BY <2>3, <2>4, <2>5
<1>11. List!Linked(t)
  <2> HIDE DEF n, rest, t
  <2>1. /\ t \in ListRecord /\ IsInjective(t.queue) /\ ToSet(t.queue) = ToSet(s.queue)
        /\ Len(t.queue) = Len(s.queue)
    BY <1>3, <1>6, <1>10
  <2>2. /\ \A m \in Nodes : m \in ToSet(t.queue) <=> t.keyAt[m] # None
        /\ \A m \in Nodes, j \in Keys : t.keyAt[m] = j <=> t.place[j] = m
    <3>1. /\ \A m \in Nodes : m \in ToSet(s.queue) <=> s.keyAt[m] # None
          /\ \A m \in Nodes, j \in Keys : s.keyAt[m] = j <=> s.place[j] = m
      BY LinkedFacts
    <3>2. t.keyAt = s.keyAt /\ t.place = s.place
      BY <1>6
    <3> QED
      BY <2>1, <3>1, <3>2
  <2>3. /\ IsFiniteSet(List!Held(t)) /\ Cardinality(List!Held(t)) = Len(t.queue)
        /\ Len(t.queue) <= Capacity
    BY <1>9, <2>1, LinkedFacts
  <2> QED
    BY <2>1, <2>2, <2>3, ListOperators DEF List!Linked, ListRecord
<1>12. ListOrder(t) = <<k>> \o RemoveFirst(ListOrder(s), k)
  <2>1. Through(s.keyAt, <<n>> \o rest) = <<s.keyAt[n]>> \o Through(s.keyAt, rest)
    <3> HIDE DEF n, rest
    <3> QED
      BY <1>1, <1>2, ThroughFront
  <2>2. Through(s.keyAt, rest) = RemoveFirst(ListOrder(s), s.keyAt[n])
    BY <1>1, OrderFacts
  <2> QED
    BY <1>1, <1>6, <2>1, <2>2 DEF ListOrder
<1> QED
  <2> HIDE DEF t
  <2> QED
    BY <1>3, <1>5, <1>6, <1>8, <1>9, <1>11, <1>12

\* An eviction takes a node out of the list, its block out of the entries and the order,
\* and sends the block to its worker.
LEMMA Evicted ==
  ASSUME NEW s, List!Linked(s), NEW n \in ToSet(s.queue), NEW v, v = s.keyAt[n]
  PROVE  LET u == List!EvictNode(s, n) IN
         /\ List!Linked(u) /\ v \in List!Held(s) /\ List!Held(u) = List!Held(s) \ {v}
         /\ Len(u.queue) = Len(s.queue) - 1 /\ u.remote = s.remote \cup {v}
         /\ ListOrder(u) = RemoveFirst(ListOrder(s), v)
<1> DEFINE u == List!EvictNode(s, n)
           rest == RemoveFirst(s.queue, n)
<1>1. /\ v \in List!Held(s) /\ v \in Keys /\ s.place[v] = n /\ n \in Nodes /\ n # None /\ v # None
  <2>1. v \in List!Held(s) /\ s.place[v] = n /\ n \in Nodes
    BY LinkedFacts
  <2>2. v \in Keys
    BY <2>1 DEF List!Held
  <2> QED
    BY <2>1, <2>2, NoneIsNothing
<1>2. /\ rest \in Seq(Nodes) /\ IsInjective(rest) /\ ToSet(rest) = ToSet(s.queue) \ {n}
      /\ Len(rest) = Len(s.queue) - 1
  <2>1. s.queue \in Seq(Nodes) /\ IsInjective(s.queue)
    BY LinkedFacts
  <2> QED
    BY <2>1, Removed
<1>3. s \in ListRecord /\ s.broken = FALSE
  BY LinkedFacts
<1>4. u = [List!Unlink(s, n) EXCEPT !.place[v] = None, !.remote = @ \cup {v}]
  BY <1>1 DEF List!EvictNode, List!Has
<1>5. List!Unlink(s, n) = [s EXCEPT !.queue = rest, !.keyAt[n] = None]
  BY ListOperators DEF List!Unlink
<1> HIDE DEF u, rest
<1>6. /\ u.queue = rest /\ u.keyAt = [s.keyAt EXCEPT ![n] = None]
      /\ u.place = [s.place EXCEPT ![v] = None] /\ u.remote = s.remote \cup {v}
      /\ u.broken = FALSE
      /\ u = [queue |-> u.queue, keyAt |-> u.keyAt, place |-> u.place, remote |-> u.remote,
              broken |-> u.broken]
  BY <1>3, <1>4, <1>5 DEF ListRecord
<1>7. /\ s.keyAt \in [Nodes -> Keys \cup {None}] /\ s.place \in [Keys -> Nodes \cup {None}]
      /\ s.remote \in SUBSET Keys /\ Len(s.queue) \in Nat /\ Len(s.queue) <= Capacity
  BY LinkedFacts
<1>8. /\ \A m \in Nodes : u.keyAt[m] = IF m = n THEN None ELSE s.keyAt[m]
      /\ \A k \in Keys : u.place[k] = IF k = v THEN None ELSE s.place[k]
  BY <1>1, <1>6, <1>7
<1>9. u \in ListRecord
  <2>1. /\ u.keyAt \in [Nodes -> Keys \cup {None}] /\ u.place \in [Keys -> Nodes \cup {None}]
        /\ u.remote \in SUBSET Keys /\ u.queue \in Seq(Nodes) /\ u.broken \in {FALSE}
    BY <1>1, <1>2, <1>6, <1>7
  <2> QED
    BY <1>6, <2>1 DEF ListRecord
<1>10. \A m \in Nodes : m \in ToSet(u.queue) <=> u.keyAt[m] # None
  <2>1. \A m \in Nodes : m \in ToSet(s.queue) <=> s.keyAt[m] # None
    BY LinkedFacts
  <2> QED
    BY <1>2, <1>6, <1>8, <2>1
<1>11. \A m \in Nodes, k \in Keys : u.keyAt[m] = k <=> u.place[k] = m
  <2> SUFFICES ASSUME NEW m \in Nodes, NEW k \in Keys
               PROVE  u.keyAt[m] = k <=> u.place[k] = m
    OBVIOUS
  <2>1. s.keyAt[m] = k <=> s.place[k] = m
    BY DEF List!Linked
  <2>2. k # None /\ m # None
    BY NoneIsNothing
  <2>3. u.keyAt[m] = (IF m = n THEN None ELSE s.keyAt[m]) /\ u.place[k] = IF k = v THEN None ELSE s.place[k]
    BY <1>8
  <2> QED
    BY <1>1, <2>1, <2>2, <2>3
<1>12. List!Held(u) = List!Held(s) \ {v}
  BY <1>8 DEF List!Held, List!Has
<1>13. IsFiniteSet(List!Held(u)) /\ Cardinality(List!Held(u)) = Len(u.queue)
  <2>1. IsFiniteSet(List!Held(s)) /\ Cardinality(List!Held(s)) = Len(s.queue)
    BY LinkedFacts
  <2>2. IsFiniteSet(List!Held(s) \ {v}) /\ Cardinality(List!Held(s) \ {v}) = Cardinality(List!Held(s)) - 1
    BY <1>1, <2>1, FS_RemoveElement
  <2> QED
    BY <1>2, <1>6, <1>12, <2>1, <2>2
<1>14. Len(u.queue) = Len(s.queue) - 1 /\ Len(u.queue) <= Capacity
  BY <1>2, <1>6, <1>7, StrategyAssumption
<1>15. List!Linked(u)
  BY <1>2, <1>6, <1>9, <1>10, <1>11, <1>13, <1>14, ListOperators DEF List!Linked, ListRecord
<1>16. ListOrder(u) = RemoveFirst(ListOrder(s), v)
  <2>1. \A m \in ToSet(rest) : u.keyAt[m] = s.keyAt[m]
    <3>1. ToSet(s.queue) \subseteq Nodes
      BY LinkedFacts
    <3> QED
      BY <1>2, <1>8, <3>1
  <2>2. Through(u.keyAt, rest) = Through(s.keyAt, rest)
    BY <1>2, <2>1, ThroughSame
  <2>3. Through(s.keyAt, rest) = RemoveFirst(ListOrder(s), v)
    BY OrderFacts DEF rest
  <2> QED
    BY <1>6, <2>2, <2>3 DEF ListOrder
<1> QED
  BY <1>1, <1>6, <1>12, <1>14, <1>15, <1>16 DEF u

\* push_front of a block that has no entry, on a free node, and the entry made for it.
LEMMA Added ==
  ASSUME NEW s, List!Linked(s), Len(s.queue) < Capacity, NEW k \in Keys, k \notin List!Held(s),
         NEW n \in List!Free(s)
  PROVE  LET t == List!AddToCache(List!PushFront(s, k, n), k) IN
         /\ List!Linked(t) /\ List!Held(t) = List!Held(s) \cup {k} /\ t.remote = s.remote
         /\ ListOrder(t) = <<k>> \o ListOrder(s)
<1> DEFINE u == List!PushFront(s, k, n)
           t == List!AddToCache(u, k)
           q == <<n>> \o s.queue
<1>1. /\ s \in ListRecord /\ s.broken = FALSE /\ s.queue \in Seq(Nodes)
      /\ s.keyAt \in [Nodes -> Keys \cup {None}] /\ s.place \in [Keys -> Nodes \cup {None}]
      /\ s.remote \in SUBSET Keys /\ Len(s.queue) \in Nat /\ IsInjective(s.queue)
  BY LinkedFacts
<1>2. n \in Nodes /\ n \notin ToSet(s.queue) /\ s.keyAt[n] = None /\ n # None /\ k # None
  <2>1. n \in Nodes /\ s.keyAt[n] = None
    BY DEF List!Free
  <2> QED
    BY <2>1, LinkedFacts, NoneIsNothing
<1>3. s.place[k] = None
  BY DEF List!Held, List!Has
<1>4. /\ q \in Seq(Nodes) /\ IsInjective(q) /\ ToSet(q) = ToSet(s.queue) \cup {n}
      /\ Len(q) = Len(s.queue) + 1 /\ Head(q) = n
  BY <1>1, <1>2, PushedFront
<1> HIDE DEF q
<1>5. /\ u.queue = q /\ u.keyAt = [s.keyAt EXCEPT ![n] = k] /\ u.place = s.place
      /\ u.remote = s.remote /\ u.broken = FALSE
      /\ u = [queue |-> u.queue, keyAt |-> u.keyAt, place |-> u.place, remote |-> u.remote,
              broken |-> u.broken]
  <2>1. u = [s EXCEPT !.queue = q, !.keyAt[n] = k]
    BY DEF List!PushFront, q
  <2> HIDE DEF u
  <2> QED
    BY <1>1, <2>1 DEF ListRecord
<1> HIDE DEF u
<1>6. t = [u EXCEPT !.place[k] = n]
  BY <1>4, <1>5 DEF List!AddToCache
<1> HIDE DEF t
<1>7. /\ t.queue = q /\ t.keyAt = [s.keyAt EXCEPT ![n] = k]
      /\ t.place = [s.place EXCEPT ![k] = n] /\ t.remote = s.remote /\ t.broken = FALSE
      /\ t = [queue |-> t.queue, keyAt |-> t.keyAt, place |-> t.place, remote |-> t.remote,
              broken |-> t.broken]
  BY <1>5, <1>6
<1>8. /\ \A m \in Nodes : t.keyAt[m] = IF m = n THEN k ELSE s.keyAt[m]
      /\ \A j \in Keys : t.place[j] = IF j = k THEN n ELSE s.place[j]
  BY <1>1, <1>2, <1>7
<1>9. t \in ListRecord
  <2>1. /\ t.keyAt \in [Nodes -> Keys \cup {None}] /\ t.place \in [Keys -> Nodes \cup {None}]
        /\ t.remote \in SUBSET Keys /\ t.queue \in Seq(Nodes) /\ t.broken \in {FALSE}
    <3>1. [s.keyAt EXCEPT ![n] = k] \in [Nodes -> Keys \cup {None}]
      BY <1>1, <1>2
    <3>2. [s.place EXCEPT ![k] = n] \in [Keys -> Nodes \cup {None}]
      BY <1>1, <1>2
    <3> QED
      BY <1>1, <1>4, <1>7, <3>1, <3>2
  <2> QED
    BY <1>7, <2>1 DEF ListRecord
<1>10. \A m \in Nodes : m \in ToSet(t.queue) <=> t.keyAt[m] # None
  <2>1. \A m \in Nodes : m \in ToSet(s.queue) <=> s.keyAt[m] # None
    BY LinkedFacts
  <2> QED
    BY <1>2, <1>4, <1>7, <1>8, <2>1
<1>11. \A m \in Nodes, j \in Keys : t.keyAt[m] = j <=> t.place[j] = m
  <2> SUFFICES ASSUME NEW m \in Nodes, NEW j \in Keys
               PROVE  t.keyAt[m] = j <=> t.place[j] = m
    OBVIOUS
  <2>1. s.keyAt[m] = j <=> s.place[j] = m
    BY DEF List!Linked
  <2>2. j # None /\ m # None
    BY NoneIsNothing
  <2>3. t.keyAt[m] = (IF m = n THEN k ELSE s.keyAt[m]) /\ t.place[j] = IF j = k THEN n ELSE s.place[j]
    BY <1>8
  <2> QED
    BY <1>2, <1>3, <2>1, <2>2, <2>3
<1>12. List!Held(t) = List!Held(s) \cup {k}
  BY <1>2, <1>8 DEF List!Held, List!Has
<1>13. IsFiniteSet(List!Held(t)) /\ Cardinality(List!Held(t)) = Len(t.queue)
  <2>1. IsFiniteSet(List!Held(s)) /\ Cardinality(List!Held(s)) = Len(s.queue)
    BY LinkedFacts
  <2>2. IsFiniteSet(List!Held(s) \cup {k}) /\ Cardinality(List!Held(s) \cup {k}) = Cardinality(List!Held(s)) + 1
    BY <2>1, FS_AddElement
  <2> QED
    BY <1>4, <1>7, <1>12, <2>1, <2>2
<1>14. Len(t.queue) <= Capacity
  BY <1>1, <1>4, <1>7, StrategyAssumption
<1>15. List!Linked(t)
  BY <1>4, <1>7, <1>9, <1>10, <1>11, <1>13, <1>14, ListOperators DEF List!Linked, ListRecord
<1>16. ListOrder(t) = <<k>> \o ListOrder(s)
  <2>1. Through(t.keyAt, <<n>> \o s.queue) = <<t.keyAt[n]>> \o Through(t.keyAt, s.queue)
    BY <1>1, <1>2, ThroughFront
  <2>2. \A m \in ToSet(s.queue) : t.keyAt[m] = s.keyAt[m]
    <3>1. ToSet(s.queue) \subseteq Nodes
      BY LinkedFacts
    <3> QED
      BY <1>2, <1>8, <3>1
  <2>3. Through(t.keyAt, s.queue) = Through(s.keyAt, s.queue)
    BY <1>1, <2>2, ThroughSame
  <2>4. t.keyAt[n] = k
    BY <1>2, <1>8
  <2> QED
    BY <1>7, <2>1, <2>3, <2>4 DEF ListOrder, q
<1> QED
  BY <1>7, <1>12, <1>15, <1>16 DEF t, u

\* What serving block k under policy p makes of a linked list.
Served(p, s, k, t) ==
  LET o    == ListOrder(s)
      kept == IF k \in ToSet(o) \/ Len(o) < Capacity
                THEN o ELSE RemoveFirst(o, IF p = "MRU" THEN Head(o) ELSE Last(o))
  IN  /\ List!Linked(t) /\ k \in List!Held(t)
      /\ List!Held(s) \ List!Held(t) \subseteq t.remote
      /\ \/ /\ k \in List!Held(s) \/ Cardinality(List!Held(s)) < Capacity
            /\ List!Held(t) = List!Held(s) \cup {k}
         \/ /\ k \notin List!Held(s) /\ Cardinality(List!Held(s)) >= Capacity
            /\ \E v \in List!Held(s) : List!Held(t) = (List!Held(s) \ {v}) \cup {k}
      /\ ListOrder(t) = <<k>> \o RemoveFirst(kept, k)

\* A reference to a resident block serves it; another one right after changes nothing.
LEMMA ServedResident ==
  ASSUME Reuse, NEW p, NEW s, List!Linked(s), NEW k \in List!Held(s)
  PROVE  \E t : /\ List!Refer(s, k) = {t} /\ List!Refer(t, k) = {t}
                /\ List!StoreCacheBlock(s, k) = {t} /\ Served(p, s, k, t)
<1>1. PICK t : /\ List!Refer(s, k) = {t} /\ List!Linked(t)
               /\ List!Held(t) = List!Held(s) /\ t.remote = s.remote
               /\ t.place[k] = Head(t.queue) /\ t.queue # <<>>
               /\ ListOrder(t) = <<k>> \o RemoveFirst(ListOrder(s), k)
               /\ List!Refer(t, k) = {t}
  BY Referred
<1>2. List!AddToCache(t, k) = t
  <2>1. /\ t \in ListRecord /\ t.broken = FALSE /\ k \in Keys
        /\ t.place \in [Keys -> Nodes \cup {None}]
    BY <1>1, LinkedFacts DEF List!Held
  <2>2. List!AddToCache(t, k) = [t EXCEPT !.place[k] = Head(t.queue)]
    BY <2>1 DEF List!AddToCache
  <2>3. [t.place EXCEPT ![k] = Head(t.queue)] = t.place
    BY <1>1, <2>1
  <2> QED
    BY <2>1, <2>2, <2>3 DEF ListRecord
<1>3. List!StoreCacheBlock(s, k) = {t}
  BY <1>1, <1>2 DEF List!StoreCacheBlock
<1>4. k \in ToSet(ListOrder(s))
  BY OrderFacts
<1>5. List!Held(t) = List!Held(s) \cup {k}
  BY <1>1
<1>6. Served(p, s, k, t)
  BY <1>1, <1>4, <1>5 DEF Served
<1> QED
  BY <1>1, <1>3, <1>6

\* A block that is not resident is served by storing it, after an eviction from a full
\* cache; a reference right after changes neither the order nor the blocks.
LEMMA ServedNew ==
  ASSUME strategy \in {"LRU", "MRU"}, NEW s, List!Linked(s), NEW k \in Keys, k \notin List!Held(s),
         NEW t \in List!StoreCacheBlock(s, k)
  PROVE  Served(strategy, s, k, t)
<1> DEFINE o == ListOrder(s)
           u == IF Cardinality(List!Held(s)) >= Capacity THEN List!Evict(s) ELSE s
<1>1. PICK n \in List!Free(u) : t = List!AddToCache(List!PushFront(u, k, n), k)
  <2>1. ~List!Has(s, k) /\ s.broken = FALSE
    BY LinkedFacts DEF List!Held
  <2>2. List!Refer(s, k) = {List!PushFront(u, k, n) : n \in List!Free(u)}
    BY <2>1, ListOperators DEF List!Refer, List!ReferNew
  <2> QED
    BY <2>2 DEF List!StoreCacheBlock
<1>2. /\ o \in Seq(Keys \cup {None}) /\ IsInjective(o) /\ ToSet(o) = List!Held(s)
      /\ Len(o) = Cardinality(List!Held(s)) /\ Len(o) \in Nat /\ k \notin ToSet(o)
      /\ Len(o) = Len(s.queue) /\ Len(o) <= Capacity /\ Capacity \in Nat \ {0}
  BY OrderFacts, LinkedFacts, StrategyAssumption
<1> HIDE DEF u, o
<1>3. CASE Len(o) < Capacity
  <2>1. u = s
    BY <1>2, <1>3 DEF u
  <2>2. /\ List!Linked(t) /\ List!Held(t) = List!Held(s) \cup {k}
        /\ ListOrder(t) = <<k>> \o o
    BY <1>1, <1>2, <1>3, <2>1, Added DEF o
  <2>3. RemoveFirst(o, k) = o
    BY <1>2, NothingRemoved
  <2> QED
    BY <1>2, <1>3, <2>2, <2>3 DEF Served, o
<1>4. CASE Len(o) >= Capacity
  <2> DEFINE n0 == IF strategy = "MRU" THEN Head(s.queue) ELSE Last(s.queue)
             v == s.keyAt[n0]
             kept == RemoveFirst(o, v)
  <2>1. s.queue \in Seq(Nodes) /\ s.queue # <<>>
    <3>1. s.queue \in Seq(Nodes)
      BY LinkedFacts
    <3>2. Len(s.queue) # 0
      BY <1>2, <1>4
    <3> QED
      BY <3>1, <3>2
  <2>2. /\ n0 \in ToSet(s.queue)
        /\ v = IF strategy = "MRU" THEN Head(o) ELSE Last(o)
    BY <2>1, Ends DEF o, ListOrder
  <2>3. u = List!EvictNode(s, n0)
    BY <1>2, <1>4, ListOperators DEF u, List!Evict, List!EvictMru, List!EvictLru
  <2> HIDE DEF n0
  <2>4. /\ List!Linked(u) /\ v \in List!Held(s) /\ List!Held(u) = List!Held(s) \ {v}
        /\ Len(u.queue) = Len(s.queue) - 1 /\ u.remote = s.remote \cup {v}
        /\ ListOrder(u) = kept
    BY <2>2, <2>3, Evicted DEF o
  <2>5. Len(u.queue) < Capacity /\ k \notin List!Held(u)
    BY <1>2, <2>4
  <2>6. /\ List!Linked(t) /\ List!Held(t) = List!Held(u) \cup {k} /\ t.remote = u.remote
        /\ ListOrder(t) = <<k>> \o ListOrder(u)
    BY <1>1, <2>4, <2>5, Added
  <2>7. kept \in Seq(Keys \cup {None}) /\ RemoveFirst(kept, k) = kept
    <3>1. kept \in Seq(Keys \cup {None}) /\ ToSet(kept) = ToSet(o) \ {v}
      BY <1>2, Removed
    <3> QED
      BY <1>2, <3>1, NothingRemoved
  <2>9. k \notin ToSet(o) /\ ~(Len(o) < Capacity) /\ Cardinality(List!Held(s)) >= Capacity
    BY <1>2, <1>4
  <2>10. List!Held(t) = (List!Held(s) \ {v}) \cup {k} /\ List!Held(s) \ List!Held(t) \subseteq t.remote
    BY <2>4, <2>6
  <2>11. ListOrder(t) = <<k>> \o RemoveFirst(kept, k)
    BY <2>4, <2>6, <2>7
  <2> HIDE DEF v
  <2> QED
    BY <2>2, <2>4, <2>6, <2>9, <2>10, <2>11 DEF Served, o
<1> QED
  BY <1>2, <1>3, <1>4

\* Serving the block just served changes nothing more.
LEMMA ServedTwice ==
  ASSUME NEW p, NEW s, List!Linked(s), NEW k, NEW t, Served(p, s, k, t),
         NEW u, List!Linked(u), List!Held(u) = List!Held(t), u.remote = t.remote,
         ListOrder(u) = <<k>> \o RemoveFirst(ListOrder(t), k)
  PROVE  Served(p, s, k, u)
<1> DEFINE o == ListOrder(s)
           kept == IF k \in ToSet(o) \/ Len(o) < Capacity
                     THEN o ELSE RemoveFirst(o, IF p = "MRU" THEN Head(o) ELSE Last(o))
           rest == RemoveFirst(kept, k)
           T == Keys \cup {None}
<1>1. o \in Seq(T) /\ IsInjective(o)
  BY OrderFacts
<1> HIDE DEF o
<1>2. kept \in Seq(T) /\ IsInjective(kept)
  BY <1>1, Removed
<1> HIDE DEF kept
<1>3. rest \in Seq(T) /\ IsInjective(rest) /\ ToSet(rest) = ToSet(kept) \ {k}
  BY <1>2, Removed
<1> HIDE DEF rest
<1>4. ListOrder(t) = <<k>> \o rest
  BY DEF Served, rest, kept, o
<1>5. k \in T
  BY DEF Served, List!Held
<1>6. RemoveFirst(<<k>> \o rest, k) = rest
  BY <1>3, <1>5, FrontRemoved
<1>7. ListOrder(u) = ListOrder(t)
  BY <1>4, <1>6
<1> QED
  BY <1>7 DEF Served

\* A step of the LRU or the MRU manager serves a block.
LEMMA ListStep ==
  ASSUME Reuse, strategy \in {"LRU", "MRU"}, List!IInv, List!Next
  PROVE  /\ strategy' = strategy
         /\ \E k \in Keys : \E t : List!State' = t /\ Served(strategy, List!State, k, t)
<1> DEFINE s == List!State
<1>1. List!Linked(s)
  BY DEF List!IInv
<1>2. PICK k \in Keys : List!Store(k) \/ List!GetBlock(k) \/ List!GetHit(k) \/ List!GetMiss(k)
  BY DEF List!Next
<1> HIDE DEF s
<1>3. ASSUME NEW t, List!Become(t), Served(strategy, s, k, t)
      PROVE  strategy' = strategy /\ List!State' = t
  <2>1. /\ strategy' = strategy /\ queue' = t.queue /\ keyAt' = t.keyAt /\ place' = t.place
        /\ sent' = t.remote /\ listBroken' = t.broken
    BY <1>3 DEF List!Become
  <2>2. t \in ListRecord
    BY <1>3, LinkedFacts DEF Served
  <2> QED
    BY <2>1, <2>2 DEF List!State, ListRecord
<1>4. CASE k \in List!Held(s)
  <2>1. PICK t : /\ List!Refer(s, k) = {t} /\ List!Refer(t, k) = {t}
                 /\ List!StoreCacheBlock(s, k) = {t} /\ Served(strategy, s, k, t)
    BY <1>1, <1>4, ServedResident
  <2>2. List!Has(s, k)
    BY <1>4 DEF List!Held
  <2>3. List!Become(t)
    BY <1>2, <2>1, <2>2 DEF List!Store, List!GetBlock, List!GetHit, List!GetMiss, s
  <2> QED
    BY <1>3, <2>1, <2>3 DEF s
<1>5. CASE k \notin List!Held(s)
  <2>1. ~List!Has(s, k)
    BY <1>5 DEF List!Held
  <2>2. PICK t \in List!StoreCacheBlock(s, k) : List!Become(t) \/ \E u \in List!Refer(t, k) : List!Become(u)
    BY <1>2, <2>1 DEF List!Store, List!GetBlock, List!GetHit, List!GetMiss, s
  <2>3. Served(strategy, s, k, t)
    BY <1>1, <1>5, <2>2, ServedNew
  <2>4. CASE List!Become(t)
    BY <1>3, <2>3, <2>4 DEF s
  <2>5. CASE \E u \in List!Refer(t, k) : List!Become(u)
    <3>1. List!Linked(t) /\ k \in List!Held(t)
      BY <2>3 DEF Served
    <3>2. PICK u : /\ List!Refer(t, k) = {u} /\ List!Linked(u)
                   /\ List!Held(u) = List!Held(t) /\ u.remote = t.remote
                   /\ ListOrder(u) = <<k>> \o RemoveFirst(ListOrder(t), k)
      BY <3>1, Referred
    <3>3. Served(strategy, s, k, u)
      BY <1>1, <2>3, <3>2, ServedTwice
    <3> QED
      BY <1>3, <2>5, <3>2, <3>3 DEF s
  <2> QED
    BY <2>2, <2>4, <2>5
<1> QED
  BY <1>4, <1>5

\* What a manager that serves a block owes.
LEMMA ListServes ==
  ASSUME NEW k \in Keys, NEW t, List!State' = t, Served(strategy, List!State, k, t),
         strategy' = strategy
  PROVE  /\ List!IInv'
         /\ List!Held(List!State) \ List!Held(List!State)' \subseteq sent'
         /\ List!Residents!Use(k)
         /\ List!Order!Touch(k)
<1> DEFINE s == List!State
<1>1. List!IInv'
  BY DEF List!IInv, Served
<1>2. List!Held(List!State)' = List!Held(t) /\ sent' = t.remote
  <2>1. List!Held(List!State)' = List!Held(t)
    OBVIOUS
  <2>2. sent' = List!State'.remote
    BY DEF List!State
  <2> QED
    BY <2>1, <2>2
<1>3. List!Residents!Use(k)
  BY <1>2, ListOperators DEF List!Residents!Use, Served
<1>4. List!Order!Touch(k)
  <2>1. ListOrder(s) = [i \in DOMAIN queue |-> keyAt[queue[i]]]
    BY DEF ListOrder, Through, List!State
  <2>2. ListOrder(t) = [i \in DOMAIN queue |-> keyAt[queue[i]]]'
    <3>1. queue' = t.queue /\ keyAt' = t.keyAt
      BY DEF List!State
    <3> QED
      BY <3>1 DEF ListOrder, Through
  <2> DEFINE o == ListOrder(s)
             kept == IF k \in ToSet(o) \/ Len(o) < Capacity
                       THEN o ELSE RemoveFirst(o, IF strategy = "MRU" THEN Head(o) ELSE Last(o))
  <2>3. ListOrder(t) = <<k>> \o RemoveFirst(kept, k)
    BY DEF Served
  <2> QED
    BY <2>1, <2>2, <2>3, OrderOperators DEF List!Order!Touch, List!Order!Victim
<1> QED
  BY <1>1, <1>2, <1>3, <1>4 DEF Served
-------------------------------------------------------------------------------
(* LFU: what is in front of what. *)

\* Who is in front of whom is in the sequence, once.
LEMMA BeforeFacts ==
  ASSUME NEW S, NEW q \in Seq(S), NEW a, NEW b, Lfu!Before(q, a, b)
  PROVE  a \in ToSet(q) /\ b \in ToSet(q) /\ (IsInjective(q) => a # b)
<1>1. PICK i, j \in DOMAIN q : i < j /\ q[i] = a /\ q[j] = b
  BY DEF Lfu!Before
<1>2. i # j
  <2>1. DOMAIN q = 1 .. Len(q) /\ Len(q) \in Nat
    OBVIOUS
  <2> QED
    BY <1>1, <2>1
<1> QED
  BY <1>1, <1>2 DEF ToSet, IsInjective

\* Taking an element out neither changes nor adds to the order of the others.
LEMMA BeforeRemoved ==
  ASSUME NEW S, NEW q \in Seq(S), IsInjective(q), NEW e, NEW a, NEW b, a # e, b # e
  PROVE  Lfu!Before(RemoveFirst(q, e), a, b) <=> Lfu!Before(q, a, b)
<1>1. CASE e \notin ToSet(q)
  BY <1>1, NothingRemoved
<1>2. CASE e \in ToSet(q)
  <2> DEFINE r == RemoveFirst(q, e)
  <2>1. PICK p \in DOMAIN q : q[p] = e
    BY <1>2 DEF ToSet
  <2>2. r = [i \in 1 .. Len(q) - 1 |-> IF i < p THEN q[i] ELSE q[i + 1]]
    BY <2>1, RemovedFirst
  <2>3. DOMAIN q = 1 .. Len(q) /\ Len(q) \in Nat /\ p \in 1 .. Len(q) /\ DOMAIN r = 1 .. Len(q) - 1
    BY <2>1, <2>2
  <2> HIDE DEF r
  <2>4. ASSUME NEW i \in DOMAIN r
        PROVE  \E m \in DOMAIN q : r[i] = q[m] /\ m = IF i < p THEN i ELSE i + 1
    BY <2>2, <2>3
  <2>5. ASSUME NEW m \in DOMAIN q, q[m] # e
        PROVE  \E i \in DOMAIN r : r[i] = q[m] /\ m = IF i < p THEN i ELSE i + 1
    <3>1. CASE m < p
      <4>1. m \in DOMAIN r /\ r[m] = q[m]
        BY <2>2, <2>3, <3>1
      <4> QED
        BY <3>1, <4>1
    <3>2. CASE m > p
      <4>1. m - 1 \in DOMAIN r /\ ~(m - 1 < p) /\ m = (m - 1) + 1
        BY <2>3, <3>2
      <4>2. r[m - 1] = q[m]
        BY <2>2, <2>3, <4>1
      <4> QED
        BY <4>1, <4>2
    <3> QED
      BY <2>1, <2>3, <2>5, <3>1, <3>2
  <2>6. ASSUME Lfu!Before(r, a, b)
        PROVE  Lfu!Before(q, a, b)
    <3>1. PICK i, j \in DOMAIN r : i < j /\ r[i] = a /\ r[j] = b
      BY <2>6 DEF Lfu!Before
    <3>2. PICK m \in DOMAIN q : r[i] = q[m] /\ m = IF i < p THEN i ELSE i + 1
      BY <2>4
    <3>3. PICK n \in DOMAIN q : r[j] = q[n] /\ n = IF j < p THEN j ELSE j + 1
      BY <2>4
    <3>4. m < n
      BY <2>3, <3>1, <3>2, <3>3
    <3> QED
      BY <3>1, <3>2, <3>3, <3>4 DEF Lfu!Before
  <2>7. ASSUME Lfu!Before(q, a, b)
        PROVE  Lfu!Before(r, a, b)
    <3>1. PICK m, n \in DOMAIN q : m < n /\ q[m] = a /\ q[n] = b
      BY <2>7 DEF Lfu!Before
    <3>2. PICK i \in DOMAIN r : r[i] = q[m] /\ m = IF i < p THEN i ELSE i + 1
      BY <2>5, <3>1
    <3>3. PICK j \in DOMAIN r : r[j] = q[n] /\ n = IF j < p THEN j ELSE j + 1
      BY <2>5, <3>1
    <3>4. i < j
      BY <2>3, <3>1, <3>2, <3>3
    <3> QED
      BY <3>1, <3>2, <3>3, <3>4 DEF Lfu!Before
  <2> QED
    BY <2>6, <2>7 DEF r
<1> QED
  BY <1>1, <1>2

\* An element put in front is in front of all, which stay as they were.
LEMMA BeforeFront ==
  ASSUME NEW S, NEW q \in Seq(S), NEW e \in S, NEW a, NEW b
  PROVE  Lfu!Before(<<e>> \o q, a, b) <=> (a = e /\ b \in ToSet(q)) \/ Lfu!Before(q, a, b)
<1> DEFINE r == <<e>> \o q
<1>1. /\ DOMAIN r = 1 .. Len(q) + 1 /\ Len(q) \in Nat /\ DOMAIN q = 1 .. Len(q)
      /\ \A i \in 1 .. Len(q) + 1 : r[i] = IF i = 1 THEN e ELSE q[i - 1]
  OBVIOUS
<1> HIDE DEF r
<1>2. ASSUME NEW m \in DOMAIN q
      PROVE  m + 1 \in DOMAIN r /\ r[m + 1] = q[m]
  BY <1>1
<1>3. ASSUME Lfu!Before(r, a, b)
      PROVE  (a = e /\ b \in ToSet(q)) \/ Lfu!Before(q, a, b)
  <2>1. PICK i, j \in DOMAIN r : i < j /\ r[i] = a /\ r[j] = b
    BY <1>3 DEF Lfu!Before
  <2>2. j - 1 \in DOMAIN q /\ b = q[j - 1]
    BY <1>1, <2>1
  <2>3. CASE i = 1
    BY <1>1, <2>1, <2>2, <2>3 DEF ToSet
  <2>4. CASE i # 1
    <3>1. i - 1 \in DOMAIN q /\ a = q[i - 1] /\ i - 1 < j - 1
      BY <1>1, <2>1, <2>4
    <3> QED
      BY <2>2, <3>1 DEF Lfu!Before
  <2> QED
    BY <2>3, <2>4
<1>4. ASSUME a = e, b \in ToSet(q)
      PROVE  Lfu!Before(r, a, b)
  <2>1. PICK m \in DOMAIN q : q[m] = b
    BY <1>4 DEF ToSet
  <2>2. 1 \in DOMAIN r /\ r[1] = a /\ m + 1 \in DOMAIN r /\ r[m + 1] = b /\ 1 < m + 1
    BY <1>1, <1>2, <1>4, <2>1
  <2> QED
    BY <2>2 DEF Lfu!Before
<1>5. ASSUME Lfu!Before(q, a, b)
      PROVE  Lfu!Before(r, a, b)
  <2>1. PICK m, n \in DOMAIN q : m < n /\ q[m] = a /\ q[n] = b
    BY <1>5 DEF Lfu!Before
  <2>2. /\ m + 1 \in DOMAIN r /\ r[m + 1] = a /\ n + 1 \in DOMAIN r /\ r[n + 1] = b
        /\ m + 1 < n + 1
    BY <1>1, <1>2, <2>1
  <2> QED
    BY <2>2 DEF Lfu!Before
<1> QED
  BY <1>3, <1>4, <1>5 DEF r

\* All others are in front of the last element.
LEMMA BeforeLast ==
  ASSUME NEW S, NEW q \in Seq(S), IsInjective(q), NEW a \in ToSet(q), a # Last(q)
  PROVE  Lfu!Before(q, a, Last(q))
<1>1. DOMAIN q = 1 .. Len(q) /\ Len(q) \in Nat /\ Last(q) = q[Len(q)]
  BY DEF Last
<1>2. PICK i \in DOMAIN q : q[i] = a
  BY DEF ToSet
<1>3. i < Len(q) /\ Len(q) \in DOMAIN q
  BY <1>1, <1>2
<1> QED
  BY <1>1, <1>2, <1>3 DEF Lfu!Before

-------------------------------------------------------------------------------
(* LFU: the lists of blocks by frequency. *)

\* q lists the blocks in S, each once, as r has them.
ByRecency(q, S, r) ==
  /\ q \in Seq(Keys) /\ IsInjective(q) /\ ToSet(q) = S
  /\ \A a, b \in Keys : Lfu!Before(q, a, b) => Lfu!Before(r, a, b)

\* The list of a block just used loses it, the others stay in order.
LEMMA RecencyTouched ==
  ASSUME NEW r \in Seq(Keys), IsInjective(r), NEW k \in Keys, NEW q, NEW S, ByRecency(q, S, r)
  PROVE  /\ ByRecency(RemoveFirst(q, k), S \ {k}, <<k>> \o RemoveFirst(r, k))
         /\ k \notin S /\ S \subseteq ToSet(r) =>
              ByRecency(<<k>> \o q, S \cup {k}, <<k>> \o RemoveFirst(r, k))
<1> DEFINE rest == RemoveFirst(r, k)
           t == <<k>> \o rest
<1>1. rest \in Seq(Keys) /\ ToSet(rest) = ToSet(r) \ {k}
  BY Removed
<1>2. q \in Seq(Keys) /\ IsInjective(q) /\ ToSet(q) = S
  BY DEF ByRecency
<1> HIDE DEF rest, t
<1>3. ASSUME NEW a \in Keys, NEW b \in Keys, a # k, b # k, Lfu!Before(q, a, b)
      PROVE  Lfu!Before(t, a, b)
  <2>1. Lfu!Before(r, a, b)
    BY <1>3 DEF ByRecency
  <2>2. Lfu!Before(rest, a, b)
    BY <1>3, <2>1, BeforeRemoved DEF rest
  <2> QED
    BY <1>1, <2>2, BeforeFront DEF t
<1>4. ByRecency(RemoveFirst(q, k), S \ {k}, t)
  <2>1. /\ RemoveFirst(q, k) \in Seq(Keys) /\ IsInjective(RemoveFirst(q, k))
        /\ ToSet(RemoveFirst(q, k)) = S \ {k}
    BY <1>2, Removed
  <2>2. ASSUME NEW a \in Keys, NEW b \in Keys, Lfu!Before(RemoveFirst(q, k), a, b)
        PROVE  Lfu!Before(t, a, b)
    <3>1. a # k /\ b # k
      BY <2>1, <2>2, BeforeFacts
    <3>2. Lfu!Before(q, a, b)
      BY <1>2, <2>2, <3>1, BeforeRemoved
    <3> QED
      BY <1>3, <3>1, <3>2
  <2> QED
    BY <2>1, <2>2 DEF ByRecency
<1>5. ASSUME k \notin S, S \subseteq ToSet(r)
      PROVE  ByRecency(<<k>> \o q, S \cup {k}, t)
  <2>1. /\ <<k>> \o q \in Seq(Keys) /\ IsInjective(<<k>> \o q)
        /\ ToSet(<<k>> \o q) = S \cup {k}
    BY <1>2, <1>5, PushedFront
  <2>2. ASSUME NEW a \in Keys, NEW b \in Keys, Lfu!Before(<<k>> \o q, a, b)
        PROVE  Lfu!Before(t, a, b)
    <3>1. CASE a = k /\ b \in ToSet(q)
      <4>1. b \in ToSet(rest)
        BY <1>1, <1>2, <1>5, <3>1
      <4> QED
        BY <1>1, <3>1, <4>1, BeforeFront DEF t
    <3>2. CASE Lfu!Before(q, a, b)
      <4>1. a # k /\ b # k
        BY <1>2, <1>5, <3>2, BeforeFacts
      <4> QED
        BY <1>3, <3>2, <4>1
    <3> QED
      BY <1>2, <2>2, <3>1, <3>2, BeforeFront
  <2> QED
    BY <2>1, <2>2 DEF ByRecency
<1> QED
  BY <1>4, <1>5 DEF t, rest

\* So do the lists when a block is given up.
LEMMA RecencyDropped ==
  ASSUME NEW r \in Seq(Keys), IsInjective(r), NEW v, NEW q, NEW S, ByRecency(q, S, r)
  PROVE  ByRecency(RemoveFirst(q, v), S \ {v}, RemoveFirst(r, v))
<1>1. q \in Seq(Keys) /\ IsInjective(q) /\ ToSet(q) = S
  BY DEF ByRecency
<1>2. /\ RemoveFirst(q, v) \in Seq(Keys) /\ IsInjective(RemoveFirst(q, v))
      /\ ToSet(RemoveFirst(q, v)) = S \ {v}
  BY <1>1, Removed
<1>3. ASSUME NEW a \in Keys, NEW b \in Keys, Lfu!Before(RemoveFirst(q, v), a, b)
      PROVE  Lfu!Before(RemoveFirst(r, v), a, b)
  <2>1. a # v /\ b # v
    BY <1>2, <1>3, BeforeFacts
  <2>2. Lfu!Before(q, a, b)
    BY <1>1, <1>3, <2>1, BeforeRemoved
  <2>3. Lfu!Before(r, a, b)
    BY <2>2 DEF ByRecency
  <2> QED
    BY <2>1, <2>3, BeforeRemoved
<1> QED
  BY <1>2, <1>3 DEF ByRecency

\* A map from frequencies to lists, none of them empty.
NoneEmpty(qs) == \E D \in SUBSET (1 .. MaxFreq) : qs \in [D -> Seq(Keys) \ {<<>>}]

\* The list of each frequency has the blocks that F gives that frequency, as r has them.
FiledBy(qs, F, r) ==
  /\ NoneEmpty(qs)
  /\ \A f \in 1 .. MaxFreq : ByRecency(Lfu!At(qs, f), {k \in Keys : F[k] = f}, r)

\* Taking a block out of its list, and the list out of the map if it gets empty.
LEMMA Taken ==
  ASSUME NEW qs, NoneEmpty(qs), NEW f \in 1 .. MaxFreq, NEW k \in Keys,
         Lfu!At(qs, f) # <<>>, IsInjective(Lfu!At(qs, f))
  PROVE  /\ NoneEmpty(Lfu!Take(qs, f, k))
         /\ Lfu!At(Lfu!Take(qs, f, k), f) = RemoveFirst(Lfu!At(qs, f), k)
         /\ \A g \in 1 .. MaxFreq \ {f} : Lfu!At(Lfu!Take(qs, f, k), g) = Lfu!At(qs, g)
<1> DEFINE q == RemoveFirst(qs[f], k)
           t == Lfu!Take(qs, f, k)
<1>0. PICK D \in SUBSET (1 .. MaxFreq) : qs \in [D -> Seq(Keys) \ {<<>>}]
  BY DEF NoneEmpty
<1>5. f \in D /\ Lfu!At(qs, f) = qs[f]
  BY <1>0 DEF Lfu!At
<1>1. q \in Seq(Keys) /\ Lfu!At(qs, f) = qs[f]
  BY <1>0, <1>5, Removed
<1>2. t = IF q = <<>> THEN [g \in D \ {f} |-> qs[g]] ELSE [qs EXCEPT ![f] = q]
  BY <1>0, LfuOperators DEF Lfu!Take
<1> HIDE DEF q, t
<1>3. CASE q = <<>>
  <2>1. t \in [D \ {f} -> Seq(Keys) \ {<<>>}] /\ \A g \in D \ {f} : t[g] = qs[g]
    BY <1>0, <1>2, <1>3
  <2>2. \A g \in 1 .. MaxFreq : Lfu!At(t, g) = IF g = f THEN q ELSE Lfu!At(qs, g)
    BY <1>0, <1>3, <2>1 DEF Lfu!At
  <2>3. NoneEmpty(t)
    BY <2>1 DEF NoneEmpty
  <2> QED
    BY <1>1, <2>2, <2>3 DEF t, q
<1>4. CASE q # <<>>
  <2>1. t \in [D -> Seq(Keys) \ {<<>>}] /\ \A g \in D : t[g] = IF g = f THEN q ELSE qs[g]
    BY <1>0, <1>1, <1>2, <1>4
  <2>2. \A g \in 1 .. MaxFreq : Lfu!At(t, g) = IF g = f THEN q ELSE Lfu!At(qs, g)
    BY <1>0, <1>5, <2>1 DEF Lfu!At
  <2>3. NoneEmpty(t)
    BY <2>1 DEF NoneEmpty
  <2> QED
    BY <1>1, <2>2, <2>3 DEF t, q
<1> QED
  BY <1>3, <1>4

\* Putting a block in front of a list, which is made if it is not there.
LEMMA PutIn ==
  ASSUME NEW qs, NoneEmpty(qs), NEW f \in 1 .. MaxFreq, NEW k \in Keys
  PROVE  /\ NoneEmpty(Lfu!Put(qs, f, k))
         /\ Lfu!At(Lfu!Put(qs, f, k), f) = <<k>> \o Lfu!At(qs, f)
         /\ \A g \in 1 .. MaxFreq \ {f} : Lfu!At(Lfu!Put(qs, f, k), g) = Lfu!At(qs, g)
<1> DEFINE q == <<k>> \o Lfu!At(qs, f)
           t == Lfu!Put(qs, f, k)
<1>0. PICK D \in SUBSET (1 .. MaxFreq) : qs \in [D -> Seq(Keys) \ {<<>>}]
  BY DEF NoneEmpty
<1>1. q \in Seq(Keys) /\ q # <<>>
  <2>1. Lfu!At(qs, f) \in Seq(Keys)
    BY <1>0 DEF Lfu!At
  <2> HIDE DEF t
  <2> DEFINE p == Lfu!At(qs, f)
  <2> HIDE DEF p
  <2>2. p \in Seq(Keys)
    BY <2>1 DEF p
  <2>3. <<k>> \o p \in Seq(Keys) /\ Len(<<k>> \o p) # 0
    BY <2>2
  <2>4. <<k>> \o p # <<>>
    BY <2>3
  <2> QED
    BY <2>3, <2>4 DEF p
<1>2. t = [g \in D \cup {f} |-> IF g = f THEN q ELSE qs[g]]
  BY <1>0 DEF Lfu!Put
<1> HIDE DEF q, t
<1>3. /\ t \in [D \cup {f} -> Seq(Keys) \ {<<>>}]
      /\ \A g \in D \cup {f} : t[g] = IF g = f THEN q ELSE qs[g]
  BY <1>0, <1>1, <1>2
<1>4. \A g \in 1 .. MaxFreq : Lfu!At(t, g) = IF g = f THEN q ELSE Lfu!At(qs, g)
  BY <1>0, <1>3 DEF Lfu!At
<1>5. NoneEmpty(t)
  <2>1. D \cup {f} \in SUBSET (1 .. MaxFreq)
    OBVIOUS
  <2> QED
    BY <1>3, <2>1 DEF NoneEmpty
<1> QED
  BY <1>4, <1>5 DEF t, q

-------------------------------------------------------------------------------
(* LFU: what the methods make of the manager's members. *)

LfuRecord(Q) ==
  [queues : Q, freq : [Keys -> 0 .. MaxFreq], msg : [Keys -> Data \cup {None}],
   remote : [Keys -> Data \cup {None}], broken : {FALSE}, recent : Seq(Keys)]

\* All that Filed says but for the lists by frequency.
Indexed(s) ==
  /\ s \in LfuRecord({s.queues})
  /\ \A k \in Keys : s.freq[k] # 0 <=> s.msg[k] # None
  /\ IsInjective(s.recent) /\ ToSet(s.recent) = Lfu!Held(s)
  /\ IsFiniteSet(Lfu!Held(s)) /\ Cardinality(Lfu!Held(s)) <= Capacity

LEMMA IndexedFacts ==
  ASSUME NEW s, Indexed(s)
  PROVE  /\ s.freq \in [Keys -> 0 .. MaxFreq] /\ s.msg \in [Keys -> Data \cup {None}]
         /\ s.remote \in [Keys -> Data \cup {None}] /\ s.broken = FALSE
         /\ s.recent \in Seq(Keys) /\ IsInjective(s.recent) /\ ToSet(s.recent) = Lfu!Held(s)
BY DEF Indexed, LfuRecord

LEMMA HeldByFrequency ==
  ASSUME NEW s
  PROVE  \A k : k \in Lfu!Held(s) <=> k \in Keys /\ s.freq[k] # 0
BY DEF Lfu!Held, Lfu!Has

\* The two ways to say it are one.
LEMMA FiledIff ==
  ASSUME NEW s
  PROVE  Lfu!Filed(s) <=> Indexed(s) /\ FiledBy(s.queues, s.freq, s.recent)
<1>1. ASSUME Lfu!Filed(s)
      PROVE  Indexed(s) /\ FiledBy(s.queues, s.freq, s.recent)
  <2> DEFINE qs == s.queues
             D  == DOMAIN s.queues
  <2>1. Indexed(s)
    <3>1. s \in LfuRecord([DOMAIN s.queues -> Seq(Keys)])
      BY <1>1 DEF Lfu!Filed, LfuRecord
    <3>2. s \in LfuRecord({s.queues})
      BY <3>1 DEF LfuRecord
    <3> QED
      BY <1>1, <3>2, LfuOperators DEF Lfu!Filed, Indexed, Lfu!Has
  <2>2. /\ qs \in [D -> Seq(Keys)] /\ D \subseteq 1 .. MaxFreq
        /\ D = {s.freq[k] : k \in Lfu!Held(s)}
        /\ \A f \in D : /\ ToSet(qs[f]) = {k \in Keys : s.freq[k] = f} /\ IsInjective(qs[f])
                        /\ \A a, b \in Keys : Lfu!Before(qs[f], a, b) => Lfu!Before(s.recent, a, b)
    BY <1>1, LfuOperators DEF Lfu!Filed, Lfu!Agree
  <2> HIDE DEF qs, D
  <2>3. \A f \in D : qs[f] # <<>>
    <3> SUFFICES ASSUME NEW f \in D
                 PROVE  qs[f] # <<>>
      OBVIOUS
    <3>1. PICK k \in Lfu!Held(s) : s.freq[k] = f
      BY <2>2
    <3>2. k \in ToSet(qs[f])
      BY <2>2, <3>1 DEF Lfu!Held
    <3>3. ToSet(<<>>) = {}
      BY DEF ToSet
    <3> QED
      BY <3>2, <3>3
  <2>4. qs \in [D -> Seq(Keys) \ {<<>>}] /\ D \in SUBSET (1 .. MaxFreq)
    BY <2>2, <2>3
  <2>5. ASSUME NEW f \in 1 .. MaxFreq
        PROVE  ByRecency(Lfu!At(qs, f), {k \in Keys : s.freq[k] = f}, s.recent)
    <3>1. CASE f \in D
      <4>1. Lfu!At(qs, f) = qs[f]
        BY <2>2, <3>1 DEF Lfu!At
      <4> QED
        BY <2>2, <3>1, <4>1 DEF ByRecency
    <3>2. CASE f \notin D
      <4>1. Lfu!At(qs, f) = <<>>
        BY <2>2, <3>2 DEF Lfu!At
      <4>2. {k \in Keys : s.freq[k] = f} = {}
        <5>1. f # 0
          OBVIOUS
        <5> QED
          BY <2>2, <3>2, <5>1, HeldByFrequency
      <4>3. <<>> \in Seq(Keys) /\ IsInjective(<<>>) /\ ToSet(<<>>) = {}
        BY DEF IsInjective, ToSet
      <4>4. \A a, b \in Keys : ~Lfu!Before(<<>>, a, b)
        BY DEF Lfu!Before
      <4> QED
        BY <4>1, <4>2, <4>3, <4>4 DEF ByRecency
    <3> QED
      BY <3>1, <3>2
  <2> QED
    BY <2>1, <2>4, <2>5 DEF FiledBy, NoneEmpty, qs
<1>2. ASSUME Indexed(s), FiledBy(s.queues, s.freq, s.recent)
      PROVE  Lfu!Filed(s)
  <2> DEFINE qs == s.queues
  <2>1. PICK D \in SUBSET (1 .. MaxFreq) : qs \in [D -> Seq(Keys) \ {<<>>}]
    BY <1>2 DEF FiledBy, NoneEmpty
  <2>2. D = DOMAIN qs /\ qs \in [DOMAIN qs -> Seq(Keys)] /\ \A f \in D : qs[f] # <<>>
    BY <2>1
  <2>3. \A f \in 1 .. MaxFreq : ByRecency(Lfu!At(qs, f), {k \in Keys : s.freq[k] = f}, s.recent)
    BY <1>2 DEF FiledBy
  <2>4. \A f \in D : ByRecency(qs[f], {k \in Keys : s.freq[k] = f}, s.recent)
    BY <2>1, <2>2, <2>3 DEF Lfu!At
  <2>5. \A f \in 1 .. MaxFreq \ D : {k \in Keys : s.freq[k] = f} = {}
    <3> SUFFICES ASSUME NEW f \in 1 .. MaxFreq \ D
                 PROVE  {k \in Keys : s.freq[k] = f} = {}
      OBVIOUS
    <3>1. Lfu!At(qs, f) = <<>>
      BY <2>2 DEF Lfu!At
    <3>2. ToSet(<<>>) = {}
      BY DEF ToSet
    <3>3. ToSet(Lfu!At(qs, f)) = {k \in Keys : s.freq[k] = f}
      BY <2>3 DEF ByRecency
    <3> QED
      BY <3>1, <3>2, <3>3
  <2>6. D = {s.freq[k] : k \in Lfu!Held(s)}
    <3>1. ASSUME NEW f \in D
          PROVE  f \in {s.freq[k] : k \in Lfu!Held(s)}
      <4>1. qs[f] \in Seq(Keys) /\ qs[f] # <<>>
        BY <2>1
      <4>2. Head(qs[f]) \in ToSet(qs[f])
        BY <4>1, Ends
      <4>3. PICK k \in Keys : s.freq[k] = f
        BY <2>4, <4>2 DEF ByRecency
      <4>4. f # 0
        BY <2>1
      <4> QED
        BY <4>3, <4>4, HeldByFrequency
    <3>2. ASSUME NEW k \in Lfu!Held(s)
          PROVE  s.freq[k] \in D
      <4>1. k \in Keys /\ s.freq[k] # 0
        BY HeldByFrequency
      <4>2. s.freq[k] \in 1 .. MaxFreq
        <5>1. s.freq \in [Keys -> 0 .. MaxFreq]
          BY <1>2, IndexedFacts
        <5>2. s.freq[k] \in 0 .. MaxFreq
          BY <4>1, <5>1
        <5> QED
          BY <4>1, <5>2, StrategyAssumption
      <4> QED
        BY <2>5, <4>1, <4>2
    <3> QED
      BY <3>1, <3>2
  <2>7. Lfu!Agree(s)
    BY <2>2, <2>4, <2>6, LfuOperators DEF Lfu!Agree, ByRecency
  <2>8. s \in [queues : [DOMAIN s.queues -> Seq(Keys)],
               freq : [Keys -> 0 .. MaxFreq], msg : [Keys -> Data \cup {None}],
               remote : [Keys -> Data \cup {None}], broken : {FALSE}, recent : Seq(Keys)]
    <3> DEFINE DQ == [DOMAIN s.queues -> Seq(Keys)]
    <3>1. s \in LfuRecord({s.queues}) /\ s.queues \in DQ
      BY <1>2, <2>2 DEF Indexed
    <3> HIDE DEF DQ
    <3>2. s \in LfuRecord(DQ)
      BY <3>1 DEF LfuRecord
    <3> QED
      BY <3>2 DEF DQ, LfuRecord
  <2> QED
    BY <1>2, <2>1, <2>2, <2>7, <2>8, LfuOperators DEF Lfu!Filed, Indexed, Lfu!Has
<1> QED
  BY <1>1, <1>2

\* refer() of a resident block: it goes to the front of the next list.
LEMMA LfuReferred ==
  ASSUME NEW s, Lfu!Filed(s), NEW k \in Lfu!Held(s), s.freq[k] + 1 <= MaxFreq
  PROVE  LET t == Lfu!Refer(s, k) IN
         /\ Lfu!Filed(t) /\ Lfu!Held(t) = Lfu!Held(s) /\ t.msg = s.msg /\ t.remote = s.remote
         /\ t.freq[k] = s.freq[k] + 1
<1> DEFINE t == Lfu!Refer(s, k)
           f == s.freq[k]
           latest == <<k>> \o RemoveFirst(s.recent, k)
           taken == Lfu!Take(s.queues, f, k)
           qs == Lfu!Put(taken, f + 1, k)
<1>1. Indexed(s) /\ FiledBy(s.queues, s.freq, s.recent)
  BY FiledIff
<1>2. k \in Keys /\ f \in 1 .. MaxFreq /\ f + 1 \in 1 .. MaxFreq /\ f # f + 1 /\ f + 1 # 0
  <2>1. k \in Keys /\ f # 0
    BY HeldByFrequency
  <2>2. f \in 0 .. MaxFreq
    BY <1>1, <2>1, IndexedFacts
  <2> QED
    BY <2>1, <2>2, StrategyAssumption
<1>3. t = [s EXCEPT !.queues = qs, !.freq[k] = f + 1, !.recent = latest]
  <2>1. s.broken = FALSE /\ Lfu!Has(s, k)
    BY <1>1, HeldByFrequency, IndexedFacts DEF Lfu!Has
  <2>2. t = Lfu!ReferHeld(s, k)
    BY <2>1 DEF Lfu!Refer
  <2>3. Lfu!Latest(s, k) = latest
    BY LfuOperators DEF Lfu!Latest
  <2> QED
    BY <2>2, <2>3 DEF Lfu!ReferHeld
<1> HIDE DEF t, latest, qs, taken, f
<1>7. /\ s.recent \in Seq(Keys) /\ IsInjective(s.recent) /\ ToSet(s.recent) = Lfu!Held(s)
  BY <1>1, IndexedFacts
<1>8. latest \in Seq(Keys) /\ IsInjective(latest) /\ ToSet(latest) = Lfu!Held(s)
  <2> DEFINE rest == RemoveFirst(s.recent, k)
  <2>1. rest \in Seq(Keys) /\ IsInjective(rest) /\ ToSet(rest) = Lfu!Held(s) \ {k}
    BY <1>7, Removed
  <2> HIDE DEF rest
  <2>2. /\ <<k>> \o rest \in Seq(Keys) /\ IsInjective(<<k>> \o rest)
        /\ ToSet(<<k>> \o rest) = (Lfu!Held(s) \ {k}) \cup {k}
    BY <1>2, <2>1, PushedFront
  <2> QED
    BY <2>2 DEF latest, rest
<1>4. /\ t.queues = qs /\ t.freq = [s.freq EXCEPT ![k] = f + 1] /\ t.msg = s.msg
      /\ t.remote = s.remote /\ t.recent = latest /\ t \in LfuRecord({t.queues})
  <2> DEFINE F == [s.freq EXCEPT ![k] = f + 1]
  <2>1. F \in [Keys -> 0 .. MaxFreq]
    <3>1. s.freq \in [Keys -> 0 .. MaxFreq]
      BY <1>1, IndexedFacts
    <3>2. f + 1 \in 0 .. MaxFreq
      BY <1>2, StrategyAssumption
    <3> QED
      BY <1>2, <3>1, <3>2
  <2>2. t = [s EXCEPT !.queues = qs, !.freq = F, !.recent = latest]
    BY <1>3
  <2>3. s \in LfuRecord({s.queues})
    BY <1>1 DEF Indexed
  <2> HIDE DEF F
  <2>4. /\ t.queues = qs /\ t.freq = F /\ t.msg = s.msg /\ t.remote = s.remote /\ t.recent = latest
    BY <2>2, <2>3 DEF LfuRecord
  <2>5. t \in LfuRecord({qs})
    BY <1>8, <2>1, <2>2, <2>3 DEF LfuRecord
  <2> QED
    BY <2>4, <2>5 DEF F
<1>5. /\ \A j \in Keys : t.freq[j] = IF j = k THEN f + 1 ELSE s.freq[j]
      /\ t.freq \in [Keys -> 0 .. MaxFreq] /\ s.freq[k] = f
  <2>1. s.freq \in [Keys -> 0 .. MaxFreq] /\ t.freq \in [Keys -> 0 .. MaxFreq]
    BY <1>1, <1>4, IndexedFacts DEF LfuRecord
  <2> QED
    BY <1>2, <1>4, <2>1 DEF f
<1>6. Lfu!Held(t) = Lfu!Held(s)
  BY <1>2, <1>5, HeldByFrequency
<1>9. Indexed(t)
  <2>1. \A j \in Keys : t.freq[j] # 0 <=> t.msg[j] # None
    <3> SUFFICES ASSUME NEW j \in Keys
                 PROVE  t.freq[j] # 0 <=> t.msg[j] # None
      OBVIOUS
    <3>1. s.freq[j] # 0 <=> s.msg[j] # None
      BY <1>1 DEF Indexed
    <3>2. t.msg[j] = s.msg[j] /\ t.freq[j] = IF j = k THEN f + 1 ELSE s.freq[j]
      BY <1>4, <1>5
    <3>3. f # 0
      BY <1>2
    <3> QED
      BY <1>2, <1>5, <3>1, <3>2, <3>3
  <2> QED
    BY <1>1, <1>4, <1>5, <1>6, <1>8, <2>1 DEF Indexed
<1>10. FiledBy(qs, t.freq, latest)
  <2>1. NoneEmpty(s.queues)
    BY <1>1 DEF FiledBy
  <2>2. \A g \in 1 .. MaxFreq : ByRecency(Lfu!At(s.queues, g), {j \in Keys : s.freq[j] = g}, s.recent)
    BY <1>1 DEF FiledBy
  <2>3. Lfu!At(s.queues, f) # <<>> /\ IsInjective(Lfu!At(s.queues, f))
    <3>1. k \in ToSet(Lfu!At(s.queues, f)) /\ IsInjective(Lfu!At(s.queues, f))
      BY <1>2, <1>5, <2>2 DEF ByRecency
    <3>2. ToSet(<<>>) = {}
      BY DEF ToSet
    <3> QED
      BY <3>1, <3>2
  <2>4. /\ NoneEmpty(taken)
        /\ Lfu!At(taken, f) = RemoveFirst(Lfu!At(s.queues, f), k)
        /\ \A g \in 1 .. MaxFreq \ {f} : Lfu!At(taken, g) = Lfu!At(s.queues, g)
    BY <1>2, <2>1, <2>3, Taken DEF taken
  <2>5. /\ NoneEmpty(qs)
        /\ Lfu!At(qs, f + 1) = <<k>> \o Lfu!At(taken, f + 1)
        /\ \A g \in 1 .. MaxFreq \ {f + 1} : Lfu!At(qs, g) = Lfu!At(taken, g)
    BY <1>2, <2>4, PutIn DEF qs
  <2>6. ASSUME NEW g \in 1 .. MaxFreq
        PROVE  ByRecency(Lfu!At(qs, g), {j \in Keys : t.freq[j] = g}, latest)
    <3> DEFINE q == Lfu!At(s.queues, g)
               S == {j \in Keys : s.freq[j] = g}
    <3>1. ByRecency(q, S, s.recent)
      BY <2>2
    <3>2. S \subseteq ToSet(s.recent)
      BY <1>7, HeldByFrequency
    <3>3. k \in S <=> g = f
      BY <1>2, <1>5
    <3>4. {j \in Keys : t.freq[j] = g} = IF g = f + 1 THEN S \cup {k} ELSE S \ {k}
      BY <1>2, <1>5
    <3>5. q \in Seq(Keys) /\ ToSet(q) = S
      BY <3>1 DEF ByRecency
    <3>6. Lfu!At(qs, g) = IF g = f + 1 THEN <<k>> \o q ELSE RemoveFirst(q, k)
      <4>1. CASE g = f + 1
        BY <1>2, <2>4, <2>5, <4>1
      <4>2. CASE g = f
        BY <1>2, <2>4, <2>5, <4>2
      <4>3. CASE g # f /\ g # f + 1
        <5>1. Lfu!At(qs, g) = q
          BY <2>4, <2>5, <4>3
        <5>2. RemoveFirst(q, k) = q
          BY <3>3, <3>5, <4>3, NothingRemoved
        <5> QED
          BY <4>3, <5>1, <5>2
      <4> QED
        BY <4>1, <4>2, <4>3
    <3> HIDE DEF q, S
    <3>7. /\ ByRecency(RemoveFirst(q, k), S \ {k}, latest)
          /\ k \notin S => ByRecency(<<k>> \o q, S \cup {k}, latest)
      BY <1>2, <1>7, <3>1, <3>2, RecencyTouched DEF latest
    <3> QED
      BY <1>2, <3>3, <3>4, <3>6, <3>7
  <2> QED
    BY <2>5, <2>6 DEF FiledBy
<1>11. Lfu!Filed(t)
  BY <1>4, <1>9, <1>10, FiledIff
<1> QED
  BY <1>2, <1>4, <1>5, <1>6, <1>11 DEF t, f

\* A block that is not resident gets an item in the list of frequency 1.
LEMMA LfuAdded ==
  ASSUME NEW s, Lfu!Filed(s), NEW k \in Keys, k \notin Lfu!Held(s),
         Cardinality(Lfu!Held(s)) < Capacity, NEW d \in Data
  PROVE  LET t == Lfu!AddToCache(s, k, d) IN
         /\ Lfu!Filed(t) /\ Lfu!Held(t) = Lfu!Held(s) \cup {k}
         /\ t.msg = [s.msg EXCEPT ![k] = d] /\ t.remote = s.remote /\ t.freq[k] = 1
<1> DEFINE t == Lfu!AddToCache(s, k, d)
           latest == <<k>> \o RemoveFirst(s.recent, k)
           qs == Lfu!Put(s.queues, 1, k)
<1>1. Indexed(s) /\ FiledBy(s.queues, s.freq, s.recent)
  BY FiledIff
<1>2. s.freq[k] = 0 /\ 1 \in 1 .. MaxFreq /\ 1 \in 0 .. MaxFreq
  BY HeldByFrequency, StrategyAssumption
<1>3. t = [s EXCEPT !.queues = qs, !.freq[k] = 1, !.msg[k] = d, !.recent = latest]
  <2>1. s.broken = FALSE /\ ~Lfu!Has(s, k)
    BY <1>1, <1>2, IndexedFacts DEF Lfu!Has
  <2>2. Lfu!Latest(s, k) = latest
    BY LfuOperators DEF Lfu!Latest
  <2> QED
    BY <2>1, <2>2 DEF Lfu!AddToCache
<1> HIDE DEF t, latest, qs
<1>4. /\ s.recent \in Seq(Keys) /\ IsInjective(s.recent) /\ ToSet(s.recent) = Lfu!Held(s)
  BY <1>1, IndexedFacts
<1>5. /\ latest \in Seq(Keys) /\ IsInjective(latest) /\ ToSet(latest) = Lfu!Held(s) \cup {k}
  <2> DEFINE rest == RemoveFirst(s.recent, k)
  <2>1. rest \in Seq(Keys) /\ IsInjective(rest) /\ ToSet(rest) = Lfu!Held(s) \ {k}
    BY <1>4, Removed
  <2> HIDE DEF rest
  <2>2. /\ <<k>> \o rest \in Seq(Keys) /\ IsInjective(<<k>> \o rest)
        /\ ToSet(<<k>> \o rest) = (Lfu!Held(s) \ {k}) \cup {k}
    BY <2>1, PushedFront
  <2> QED
    BY <2>2 DEF latest, rest
<1>6. /\ t.queues = qs /\ t.freq = [s.freq EXCEPT ![k] = 1] /\ t.msg = [s.msg EXCEPT ![k] = d]
      /\ t.remote = s.remote /\ t.recent = latest /\ t \in LfuRecord({t.queues})
  <2> DEFINE F == [s.freq EXCEPT ![k] = 1]
             M == [s.msg EXCEPT ![k] = d]
  <2>1. F \in [Keys -> 0 .. MaxFreq] /\ M \in [Keys -> Data \cup {None}]
    <3>1. s.freq \in [Keys -> 0 .. MaxFreq] /\ s.msg \in [Keys -> Data \cup {None}]
      BY <1>1, IndexedFacts
    <3>2. F \in [Keys -> 0 .. MaxFreq]
      BY <1>2, <3>1
    <3> QED
      BY <3>1, <3>2
  <2>2. t = [s EXCEPT !.queues = qs, !.freq = F, !.msg = M, !.recent = latest]
    BY <1>3
  <2>3. s \in LfuRecord({s.queues})
    BY <1>1 DEF Indexed
  <2> HIDE DEF F, M
  <2>4. /\ t.queues = qs /\ t.freq = F /\ t.msg = M /\ t.remote = s.remote /\ t.recent = latest
    BY <2>2, <2>3 DEF LfuRecord
  <2>5. t \in LfuRecord({qs})
    BY <1>5, <2>1, <2>2, <2>3 DEF LfuRecord
  <2> QED
    BY <2>4, <2>5 DEF F, M
<1>7. /\ \A j \in Keys : t.freq[j] = IF j = k THEN 1 ELSE s.freq[j]
      /\ \A j \in Keys : t.msg[j] = IF j = k THEN d ELSE s.msg[j]
  <2>1. s.freq \in [Keys -> 0 .. MaxFreq] /\ s.msg \in [Keys -> Data \cup {None}]
    BY <1>1, IndexedFacts
  <2> QED
    BY <1>6, <2>1
<1>8. Lfu!Held(t) = Lfu!Held(s) \cup {k}
  BY <1>2, <1>7, HeldByFrequency
<1>9. Indexed(t)
  <2>1. \A j \in Keys : t.freq[j] # 0 <=> t.msg[j] # None
    <3> SUFFICES ASSUME NEW j \in Keys
                 PROVE  t.freq[j] # 0 <=> t.msg[j] # None
      OBVIOUS
    <3>1. s.freq[j] # 0 <=> s.msg[j] # None
      BY <1>1 DEF Indexed
    <3>2. d # None
      BY NoneIsNothing
    <3> QED
      BY <1>7, <3>1, <3>2
  <2>2. IsFiniteSet(Lfu!Held(t)) /\ Cardinality(Lfu!Held(t)) <= Capacity
    <3>1. IsFiniteSet(Lfu!Held(s))
      BY <1>1 DEF Indexed
    <3>2. Cardinality(Lfu!Held(s)) \in Nat
      BY <3>1, FS_CardinalityType
    <3>3. /\ IsFiniteSet(Lfu!Held(s) \cup {k})
          /\ Cardinality(Lfu!Held(s) \cup {k}) = Cardinality(Lfu!Held(s)) + 1
      BY <3>1, FS_AddElement
    <3> QED
      BY <1>8, <3>2, <3>3, StrategyAssumption
  <2> QED
    BY <1>5, <1>6, <1>8, <2>1, <2>2 DEF Indexed
<1>10. FiledBy(qs, t.freq, latest)
  <2>1. NoneEmpty(s.queues)
    BY <1>1 DEF FiledBy
  <2>2. \A g \in 1 .. MaxFreq : ByRecency(Lfu!At(s.queues, g), {j \in Keys : s.freq[j] = g}, s.recent)
    BY <1>1 DEF FiledBy
  <2>3. /\ NoneEmpty(qs) /\ Lfu!At(qs, 1) = <<k>> \o Lfu!At(s.queues, 1)
        /\ \A g \in 1 .. MaxFreq \ {1} : Lfu!At(qs, g) = Lfu!At(s.queues, g)
    BY <1>2, <2>1, PutIn DEF qs
  <2>4. ASSUME NEW g \in 1 .. MaxFreq
        PROVE  ByRecency(Lfu!At(qs, g), {j \in Keys : t.freq[j] = g}, latest)
    <3> DEFINE q == Lfu!At(s.queues, g)
               S == {j \in Keys : s.freq[j] = g}
    <3>1. ByRecency(q, S, s.recent)
      BY <2>2
    <3>2. S \subseteq ToSet(s.recent) /\ k \notin S
      BY <1>2, <1>4, HeldByFrequency
    <3>3. {j \in Keys : t.freq[j] = g} = IF g = 1 THEN S \cup {k} ELSE S \ {k}
      BY <1>2, <1>7
    <3>4. RemoveFirst(q, k) = q
      BY <3>1, <3>2, NothingRemoved DEF ByRecency
    <3>5. Lfu!At(qs, g) = IF g = 1 THEN <<k>> \o q ELSE RemoveFirst(q, k)
      <4>1. CASE g = 1
        BY <2>3, <4>1
      <4>2. CASE g # 1
        BY <2>3, <3>4, <4>2
      <4> QED
        BY <4>1, <4>2
    <3> HIDE DEF q, S
    <3>6. /\ ByRecency(RemoveFirst(q, k), S \ {k}, latest)
          /\ ByRecency(<<k>> \o q, S \cup {k}, latest)
      BY <1>4, <3>1, <3>2, RecencyTouched DEF latest
    <3> QED
      BY <3>3, <3>5, <3>6
  <2> QED
    BY <2>3, <2>4 DEF FiledBy
<1>11. Lfu!Filed(t)
  BY <1>6, <1>9, <1>10, FiledIff
<1> QED
  BY <1>6, <1>7, <1>8, <1>11 DEF t

\* An eviction gives up the last block of the list of the smallest frequency, with its
\* content: one of the least frequent, and of these the one unused for longest.
LEMMA LfuEvicted ==
  ASSUME NEW s, Lfu!Filed(s), Lfu!Held(s) # {}
  PROVE  LET t == Lfu!Evict(s) IN
         \E v \in Lfu!Held(s) :
           /\ Lfu!Filed(t) /\ Lfu!Held(t) = Lfu!Held(s) \ {v}
           /\ t.remote = [s.remote EXCEPT ![v] = s.msg[v]] /\ t.msg = [s.msg EXCEPT ![v] = None]
           /\ \A k \in Lfu!Held(s) : s.freq[v] <= s.freq[k]
           /\ \A k \in Lfu!Held(s) \ {v} : s.freq[k] = s.freq[v] => Lfu!Before(s.recent, k, v)
<1> DEFINE t == Lfu!Evict(s)
           f == Lfu!Smallest(s)
           v == Lfu!Victim(s)
           kept == RemoveFirst(s.recent, v)
           qs == Lfu!Take(s.queues, f, v)
<1>1. Indexed(s) /\ FiledBy(s.queues, s.freq, s.recent)
  BY FiledIff
<1>2. PICK D \in SUBSET (1 .. MaxFreq) : s.queues \in [D -> Seq(Keys) \ {<<>>}]
  BY <1>1 DEF FiledBy, NoneEmpty
<1>3. D = DOMAIN s.queues /\ D = {s.freq[k] : k \in Lfu!Held(s)} /\ D # {} /\ D \in SUBSET Nat
  <2>1. DOMAIN s.queues = {s.freq[k] : k \in Lfu!Held(s)}
    BY DEF Lfu!Filed, Lfu!Agree
  <2>2. D = DOMAIN s.queues
    BY <1>2
  <2>3. 1 .. MaxFreq \in SUBSET Nat
    BY StrategyAssumption
  <2>4. D # {}
    BY <2>1, <2>2
  <2> QED
    BY <2>1, <2>2, <2>3, <2>4
<1>4. f \in D /\ f \in 1 .. MaxFreq /\ \A g \in D : f <= g
  <2>1. f = Min(D)
    BY <1>3, LfuOperators DEF Lfu!Smallest
  <2>2. Min(D) \in D /\ \A g \in D : Min(D) <= g
    BY <1>3, MinOf
  <2> QED
    BY <2>1, <2>2
<1> DEFINE q == s.queues[f]
<1>5. q \in Seq(Keys) /\ q # <<>> /\ Lfu!At(s.queues, f) = q
  BY <1>2, <1>4 DEF Lfu!At
<1>6. ByRecency(q, {k \in Keys : s.freq[k] = f}, s.recent)
  BY <1>1, <1>4, <1>5 DEF FiledBy
<1>7. v = Last(q) /\ v \in ToSet(q) /\ v \in Keys /\ s.freq[v] = f /\ v \in Lfu!Held(s)
  <2>1. v = Last(q)
    BY LfuOperators DEF Lfu!Victim
  <2> HIDE DEF v, q, f
  <2>2. v \in ToSet(q)
    BY <1>5, <2>1, Ends
  <2>3. v \in Keys /\ s.freq[v] = f
    BY <1>6, <2>2 DEF ByRecency
  <2>4. f # 0
    BY <1>4
  <2> QED
    BY <2>1, <2>2, <2>3, <2>4, HeldByFrequency
<1>8. \A k \in Lfu!Held(s) : s.freq[v] <= s.freq[k]
  BY <1>3, <1>4, <1>7
<1>9. \A k \in Lfu!Held(s) \ {v} : s.freq[k] = s.freq[v] => Lfu!Before(s.recent, k, v)
  <2> SUFFICES ASSUME NEW k \in Lfu!Held(s) \ {v}, s.freq[k] = s.freq[v]
               PROVE  Lfu!Before(s.recent, k, v)
    OBVIOUS
  <2>1. k \in Keys /\ k \in ToSet(q)
    BY <1>6, <1>7, HeldByFrequency DEF ByRecency
  <2> HIDE DEF v, q, f
  <2>2. IsInjective(q) /\ k # Last(q)
    BY <1>6, <1>7 DEF ByRecency
  <2>3. Lfu!Before(q, k, v)
    BY <1>5, <1>7, <2>1, <2>2, BeforeLast
  <2> QED
    BY <1>6, <1>7, <2>1, <2>3 DEF ByRecency
<1>10. t = [s EXCEPT !.queues = qs, !.freq[v] = 0, !.remote[v] = s.msg[v], !.msg[v] = None,
                     !.recent = kept]
  <2>1. ~(DOMAIN s.queues = {} \/ s.queues[Lfu!Smallest(s)] = <<>>)
    BY <1>3, <1>5
  <2> QED
    BY <2>1, LfuOperators DEF Lfu!Evict
<1> HIDE DEF t, kept, qs, v, q, f
<1>11. /\ s.recent \in Seq(Keys) /\ IsInjective(s.recent) /\ ToSet(s.recent) = Lfu!Held(s)
  BY <1>1, IndexedFacts
<1>12. kept \in Seq(Keys) /\ IsInjective(kept) /\ ToSet(kept) = Lfu!Held(s) \ {v}
  BY <1>11, Removed DEF kept
<1>13. /\ s.freq \in [Keys -> 0 .. MaxFreq] /\ s.msg \in [Keys -> Data \cup {None}]
       /\ s.remote \in [Keys -> Data \cup {None}] /\ 0 \in 0 .. MaxFreq
  <2>1. 0 \in 0 .. MaxFreq
    BY StrategyAssumption
  <2> QED
    BY <1>1, <2>1, IndexedFacts
<1>14. /\ t.queues = qs /\ t.freq = [s.freq EXCEPT ![v] = 0] /\ t.msg = [s.msg EXCEPT ![v] = None]
       /\ t.remote = [s.remote EXCEPT ![v] = s.msg[v]] /\ t.recent = kept
       /\ t \in LfuRecord({t.queues})
  <2> DEFINE F == [s.freq EXCEPT ![v] = 0]
             M == [s.msg EXCEPT ![v] = None]
             R == [s.remote EXCEPT ![v] = s.msg[v]]
  <2>1. F \in [Keys -> 0 .. MaxFreq]
    BY <1>7, <1>13
  <2>2. M \in [Keys -> Data \cup {None}] /\ R \in [Keys -> Data \cup {None}]
    BY <1>7, <1>13
  <2>3. t = [s EXCEPT !.queues = qs, !.freq = F, !.remote = R, !.msg = M, !.recent = kept]
    BY <1>10
  <2>4. s \in LfuRecord({s.queues})
    BY <1>1 DEF Indexed
  <2> HIDE DEF F, M, R
  <2>5. /\ t.queues = qs /\ t.freq = F /\ t.msg = M /\ t.remote = R /\ t.recent = kept
    BY <2>3, <2>4 DEF LfuRecord
  <2>6. t \in LfuRecord({qs})
    BY <1>12, <2>1, <2>2, <2>3, <2>4 DEF LfuRecord
  <2> QED
    BY <2>5, <2>6 DEF F, M, R
<1>15. /\ \A j \in Keys : t.freq[j] = IF j = v THEN 0 ELSE s.freq[j]
       /\ \A j \in Keys : t.msg[j] = IF j = v THEN None ELSE s.msg[j]
  BY <1>13, <1>14
<1>16. Lfu!Held(t) = Lfu!Held(s) \ {v}
  BY <1>15, HeldByFrequency
<1>17. Indexed(t)
  <2>1. \A j \in Keys : t.freq[j] # 0 <=> t.msg[j] # None
    <3> SUFFICES ASSUME NEW j \in Keys
                 PROVE  t.freq[j] # 0 <=> t.msg[j] # None
      OBVIOUS
    <3>1. s.freq[j] # 0 <=> s.msg[j] # None
      BY <1>1 DEF Indexed
    <3> QED
      BY <1>15, <3>1
  <2>2. IsFiniteSet(Lfu!Held(t)) /\ Cardinality(Lfu!Held(t)) <= Capacity
    <3>1. IsFiniteSet(Lfu!Held(s)) /\ Cardinality(Lfu!Held(s)) <= Capacity
      BY <1>1 DEF Indexed
    <3>2. Cardinality(Lfu!Held(s)) \in Nat
      BY <3>1, FS_CardinalityType
    <3>3. /\ IsFiniteSet(Lfu!Held(s) \ {v})
          /\ Cardinality(Lfu!Held(s) \ {v}) = Cardinality(Lfu!Held(s)) - 1
      BY <1>7, <3>1, FS_RemoveElement
    <3> QED
      BY <1>16, <3>1, <3>2, <3>3, StrategyAssumption
  <2> QED
    BY <1>12, <1>14, <1>16, <2>1, <2>2 DEF Indexed
<1>18. FiledBy(qs, t.freq, kept)
  <2>1. NoneEmpty(s.queues)
    BY <1>1 DEF FiledBy
  <2>2. \A g \in 1 .. MaxFreq : ByRecency(Lfu!At(s.queues, g), {j \in Keys : s.freq[j] = g}, s.recent)
    BY <1>1 DEF FiledBy
  <2>3. Lfu!At(s.queues, f) # <<>> /\ IsInjective(Lfu!At(s.queues, f))
    BY <1>5, <1>6 DEF ByRecency
  <2>4. /\ NoneEmpty(qs) /\ Lfu!At(qs, f) = RemoveFirst(Lfu!At(s.queues, f), v)
        /\ \A g \in 1 .. MaxFreq \ {f} : Lfu!At(qs, g) = Lfu!At(s.queues, g)
    BY <1>4, <1>7, <2>1, <2>3, Taken DEF qs
  <2>5. ASSUME NEW g \in 1 .. MaxFreq
        PROVE  ByRecency(Lfu!At(qs, g), {j \in Keys : t.freq[j] = g}, kept)
    <3> DEFINE p == Lfu!At(s.queues, g)
               S == {j \in Keys : s.freq[j] = g}
    <3>1. ByRecency(p, S, s.recent)
      BY <2>2
    <3>2. v \in S <=> g = f
      BY <1>7
    <3>3. {j \in Keys : t.freq[j] = g} = S \ {v}
      BY <1>7, <1>15
    <3>4. Lfu!At(qs, g) = RemoveFirst(p, v)
      <4>1. CASE g = f
        BY <2>4, <4>1
      <4>2. CASE g # f
        <5>1. RemoveFirst(p, v) = p
          BY <3>1, <3>2, <4>2, NothingRemoved DEF ByRecency
        <5> QED
          BY <2>4, <4>2, <5>1
      <4> QED
        BY <4>1, <4>2
    <3> HIDE DEF p, S
    <3>5. ByRecency(RemoveFirst(p, v), S \ {v}, kept)
      BY <1>11, <3>1, RecencyDropped DEF kept
    <3> QED
      BY <3>3, <3>4, <3>5
  <2> QED
    BY <2>4, <2>5 DEF FiledBy
<1>19. Lfu!Filed(t)
  BY <1>14, <1>17, <1>18, FiledIff
<1> QED
  BY <1>7, <1>8, <1>9, <1>14, <1>16, <1>19 DEF t

\* Room for block k: nothing in a cache that has some, an eviction in a full one.
LEMMA LfuReferredNew ==
  ASSUME NEW s, Lfu!Filed(s), NEW k \in Keys, k \notin Lfu!Held(s)
  PROVE  LET t == Lfu!Refer(s, k) IN
         /\ Lfu!Filed(t) /\ Cardinality(Lfu!Held(t)) < Capacity
         /\ \/ t = s /\ Cardinality(Lfu!Held(s)) < Capacity
            \/ /\ Cardinality(Lfu!Held(s)) >= Capacity
               /\ \E v \in Lfu!Held(s) :
                    /\ Lfu!Held(t) = Lfu!Held(s) \ {v}
                    /\ t.remote = [s.remote EXCEPT ![v] = s.msg[v]]
                    /\ t.msg = [s.msg EXCEPT ![v] = None]
                    /\ \A j \in Lfu!Held(s) : s.freq[v] <= s.freq[j]
                    /\ \A j \in Lfu!Held(s) \ {v} : s.freq[j] = s.freq[v] => Lfu!Before(s.recent, j, v)
<1> DEFINE t == Lfu!Refer(s, k)
           n == Cardinality(Lfu!Held(s))
<1>1. Indexed(s)
  BY FiledIff
<1>2. IsFiniteSet(Lfu!Held(s)) /\ n \in Nat /\ n <= Capacity /\ Capacity \in Nat \ {0}
  <2>1. IsFiniteSet(Lfu!Held(s)) /\ n <= Capacity
    BY <1>1 DEF Indexed
  <2> QED
    BY <2>1, FS_CardinalityType, StrategyAssumption
<1>3. t = IF n >= Capacity THEN Lfu!Evict(s) ELSE s
  <2>1. s.broken = FALSE /\ ~Lfu!Has(s, k)
    BY <1>1, IndexedFacts DEF Lfu!Held
  <2> QED
    BY <2>1, LfuOperators DEF Lfu!Refer, Lfu!ReferNew
<1> HIDE DEF t
<1>4. CASE n < Capacity
  BY <1>2, <1>3, <1>4 DEF t
<1>5. CASE n >= Capacity
  <2>1. Lfu!Held(s) # {}
    BY <1>2, <1>5, FS_EmptySet
  <2>2. t = Lfu!Evict(s)
    BY <1>3, <1>5
  <2>3. PICK v \in Lfu!Held(s) :
          /\ Lfu!Filed(t) /\ Lfu!Held(t) = Lfu!Held(s) \ {v}
          /\ t.remote = [s.remote EXCEPT ![v] = s.msg[v]] /\ t.msg = [s.msg EXCEPT ![v] = None]
          /\ \A j \in Lfu!Held(s) : s.freq[v] <= s.freq[j]
          /\ \A j \in Lfu!Held(s) \ {v} : s.freq[j] = s.freq[v] => Lfu!Before(s.recent, j, v)
    BY <2>1, <2>2, LfuEvicted
  <2>4. Cardinality(Lfu!Held(s) \ {v}) = n - 1
    BY <1>2, FS_RemoveElement
  <2>5. Cardinality(Lfu!Held(t)) < Capacity
    BY <1>2, <2>3, <2>4
  <2> QED
    BY <1>5, <2>3, <2>5 DEF t
<1>6. n < Capacity \/ n >= Capacity
  BY <1>2
<1> HIDE DEF n
<1> QED
  BY <1>4, <1>5, <1>6 DEF t

\* The content there is of block k: its message in the cache, or the workers' copy.
Content(s, k) == IF s.freq[k] # 0 THEN s.msg[k] ELSE s.remote[k]

\* From s the manager serves block k, which is resident in t.
LfuServed(s, k, t) ==
  /\ Lfu!Filed(t) /\ k \in Lfu!Held(t)
  /\ \/ /\ k \in Lfu!Held(s) \/ Cardinality(Lfu!Held(s)) < Capacity
        /\ Lfu!Held(t) = Lfu!Held(s) \cup {k}
     \/ /\ k \notin Lfu!Held(s) /\ Cardinality(Lfu!Held(s)) >= Capacity
        /\ \E v \in Lfu!Held(s) : Lfu!Held(t) = (Lfu!Held(s) \ {v}) \cup {k}
  /\ \A v \in Lfu!Held(s) \ Lfu!Held(t) :
       /\ \A j \in Lfu!Held(s) : s.freq[v] <= s.freq[j]
       /\ \A j \in Lfu!Held(s) \ {v} : s.freq[j] = s.freq[v] => Lfu!Before(s.recent, j, v)
       /\ t.remote[v] = s.msg[v]
  /\ \A j \in Keys \ {k} : Content(t, j) = Content(s, j)

\* Two states with the same blocks, messages and copies have the same contents.
LEMMA SameContent ==
  ASSUME NEW s, NEW t, Lfu!Held(t) = Lfu!Held(s), t.msg = s.msg, t.remote = s.remote
  PROVE  \A j \in Keys : Content(t, j) = Content(s, j)
<1> SUFFICES ASSUME NEW j \in Keys
             PROVE  Content(t, j) = Content(s, j)
  OBVIOUS
<1>1. t.freq[j] # 0 <=> s.freq[j] # 0
  BY HeldByFrequency
<1> QED
  BY <1>1 DEF Content

LEMMA LfuServedResident ==
  ASSUME NEW s, Lfu!Filed(s), NEW k \in Lfu!Held(s), s.freq[k] + 1 <= MaxFreq
  PROVE  LET t == Lfu!Refer(s, k) IN
         /\ LfuServed(s, k, t) /\ Content(t, k) = Content(s, k) /\ t.freq[k] = s.freq[k] + 1
         /\ \A d : Lfu!AddToCache(t, k, d) = t
<1> DEFINE t == Lfu!Refer(s, k)
<1>1. /\ Lfu!Filed(t) /\ Lfu!Held(t) = Lfu!Held(s) /\ t.msg = s.msg /\ t.remote = s.remote
      /\ t.freq[k] = s.freq[k] + 1
  BY LfuReferred
<1> HIDE DEF t
<1>2. k \in Keys
  BY HeldByFrequency
<1>3. \A j \in Keys : Content(t, j) = Content(s, j)
  BY <1>1, SameContent
<1>4. LfuServed(s, k, t)
  BY <1>1, <1>3 DEF LfuServed
<1>5. \A d : Lfu!AddToCache(t, k, d) = t
  <2>1. Lfu!Has(t, k)
    BY <1>1, HeldByFrequency DEF Lfu!Has
  <2> QED
    BY <2>1 DEF Lfu!AddToCache
<1> QED
  BY <1>1, <1>2, <1>3, <1>4, <1>5 DEF t

LEMMA LfuServedNew ==
  ASSUME NEW s, Lfu!Filed(s), NEW k \in Keys, k \notin Lfu!Held(s), NEW d \in Data
  PROVE  LET t == Lfu!AddToCache(Lfu!Refer(s, k), k, d) IN
         LfuServed(s, k, t) /\ Content(t, k) = d /\ t.freq[k] = 1
<1> DEFINE u == Lfu!Refer(s, k)
           t == Lfu!AddToCache(u, k, d)
<1>1. /\ Lfu!Filed(u) /\ Cardinality(Lfu!Held(u)) < Capacity
      /\ \/ u = s /\ Cardinality(Lfu!Held(s)) < Capacity
         \/ /\ Cardinality(Lfu!Held(s)) >= Capacity
            /\ \E v \in Lfu!Held(s) :
                 /\ Lfu!Held(u) = Lfu!Held(s) \ {v}
                 /\ u.remote = [s.remote EXCEPT ![v] = s.msg[v]]
                 /\ u.msg = [s.msg EXCEPT ![v] = None]
                 /\ \A j \in Lfu!Held(s) : s.freq[v] <= s.freq[j]
                 /\ \A j \in Lfu!Held(s) \ {v} : s.freq[j] = s.freq[v] => Lfu!Before(s.recent, j, v)
  BY LfuReferredNew
<1> HIDE DEF u
<1>2. k \notin Lfu!Held(u)
  BY <1>1
<1>3. /\ Lfu!Filed(t) /\ Lfu!Held(t) = Lfu!Held(u) \cup {k}
      /\ t.msg = [u.msg EXCEPT ![k] = d] /\ t.remote = u.remote /\ t.freq[k] = 1
  BY <1>1, <1>2, LfuAdded
<1> HIDE DEF t
<1>4. /\ s.msg \in [Keys -> Data \cup {None}] /\ s.remote \in [Keys -> Data \cup {None}]
      /\ u.msg \in [Keys -> Data \cup {None}]
  BY <1>1, FiledIff, IndexedFacts
<1>5. Content(t, k) = d
  <2>1. t.msg[k] = d
    BY <1>3, <1>4
  <2> QED
    BY <1>3, <2>1 DEF Content
<1>6. \A j \in Keys \ {k} : t.msg[j] = u.msg[j] /\ (t.freq[j] # 0 <=> u.freq[j] # 0)
  <2> SUFFICES ASSUME NEW j \in Keys \ {k}
               PROVE  t.msg[j] = u.msg[j] /\ (t.freq[j] # 0 <=> u.freq[j] # 0)
    OBVIOUS
  <2>1. t.msg[j] = u.msg[j]
    BY <1>3, <1>4
  <2>2. j \in Lfu!Held(t) <=> j \in Lfu!Held(u)
    BY <1>3
  <2> QED
    BY <2>1, <2>2, HeldByFrequency
<1>7. \A j \in Keys \ {k} : Content(t, j) = Content(u, j)
  BY <1>3, <1>6 DEF Content
<1>8. CASE u = s /\ Cardinality(Lfu!Held(s)) < Capacity
  BY <1>3, <1>5, <1>7, <1>8 DEF LfuServed, t, u
<1>9. CASE Cardinality(Lfu!Held(s)) >= Capacity
  <2>0. ~(u = s /\ Cardinality(Lfu!Held(s)) < Capacity)
    <3>1. IsFiniteSet(Lfu!Held(s))
      BY FiledIff DEF Indexed
    <3>2. Cardinality(Lfu!Held(s)) \in Nat
      BY <3>1, FS_CardinalityType
    <3> QED
      BY <1>9, <3>2, StrategyAssumption
  <2>1. PICK v \in Lfu!Held(s) :
          /\ Lfu!Held(u) = Lfu!Held(s) \ {v}
          /\ u.remote = [s.remote EXCEPT ![v] = s.msg[v]] /\ u.msg = [s.msg EXCEPT ![v] = None]
          /\ \A j \in Lfu!Held(s) : s.freq[v] <= s.freq[j]
          /\ \A j \in Lfu!Held(s) \ {v} : s.freq[j] = s.freq[v] => Lfu!Before(s.recent, j, v)
    BY <1>1, <2>0
  <2>2. v \in Keys /\ s.freq[v] # 0
    BY HeldByFrequency
  <2>3. ASSUME NEW j \in Keys
        PROVE  Content(u, j) = Content(s, j)
    <3>1. /\ u.msg[j] = IF j = v THEN None ELSE s.msg[j]
          /\ u.remote[j] = IF j = v THEN s.msg[v] ELSE s.remote[j]
      BY <1>4, <2>1
    <3>2. u.freq[j] # 0 <=> s.freq[j] # 0 /\ j # v
      BY <2>1, HeldByFrequency
    <3> QED
      BY <2>2, <3>1, <3>2 DEF Content
  <2>4. Lfu!Held(t) = (Lfu!Held(s) \ {v}) \cup {k}
    BY <1>3, <2>1
  <2>5. u.remote[v] = s.msg[v]
    BY <1>4, <2>1, <2>2
  <2>6. \A j \in Keys \ {k} : Content(t, j) = Content(s, j)
    BY <1>7, <2>3
  <2>7. \A x \in Lfu!Held(s) \ Lfu!Held(t) : x = v
    BY <2>4
  <2>8. t.remote[v] = s.msg[v]
    BY <1>3, <2>5
  <2>9. \A x \in Lfu!Held(s) \ Lfu!Held(t) :
          /\ \A j \in Lfu!Held(s) : s.freq[x] <= s.freq[j]
          /\ \A j \in Lfu!Held(s) \ {x} : s.freq[j] = s.freq[x] => Lfu!Before(s.recent, j, x)
          /\ t.remote[x] = s.msg[x]
    BY <2>1, <2>7, <2>8
  <2>10. LfuServed(s, k, t)
    BY <1>3, <1>9, <2>4, <2>6, <2>9 DEF LfuServed
  <2> QED
    BY <1>3, <1>5, <2>10 DEF t, u
<1> QED
  BY <1>1, <1>8, <1>9

\* A second reference to the block served changes nothing but its place.
LEMMA LfuServedTwice ==
  ASSUME NEW s, NEW k \in Keys, NEW t, LfuServed(s, k, t), t.freq[k] + 1 <= MaxFreq
  PROVE  LET u == Lfu!Refer(t, k) IN LfuServed(s, k, u) /\ Content(u, k) = Content(t, k)
<1> DEFINE u == Lfu!Refer(t, k)
<1>1. Lfu!Filed(t) /\ k \in Lfu!Held(t)
  BY DEF LfuServed
<1>2. /\ Lfu!Filed(u) /\ Lfu!Held(u) = Lfu!Held(t) /\ u.msg = t.msg /\ u.remote = t.remote
  BY <1>1, LfuReferred
<1> HIDE DEF u
<1>3. \A j \in Keys : Content(u, j) = Content(t, j)
  BY <1>2, SameContent
<1>4. LfuServed(s, k, u)
  BY <1>2, <1>3 DEF LfuServed
<1> QED
  BY <1>3, <1>4 DEF u

\* The message of a resident block, written in place.
LEMMA LfuWritten ==
  ASSUME NEW s, Lfu!Filed(s), NEW k \in Lfu!Held(s), NEW d \in Data, NEW t,
         t = [s EXCEPT !.msg[k] = d]
  PROVE  /\ Lfu!Filed(t) /\ Lfu!Held(t) = Lfu!Held(s) /\ t.freq = s.freq /\ Content(t, k) = d
         /\ \A u : LfuServed(t, k, u) => LfuServed(s, k, u)
<1>1. Indexed(s) /\ FiledBy(s.queues, s.freq, s.recent)
  BY FiledIff
<1>2. /\ s.msg \in [Keys -> Data \cup {None}] /\ k \in Keys /\ s.freq[k] # 0
  BY <1>1, HeldByFrequency, IndexedFacts
<1> DEFINE M == [s.msg EXCEPT ![k] = d]
<1>3. M \in [Keys -> Data \cup {None}]
  BY <1>2
<1>4. M[k] = d /\ d # None /\ \A j \in Keys \ {k} : M[j] = s.msg[j]
  BY <1>2, NoneIsNothing
<1>5. t = [s EXCEPT !.msg = M] /\ s \in LfuRecord({s.queues})
  BY <1>1 DEF Indexed
<1> HIDE DEF M
<1>6. /\ t.queues = s.queues /\ t.freq = s.freq /\ t.msg = M /\ t.remote = s.remote
      /\ t.recent = s.recent
  BY <1>5 DEF LfuRecord
<1>7. t \in LfuRecord({t.queues})
  BY <1>3, <1>5, <1>6 DEF LfuRecord
<1>8. Lfu!Held(t) = Lfu!Held(s)
  BY <1>6 DEF Lfu!Held, Lfu!Has
<1>9. \A j \in Keys : t.freq[j] # 0 <=> t.msg[j] # None
  <2>1. \A j \in Keys : s.freq[j] # 0 <=> s.msg[j] # None
    BY <1>1 DEF Indexed
  <2> QED
    BY <1>2, <1>4, <1>6, <2>1
<1>10. Lfu!Filed(t)
  <2>1. Indexed(t)
    BY <1>1, <1>6, <1>7, <1>8, <1>9 DEF Indexed
  <2> QED
    BY <1>1, <1>6, <2>1, FiledIff
<1>11. Content(t, k) = d
  BY <1>2, <1>4, <1>6 DEF Content
<1>12. \A j \in Keys \ {k} : Content(t, j) = Content(s, j) /\ t.msg[j] = s.msg[j]
  <2>1. \A j \in Keys \ {k} : t.msg[j] = s.msg[j]
    BY <1>4, <1>6
  <2>2. ASSUME NEW j \in Keys \ {k}
        PROVE  Content(t, j) = Content(s, j)
    <3>1. t.msg[j] = s.msg[j] /\ t.freq[j] = s.freq[j] /\ t.remote[j] = s.remote[j]
      BY <1>6, <2>1
    <3> QED
      BY <3>1 DEF Content
  <2> QED
    BY <2>1, <2>2
<1>13. ASSUME NEW u, LfuServed(t, k, u)
       PROVE  LfuServed(s, k, u)
  <2>1. \A j \in Keys \ {k} : Content(u, j) = Content(s, j)
    BY <1>12, <1>13 DEF LfuServed
  <2>2. \A v \in Lfu!Held(s) \ Lfu!Held(u) : v \in Keys /\ v # k
    BY <1>13, HeldByFrequency DEF LfuServed
  <2>3. \A v \in Lfu!Held(s) \ Lfu!Held(u) :
          /\ \A j \in Lfu!Held(s) : s.freq[v] <= s.freq[j]
          /\ \A j \in Lfu!Held(s) \ {v} : s.freq[j] = s.freq[v] => Lfu!Before(s.recent, j, v)
          /\ u.remote[v] = t.msg[v]
    BY <1>6, <1>8, <1>13 DEF LfuServed
  <2>4. \A v \in Lfu!Held(s) \ Lfu!Held(u) : u.remote[v] = s.msg[v]
    BY <1>12, <2>2, <2>3
  <2>5. /\ Lfu!Filed(u) /\ k \in Lfu!Held(u)
        /\ \/ /\ k \in Lfu!Held(s) \/ Cardinality(Lfu!Held(s)) < Capacity
              /\ Lfu!Held(u) = Lfu!Held(s) \cup {k}
           \/ /\ k \notin Lfu!Held(s) /\ Cardinality(Lfu!Held(s)) >= Capacity
              /\ \E v \in Lfu!Held(s) : Lfu!Held(u) = (Lfu!Held(s) \ {v}) \cup {k}
    BY <1>8, <1>13 DEF LfuServed
  <2> QED
    BY <2>1, <2>3, <2>4, <2>5 DEF LfuServed
<1> QED
  BY <1>6, <1>8, <1>10, <1>11, <1>13

\* A step of the LFU manager serves a block, and what is noted as stored for it, if
\* anything, is its content.
LEMMA LfuStep ==
  ASSUME Lfu!IInv, Lfu!Next
  PROVE  \E k \in Keys : \E t :
           /\ Lfu!State' = t /\ LfuServed(Lfu!State, k, t)
           /\ stored' \in [Keys -> Data \cup {None}]
           /\ stored'[k] # None => Content(t, k) = stored'[k]
           /\ \A j \in Keys \ {k} : stored'[j] = stored[j]
<1> DEFINE s == Lfu!State
<1>1. /\ Lfu!Filed(s) /\ stored \in [Keys -> Data \cup {None}]
      /\ \A k \in Keys : stored[k] # None => Content(s, k) = stored[k]
  BY DEF Lfu!IInv, Lfu!HoldsLatest, Lfu!Has, Content, Lfu!State
<1>2. PICK k \in Keys : \/ \E d \in Data, inPlace \in BOOLEAN : Lfu!Store(k, d, inPlace)
                        \/ Lfu!GetBlock(k) \/ Lfu!GetHit(k) \/ Lfu!GetMiss(k)
  BY DEF Lfu!Next
<1>3. s.freq = freq /\ s.remote = workers
  BY DEF Lfu!State
<1>4. s.freq \in [Keys -> 0 .. MaxFreq]
  BY <1>1, FiledIff, IndexedFacts
<1>5. s.freq[k] \in Nat /\ MaxFreq \in Nat
  BY <1>4, StrategyAssumption
<1>6. Lfu!Has(s, k) <=> k \in Lfu!Held(s)
  BY DEF Lfu!Held
<1>7. ASSUME NEW t, Lfu!Become(t), LfuServed(s, k, t)
      PROVE  Lfu!State' = t
  <2>1. /\ queues' = t.queues /\ freq' = t.freq /\ msg' = t.msg
        /\ workers' = t.remote /\ lfuBroken' = t.broken /\ recent' = t.recent
    BY <1>7 DEF Lfu!Become
  <2>2. t \in LfuRecord({t.queues})
    BY <1>7, FiledIff DEF LfuServed, Indexed
  <2> QED
    BY <2>1, <2>2 DEF Lfu!State, LfuRecord
<1>8. ASSUME NEW t, Lfu!Become(t), LfuServed(s, k, t),
             stored' \in [Keys -> Data \cup {None}],
             stored'[k] # None => Content(t, k) = stored'[k],
             \A j \in Keys \ {k} : stored'[j] = stored[j]
      PROVE  \E kk \in Keys : \E tt :
               /\ Lfu!State' = tt /\ LfuServed(Lfu!State, kk, tt)
               /\ stored' \in [Keys -> Data \cup {None}]
               /\ stored'[kk] # None => Content(tt, kk) = stored'[kk]
               /\ \A j \in Keys \ {kk} : stored'[j] = stored[j]
  BY <1>7, <1>8
<1>9. ASSUME NEW t, Lfu!Become(t), LfuServed(s, k, t), Content(t, k) = Content(s, k),
             UNCHANGED stored
      PROVE  \E kk \in Keys : \E tt :
               /\ Lfu!State' = tt /\ LfuServed(Lfu!State, kk, tt)
               /\ stored' \in [Keys -> Data \cup {None}]
               /\ stored'[kk] # None => Content(tt, kk) = stored'[kk]
               /\ \A j \in Keys \ {kk} : stored'[j] = stored[j]
  <2>1. stored' = stored
    BY <1>9
  <2>2. stored'[k] # None => Content(t, k) = stored'[k]
    BY <1>1, <1>9, <2>1
  <2> QED
    BY <1>1, <1>8, <1>9, <2>1, <2>2
<1> HIDE DEF s
<1>10. ASSUME NEW d \in Data, NEW inPlace \in BOOLEAN, Lfu!Store(k, d, inPlace)
       PROVE  \E kk \in Keys : \E tt :
               /\ Lfu!State' = tt /\ LfuServed(Lfu!State, kk, tt)
               /\ stored' \in [Keys -> Data \cup {None}]
               /\ stored'[kk] # None => Content(tt, kk) = stored'[kk]
               /\ \A j \in Keys \ {kk} : stored'[j] = stored[j]
  <2> DEFINE v == IF Lfu!Has(s, k) /\ ~inPlace THEN None ELSE d
  <2>1. /\ s.freq[k] + 1 <= MaxFreq /\ (inPlace => Lfu!Has(s, k))
        /\ stored' = [stored EXCEPT ![k] = v]
        /\ LET w == IF inPlace THEN [s EXCEPT !.msg[k] = d] ELSE s IN
           Lfu!Become(Lfu!AddToCache(Lfu!Refer(w, k), k, d))
    BY <1>3, <1>10 DEF Lfu!Store, Lfu!Ready, s
  <2>2. v \in Data \cup {None}
    OBVIOUS
  <2> HIDE DEF v
  <2>3. /\ stored' \in [Keys -> Data \cup {None}] /\ stored'[k] = v
        /\ \A j \in Keys \ {k} : stored'[j] = stored[j]
    BY <1>1, <2>1, <2>2
  <2>4. CASE k \in Lfu!Held(s) /\ ~inPlace
    <3> DEFINE t == Lfu!Refer(s, k)
    <3>1. LfuServed(s, k, t) /\ Lfu!AddToCache(t, k, d) = t
      BY <1>1, <2>1, <2>4, LfuServedResident
    <3>2. Lfu!Become(t)
      BY <2>1, <2>4, <3>1
    <3>3. stored'[k] = None
      BY <1>6, <2>3, <2>4 DEF v
    <3> HIDE DEF t
    <3> QED
      BY <1>8, <2>3, <3>1, <3>2, <3>3
  <2>5. CASE k \in Lfu!Held(s) /\ inPlace
    <3> DEFINE w == [s EXCEPT !.msg[k] = d]
               t == Lfu!Refer(w, k)
    <3>1. /\ Lfu!Filed(w) /\ Lfu!Held(w) = Lfu!Held(s) /\ w.freq = s.freq /\ Content(w, k) = d
          /\ \A u : LfuServed(w, k, u) => LfuServed(s, k, u)
      BY <1>1, <2>5, LfuWritten
    <3>2. Lfu!Become(Lfu!AddToCache(t, k, d))
      BY <2>1, <2>5
    <3> HIDE DEF w
    <3>3. LfuServed(w, k, t) /\ Content(t, k) = d /\ Lfu!AddToCache(t, k, d) = t
      BY <2>1, <2>5, <3>1, LfuServedResident
    <3>4. stored'[k] = d
      BY <2>3, <2>5 DEF v
    <3> HIDE DEF t
    <3>5. LfuServed(s, k, t) /\ Lfu!Become(t)
      BY <3>1, <3>2, <3>3
    <3> QED
      BY <1>8, <2>3, <3>3, <3>4, <3>5
  <2>6. CASE k \notin Lfu!Held(s)
    <3> DEFINE t == Lfu!AddToCache(Lfu!Refer(s, k), k, d)
    <3>1. LfuServed(s, k, t) /\ Content(t, k) = d
      BY <1>1, <2>6, LfuServedNew
    <3>2. Lfu!Become(t)
      BY <1>6, <2>1, <2>6
    <3>3. stored'[k] = d
      BY <1>6, <2>3, <2>6 DEF v
    <3> HIDE DEF t
    <3> QED
      BY <1>8, <2>3, <3>1, <3>2, <3>3
  <2> QED
    BY <2>4, <2>5, <2>6
<1>11. CASE Lfu!GetBlock(k)
  <2> DEFINE t == Lfu!Refer(s, k)
  <2>1. s.freq[k] + 1 <= MaxFreq /\ k \in Lfu!Held(s) /\ Lfu!Become(t) /\ UNCHANGED stored
    BY <1>3, <1>6, <1>11 DEF Lfu!GetBlock, Lfu!Ready, s
  <2>2. LfuServed(s, k, t) /\ Content(t, k) = Content(s, k)
    BY <1>1, <2>1, LfuServedResident
  <2> HIDE DEF t
  <2> QED
    BY <1>9, <2>1, <2>2
<1>12. CASE Lfu!GetHit(k)
  <2> DEFINE u == Lfu!Refer(s, k)
             t == Lfu!Refer(u, k)
  <2>1. s.freq[k] + 2 <= MaxFreq /\ k \in Lfu!Held(s) /\ Lfu!Become(t) /\ UNCHANGED stored
    BY <1>3, <1>6, <1>12 DEF Lfu!GetHit, Lfu!Ready, s
  <2>2. s.freq[k] + 1 <= MaxFreq
    BY <1>5, <2>1
  <2>3. LfuServed(s, k, u) /\ Content(u, k) = Content(s, k) /\ u.freq[k] = s.freq[k] + 1
    BY <1>1, <2>1, <2>2, LfuServedResident
  <2> HIDE DEF u
  <2>4. u.freq[k] + 1 <= MaxFreq
    BY <1>5, <2>1, <2>3
  <2>5. LfuServed(s, k, t) /\ Content(t, k) = Content(u, k)
    BY <2>3, <2>4, LfuServedTwice
  <2> HIDE DEF t
  <2> QED
    BY <1>9, <2>1, <2>3, <2>5
<1>13. CASE Lfu!GetMiss(k)
  <2> DEFINE d == s.remote[k]
             u == Lfu!AddToCache(Lfu!Refer(s, k), k, d)
             t == Lfu!Refer(u, k)
  <2>1. k \notin Lfu!Held(s) /\ d # None /\ Lfu!Become(t) /\ UNCHANGED stored
    BY <1>3, <1>6, <1>13 DEF Lfu!GetMiss, s
  <2>2. d \in Data /\ Content(s, k) = d
    <3>1. s.remote \in [Keys -> Data \cup {None}]
      BY <1>1, FiledIff, IndexedFacts
    <3>2. s.freq[k] = 0
      BY <2>1, HeldByFrequency
    <3> QED
      BY <2>1, <3>1, <3>2 DEF Content
  <2> HIDE DEF d
  <2>3. LfuServed(s, k, u) /\ Content(u, k) = d /\ u.freq[k] = 1
    BY <1>1, <2>1, <2>2, LfuServedNew
  <2> HIDE DEF u
  <2>4. u.freq[k] + 1 <= MaxFreq
    BY <2>3, StrategyAssumption
  <2>5. LfuServed(s, k, t) /\ Content(t, k) = Content(u, k)
    BY <2>3, <2>4, LfuServedTwice
  <2> HIDE DEF t
  <2> QED
    BY <1>9, <2>1, <2>2, <2>3, <2>5
<1> QED
  BY <1>2, <1>10, <1>11, <1>12, <1>13

\* What the manager owes: its invariant, an eviction of the block used least, and the
\* resident set of every strategy.
LEMMA LfuServes ==
  ASSUME Lfu!IInv, Lfu!Next
  PROVE  /\ Lfu!IInv'
         /\ \A v \in Lfu!Held(Lfu!State) \ Lfu!Held(Lfu!State)' :
              /\ \A k \in Lfu!Held(Lfu!State) : freq[v] <= freq[k]
              /\ \A k \in Lfu!Held(Lfu!State) \ {v} : freq[k] = freq[v] => Lfu!Before(recent, k, v)
              /\ workers'[v] = msg[v]
         /\ Lfu!Residents!Next
<1> DEFINE s == Lfu!State
<1>1. PICK k, t :
        /\ k \in Keys
        /\ Lfu!State' = t /\ LfuServed(Lfu!State, k, t)
        /\ stored' \in [Keys -> Data \cup {None}]
        /\ stored'[k] # None => Content(t, k) = stored'[k]
        /\ \A j \in Keys \ {k} : stored'[j] = stored[j]
  BY LfuStep
<1>2. s.freq = freq /\ s.recent = recent /\ s.msg = msg
  BY DEF Lfu!State
<1>3. Lfu!Held(Lfu!State)' = Lfu!Held(t)
  BY <1>1
<1>4. workers' = t.remote /\ freq' = t.freq /\ msg' = t.msg
  <2>1. workers' = Lfu!State'.remote /\ freq' = Lfu!State'.freq /\ msg' = Lfu!State'.msg
    BY DEF Lfu!State
  <2> QED
    BY <1>1, <2>1
<1>5. Lfu!Filed(Lfu!State)'
  <2>1. Lfu!Filed(t)
    BY <1>1 DEF LfuServed
  <2> QED
    BY <1>1, <2>1
<1>6. ASSUME NEW j \in Keys, stored'[j] # None
      PROVE  Content(t, j) = stored'[j]
  <2>1. CASE j = k
    BY <1>1, <1>6, <2>1
  <2>2. CASE j # k
    <3>1. stored'[j] = stored[j] /\ Content(t, j) = Content(s, j)
      BY <1>1, <2>2 DEF LfuServed
    <3>2. stored[j] # None => Content(s, j) = stored[j]
      BY DEF Lfu!IInv, Lfu!HoldsLatest, Lfu!Has, Content, Lfu!State
    <3> QED
      BY <1>6, <3>1, <3>2
  <2> QED
    BY <2>1, <2>2
<1>7. Lfu!HoldsLatest'
  <2>1. \A j \in Keys : Lfu!Has(Lfu!State, j)' <=> t.freq[j] # 0
    BY <1>1 DEF Lfu!Has
  <2>2. ASSUME NEW j \in Keys, stored'[j] # None
        PROVE  stored'[j] = IF Lfu!Has(Lfu!State, j)' THEN msg'[j] ELSE workers'[j]
    BY <1>4, <1>6, <2>1, <2>2 DEF Content
  <2> QED
    BY <2>2 DEF Lfu!HoldsLatest
<1>8. Lfu!IInv'
  BY <1>1, <1>5, <1>7 DEF Lfu!IInv
<1>9. Lfu!Residents!Use(k)
  BY <1>1, <1>3, LfuOperators DEF Lfu!Residents!Use, LfuServed
<1>10. \A v \in Lfu!Held(Lfu!State) \ Lfu!Held(Lfu!State)' :
         /\ \A j \in Lfu!Held(Lfu!State) : freq[v] <= freq[j]
         /\ \A j \in Lfu!Held(Lfu!State) \ {v} : freq[j] = freq[v] => Lfu!Before(recent, j, v)
         /\ workers'[v] = msg[v]
  <2> HIDE DEF s
  <2>1. \A v \in Lfu!Held(s) \ Lfu!Held(t) :
         /\ \A j \in Lfu!Held(s) : s.freq[v] <= s.freq[j]
         /\ \A j \in Lfu!Held(s) \ {v} : s.freq[j] = s.freq[v] => Lfu!Before(s.recent, j, v)
         /\ t.remote[v] = s.msg[v]
    BY <1>1 DEF LfuServed, s
  <2> QED
    BY <1>2, <1>3, <1>4, <2>1 DEF s
<1> QED
  BY <1>1, <1>8, <1>9, <1>10 DEF Lfu!Residents!Next
-------------------------------------------------------------------------------
(* The three managers side by side. *)

\* An empty cache has the managers' invariants.
LEMMA Started ==
  ASSUME Init
  PROVE  /\ strategy \in EvictionStrategy /\ List!IInv /\ Lfu!IInv /\ Plru!IInv
         /\ Plru!LastWasGot
<1> USE DEF Init
<1>0. IsFiniteSet({}) /\ Cardinality({}) = 0 /\ 0 <= Capacity
  BY FS_EmptySet, StrategyAssumption
<1>1. \A q : q = <<>> => q \in Seq(Keys) /\ q \in Seq(Nodes) /\ IsInjective(q) /\ ToSet(q) = {} /\ Len(q) = 0
  BY DEF IsInjective, ToSet
<1>2. List!IInv
  <2> DEFINE s == List!State
  <2>1. /\ s.queue = <<>> /\ s.keyAt = [n \in Nodes |-> None] /\ s.place = [k \in Keys |-> None]
        /\ s \in ListRecord
    BY <1>1 DEF List!Empty, List!State, ListRecord
  <2>2. List!Held(s) = {}
    BY <2>1 DEF List!Held, List!Has
  <2>3. \A n \in Nodes, k \in Keys : s.keyAt[n] = k <=> s.place[k] = n
    BY <2>1, NoneIsNothing
  <2> HIDE DEF s
  <2>4. s \in [queue : Seq(Nodes), keyAt : [Nodes -> Keys \cup {None}],
               place : [Keys -> Nodes \cup {None}], remote : SUBSET Keys, broken : {FALSE}]
    BY <2>1 DEF ListRecord
  <2>5. /\ IsInjective(s.queue) /\ Len(s.queue) = 0
        /\ \A n \in Nodes : n \in ToSet(s.queue) <=> s.keyAt[n] # None
    BY <1>1, <2>1
  <2>6. List!Linked(s)
    BY <1>0, <2>2, <2>3, <2>4, <2>5, ListOperators DEF List!Linked
  <2> QED
    BY <2>6 DEF List!IInv, s
<1>3. Lfu!IInv
  <2> DEFINE s == Lfu!State
  <2>1. /\ s.queues = [f \in {} |-> <<>>] /\ s.freq = [k \in Keys |-> 0] /\ s.msg = [k \in Keys |-> None]
        /\ s.recent = <<>>
    BY DEF Lfu!Init, Lfu!State
  <2>2. s \in LfuRecord({s.queues})
    <3>1. 0 \in 0 .. MaxFreq
      BY StrategyAssumption
    <3> QED
      BY <1>1, <3>1 DEF Lfu!Init, Lfu!State, LfuRecord
  <2>3. Lfu!Held(s) = {}
    BY <2>1 DEF Lfu!Held, Lfu!Has
  <2> HIDE DEF s
  <2>4. Indexed(s)
    BY <1>0, <1>1, <2>1, <2>2, <2>3 DEF Indexed
  <2>5. NoneEmpty(s.queues)
    <3>1. s.queues \in [{} -> Seq(Keys) \ {<<>>}]
      BY <2>1
    <3> QED
      BY <3>1 DEF NoneEmpty
  <2>6. ASSUME NEW f \in 1 .. MaxFreq
        PROVE  ByRecency(Lfu!At(s.queues, f), {k \in Keys : s.freq[k] = f}, s.recent)
    <3>1. Lfu!At(s.queues, f) = <<>>
      BY <2>1 DEF Lfu!At
    <3>2. {k \in Keys : s.freq[k] = f} = {}
      BY <2>1
    <3>3. \A a, b \in Keys : ~Lfu!Before(<<>>, a, b)
      BY DEF Lfu!Before
    <3> QED
      BY <1>1, <3>1, <3>2, <3>3 DEF ByRecency
  <2>7. Lfu!Filed(s)
    BY <2>4, <2>5, <2>6, FiledIff DEF FiledBy
  <2>8. Lfu!HoldsLatest /\ stored \in [Keys -> Data \cup {None}]
    BY DEF Lfu!Init, Lfu!HoldsLatest
  <2> QED
    BY <2>7, <2>8 DEF Lfu!IInv, s
<1>4. Plru!IInv
  <2>1. /\ resident = {} /\ used = {} /\ trueCount = 0 /\ full = FALSE /\ gone = {}
        /\ crashed = FALSE /\ got = {}
    BY DEF Plru!Init
  <2>2. 0 \in 0 .. MaxCount + 2
    BY StrategyAssumption
  <2>3. Plru!Cardinality({}) = 0 /\ Plru!IsFiniteSet({})
    BY <1>0, PlruOperators
  <2>4. Plru!TypeOK
    BY <1>0, <2>1, <2>2, <2>3 DEF Plru!TypeOK
  <2> QED
    BY <2>1, <2>3, <2>4 DEF Plru!IInv
<1>5. Plru!LastWasGot
  BY DEF Plru!Init, Plru!LastWasGot
<1> QED
  BY <1>2, <1>3, <1>4, <1>5

\* The manager that does not run keeps its variables; the strategy never changes.
LEMMA ListKept ==
  ASSUME Reuse, List!IInv, [Next]_vars
  PROVE  /\ List!IInv' /\ strategy' = strategy
         /\ \/ UNCHANGED listVars
            \/ /\ List!Held(List!State) \ List!Held(List!State)' \subseteq sent'
               /\ List!Residents!Next /\ List!Order!Next
<1>1. ASSUME UNCHANGED listVars
      PROVE  List!IInv'
  <2>1. List!State' = List!State
    BY <1>1 DEF listVars, List!State
  <2> QED
    BY <2>1 DEF List!IInv
<1>2. CASE ListNext
  <2>1. PICK k, t : k \in Keys /\ List!State' = t /\ Served(strategy, List!State, k, t)
    BY <1>2, ListStep DEF ListNext
  <2>2. strategy' = strategy
    BY <1>2, ListStep DEF ListNext
  <2> QED
    BY <2>1, <2>2, ListServes DEF List!Residents!Next, List!Order!Next
<1>3. CASE LfuNext
  BY <1>1, <1>3 DEF LfuNext
<1>4. CASE PlruNext
  BY <1>1, <1>4 DEF PlruNext
<1>5. CASE UNCHANGED vars
  BY <1>1, <1>5 DEF vars
<1> QED
  BY <1>2, <1>3, <1>4, <1>5 DEF Next, Dead

LEMMA LfuKept ==
  ASSUME Lfu!IInv, [Next]_vars
  PROVE  /\ Lfu!IInv'
         /\ \/ UNCHANGED lfuVars
            \/ /\ \A v \in Lfu!Held(Lfu!State) \ Lfu!Held(Lfu!State)' :
                    /\ \A k \in Lfu!Held(Lfu!State) : freq[v] <= freq[k]
                    /\ \A k \in Lfu!Held(Lfu!State) \ {v} :
                         freq[k] = freq[v] => Lfu!Before(recent, k, v)
                    /\ workers'[v] = msg[v]
               /\ Lfu!Residents!Next
<1>1. ASSUME UNCHANGED lfuVars
      PROVE  Lfu!IInv'
  <2>1. Lfu!State' = Lfu!State /\ stored' = stored /\ msg' = msg /\ workers' = workers
    BY <1>1 DEF lfuVars, Lfu!State
  <2>2. Lfu!HoldsLatest'
    BY <2>1 DEF Lfu!IInv, Lfu!HoldsLatest
  <2> QED
    BY <2>1, <2>2 DEF Lfu!IInv
<1>2. CASE ListNext
  BY <1>1, <1>2 DEF ListNext
<1>3. CASE LfuNext
  BY <1>3, LfuServes DEF LfuNext
<1>4. CASE PlruNext
  BY <1>1, <1>4 DEF PlruNext
<1>5. CASE UNCHANGED vars
  BY <1>1, <1>5 DEF vars
<1> QED
  BY <1>2, <1>3, <1>4, <1>5 DEF Next, Dead

LEMMA PlruKept ==
  ASSUME Plru!IInv, [Next]_vars
  PROVE  /\ Plru!IInv'
         /\ \/ UNCHANGED plruVars
            \/ /\ \A v \in resident \ resident' : v \notin got /\ v \in gone'
               /\ ~crashed' => Plru!Residents!Next
<1>1. ASSUME UNCHANGED plruVars
      PROVE  Plru!IInv'
  BY <1>1 DEF plruVars, Plru!IInv, Plru!TypeOK
<1>2. CASE ListNext
  BY <1>1, <1>2 DEF ListNext
<1>3. CASE LfuNext
  BY <1>1, <1>3 DEF LfuNext
<1>4. CASE PlruNext
  BY <1>4, PlruStep DEF PlruNext
<1>5. CASE UNCHANGED vars
  BY <1>1, <1>5 DEF vars
<1> QED
  BY <1>2, <1>3, <1>4, <1>5 DEF Next, Dead

LEMMA StrategyKept ==
  ASSUME strategy \in EvictionStrategy, [Next]_vars
  PROVE  strategy' \in EvictionStrategy
<1>1. List!Next => strategy' = strategy
  BY DEF List!Next, List!Store, List!GetBlock, List!GetHit, List!GetMiss, List!Become
<1> QED
  BY <1>1 DEF Next, ListNext, LfuNext, PlruNext, Dead, vars

LEMMA LfuInvariant == Spec => []Lfu!IInv
<1>1. Init => Lfu!IInv
  BY Started
<1>2. Lfu!IInv /\ [Next]_vars => Lfu!IInv'
  BY LfuKept
<1> QED
  BY <1>1, <1>2, PTL DEF Spec

LEMMA PlruInvariant == Spec => []Plru!IInv
<1>1. Init => Plru!IInv
  BY Started
<1>2. Plru!IInv /\ [Next]_vars => Plru!IInv'
  BY PlruKept
<1> QED
  BY <1>1, <1>2, PTL DEF Spec

\* The block got last is one of the blocks got: what a store or an eviction takes from
\* these it takes from it.
LEMMA LastGotInvariant == Spec => []Plru!LastWasGot
<1>1. Init => Plru!LastWasGot
  BY Started
<1>2. Plru!IInv /\ Plru!LastWasGot /\ [Next]_vars => Plru!LastWasGot'
  <2> SUFFICES ASSUME Plru!IInv, Plru!LastWasGot, [Next]_vars
               PROVE  Plru!LastWasGot'
    OBVIOUS
  <2>1. CASE UNCHANGED plruVars
    BY <2>1 DEF plruVars, Plru!LastWasGot
  <2>2. CASE PlruNext
    BY <2>2 DEF PlruNext, Plru!Next, Plru!Store, Plru!GetBlock, Plru!GetHit, Plru!GetMiss,
                Plru!LastWasGot, Plru!IInv, Plru!TypeOK
  <2> QED
    BY <2>1, <2>2 DEF Next, ListNext, LfuNext, Dead, vars
<1> QED
  BY <1>1, <1>2, PlruInvariant, PTL DEF Spec

LEMMA ListInvariant == ASSUME Reuse PROVE Spec => []List!IInv
<1>1. Init => List!IInv
  BY Started
<1>2. List!IInv /\ [Next]_vars => List!IInv'
  BY ListKept
<1> QED
  BY <1>1, <1>2, PTL DEF Spec
-------------------------------------------------------------------------------
(* The theorems. *)

\* Every variable of every manager keeps its type, a node is in the list of LRU and
\* MRU once, and pseudo-LRU never holds more blocks than its capacity.
THEOREM StrategiesTyped == ASSUME Reuse PROVE Spec => []TypeOK
<1>1. List!IInv => List!TypeOK
  <2> SUFFICES ASSUME List!IInv
               PROVE  List!TypeOK
    OBVIOUS
  <2>1. List!Linked(List!State)
    BY DEF List!IInv
  <2>2. /\ queue \in Seq(Nodes) /\ keyAt \in [Nodes -> Keys \cup {None}]
        /\ place \in [Keys -> Nodes \cup {None}] /\ sent \subseteq Keys /\ listBroken = FALSE
    BY <2>1 DEF List!Linked, List!State
  <2>3. IsInjective(queue) /\ \A n \in Nodes : n \in ToSet(queue) <=> keyAt[n] # None
    BY <2>1, ListOperators DEF List!Linked, List!State
  <2> QED
    BY <2>2, <2>3, ListOperators DEF List!TypeOK
<1>2. Lfu!IInv => Lfu!TypeOK
  <2> SUFFICES ASSUME Lfu!IInv
               PROVE  Lfu!TypeOK
    OBVIOUS
  <2> DEFINE s == Lfu!State
  <2>1. Lfu!Filed(s) /\ stored \in [Keys -> Data \cup {None}]
    BY DEF Lfu!IInv
  <2>2. /\ s.queues = queues /\ s.freq = freq /\ s.msg = msg /\ s.remote = workers
        /\ s.broken = lfuBroken /\ s.recent = recent
    BY DEF Lfu!State
  <2>3. s.queues \in [DOMAIN s.queues -> Seq(Keys)] /\ DOMAIN s.queues \subseteq 1 .. MaxFreq
    BY <2>1 DEF Lfu!Filed
  <2>4. \A k \in Keys : Lfu!Has(s, k) <=> s.msg[k] # None
    BY <2>1 DEF Lfu!Filed
  <2>5. /\ s.freq \in [Keys -> 0 .. MaxFreq] /\ s.msg \in [Keys -> Data \cup {None}]
        /\ s.remote \in [Keys -> Data \cup {None}] /\ s.broken = FALSE
        /\ IsInjective(s.recent) /\ ToSet(s.recent) = Lfu!Held(s)
    BY <2>1, FiledIff, IndexedFacts
  <2> HIDE DEF s
  <2>6. \A f \in DOMAIN queues : queues[f] \in Seq(Keys)
    BY <2>2, <2>3
  <2> QED
    BY <2>1, <2>2, <2>3, <2>4, <2>5, <2>6, LfuOperators DEF Lfu!TypeOK, s
<1>3. Plru!IInv => Plru!TypeOK
  BY DEF Plru!IInv
<1>4. Init => strategy \in EvictionStrategy
  BY DEF Init
<1>5. strategy \in EvictionStrategy /\ [Next]_vars => (strategy \in EvictionStrategy)'
  BY StrategyKept
<1>6. Spec => [](strategy \in EvictionStrategy)
  BY <1>4, <1>5, PTL DEF Spec
<1>7. strategy \in EvictionStrategy /\ List!IInv /\ Lfu!IInv /\ Plru!IInv => TypeOK
  BY <1>1, <1>2, <1>3 DEF TypeOK
<1> QED
  BY <1>6, <1>7, ListInvariant, LfuInvariant, PlruInvariant, PTL

\* LRU and MRU: the iterator in the entry of a resident block is the live list node
\* with its key, though refer() does not store it (LeastRecentlyUsedCacheWorker.cpp).
THEOREM PlacesStayCurrent == ASSUME Reuse PROVE Spec => []ListPlaceIsCurrent
<1>1. List!IInv => ListPlaceIsCurrent
  <2> SUFFICES ASSUME List!IInv, NEW k \in Keys, List!Has(List!State, k)
               PROVE  place[k] \in List!ToSet(queue) /\ keyAt[place[k]] = k
    BY DEF ListPlaceIsCurrent, List!PlaceIsCurrent
  <2>1. List!Linked(List!State)
    BY DEF List!IInv
  <2>2. /\ place \in [Keys -> Nodes \cup {None}]
        /\ \A n \in Nodes : n \in List!ToSet(queue) <=> keyAt[n] # None
        /\ \A n \in Nodes, j \in Keys : keyAt[n] = j <=> place[j] = n
    BY <2>1 DEF List!Linked, List!State
  <2>3. place[k] # None /\ place[k] \in Nodes
    BY <2>2 DEF List!Has, List!State
  <2> QED
    BY <2>2, <2>3, NoneIsNothing
<1> QED
  BY <1>1, ListInvariant, PTL

\* No manager uses a freed list node, an entry that is not there, the back of an empty
\* list or the first of an empty map.
THEOREM ManagersNeverBreak == ASSUME Reuse PROVE Spec => []NeverBroken
<1>1. List!IInv => List!NeverBroken
  BY DEF List!IInv, List!Linked, List!State, List!NeverBroken
<1>2. Lfu!IInv => Lfu!NeverBroken
  <2> SUFFICES ASSUME Lfu!IInv
               PROVE  ~lfuBroken
    BY DEF Lfu!NeverBroken
  <2>1. Lfu!State.broken = FALSE
    BY FiledIff, IndexedFacts DEF Lfu!IInv
  <2> QED
    BY <2>1 DEF Lfu!State
<1>3. List!IInv /\ Lfu!IInv => NeverBroken
  BY <1>1, <1>2 DEF NeverBroken
<1> QED
  BY <1>3, ListInvariant, LfuInvariant, PTL

\* LRU and MRU: the list is the order of use, step by step, so the victim is the least
\* (the most) recently used block: the managers implement Recency.
THEOREM ListsKeepRecency == ASSUME Reuse PROVE Spec => ListKeepsRecency
<1> DEFINE order == [i \in DOMAIN queue |-> keyAt[queue[i]]]
<1>1. Init => List!Order!Init
  BY DEF Init, List!Empty, List!Order!Init
<1>2. List!IInv /\ [Next]_vars => [List!Order!Next]_<<order, strategy>>
  <2> SUFFICES ASSUME List!IInv, [Next]_vars
               PROVE  [List!Order!Next]_<<order, strategy>>
    OBVIOUS
  <2>1. CASE UNCHANGED listVars
    <3>1. strategy' = strategy /\ queue' = queue /\ keyAt' = keyAt
      BY <2>1, ListKept DEF listVars
    <3> QED
      BY <3>1
  <2>2. CASE List!Order!Next
    BY <2>2
  <2> QED
    BY <2>1, <2>2, ListKept
<1>3. Spec => List!Order!Init /\ [][List!Order!Next]_<<order, strategy>>
  BY <1>1, <1>2, ListInvariant, PTL DEF Spec
<1> QED
  BY <1>3, PTL DEF ListKeepsRecency, List!KeepsRecency, List!Order!Spec

\* LRU and MRU: a block that left the cache is at its worker.
THEOREM ListVictimsAreSent == ASSUME Reuse PROVE Spec => ListEvictedGoToWorkers
<1>1. List!IInv /\ [Next]_vars =>
        [List!Held(List!State) \ List!Held(List!State)' \subseteq sent']_List!vars
  <2> SUFFICES ASSUME List!IInv, [Next]_vars
               PROVE  [List!Held(List!State) \ List!Held(List!State)' \subseteq sent']_List!vars
    OBVIOUS
  <2>1. CASE UNCHANGED listVars
    BY <2>1, ListKept DEF listVars, List!vars
  <2> QED
    BY <2>1, ListKept
<1>2. Spec => [][List!Held(List!State) \ List!Held(List!State)' \subseteq sent']_List!vars
  BY <1>1, ListInvariant, PTL DEF Spec
<1> QED
  BY <1>2 DEF ListEvictedGoToWorkers, List!EvictedGoToWorkers

\* LFU: the map has a list for exactly the frequencies in use, each list is the blocks
\* with that frequency by their last use.
THEOREM LfuQueuesStayInStep == Spec => []LfuQueuesAgree
<1>1. Lfu!IInv => LfuQueuesAgree
  BY DEF Lfu!IInv, Lfu!Filed, LfuQueuesAgree, Lfu!QueuesAgree
<1> QED
  BY <1>1, LfuInvariant, PTL

\* LFU: what the cache, or else a worker, holds for a block is what was stored last.
THEOREM LfuLosesNothing == Spec => []LfuHoldsLatest
<1>1. Lfu!IInv => LfuHoldsLatest
  BY DEF Lfu!IInv, LfuHoldsLatest
<1> QED
  BY <1>1, LfuInvariant, PTL

\* LFU: the victim is one of the least frequent blocks, of these the one unused for
\* longest, and its worker gets its content.
THEOREM LfuVictimIsLeastFrequent == Spec => LfuEvictsLeastFrequent
<1> DEFINE A == \A v \in Lfu!Held(Lfu!State) \ Lfu!Held(Lfu!State)' :
                  /\ \A k \in Lfu!Held(Lfu!State) : freq[v] <= freq[k]
                  /\ \A k \in Lfu!Held(Lfu!State) \ {v} :
                       freq[k] = freq[v] => Lfu!Before(recent, k, v)
                  /\ workers'[v] = msg[v]
<1>1. Lfu!IInv /\ [Next]_vars => [A]_Lfu!vars
  <2> SUFFICES ASSUME Lfu!IInv, [Next]_vars
               PROVE  [A]_Lfu!vars
    OBVIOUS
  <2>1. CASE UNCHANGED lfuVars
    BY <2>1 DEF lfuVars, Lfu!vars
  <2> QED
    BY <2>1, LfuKept
<1>2. Spec => [][A]_Lfu!vars
  BY <1>1, LfuInvariant, PTL DEF Spec
<1> QED
  BY <1>2 DEF LfuEvictsLeastFrequent, Lfu!EvictsLeastFrequent

\* Pseudo-LRU: a block that was got is not given up before another resident block is used,
\* and what is given up is at its worker, in every hash order.
THEOREM PlruVictimWasNotJustGot == Spec => PlruSparesLastGot
<1> DEFINE A == \A v \in resident \ resident' : v \notin lastGot /\ v \in gone'
<1>1. Plru!IInv /\ Plru!LastWasGot /\ [Next]_vars => [A]_Plru!vars
  <2> SUFFICES ASSUME Plru!IInv, Plru!LastWasGot, [Next]_vars
               PROVE  [A]_Plru!vars
    OBVIOUS
  <2>1. CASE UNCHANGED plruVars
    BY <2>1 DEF plruVars, Plru!vars
  <2> QED
    BY <2>1, PlruKept DEF Plru!LastWasGot
<1>2. Spec => [][A]_Plru!vars
  BY <1>1, PlruInvariant, LastGotInvariant, PTL DEF Spec
<1> QED
  BY <1>2 DEF PlruSparesLastGot, Plru!SparesLastGot

\* Pseudo-LRU: the null victim is dereferenced only in a full cache whose every block
\* was got since it was stored.
THEOREM PlruDiesOnlyOfGets == Spec => []PlruCrashesOnlyWhenAllGot
<1>1. Plru!IInv => PlruCrashesOnlyWhenAllGot
  BY DEF Plru!IInv, PlruCrashesOnlyWhenAllGot, Plru!CrashesOnlyWhenAllGot
<1> QED
  BY <1>1, PlruInvariant, PTL

\* Every strategy implements ResidentSet: room is made only in a full cache, by giving
\* up one block, never the one in use.
THEOREM StrategiesManageResidents == ASSUME Reuse PROVE Spec => ManageResidents
<1>1. Init => List!Residents!Init /\ Lfu!Residents!Init
  BY DEF Init, List!Empty, List!State, List!Held, List!Has, List!Residents!Init,
         Lfu!Init, Lfu!State, Lfu!Held, Lfu!Has, Lfu!Residents!Init
<1>2. List!IInv /\ [Next]_vars => [List!Residents!Next]_(List!Held(List!State))
  <2> SUFFICES ASSUME List!IInv, [Next]_vars
               PROVE  [List!Residents!Next]_(List!Held(List!State))
    OBVIOUS
  <2>1. CASE UNCHANGED listVars
    <3>1. List!State' = List!State
      BY <2>1 DEF listVars, List!State
    <3> QED
      BY <3>1
  <2> QED
    BY <2>1, ListKept
<1>3. Lfu!IInv /\ [Next]_vars => [Lfu!Residents!Next]_(Lfu!Held(Lfu!State))
  <2> SUFFICES ASSUME Lfu!IInv, [Next]_vars
               PROVE  [Lfu!Residents!Next]_(Lfu!Held(Lfu!State))
    OBVIOUS
  <2>1. CASE UNCHANGED lfuVars
    <3>1. Lfu!State' = Lfu!State
      BY <2>1 DEF lfuVars, Lfu!State
    <3> QED
      BY <3>1
  <2> QED
    BY <2>1, LfuKept
<1>4. Plru!IInv /\ [Next]_vars => [~crashed' => Plru!Residents!Next]_resident
  BY PlruKept DEF plruVars
<1>5. Spec => List!Residents!Init /\ [][List!Residents!Next]_(List!Held(List!State))
  BY <1>1, <1>2, ListInvariant, PTL DEF Spec
<1>6. Spec => Lfu!Residents!Init /\ [][Lfu!Residents!Next]_(Lfu!Held(Lfu!State))
  BY <1>1, <1>3, LfuInvariant, PTL DEF Spec
<1>7. Spec => [][~crashed' => Plru!Residents!Next]_resident
  BY <1>4, PlruInvariant, PTL DEF Spec
<1> QED
  BY <1>5, <1>6, <1>7 DEF ManageResidents, List!ManagesResidents, List!Residents!Spec,
     Lfu!ManagesResidents, Lfu!Residents!Spec, Plru!ManagesResidents
===============================================================================
