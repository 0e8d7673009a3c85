------------------------------- MODULE PlruCache -------------------------------
(***************************************************************************)
(* The pseudo-LRU manager: an unordered_map of blocks, each with a bit     *)
(* wasUsed that a reference sets, and a victim that is the first entry, in *)
(* hash order, whose bit is clear.  The loop that is meant to clear the    *)
(* bits once trueCount reaches the size of the cache works on copies of    *)
(* the entries, so it clears none; when every bit is set no victim is      *)
(* found and the null message is dereferenced.                             *)
(***************************************************************************)
EXTENDS StrategyConstants, FiniteSets

VARIABLES
  resident,    \* keys of the map
  used,        \* the resident keys whose wasUsed is set
  trueCount, full,
  remote,      \* blocks the workers hold, because they were evicted once
  crashed,     \* the null victim was dereferenced
  got,         \* history: resident blocks whose latest use was a get
  lastGot      \* history: the one got last, if no resident block was used since, or none

vars == <<resident, used, trueCount, full, remote, crashed, got, lastGot>>

Init == /\ resident = {} /\ used = {} /\ trueCount = 0 /\ full = FALSE
        /\ remote = {} /\ crashed = FALSE /\ got = {} /\ lastGot = {}

State == [resident |-> resident, used |-> used, trueCount |-> trueCount, full |-> full,
          remote |-> remote, crashed |-> crashed]

Become(s) == /\ resident' = s.resident /\ used' = s.used /\ trueCount' = s.trueCount
             /\ full' = s.full /\ remote' = s.remote /\ crashed' = s.crashed

\* Erase the victim and send it to its worker.
EvictBlock(s, v) == [s EXCEPT !.resident = @ \ {v}, !.remote = @ \cup {v}]

\* The states an eviction may leave: hash order is any order.
Evict(s) ==
  LET victims == s.resident \ s.used IN
  IF victims = {} THEN {[s EXCEPT !.full = TRUE, !.crashed = TRUE]}
  ELSE {EvictBlock([s EXCEPT !.full = TRUE], v) : v \in victims}

\* refer() of a block that is not resident only makes room.
ReferNew(s) == IF Cardinality(s.resident) >= Capacity THEN Evict(s) ELSE {s}

\* Slip: the bit is set before trueCount is compared, and the reset takes it too.
ReferHeldThenReset(s, k) ==
  LET n == s.trueCount + 1
      reset == n >= Cardinality(s.resident) /\ s.full
  IN  [s EXCEPT !.used = IF reset THEN {} ELSE @ \cup {k},
                !.trueCount = IF reset THEN 0 ELSE n]

ReferHeld(s, k) ==
  LET n == s.trueCount + 1
      reset == n >= Cardinality(s.resident) /\ s.full
  IN  [s EXCEPT !.used = @ \cup {k}, !.trueCount = IF reset THEN 0 ELSE n]

Refer(s, k) == IF s.crashed THEN {s}
               ELSE IF k \in s.resident THEN {ReferHeld(s, k)} ELSE ReferNew(s)

\* Slip: the entry starts with its bit set.
AddToCacheUsed(s, k) ==
  IF s.crashed THEN s ELSE [s EXCEPT !.resident = @ \cup {k}, !.used = @ \cup {k}]

\* cache[key] = {msg}: a new entry, its bit clear, also for a resident block.
AddToCache(s, k) ==
  IF s.crashed THEN s ELSE [s EXCEPT !.resident = @ \cup {k}, !.used = @ \ {k}]

StoreCacheBlock(s, k) == {AddToCache(t, k) : t \in Refer(s, k)}

Ready(k) == ~crashed /\ (k \in resident => trueCount <= MaxCount)

\* A data structure stores block k.
Store(k) == /\ Ready(k)
            /\ \E s \in StoreCacheBlock(State, k) : Become(s)
            /\ got' = (got \ {k}) \cap resident'
            /\ lastGot' = IF k \in resident THEN {} ELSE lastGot \cap resident'

\* getBlock on a resident block.
GetBlock(k) == /\ Ready(k) /\ k \in resident
               /\ \E s \in Refer(State, k) : Become(s)
               /\ got' = got \cup {k} /\ lastGot' = {k}

\* getBlockFallbackRemote on a resident block: getBlock's refer and its own.
GetHit(k) == /\ Ready(k) /\ k \in resident
             /\ \E s \in Refer(State, k) : \E t \in Refer(s, k) : Become(t)
             /\ got' = got \cup {k} /\ lastGot' = {k}

\* getBlockFallbackRemote on an evicted block: stored, then referred to.
GetMiss(k) == /\ Ready(k) /\ k \notin resident /\ k \in remote
              /\ \E s \in StoreCacheBlock(State, k) : \E t \in Refer(s, k) : Become(t)
              /\ got' = (got \cup {k}) \cap resident' /\ lastGot' = {k} \cap resident'

Next == \E k \in Keys : Store(k) \/ GetBlock(k) \/ GetHit(k) \/ GetMiss(k)

Spec == Init /\ [][Next]_vars
-------------------------------------------------------------------------------
\* Types; only an entry has a bit, and the cache never outgrows its capacity.
TypeOK == /\ resident \subseteq Keys /\ Cardinality(resident) <= Capacity
          /\ used \subseteq resident /\ got \subseteq resident
          /\ trueCount \in 0 .. MaxCount + 2
          /\ remote \subseteq Keys
          /\ full \in BOOLEAN /\ crashed \in BOOLEAN

\* What pseudo-LRU must keep of LRU, whether the loop clears the bits or not: a block that
\* was got is not the one given up before another resident block is used, whatever the
\* hash order and however many new blocks come; and nothing given up is lost.
SparesLastGot ==
  [][\A v \in resident \ resident' : v \notin lastGot /\ v \in remote']_vars

\* The manager finds a victim unless every block it holds was got since it was last
\* stored; a store of any resident block is enough to clear the way.
CrashesOnlyWhenAllGot == crashed => got = resident /\ Cardinality(resident) = Capacity

\* A strategy that only evicts a block it holds, and only when it must.
Residents == INSTANCE ResidentSet WITH resident <- resident
ManagesResidents == [][~crashed' => Residents!Next]_resident

\* "the first cache item without MRU bit set is removed" (PseudoLRUCacheWorker.cpp:68):
\* there is always one.
FindsVictim == ~crashed
-------------------------------------------------------------------------------
(* The inductive invariant behind these, with LastWasGot: the bits set are those *)
(* of the blocks got, and a cache that once gave up a block stays full.            *)
IInv == /\ TypeOK /\ IsFiniteSet(resident)
        /\ used = got
        /\ remote # {} => full
        /\ full => Cardinality(resident) = Capacity
        /\ crashed => full /\ used = resident

LastWasGot == lastGot \subseteq got
===============================================================================
