------------------------------ MODULE Strategies ------------------------------
(***************************************************************************)
(* System::start(es): the program chooses one eviction strategy, and its   *)
(* manager serves every store and get from then on.                        *)
(***************************************************************************)
EXTENDS StrategyConstants

VARIABLES
  strategy,
  queue, keyAt, place, sent, listBroken,                       \* ListCache
  queues, freq, msg, workers, lfuBroken, recent, stored,  \* LfuCache
  resident, used, trueCount, full, gone, crashed, got, lastGot  \* PlruCache

listVars == <<queue, keyAt, place, sent, listBroken>>
lfuVars  == <<queues, freq, msg, workers, lfuBroken, recent, stored>>
plruVars == <<resident, used, trueCount, full, gone, crashed, got, lastGot>>
vars     == <<strategy, listVars, lfuVars, plruVars>>

List == INSTANCE ListCache WITH policy <- strategy, remote <- sent, broken <- listBroken
Lfu  == INSTANCE LfuCache WITH remote <- workers, broken <- lfuBroken
Plru == INSTANCE PlruCache WITH remote <- gone

EvictionStrategy == {"LRU", "MRU", "LFU", "PLRU"}

Init == strategy \in EvictionStrategy /\ List!Empty /\ Lfu!Init /\ Plru!Init

ListNext == strategy \in {"LRU", "MRU"} /\ List!Next /\ UNCHANGED <<lfuVars, plruVars>>

LfuNext == strategy = "LFU" /\ Lfu!Next /\ UNCHANGED <<strategy, listVars, plruVars>>

PlruNext == strategy = "PLRU" /\ Plru!Next /\ UNCHANGED <<strategy, listVars, lfuVars>>

\* Pseudo-LRU found no victim: the program died.
Dead == crashed /\ UNCHANGED vars

Next == ListNext \/ LfuNext \/ PlruNext \/ Dead

Spec == Init /\ [][Next]_vars
-------------------------------------------------------------------------------
\* Types of every strategy's variables; the others stay as they were made.
TypeOK == strategy \in EvictionStrategy /\ List!TypeOK /\ Lfu!TypeOK /\ Plru!TypeOK

\* LRU and MRU: the iterator of every entry is "this MessagePtr's current place in
\* the LRU queue" (LeastRecentlyUsedCacheWorker.h:81-82), a live node with its key.
ListPlaceIsCurrent == List!PlaceIsCurrent

\* No freed list node, no missing entry, no empty list or map is used by refer().
NeverBroken == List!NeverBroken /\ Lfu!NeverBroken

\* LRU and MRU: the list is the order of use, so the victim is the least (the most)
\* recently used block; a store, a get and a fetch count alike.
ListKeepsRecency == List!KeepsRecency

\* LRU and MRU: no block is dropped, what left the cache is at the workers.
ListEvictedGoToWorkers == List!EvictedGoToWorkers

\* LFU: the frequency lists, the index into them and the order of use agree.
LfuQueuesAgree == Lfu!QueuesAgree

\* LFU: the victim is the least frequent block, of those the one unused for longest.
LfuEvictsLeastFrequent == Lfu!EvictsLeastFrequent

\* LFU: the content of a block survives promotion, eviction and fetching.
LfuHoldsLatest == Lfu!HoldsLatest

\* PLRU: a block that was got is not the victim before another resident block is used.
PlruSparesLastGot == Plru!SparesLastGot

\* PLRU: the manager dies only if every resident block was got since it was stored.
PlruCrashesOnlyWhenAllGot == Plru!CrashesOnlyWhenAllGot

\* Every strategy manages one resident set: room is made only when needed, by giving
\* up one block, never the one in use.
ManageResidents ==
  /\ List!ManagesResidents
  /\ Lfu!ManagesResidents
  /\ Plru!ManagesResidents

\* PLRU: "the first cache item without MRU bit set is removed"
\* (PseudoLRUCacheWorker.cpp:68), so there is always one.
PlruFindsVictim == Plru!FindsVictim
-------------------------------------------------------------------------------
(* The inductive invariant behind these, if addresses are reused. *)
IInv == strategy \in EvictionStrategy /\ List!IInv /\ Lfu!IInv /\ Plru!IInv /\ Plru!LastWasGot
===============================================================================
