------------------------------ MODULE BlockCache ------------------------------
(***************************************************************************)
(* The distributed block cache of PC2L: one manager process (MPI rank 0)   *)
(* that keeps a bounded cache of blocks, and NumWorkers worker processes   *)
(* (ranks 1..NumWorkers) that keep what the manager evicts.  The manager   *)
(* is single threaded: the application's data structures call              *)
(* storeCacheBlock and getBlockFallbackRemote, which return only when the  *)
(* MPI calls they make have returned.  The places where such a call can    *)
(* block are the manager's phases.                                         *)
(*                                                                         *)
(* Which block is evicted is the business of the eviction strategies, each *)
(* a module of its own; here the victim is any resident block.             *)
(***************************************************************************)
EXTENDS Integers, Sequences, FiniteSets, Queues

CONSTANTS DsTags,      \* tags of the data structures
          BlockTags,   \* block numbers inside a data structure
          Data,        \* contents of a block
          None,        \* no block, no key, no message
          NumWorkers,  \* worldSize - 1
          MsgSize,     \* MsgSize[ds]: bytes of a message holding a block of ds
          CacheSize,   \* cacheSize of the manager, in bytes
          Word,        \* 2^32: one more than the largest currentBytes
          ChanCap,     \* bound: messages MPI buffers per pair before a send blocks
          OnlyStored   \* TRUE: the application asks only for blocks it has stored

Manager == 0
Workers == 1..NumWorkers
Ranks   == 0..NumWorkers
Keys    == DsTags \X BlockTags
Tags    == {"STORE_BLOCK", "GET_BLOCK", "FINISH"}

ASSUME ConstantsAssumption ==
  /\ BlockTags \subseteq Nat
  /\ NumWorkers \in Nat
  /\ MsgSize \in [DsTags -> Nat \ {0}]
  /\ CacheSize \in Nat
  /\ Word \in Nat \ {0}
  /\ ChanCap \in Nat \ {0}
  /\ OnlyStored \in BOOLEAN
  /\ None \notin Data
  /\ None \notin Keys

ASSUME NoneIsNoMessage == None \notin [tag : Tags, key : Keys \cup {None}, data : Data \cup {None}]

VARIABLES
  cache,         \* cache[r][k]: the content rank r holds for block k, or None
  currentBytes,  \* currentBytes[r]: rank r's unsigned int byte counter
  phase,         \* where the manager's single thread is
  want,          \* the block getBlockFallbackRemote is fetching, or None
  incoming,      \* the STORE_BLOCK message storeCacheBlock is adding, or None
  evicted,       \* the message refer is sending away, or None
  nextRank,      \* the rank finalize sends FINISH to next
  finished,      \* finished[w]: worker w left its run loop
  toWorker,      \* toWorker[w]: messages from the manager to w, oldest first
  toManager,     \* toManager[w]: messages from w to the manager, oldest first
  written,       \* history: what the application last stored in each block
  got            \* <<k, d>>: what getBlockFallbackRemote last returned, or None

store   == <<cache, currentBytes>>
channel == <<toWorker, toManager>>
vars    == <<cache, currentBytes, phase, want, incoming, evicted, nextRank,
             finished, toWorker, toManager, written, got>>

Message == [tag : Tags, key : Keys \cup {None}, data : Data \cup {None}]

StoreMsg(k, d) == [tag |-> "STORE_BLOCK", key |-> k, data |-> d]
GetMsg(k)      == [tag |-> "GET_BLOCK", key |-> k, data |-> None]
FinishMsg      == [tag |-> "FINISH", key |-> None, data |-> None]

SizeOf(k)     == MsgSize[k[1]]
StoredRank(k) == (k[2] % NumWorkers) + 1
Resident      == {k \in Keys : cache[Manager][k] # None}

\* Slip: refer() tests the bytes held, not those the new block adds.
RoomForIgnoringNew(k) == currentBytes[Manager] <= CacheSize

\* Slip: a cache that would be exactly full counts as overfull.
RoomForStrictly(k) == (currentBytes[Manager] + SizeOf(k)) % Word < CacheSize

\* The test of refer(): unsigned int + int, so the sum wraps too.
RoomFor(k) == (currentBytes[Manager] + SizeOf(k)) % Word <= CacheSize

Init ==
  /\ cache = [r \in Ranks |-> [k \in Keys |-> None]]
  /\ currentBytes = [r \in Ranks |-> 0]
  /\ phase = "idle"
  /\ want = None /\ incoming = None /\ evicted = None
  /\ nextRank = 1
  /\ finished = [w \in Workers |-> FALSE]
  /\ toWorker = [w \in Workers |-> <<>>]
  /\ toManager = [w \in Workers |-> <<>>]
  /\ written = [k \in Keys |-> None]
  /\ got = None
-------------------------------------------------------------------------------
(* Sending and adding, as every rank does it. *)

Send(w, m) == /\ Len(toWorker[w]) < ChanCap
              /\ toWorker' = [toWorker EXCEPT ![w] = Append(@, m)]

\* Slip: a wider counter, and the bytes of the entry replaced stay counted.
AddBlockUnmasked(r, k, d) ==
  /\ currentBytes' = [currentBytes EXCEPT ![r] = @ + SizeOf(k)]
  /\ cache' = [cache EXCEPT ![r][k] = d]

\* Slip: map::insert instead of operator[], which keeps the entry there is.
AddBlockKeepingOld(r, k, d) ==
  /\ UNCHANGED currentBytes
  /\ cache' = [cache EXCEPT ![r][k] = IF @ = None THEN d ELSE @]

\* The end of storeCacheBlock: the byte counter, then addToCache.
AddBlock(r, k, d) ==
  LET old == IF cache[r][k] # None THEN SizeOf(k) ELSE 0 IN
  /\ currentBytes' = [currentBytes EXCEPT ![r] = (@ - old + SizeOf(k)) % Word]
  /\ cache' = [cache EXCEPT ![r][k] = d]

\* Slip: the erased block stays in the byte counter.
EraseBlockUncounted(r, k) ==
  /\ UNCHANGED currentBytes
  /\ cache' = [cache EXCEPT ![r][k] = None]

\* eraseCacheBlock of a block that is there.
EraseBlock(r, k) ==
  /\ currentBytes' = [currentBytes EXCEPT ![r] = (@ - SizeOf(k)) % Word]
  /\ cache' = [cache EXCEPT ![r][k] = None]

\* The block is in the manager's cache: the call returns, a get with the block.
Return(k, d) ==
  /\ phase' = "idle"
  /\ want' = None
  /\ got' = IF want = None THEN got ELSE <<k, d>>
-------------------------------------------------------------------------------
(* storeCacheBlock on the manager, up to the send of the evicted block. *)

StoreInPlace(k, d) ==
  /\ k \in Resident \/ RoomFor(k)
  /\ AddBlock(Manager, k, d)
  /\ Return(k, d)
  /\ UNCHANGED <<incoming, evicted>>

\* Only one block is evicted, however many bytes that frees.
StoreEvicting(k, d) ==
  /\ k \notin Resident /\ ~RoomFor(k)
  /\ NumWorkers > 0
  /\ \E victim \in Resident :
       /\ EraseBlock(Manager, victim)
       /\ evicted' = StoreMsg(victim, cache[Manager][victim])
  /\ incoming' = StoreMsg(k, d)
  /\ phase' = "evicting"
  /\ UNCHANGED <<want, got>>

\* Nothing to evict: back() of an empty list.  No worker: % (worldSize - 1) by 0.
StoreCrashing(k) ==
  /\ k \notin Resident /\ ~RoomFor(k)
  /\ Resident = {} \/ NumWorkers = 0
  /\ phase' = "crashed"
  /\ UNCHANGED <<cache, currentBytes, incoming, evicted, want, got>>

StoreCacheBlock(k, d) == \/ StoreInPlace(k, d)
                         \/ StoreEvicting(k, d)
                         \/ StoreCrashing(k)
-------------------------------------------------------------------------------
(* The manager. *)

\* A data structure writes block k: cm.storeCacheBlock(msg).
ManagerStore(k, d) ==
  /\ phase = "idle"
  /\ StoreCacheBlock(k, d)
  /\ written' = [written EXCEPT ![k] = d]
  /\ UNCHANGED <<nextRank, finished, channel>>

\* Slip: the evicted block goes to a rank chosen by its data structure.
SendEvictedByDs ==
  /\ phase = "evicting"
  /\ Send((evicted.key[1] % NumWorkers) + 1, evicted)
  /\ AddBlock(Manager, incoming.key, incoming.data)
  /\ Return(incoming.key, incoming.data)
  /\ incoming' = None /\ evicted' = None
  /\ UNCHANGED <<nextRank, finished, toManager, written>>

\* The blocking send inside refer returns; storeCacheBlock runs to its end.
SendEvicted ==
  /\ phase = "evicting"
  /\ Send(StoredRank(evicted.key), evicted)
  /\ AddBlock(Manager, incoming.key, incoming.data)
  /\ Return(incoming.key, incoming.data)
  /\ incoming' = None /\ evicted' = None
  /\ UNCHANGED <<nextRank, finished, toManager, written>>

\* getBlockFallbackRemote up to its first blocking call.
GetHit(k) ==
  /\ k \in Resident
  /\ got' = <<k, cache[Manager][k]>>
  /\ UNCHANGED <<phase, want>>

GetMiss(k) ==
  /\ k \notin Resident
  /\ IF NumWorkers > 0
       THEN phase' = "requesting" /\ want' = k
       ELSE phase' = "crashed" /\ UNCHANGED want
  /\ UNCHANGED got

GetBlockFallbackRemote(k) ==
  /\ phase = "idle"
  /\ OnlyStored => written[k] # None
  /\ GetHit(k) \/ GetMiss(k)
  /\ UNCHANGED <<store, incoming, evicted, nextRank, finished, channel, written>>

SendGet ==
  /\ phase = "requesting"
  /\ Send(StoredRank(want), GetMsg(want))
  /\ phase' = "waiting"
  /\ UNCHANGED <<store, want, incoming, evicted, nextRank, finished, toManager,
                 written, got>>

\* Slip: MPI_PROBE without the MPI_RECV, the answer stays in the channel.
ReceiveBlockProbing ==
  /\ phase = "waiting"
  /\ LET w == StoredRank(want) IN
       /\ toManager[w] # <<>>
       /\ StoreCacheBlock(Head(toManager[w]).key, Head(toManager[w]).data)
  /\ UNCHANGED <<nextRank, finished, channel, written>>

\* ret = recv(storedRank); storeCacheBlock(ret); getFromCache(ret->key)
ReceiveBlock ==
  /\ phase = "waiting"
  /\ LET w == StoredRank(want) IN
       /\ toManager[w] # <<>>
       /\ toManager' = [toManager EXCEPT ![w] = Tail(@)]
       /\ StoreCacheBlock(Head(toManager[w]).key, Head(toManager[w]).data)
  /\ UNCHANGED <<nextRank, finished, toWorker, written>>

\* System::stop() calls finalize() ...
Stop ==
  /\ phase = "idle"
  /\ phase' = "stopping"
  /\ UNCHANGED <<store, want, incoming, evicted, nextRank, finished, channel,
                 written, got>>

\* Slip: the loop variable does not advance after the first FINISH.
SendFinishStuck ==
  /\ phase = "stopping" /\ nextRank <= NumWorkers
  /\ Send(nextRank, FinishMsg)
  /\ UNCHANGED <<store, phase, want, incoming, evicted, nextRank, finished,
                 toManager, written, got>>

\* Slip: the loop stops one rank early.
SendFinishSkippingLast ==
  /\ phase = "stopping" /\ nextRank < NumWorkers
  /\ Send(nextRank, FinishMsg)
  /\ nextRank' = nextRank + 1
  /\ UNCHANGED <<store, phase, want, incoming, evicted, finished, toManager,
                 written, got>>

\* ... whose loop sends FINISH to every rank in turn ...
SendFinish ==
  /\ phase = "stopping" /\ nextRank <= NumWorkers
  /\ Send(nextRank, FinishMsg)
  /\ nextRank' = nextRank + 1
  /\ UNCHANGED <<store, phase, want, incoming, evicted, finished, toManager,
                 written, got>>

\* ... and returns.
Stopped ==
  /\ phase = "stopping" /\ nextRank > NumWorkers
  /\ phase' = "stopped"
  /\ UNCHANGED <<store, want, incoming, evicted, nextRank, finished, channel,
                 written, got>>
-------------------------------------------------------------------------------
(* A worker: the loop of CacheWorker::run over a StorageCacheWorker. *)

Handle(w, tag) ==
  /\ ~finished[w]
  /\ toWorker[w] # <<>>
  /\ Head(toWorker[w]).tag = tag
  /\ toWorker' = [toWorker EXCEPT ![w] = Tail(@)]
  /\ UNCHANGED <<phase, want, incoming, evicted, nextRank, written, got>>

\* Slip: a worker that already has the block keeps the copy it has.
WorkerStoreOnce(w) ==
  /\ Handle(w, "STORE_BLOCK")
  /\ LET m == Head(toWorker[w]) IN
       IF cache[w][m.key] = None THEN AddBlock(w, m.key, m.data) ELSE UNCHANGED store
  /\ UNCHANGED <<finished, toManager>>

WorkerStore(w) ==
  /\ Handle(w, "STORE_BLOCK")
  /\ AddBlock(w, Head(toWorker[w]).key, Head(toWorker[w]).data)
  /\ UNCHANGED <<finished, toManager>>

\* sendCacheBlock: a block that is there is sent back, one that is not is
\* answered with nothing at all.
WorkerGet(w) ==
  /\ Handle(w, "GET_BLOCK")
  /\ LET k == Head(toWorker[w]).key
         d == cache[w][k] IN
       IF d # None
         THEN /\ Len(toManager[w]) < ChanCap
              /\ toManager' = [toManager EXCEPT ![w] = Append(@, StoreMsg(k, d))]
         ELSE UNCHANGED toManager
  /\ UNCHANGED <<store, finished>>

WorkerFinish(w) ==
  /\ Handle(w, "FINISH")
  /\ finished' = [finished EXCEPT ![w] = TRUE]
  /\ UNCHANGED <<store, toManager>>
-------------------------------------------------------------------------------
WorkerStep(w) == WorkerStore(w) \/ WorkerGet(w) \/ WorkerFinish(w)

\* What the manager does without being called by the application.
ManagerStep == SendEvicted \/ SendGet \/ ReceiveBlock \/ SendFinish \/ Stopped

\* The program is over: every process left, or the manager died.
Terminated ==
  /\ \/ phase = "stopped" /\ \A w \in Workers : finished[w]
     \/ phase = "crashed"
  /\ UNCHANGED vars

Next ==
  \/ \E k \in Keys, d \in Data : ManagerStore(k, d)
  \/ \E k \in Keys : GetBlockFallbackRemote(k)
  \/ Stop
  \/ SendEvicted
  \/ SendGet
  \/ ReceiveBlock
  \/ SendFinish
  \/ Stopped
  \/ \E w \in Workers : WorkerStore(w) \/ WorkerGet(w) \/ WorkerFinish(w)
  \/ Terminated

Spec == Init /\ [][Next]_vars

\* A process that can run does; the application need not call anything.
Fairness == /\ WF_vars(ManagerStep)
            /\ \A w \in Workers : WF_vars(WorkerStep(w))

FairSpec == Spec /\ Fairness
-------------------------------------------------------------------------------
(* Properties. *)

Phases == {"idle", "evicting", "requesting", "waiting", "stopping", "stopped",
           "crashed"}

\* Every variable keeps its type; in particular currentBytes is an unsigned int.
TypeOK ==
  /\ cache \in [Ranks -> [Keys -> Data \cup {None}]]
  /\ currentBytes \in [Ranks -> 0..Word-1]
  /\ phase \in Phases
  /\ want \in Keys \cup {None}
  /\ incoming \in Message \cup {None}
  /\ evicted \in Message \cup {None}
  /\ nextRank \in 1..NumWorkers+1
  /\ finished \in [Workers -> BOOLEAN]
  /\ toWorker \in [Workers -> Seq(Message)]
  /\ toManager \in [Workers -> Seq(Message)]
  /\ written \in [Keys -> Data \cup {None}]
  /\ got \in (Keys \X (Data \cup {None})) \cup {None}

\* The worker responsible for k will hold the last written content of k once
\* it has handled what is on its way to it.
RemoteHolds(k) ==
  WillHold(toWorker[StoredRank(k)], cache[StoredRank(k)][k], k, written[k])

\* What the application stored last in a block is where the next get will look
\* for it: in the manager's cache; in the call that is adding the block; in the
\* hands of refer, which waits for the send of the evicted block; else at the
\* responsible worker or on its way there.  An old copy may be anywhere else.
CoherentAt(k) ==
  IF k \in Resident THEN cache[Manager][k] = written[k]
  ELSE IF incoming # None /\ incoming.key = k THEN incoming.data = written[k]
  ELSE IF evicted # None /\ evicted.key = k THEN evicted.data = written[k]
  ELSE IF NumWorkers = 0 THEN written[k] = None
  ELSE RemoteHolds(k)

Coherent == phase # "crashed" => \A k \in Keys : CoherentAt(k)

\* recv takes any message of the responsible worker for the answer it waits for.
\* There is never another one: a message to the manager exists only while the
\* manager waits, it is alone, comes from the worker asked, and carries the
\* block asked for with the content last written.
ReplyMatchesRequest ==
  \A w \in Workers :
    toManager[w] # <<>> =>
      /\ phase = "waiting"
      /\ w = StoredRank(want)
      /\ toManager[w] = <<StoreMsg(want, written[want])>>

\* FINISH is the last message a worker gets: whatever was evicted before stop()
\* is handled first, and nothing is left unread when run() returns.
NothingAfterFinish ==
  \A w \in Workers :
    /\ \A i \in DOMAIN toWorker[w] :
         toWorker[w][i].tag = "FINISH" => i = Len(toWorker[w])
    /\ finished[w] => toWorker[w] = <<>>

\* With at least one worker and blocks no larger than the cache, no call of the
\* application makes refer() evict from an empty queue or divide by zero.
CrashOnlyIfMisconfigured ==
  NumWorkers > 0 /\ (\A ds \in DsTags : MsgSize[ds] <= CacheSize)
    => phase # "crashed"

\* A fetch returns: getBlockFallbackRemote's recv always gets its answer.
EveryFetchReturns == (want # None) ~> (want = None)

\* After stop() every worker leaves its loop with all its messages handled.
StopEndsEveryWorker ==
  phase = "stopping" ~> \A w \in Workers : finished[w] /\ toWorker[w] = <<>>

\* The whole system is the block memory the data structures rely on.
Store == INSTANCE BlockStore WITH mem <- written, loading <- want

\* Every step of the manager, the workers and the channels is a step of that
\* memory or invisible: a get returns what the last store of the block wrote.
ImplementsStore == Store!Spec
-------------------------------------------------------------------------------
(* The inductive invariant behind Coherent and ReplyMatchesRequest. *)

Winding == phase \in {"stopping", "stopped"}

\* What the manager's local variables hold in each phase.
PhaseInv ==
  /\ phase = "idle" \/ Winding =>
       want = None /\ incoming = None /\ evicted = None
  /\ phase \in {"requesting", "waiting"} =>
       /\ NumWorkers > 0
       /\ want \in Keys \ Resident
       /\ incoming = None /\ evicted = None
  /\ phase = "evicting" =>
       /\ NumWorkers > 0
       /\ incoming \in [tag : {"STORE_BLOCK"}, key : Keys, data : Data]
       /\ evicted \in [tag : {"STORE_BLOCK"}, key : Keys, data : Data]
       /\ incoming.key \notin Resident /\ evicted.key \notin Resident
       /\ incoming.key # evicted.key
       /\ want \in {None, incoming.key}

\* A request is the last message of its channel, and so is a FINISH.
RequestInv ==
  \A w \in Workers : \A i \in DOMAIN toWorker[w] :
    LET m == toWorker[w][i] IN
    /\ m.tag = "STORE_BLOCK" => m.key \in Keys /\ m.data \in Data
    /\ m.tag = "GET_BLOCK" =>
         /\ i = Len(toWorker[w])
         /\ phase = "waiting" /\ w = StoredRank(want) /\ m.key = want
         /\ toManager[w] = <<>>
    /\ m.tag = "FINISH" =>
         /\ i = Len(toWorker[w])
         /\ Winding /\ w < nextRank

FinishInv ==
  \A w \in Workers : finished[w] => toWorker[w] = <<>> /\ Winding /\ w < nextRank

\* A reply carries a block that was written.
ReplyInv == \A w \in Workers : toManager[w] # <<>> => written[want] \in Data

IInv == /\ TypeOK
        /\ PhaseInv
        /\ RequestInv
        /\ FinishInv
        /\ ReplyMatchesRequest
        /\ ReplyInv
        /\ Coherent
===============================================================================
