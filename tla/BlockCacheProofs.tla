--------------------------- MODULE BlockCacheProofs ---------------------------
(* Theorems about BlockCache, for every value of its constants: what the processes *)
(* do with blocks, and then that their byte counters are exact and what follows.   *)
EXTENDS BlockBytes, CommonLemmas

-------------------------------------------------------------------------------
(* Keys. *)

\* With a worker there is a rank for every block, and a block has a size.
LEMMA KeyFacts ==
  ASSUME NEW k \in Keys
  PROVE  /\ SizeOf(k) \in Nat \ {0}
         /\ NumWorkers > 0 => StoredRank(k) \in Workers
         /\ k # None
<1>1. k[1] \in DsTags /\ k[2] \in Nat
  BY ConstantsAssumption DEF Keys
<1>2. SizeOf(k) \in Nat \ {0}
  BY <1>1, ConstantsAssumption DEF SizeOf
<1>3. NumWorkers > 0 => StoredRank(k) \in Workers
  BY <1>1, ConstantsAssumption DEF StoredRank, Workers
<1> QED BY <1>2, <1>3, ConstantsAssumption

-------------------------------------------------------------------------------
(* Blocks added and erased. *)

\* A block added is the only change to the cache of its rank, and the counter stays
\* an unsigned int.
LEMMA AddBlockEffect ==
  ASSUME TypeOK, NEW r \in Ranks, NEW k \in Keys, NEW d \in Data,
         AddBlock(r, k, d)
  PROVE  /\ cache' \in [Ranks -> [Keys -> Data \cup {None}]]
         /\ currentBytes' \in [Ranks -> 0..Word-1]
         /\ cache'[r][k] = d
         /\ \A s \in Ranks, j \in Keys :
              s # r \/ j # k => cache'[s][j] = cache[s][j]
<1> USE DEF TypeOK, AddBlock
<1>1. SizeOf(k) \in Nat /\ currentBytes[r] \in Int /\ Word \in Nat \ {0}
  BY KeyFacts, ConstantsAssumption
<1>2. \A x \in Int : x % Word \in 0..Word-1
  BY <1>1
<1>3. currentBytes' \in [Ranks -> 0..Word-1]
  <2> DEFINE old == IF cache[r][k] # None THEN SizeOf(k) ELSE 0
  <2>1. currentBytes[r] - old + SizeOf(k) \in Int
    BY <1>1
  <2> QED BY <2>1, <1>2
<1>4. cache' \in [Ranks -> [Keys -> Data \cup {None}]]
  OBVIOUS
<1>5. /\ cache'[r][k] = d
      /\ \A s \in Ranks, j \in Keys :
           s # r \/ j # k => cache'[s][j] = cache[s][j]
  OBVIOUS
<1> QED BY <1>3, <1>4, <1>5

\* A block erased is the only change to the cache of its rank, and the counter
\* stays an unsigned int.
LEMMA EraseBlockEffect ==
  ASSUME TypeOK, NEW r \in Ranks, NEW k \in Keys, EraseBlock(r, k)
  PROVE  /\ cache' \in [Ranks -> [Keys -> Data \cup {None}]]
         /\ currentBytes' \in [Ranks -> 0..Word-1]
         /\ cache'[r][k] = None
         /\ \A s \in Ranks, j \in Keys :
              s # r \/ j # k => cache'[s][j] = cache[s][j]
<1> USE DEF TypeOK, EraseBlock
<1>1. SizeOf(k) \in Nat /\ currentBytes[r] \in Int /\ Word \in Nat \ {0}
  BY KeyFacts, ConstantsAssumption
<1>2. \A x \in Int : x % Word \in 0..Word-1
  BY <1>1
<1>3. currentBytes' \in [Ranks -> 0..Word-1]
  <2>1. currentBytes[r] - SizeOf(k) \in Int
    BY <1>1
  <2> QED BY <2>1, <1>2
<1>4. cache' \in [Ranks -> [Keys -> Data \cup {None}]]
  OBVIOUS
<1>5. /\ cache'[r][k] = None
      /\ \A s \in Ranks, j \in Keys :
           s # r \/ j # k => cache'[s][j] = cache[s][j]
  OBVIOUS
<1> QED BY <1>3, <1>4, <1>5

\* The three ways storeCacheBlock leaves the manager, called with nothing else
\* under way: the block is in the cache; or one other block has made room and is
\* to be sent; or the manager is dead.
LEMMA StoreOutcome ==
  ASSUME TypeOK, NEW k \in Keys, NEW d \in Data, StoreCacheBlock(k, d),
         want \in {None, k}, incoming = None, evicted = None
  PROVE  /\ cache' \in [Ranks -> [Keys -> Data \cup {None}]]
         /\ currentBytes' \in [Ranks -> 0..Word-1]
         /\ \A r \in Workers, j \in Keys : cache'[r][j] = cache[r][j]
         /\ want' \in {None, k}
         /\ got' \in {got, <<k, d>>}
         /\ \/ /\ phase' = "idle"
               /\ want' = None /\ incoming' = None /\ evicted' = None
               /\ cache'[Manager][k] = d
               /\ \A j \in Keys \ {k} : cache'[Manager][j] = cache[Manager][j]
            \/ /\ phase' = "evicting"
               /\ NumWorkers > 0
               /\ incoming' = StoreMsg(k, d)
               /\ cache'[Manager][k] = None
               /\ \E v \in Resident \ {k} :
                    /\ evicted' = StoreMsg(v, cache[Manager][v])
                    /\ cache'[Manager][v] = None
                    /\ \A j \in Keys \ {v} :
                         cache'[Manager][j] = cache[Manager][j]
            \/ /\ phase' = "crashed"
               /\ incoming' = None /\ evicted' = None
<1>1. Manager \in Ranks /\ Workers \subseteq Ranks /\ Manager \notin Workers
  BY ConstantsAssumption DEF Manager, Ranks, Workers
<1>2. CASE StoreInPlace(k, d)
  BY <1>1, <1>2, AddBlockEffect DEF StoreInPlace, Return
<1>3. CASE StoreEvicting(k, d)
  <2>1. PICK v \in Resident : /\ EraseBlock(Manager, v)
                              /\ evicted' = StoreMsg(v, cache[Manager][v])
    BY <1>3 DEF StoreEvicting
  <2>2. v \in Keys /\ v # k /\ cache[Manager][k] = None
    BY <1>3 DEF StoreEvicting, Resident
  <2>3. /\ cache' \in [Ranks -> [Keys -> Data \cup {None}]]
        /\ currentBytes' \in [Ranks -> 0..Word-1]
        /\ cache'[Manager][v] = None
        /\ \A s \in Ranks, j \in Keys :
             s # Manager \/ j # v => cache'[s][j] = cache[s][j]
    BY <1>1, <2>1, <2>2, EraseBlockEffect
  <2> QED BY <1>1, <1>3, <2>1, <2>2, <2>3 DEF StoreEvicting
<1>4. CASE StoreCrashing(k)
  BY <1>1, <1>4 DEF StoreCrashing, TypeOK
<1> QED BY <1>2, <1>3, <1>4 DEF StoreCacheBlock
-------------------------------------------------------------------------------
(* The inductive invariant, one lemma per action of the manager. *)

\* The manager is a rank and no worker.
LEMMA RankFacts == /\ Manager \in Ranks
                   /\ Workers \subseteq Ranks
                   /\ \A w \in Workers : w # Manager /\ w \in Nat
  BY ConstantsAssumption DEF Manager, Ranks, Workers

\* The messages built by the code are messages.
LEMMA MessageTypes ==
  /\ \A k \in Keys, d \in Data : StoreMsg(k, d) \in Message
  /\ \A k \in Keys : GetMsg(k) \in Message
  /\ FinishMsg \in Message
  /\ \A m \in Message : m # None
  BY NoneIsNoMessage DEF Message, Tags, StoreMsg, GetMsg, FinishMsg

\* The inductive invariant holds when the processes start.
LEMMA InitIInv == Init => IInv
<1> SUFFICES ASSUME Init PROVE IInv
  OBVIOUS
<1> USE RankFacts, ConstantsAssumption DEF Init
<1>1. TypeOK
  BY DEF TypeOK, Phases
<1>2. PhaseInv
  BY DEF PhaseInv, Winding
<1>3. RequestInv /\ FinishInv /\ ReplyMatchesRequest /\ ReplyInv
  BY DEF RequestInv, FinishInv, ReplyMatchesRequest, ReplyInv
<1>4. Coherent
  <2> SUFFICES ASSUME NEW k \in Keys PROVE CoherentAt(k)
    BY DEF Coherent
  <2>1. k \notin Resident
    BY DEF Resident
  <2>2. NumWorkers > 0 => RemoteHolds(k)
    BY KeyFacts DEF RemoteHolds, WillHold
  <2> QED BY <2>1, <2>2 DEF CoherentAt
<1> QED BY <1>1, <1>2, <1>3, <1>4 DEF IInv

\* A step that does not touch the workers leaves their side as it is, as long as
\* no request is under way.
LEMMA QuietWorkers ==
  ASSUME RequestInv, FinishInv, UNCHANGED <<toWorker, finished, nextRank>>,
         phase # "waiting",
         Winding => Winding'
  PROVE  RequestInv' /\ FinishInv'
<1>1. FinishInv'
  BY DEF FinishInv
<1>2. ASSUME NEW w \in Workers, NEW i \in DOMAIN toWorker'[w]
      PROVE  LET m == toWorker'[w][i] IN
             /\ m.tag = "STORE_BLOCK" => m.key \in Keys /\ m.data \in Data
             /\ m.tag # "GET_BLOCK"
             /\ m.tag = "FINISH" => i = Len(toWorker'[w]) /\ Winding' /\ w < nextRank'
  BY <1>2 DEF RequestInv
<1>3. RequestInv'
  BY <1>2 DEF RequestInv
<1> QED BY <1>1, <1>3

\* storeCacheBlock on the manager, whoever calls it, keeps every written block
\* findable.
LEMMA StoreKeepsCoherent ==
  ASSUME TypeOK, Coherent, phase \in {"idle", "waiting"},
         incoming = None, evicted = None,
         NEW k \in Keys, NEW d \in Data, want \in {None, k},
         StoreCacheBlock(k, d),
         UNCHANGED <<nextRank, finished, toWorker>>,
         toManager' \in [Workers -> Seq(Message)],
         written' = [written EXCEPT ![k] = d]
  PROVE  TypeOK' /\ PhaseInv' /\ Coherent' /\ ~Winding'
                /\ phase' # "waiting" /\ phase' # "requesting"
<1>1. /\ cache' \in [Ranks -> [Keys -> Data \cup {None}]]
      /\ currentBytes' \in [Ranks -> 0..Word-1]
      /\ \A r \in Workers, j \in Keys : cache'[r][j] = cache[r][j]
      /\ want' \in {None, k}
      /\ got' \in {got, <<k, d>>}
      /\ \/ /\ phase' = "idle"
            /\ want' = None /\ incoming' = None /\ evicted' = None
            /\ cache'[Manager][k] = d
            /\ \A j \in Keys \ {k} : cache'[Manager][j] = cache[Manager][j]
         \/ /\ phase' = "evicting"
            /\ NumWorkers > 0
            /\ incoming' = StoreMsg(k, d)
            /\ cache'[Manager][k] = None
            /\ \E v \in Resident \ {k} :
                 /\ evicted' = StoreMsg(v, cache[Manager][v])
                 /\ cache'[Manager][v] = None
                 /\ \A j \in Keys \ {v} : cache'[Manager][j] = cache[Manager][j]
         \/ /\ phase' = "crashed"
            /\ incoming' = None /\ evicted' = None
  BY StoreOutcome
<1>2. \A j \in Keys : j # None /\ cache[Manager][j] \in Data \cup {None}
  BY KeyFacts, RankFacts DEF TypeOK
<1>3. TypeOK'
  <2>1. phase' \in Phases
    BY <1>1 DEF Phases
  <2>2. incoming' \in Message \cup {None} /\ evicted' \in Message \cup {None}
    BY <1>1, <1>2, MessageTypes DEF Resident
  <2>3. got' \in (Keys \X (Data \cup {None})) \cup {None}
    BY <1>1 DEF TypeOK
  <2> QED BY <1>1, <2>1, <2>2, <2>3 DEF TypeOK
<1>4. PhaseInv'
  BY <1>1, <1>2 DEF PhaseInv, Winding, Resident, StoreMsg
<1>5. Coherent'
  <2> SUFFICES ASSUME phase' # "crashed", NEW j \in Keys PROVE CoherentAt(j)'
    BY DEF Coherent
  <2>1. written'[k] = d /\ (j # k => written'[j] = written[j])
    BY DEF TypeOK
  <2>2. CoherentAt(j)
    BY DEF Coherent
  <2>3. ASSUME j # k, NumWorkers # 0, RemoteHolds(j)
        PROVE  RemoteHolds(j)'
    <3>1. NumWorkers > 0
      BY <2>3, ConstantsAssumption
    <3> QED BY <1>1, <2>1, <2>3, <3>1, KeyFacts DEF RemoteHolds
  <2>4. CASE phase' = "idle"
    <3>1. CASE j = k
      BY <1>1, <1>2, <2>1, <2>4, <3>1, ConstantsAssumption DEF CoherentAt, Resident
    <3>2. CASE j # k
      BY <1>1, <1>2, <2>1, <2>2, <2>3, <2>4, <3>2 DEF CoherentAt, Resident
    <3> QED BY <3>1, <3>2
  <2>5. CASE phase' = "evicting"
    <3>1. PICK v \in Resident \ {k} :
            /\ evicted' = StoreMsg(v, cache[Manager][v])
            /\ cache'[Manager][v] = None
            /\ \A i \in Keys \ {v} : cache'[Manager][i] = cache[Manager][i]
      BY <1>1, <2>5
    <3>2. incoming' = StoreMsg(k, d) /\ cache'[Manager][k] = None
      BY <1>1, <2>5
    <3>3. incoming' # None /\ evicted' # None
      BY <3>1, <3>2, <1>2, MessageTypes DEF Resident
    <3>4. CASE j = k
      BY <3>2, <3>3, <3>4, <2>1 DEF CoherentAt, Resident, StoreMsg
    <3>5. CASE j = v
      BY <3>1, <3>2, <3>3, <3>5, <2>1, <2>2 DEF CoherentAt, Resident, StoreMsg
    <3>6. CASE j # k /\ j # v
      BY <3>1, <3>2, <3>3, <3>6, <2>1, <2>2, <2>3
         DEF CoherentAt, Resident, StoreMsg
    <3> QED BY <3>4, <3>5, <3>6
  <2> QED BY <1>1, <2>4, <2>5
<1> QED BY <1>1, <1>3, <1>4, <1>5 DEF Winding

\* A step that leaves the manager's cache and hands alone keeps every block
\* findable if no worker loses what it will hold.
LEMMA QuietCoherent ==
  ASSUME Coherent, phase # "crashed",
         UNCHANGED <<incoming, evicted, written>>,
         \A k \in Keys : cache'[Manager][k] = cache[Manager][k],
         \A k \in Keys : NumWorkers # 0 /\ RemoteHolds(k) => RemoteHolds(k)'
  PROVE  Coherent'
<1> SUFFICES ASSUME NEW k \in Keys PROVE CoherentAt(k)'
  BY DEF Coherent
<1>1. CoherentAt(k)
  BY DEF Coherent
<1>2. k \in Resident <=> k \in Resident'
  BY DEF Resident
<1> QED BY <1>1, <1>2 DEF CoherentAt

\* storeCacheBlock called by a data structure, up to its first blocking call.
LEMMA ManagerStoreKeepsIInv ==
  ASSUME IInv, NEW k \in Keys, NEW d \in Data, ManagerStore(k, d)
  PROVE  IInv'
<1> USE DEF ManagerStore, IInv
<1>1. /\ phase = "idle" /\ want = None /\ incoming = None /\ evicted = None
      /\ UNCHANGED <<nextRank, finished, toWorker, toManager>>
      /\ written' = [written EXCEPT ![k] = d]
      /\ ~Winding
  BY DEF PhaseInv, channel, Winding
<1>2. TypeOK' /\ PhaseInv' /\ Coherent' /\ phase' # "waiting"
  <2>1. toManager' \in [Workers -> Seq(Message)]
    BY <1>1 DEF TypeOK
  <2> QED BY <1>1, <2>1, StoreKeepsCoherent
<1>3. RequestInv' /\ FinishInv'
  BY <1>1, QuietWorkers
<1>4. ReplyMatchesRequest' /\ ReplyInv'
  BY <1>1 DEF ReplyMatchesRequest, ReplyInv
<1> QED BY <1>2, <1>3, <1>4

\* getBlockFallbackRemote up to its first blocking call.
LEMMA GetBlockKeepsIInv ==
  ASSUME IInv, NEW k \in Keys, GetBlockFallbackRemote(k)
  PROVE  IInv'
<1> USE DEF GetBlockFallbackRemote, IInv
<1>1. /\ phase = "idle" /\ want = None /\ incoming = None /\ evicted = None
      /\ UNCHANGED <<cache, currentBytes, incoming, evicted, nextRank, finished,
                     toWorker, toManager, written>>
      /\ ~Winding
  BY DEF PhaseInv, channel, store, Winding
<1>2. \/ k \in Resident /\ got' = <<k, cache[Manager][k]>> /\ UNCHANGED <<phase, want>>
      \/ /\ k \notin Resident /\ NumWorkers > 0 /\ got' = got
         /\ phase' = "requesting" /\ want' = k
      \/ phase' = "crashed" /\ UNCHANGED <<want, got>>
  BY DEF GetHit, GetMiss
<1>3. TypeOK'
  BY <1>1, <1>2, RankFacts DEF TypeOK, Phases
<1>4. PhaseInv'
  BY <1>1, <1>2 DEF PhaseInv, Winding, Resident
<1>5. RequestInv' /\ FinishInv'
  BY <1>1, QuietWorkers
<1>6. ReplyMatchesRequest' /\ ReplyInv'
  BY <1>1 DEF ReplyMatchesRequest, ReplyInv
<1>7. Coherent'
  BY <1>1, QuietCoherent DEF RemoteHolds
<1> QED BY <1>3, <1>4, <1>5, <1>6, <1>7

\* A send appends to one channel and keeps the channels typed.
LEMMA SendEffect ==
  ASSUME toWorker \in [Workers -> Seq(Message)],
         NEW w \in Workers, NEW m \in Message, Send(w, m)
  PROVE  /\ toWorker' \in [Workers -> Seq(Message)]
         /\ toWorker'[w] = Append(toWorker[w], m)
         /\ \A v \in Workers : v # w => toWorker'[v] = toWorker[v]
<1>1. Append(toWorker[w], m) \in Seq(Message)
  BY AppendedLast
<1>2. toWorker' = [toWorker EXCEPT ![w] = Append(toWorker[w], m)]
  BY DEF Send
<1> QED BY <1>1, <1>2

\* The send of the evicted block returns: refer ends and the new block is added.
LEMMA SendEvictedKeepsIInv ==
  ASSUME IInv, SendEvicted
  PROVE  IInv'
<1> USE DEF SendEvicted, IInv
<1> DEFINE in == incoming.key
           out == evicted.key
           w == StoredRank(out)
<1>1. /\ NumWorkers > 0
      /\ incoming = StoreMsg(in, incoming.data) /\ in \in Keys /\ incoming.data \in Data
      /\ evicted = StoreMsg(out, evicted.data) /\ out \in Keys /\ evicted.data \in Data
      /\ in \notin Resident /\ out \notin Resident /\ in # out
      /\ want \in {None, in}
      /\ incoming # None /\ evicted # None
      /\ w \in Workers
      /\ evicted \in Message
  <2>1. /\ NumWorkers > 0
        /\ incoming \in [tag : {"STORE_BLOCK"}, key : Keys, data : Data]
        /\ evicted \in [tag : {"STORE_BLOCK"}, key : Keys, data : Data]
        /\ in \notin Resident /\ out \notin Resident /\ in # out
        /\ want \in {None, in}
    BY DEF PhaseInv
  <2>2. incoming \in Message /\ evicted \in Message
    BY <2>1 DEF Message, Tags
  <2> QED BY <2>1, <2>2, MessageTypes, KeyFacts DEF StoreMsg
<1>2. /\ toWorker' \in [Workers -> Seq(Message)]
      /\ toWorker'[w] = Append(toWorker[w], evicted)
      /\ \A v \in Workers : v # w => toWorker'[v] = toWorker[v]
  BY <1>1, SendEffect DEF TypeOK
<1>3. /\ cache' \in [Ranks -> [Keys -> Data \cup {None}]]
      /\ currentBytes' \in [Ranks -> 0..Word-1]
      /\ cache'[Manager][in] = incoming.data
      /\ \A r \in Ranks, j \in Keys :
           r # Manager \/ j # in => cache'[r][j] = cache[r][j]
  BY <1>1, RankFacts, AddBlockEffect
<1>4. /\ phase' = "idle" /\ want' = None /\ incoming' = None /\ evicted' = None
      /\ got' \in {got, <<in, incoming.data>>}
      /\ UNCHANGED <<nextRank, finished, toManager, written>>
      /\ phase = "evicting"
  BY DEF Return
<1>5. TypeOK'
  <2>1. got' \in (Keys \X (Data \cup {None})) \cup {None}
    BY <1>1, <1>4 DEF TypeOK
  <2> QED BY <1>2, <1>3, <1>4, <2>1 DEF TypeOK, Phases
<1>6. PhaseInv'
  BY <1>4 DEF PhaseInv, Winding
<1>7. RequestInv'
  <2> SUFFICES ASSUME NEW v \in Workers, NEW i \in DOMAIN toWorker'[v]
               PROVE  LET m == toWorker'[v][i] IN
                      /\ m.tag = "STORE_BLOCK" => m.key \in Keys /\ m.data \in Data
                      /\ m.tag # "GET_BLOCK"
                      /\ m.tag # "FINISH"
    BY DEF RequestInv
  <2>1. \A u \in Workers : \A j \in DOMAIN toWorker[u] :
          LET m == toWorker[u][j] IN
          /\ m.tag = "STORE_BLOCK" => m.key \in Keys /\ m.data \in Data
          /\ m.tag # "GET_BLOCK"
          /\ m.tag # "FINISH"
    BY <1>4 DEF RequestInv, Winding
  <2>2. CASE v # w
    BY <1>2, <2>1, <2>2
  <2>3. CASE v = w
    <3>1. /\ DOMAIN toWorker[w] = 1..Len(toWorker[w])
          /\ DOMAIN toWorker'[w] = 1..(Len(toWorker[w]) + 1)
          /\ \A j \in 1..Len(toWorker[w]) : toWorker'[w][j] = toWorker[w][j]
          /\ toWorker'[w][Len(toWorker[w]) + 1] = evicted
          /\ Len(toWorker[w]) \in Nat
      BY <1>1, <1>2, AppendedLast DEF TypeOK
    <3>2. CASE i \in DOMAIN toWorker[w]
      BY <2>1, <2>3, <3>1, <3>2, <1>1
    <3>3. CASE i = Len(toWorker[w]) + 1
      BY <2>3, <3>1, <3>3, <1>1 DEF StoreMsg
    <3> QED BY <2>3, <3>1, <3>2, <3>3
  <2> QED BY <2>2, <2>3
<1>8. FinishInv'
  <2>1. \A v \in Workers : ~finished[v]
    BY <1>4 DEF FinishInv, Winding
  <2> QED BY <1>4, <2>1 DEF FinishInv
<1>9. ReplyMatchesRequest' /\ ReplyInv'
  BY <1>4 DEF ReplyMatchesRequest, ReplyInv
<1>10. Coherent'
  <2> SUFFICES ASSUME NEW j \in Keys PROVE CoherentAt(j)'
    BY DEF Coherent
  <2>1. CoherentAt(j)
    BY <1>4 DEF Coherent
  <2>2. StoredRank(j) \in Workers /\ StoredRank(j) \in Ranks /\ StoredRank(j) # Manager
    BY <1>1, KeyFacts, RankFacts
  <2>3. cache'[StoredRank(j)][j] = cache[StoredRank(j)][j]
    BY <1>3, <2>2
  <2>4. CASE j = in
    <3>1. incoming.data = written[in]
      BY <1>1, <2>1, <2>4 DEF CoherentAt
    <3>2. incoming.data # None
      BY <1>1, ConstantsAssumption
    <3> QED BY <1>3, <1>4, <2>4, <3>1, <3>2 DEF CoherentAt, Resident
  <2>5. CASE j = out
    <3>1. evicted.data = written[j] /\ j \notin Resident'
      BY <1>1, <1>3, <2>1, <2>5, RankFacts DEF CoherentAt, Resident
    <3>2. WillHold(Append(toWorker[w], evicted), cache[w][j], j, evicted.data)
      <4>1. StoreFor(evicted, j)
        BY <1>1, <2>5 DEF StoreFor, StoreMsg
      <4> QED BY <1>1, <4>1, SentStoreHolds DEF TypeOK
    <3>3. RemoteHolds(j)'
      BY <1>2, <1>4, <2>3, <2>5, <3>1, <3>2 DEF RemoteHolds
    <3> QED BY <1>1, <1>4, <3>1, <3>3 DEF CoherentAt
  <2>6. CASE j # in /\ j # out
    <3>1. CASE j \in Resident
      BY <1>3, <1>4, <2>1, <2>6, <3>1, RankFacts DEF CoherentAt, Resident
    <3>2. CASE j \notin Resident
      <4>1. RemoteHolds(j) /\ j \notin Resident'
        BY <1>1, <1>3, <2>1, <2>6, <3>2, RankFacts DEF CoherentAt, Resident
      <4>2. ~StoreFor(evicted, j)
        BY <1>1, <2>6 DEF StoreFor, StoreMsg
      <4>3. RemoteHolds(j)'
        <5>1. CASE StoredRank(j) = w
          <6>1. WillHold(Append(toWorker[w], evicted), cache[w][j], j, written[j])
            BY <1>1, <4>1, <4>2, <5>1, SentOtherHolds DEF RemoteHolds, TypeOK
          <6> QED BY <1>2, <1>4, <2>3, <5>1, <6>1 DEF RemoteHolds
        <5>2. CASE StoredRank(j) # w
          BY <1>2, <1>4, <2>2, <2>3, <4>1, <5>2 DEF RemoteHolds
        <5> QED BY <5>1, <5>2
      <4> QED BY <1>1, <1>4, <4>1, <4>3 DEF CoherentAt
    <3> QED BY <3>1, <3>2
  <2> QED BY <2>4, <2>5, <2>6
<1> QED BY <1>5, <1>6, <1>7, <1>8, <1>9, <1>10

\* Sending a message that stores nothing leaves what the workers will hold.
LEMMA SentOtherRemote ==
  ASSUME toWorker \in [Workers -> Seq(Message)],
         NEW w \in Workers, NEW m \in Message, m.tag # "STORE_BLOCK", Send(w, m),
         UNCHANGED <<cache, written>>,
         NEW k \in Keys, NumWorkers # 0, RemoteHolds(k)
  PROVE  RemoteHolds(k)'
<1>1. StoredRank(k) \in Workers
  BY KeyFacts, ConstantsAssumption
<1>2. /\ toWorker'[w] = Append(toWorker[w], m)
      /\ \A v \in Workers : v # w => toWorker'[v] = toWorker[v]
  BY SendEffect
<1>3. CASE StoredRank(k) = w
  <2>1. WillHold(Append(toWorker[w], m), cache[w][k], k, written[k])
    <3>1. ~StoreFor(m, k)
      BY DEF StoreFor
    <3> QED BY <3>1, <1>3, SentOtherHolds DEF RemoteHolds
  <2> QED BY <1>2, <1>3, <2>1 DEF RemoteHolds
<1>4. CASE StoredRank(k) # w
  BY <1>1, <1>2, <1>4 DEF RemoteHolds
<1> QED BY <1>3, <1>4

\* Where the messages of the channel to w are after a send.
LEMMA SentPlaces ==
  ASSUME toWorker \in [Workers -> Seq(Message)],
         NEW w \in Workers, NEW m \in Message, Send(w, m)
  PROVE  /\ Len(toWorker[w]) \in Nat
         /\ Len(toWorker'[w]) = Len(toWorker[w]) + 1
         /\ DOMAIN toWorker[w] = 1..Len(toWorker[w])
         /\ DOMAIN toWorker'[w] = 1..(Len(toWorker[w]) + 1)
         /\ \A j \in 1..Len(toWorker[w]) : toWorker'[w][j] = toWorker[w][j]
         /\ toWorker'[w][Len(toWorker[w]) + 1] = m
<1>1. toWorker'[w] = Append(toWorker[w], m)
  BY SendEffect
<1>2. toWorker[w] \in Seq(Message)
  OBVIOUS
<1> QED BY <1>1, <1>2, AppendedLast

\* The request for a block leaves for its worker.
LEMMA SendGetKeepsIInv ==
  ASSUME IInv, SendGet
  PROVE  IInv'
<1> USE DEF SendGet, IInv
<1> DEFINE w == StoredRank(want)
<1>1. /\ phase = "requesting" /\ phase' = "waiting"
      /\ UNCHANGED <<cache, currentBytes, want, incoming, evicted, nextRank, finished,
                     toManager, written, got>>
      /\ NumWorkers > 0 /\ want \in Keys \ Resident
      /\ incoming = None /\ evicted = None
  BY DEF PhaseInv, store
<1>2. w \in Workers /\ GetMsg(want) \in Message
  BY <1>1, KeyFacts, MessageTypes
<1>3. /\ toWorker' \in [Workers -> Seq(Message)]
      /\ toWorker'[w] = Append(toWorker[w], GetMsg(want))
      /\ \A v \in Workers : v # w => toWorker'[v] = toWorker[v]
  BY <1>2, SendEffect DEF TypeOK
<1>4. TypeOK'
  BY <1>1, <1>3 DEF TypeOK, Phases
<1>5. PhaseInv'
  BY <1>1 DEF PhaseInv, Winding, Resident
<1>6. \A v \in Workers : toManager[v] = <<>>
  BY <1>1 DEF ReplyMatchesRequest
<1>7. RequestInv'
  <2> SUFFICES ASSUME NEW v \in Workers, NEW i \in DOMAIN toWorker'[v]
               PROVE  LET m == toWorker'[v][i] IN
                      /\ m.tag = "STORE_BLOCK" => m.key \in Keys /\ m.data \in Data
                      /\ m.tag = "GET_BLOCK" =>
                           i = Len(toWorker'[v]) /\ v = w /\ m.key = want
                      /\ m.tag # "FINISH"
    BY <1>1, <1>6 DEF RequestInv
  <2>1. \A u \in Workers : \A j \in DOMAIN toWorker[u] :
          LET m == toWorker[u][j] IN
          /\ m.tag = "STORE_BLOCK" => m.key \in Keys /\ m.data \in Data
          /\ m.tag # "GET_BLOCK"
          /\ m.tag # "FINISH"
    BY <1>1 DEF RequestInv, Winding
  <2>2. CASE v # w
    BY <1>3, <2>1, <2>2
  <2>3. CASE v = w
    <3>1. /\ Len(toWorker[w]) \in Nat
          /\ Len(toWorker'[w]) = Len(toWorker[w]) + 1
          /\ DOMAIN toWorker[w] = 1..Len(toWorker[w])
          /\ DOMAIN toWorker'[w] = 1..(Len(toWorker[w]) + 1)
          /\ \A j \in 1..Len(toWorker[w]) : toWorker'[w][j] = toWorker[w][j]
          /\ toWorker'[w][Len(toWorker[w]) + 1] = GetMsg(want)
      BY <1>2, SentPlaces DEF TypeOK
    <3>2. CASE i \in DOMAIN toWorker[w]
      BY <2>1, <2>3, <3>1, <3>2, <1>2
    <3>3. CASE i = Len(toWorker[w]) + 1
      BY <2>3, <3>1, <3>3 DEF GetMsg
    <3> QED BY <2>3, <3>1, <3>2, <3>3
  <2> QED BY <2>2, <2>3
<1>8. FinishInv'
  BY <1>1 DEF FinishInv, Winding
<1>9. ReplyMatchesRequest' /\ ReplyInv'
  BY <1>1, <1>6 DEF ReplyMatchesRequest, ReplyInv
<1>10. Coherent'
  <2>1. GetMsg(want).tag # "STORE_BLOCK"
    BY DEF GetMsg
  <2>2. \A k \in Keys : NumWorkers # 0 /\ RemoteHolds(k) => RemoteHolds(k)'
    BY <1>1, <1>2, <2>1, SentOtherRemote DEF TypeOK
  <2> QED BY <1>1, <2>2, QuietCoherent
<1> QED BY <1>4, <1>5, <1>7, <1>8, <1>9, <1>10

\* The answer arrives and is stored in the cache of the manager.
LEMMA ReceiveBlockKeepsIInv ==
  ASSUME IInv, ReceiveBlock
  PROVE  IInv'
<1> USE DEF ReceiveBlock, IInv
<1> DEFINE w == StoredRank(want)
           d == written[want]
<1>1. /\ phase = "waiting" /\ want \in Keys /\ NumWorkers > 0
      /\ incoming = None /\ evicted = None
      /\ UNCHANGED <<nextRank, finished, toWorker, written>>
      /\ w \in Workers
      /\ toManager[w] # <<>>
  BY KeyFacts DEF PhaseInv
<1>2. toManager[w] = <<StoreMsg(want, d)>> /\ d \in Data
  BY <1>1 DEF ReplyMatchesRequest, ReplyInv
<1>3. StoreCacheBlock(want, d)
  BY <1>2 DEF StoreMsg
<1>4. /\ toManager' \in [Workers -> Seq(Message)]
      /\ \A v \in Workers : toManager'[v] = <<>>
  <2>1. Tail(toManager[w]) = <<>>
    BY <1>2
  <2>2. toManager' = [toManager EXCEPT ![w] = <<>>]
    BY <2>1
  <2>3. \A v \in Workers : v # w => toManager[v] = <<>>
    BY DEF ReplyMatchesRequest
  <2> QED BY <1>1, <2>2, <2>3 DEF TypeOK
<1>5. written' = [written EXCEPT ![want] = d]
  BY <1>1 DEF TypeOK
<1>6. TypeOK' /\ PhaseInv' /\ Coherent' /\ ~Winding' /\ phase' # "waiting"
  BY <1>1, <1>2, <1>3, <1>4, <1>5, StoreKeepsCoherent
<1>7. \A v \in Workers : \A i \in DOMAIN toWorker[v] :
        LET m == toWorker[v][i] IN
        /\ m.tag = "STORE_BLOCK" => m.key \in Keys /\ m.data \in Data
        /\ m.tag # "GET_BLOCK"
        /\ m.tag # "FINISH"
  BY <1>1 DEF RequestInv, Winding
<1>8. RequestInv'
  BY <1>1, <1>7 DEF RequestInv
<1>9. FinishInv'
  BY <1>1 DEF FinishInv, Winding
<1>10. ReplyMatchesRequest' /\ ReplyInv'
  BY <1>4 DEF ReplyMatchesRequest, ReplyInv
<1> QED BY <1>6, <1>8, <1>9, <1>10

\* The first step of System::stop.
LEMMA StopKeepsIInv ==
  ASSUME IInv, Stop \/ Stopped
  PROVE  IInv'
<1> USE DEF Stop, Stopped, IInv
<1>1. /\ phase \in {"idle", "stopping"} /\ phase' \in {"stopping", "stopped"}
      /\ UNCHANGED <<cache, currentBytes, want, incoming, evicted, nextRank, finished,
                     toWorker, toManager, written, got>>
      /\ want = None /\ incoming = None /\ evicted = None
  BY DEF PhaseInv, Winding, store, channel
<1>2. TypeOK'
  BY <1>1 DEF TypeOK, Phases
<1>3. PhaseInv'
  BY <1>1 DEF PhaseInv, Winding
<1>4. RequestInv' /\ FinishInv'
  BY <1>1, QuietWorkers DEF Winding
<1>5. ReplyMatchesRequest' /\ ReplyInv'
  BY <1>1 DEF ReplyMatchesRequest, ReplyInv
<1>6. Coherent'
  BY <1>1, QuietCoherent DEF RemoteHolds
<1> QED BY <1>2, <1>3, <1>4, <1>5, <1>6

\* finalize sends the next worker its FINISH.
LEMMA SendFinishKeepsIInv ==
  ASSUME IInv, SendFinish
  PROVE  IInv'
<1> USE DEF SendFinish, IInv
<1> DEFINE w == nextRank
<1>1. /\ phase = "stopping"
      /\ UNCHANGED <<cache, currentBytes, phase, want, incoming, evicted, finished,
                     toManager, written, got>>
      /\ nextRank' = w + 1 /\ Winding /\ Winding'
      /\ want = None /\ incoming = None /\ evicted = None
  BY DEF PhaseInv, store, Winding
<1>2. w \in Workers /\ FinishMsg \in Message /\ w \in Nat
  BY MessageTypes, ConstantsAssumption DEF TypeOK, Workers
<1>3. /\ toWorker' \in [Workers -> Seq(Message)]
      /\ \A v \in Workers : v # w => toWorker'[v] = toWorker[v]
  BY <1>2, SendEffect DEF TypeOK
<1>4. TypeOK'
  <2>1. nextRank' \in 1..NumWorkers+1
    BY <1>1, ConstantsAssumption DEF TypeOK
  <2> QED BY <1>1, <1>3, <2>1 DEF TypeOK
<1>5. PhaseInv'
  BY <1>1 DEF PhaseInv
<1>6. RequestInv'
  <2> SUFFICES ASSUME NEW v \in Workers, NEW i \in DOMAIN toWorker'[v]
               PROVE  LET m == toWorker'[v][i] IN
                      /\ m.tag = "STORE_BLOCK" => m.key \in Keys /\ m.data \in Data
                      /\ m.tag # "GET_BLOCK"
                      /\ m.tag = "FINISH" => i = Len(toWorker'[v]) /\ v < w + 1
    BY <1>1 DEF RequestInv
  <2>1. \A u \in Workers : \A j \in DOMAIN toWorker[u] :
          LET m == toWorker[u][j] IN
          /\ m.tag = "STORE_BLOCK" => m.key \in Keys /\ m.data \in Data
          /\ m.tag # "GET_BLOCK"
          /\ m.tag = "FINISH" => j = Len(toWorker[u]) /\ u < w
    BY <1>1 DEF RequestInv
  <2>2. CASE v # w
    BY <1>2, <1>3, <2>1, <2>2, RankFacts
  <2>3. CASE v = w
    <3>1. /\ Len(toWorker[w]) \in Nat
          /\ Len(toWorker'[w]) = Len(toWorker[w]) + 1
          /\ DOMAIN toWorker[w] = 1..Len(toWorker[w])
          /\ DOMAIN toWorker'[w] = 1..(Len(toWorker[w]) + 1)
          /\ \A j \in 1..Len(toWorker[w]) : toWorker'[w][j] = toWorker[w][j]
          /\ toWorker'[w][Len(toWorker[w]) + 1] = FinishMsg
      BY <1>2, SentPlaces DEF TypeOK
    <3>2. CASE i \in DOMAIN toWorker[w]
      <4>1. toWorker'[v][i].tag # "FINISH"
        BY <1>2, <2>1, <2>3, <3>1, <3>2
      <4> QED BY <1>2, <2>1, <2>3, <3>1, <3>2, <4>1
    <3>3. CASE i = Len(toWorker[w]) + 1
      BY <1>2, <2>3, <3>1, <3>3 DEF FinishMsg
    <3> QED BY <2>3, <3>1, <3>2, <3>3
  <2> QED BY <2>2, <2>3
<1>7. FinishInv'
  <2> SUFFICES ASSUME NEW v \in Workers, finished[v]
               PROVE  toWorker'[v] = <<>> /\ v < w + 1
    BY <1>1 DEF FinishInv
  <2>1. toWorker[v] = <<>> /\ v < w
    BY DEF FinishInv
  <2>2. v \in Nat
    BY RankFacts
  <2>3. v # w /\ v < w + 1
    BY <1>2, <2>1, <2>2
  <2> QED BY <1>3, <2>1, <2>3
<1>8. ReplyMatchesRequest' /\ ReplyInv'
  BY <1>1 DEF ReplyMatchesRequest, ReplyInv
<1>9. Coherent'
  <2>1. FinishMsg.tag # "STORE_BLOCK"
    BY DEF FinishMsg
  <2>2. \A k \in Keys : NumWorkers # 0 /\ RemoteHolds(k) => RemoteHolds(k)'
    BY <1>1, <1>2, <2>1, SentOtherRemote DEF TypeOK
  <2> QED BY <1>1, <2>2, QuietCoherent
<1> QED BY <1>4, <1>5, <1>6, <1>7, <1>8, <1>9
-------------------------------------------------------------------------------
(* The inductive invariant, one lemma per action of a worker. *)

\* What handling one message does, whichever it is.
LEMMA HandleEffect ==
  ASSUME IInv, NEW w \in Workers, NEW t, Handle(w, t)
  PROVE  /\ Head(toWorker[w]).tag = t
         /\ Head(toWorker[w]) = toWorker[w][1]
         /\ 1 \in DOMAIN toWorker[w]
         /\ Len(toWorker[w]) \in Nat
         /\ ~finished[w] /\ toWorker[w] # <<>> /\ toWorker[w] \in Seq(Message)
         /\ UNCHANGED <<phase, want, incoming, evicted, nextRank, written, got>>
         /\ toWorker' \in [Workers -> Seq(Message)]
         /\ toWorker'[w] = Tail(toWorker[w])
         /\ \A v \in Workers : v # w => toWorker'[v] = toWorker[v]
<1>1. toWorker[w] \in Seq(Message) /\ toWorker[w] # <<>>
  BY DEF Handle, IInv, TypeOK
<1>2. /\ Tail(toWorker[w]) \in Seq(Message)
      /\ Head(toWorker[w]) = toWorker[w][1]
      /\ 1 \in DOMAIN toWorker[w] /\ Len(toWorker[w]) \in Nat
  BY <1>1, Consumed
<1>3. toWorker' = [toWorker EXCEPT ![w] = Tail(toWorker[w])]
  BY DEF Handle
<1> QED BY <1>1, <1>2, <1>3 DEF Handle, IInv, TypeOK

\* Handling a message keeps the order of the ones behind it.
LEMMA HandleKeepsRequests ==
  ASSUME IInv, NEW w \in Workers, NEW t, Handle(w, t),
         \A v \in Workers : v # w => toManager'[v] = toManager[v],
         t # "GET_BLOCK" => toManager'[w] = toManager[w]
  PROVE  RequestInv'
<1>1. /\ UNCHANGED <<phase, want, nextRank>>
      /\ toWorker[w] \in Seq(Message) /\ toWorker[w] # <<>>
      /\ toWorker'[w] = Tail(toWorker[w])
      /\ Head(toWorker[w]).tag = t
      /\ \A v \in Workers : v # w => toWorker'[v] = toWorker[v]
  BY HandleEffect
<1> SUFFICES ASSUME NEW v \in Workers, NEW i \in DOMAIN toWorker'[v]
             PROVE  LET m == toWorker'[v][i] IN
                    /\ m.tag = "STORE_BLOCK" => m.key \in Keys /\ m.data \in Data
                    /\ m.tag = "GET_BLOCK" =>
                         /\ i = Len(toWorker'[v])
                         /\ phase' = "waiting" /\ v = StoredRank(want') /\ m.key = want'
                         /\ toManager'[v] = <<>>
                    /\ m.tag = "FINISH" =>
                         /\ i = Len(toWorker'[v])
                         /\ Winding' /\ v < nextRank'
  BY DEF RequestInv
<1>2. RequestInv
  BY DEF IInv
<1>3. CASE v # w
  BY <1>1, <1>2, <1>3 DEF RequestInv, Winding
<1>4. CASE v = w
  <2>1. /\ Head(toWorker[w]) = toWorker[w][1]
        /\ Len(toWorker[w]) \in Nat \ {0}
        /\ Len(toWorker'[w]) = Len(toWorker[w]) - 1
        /\ DOMAIN toWorker[w] = 1..Len(toWorker[w])
        /\ DOMAIN toWorker'[w] = 1..(Len(toWorker[w]) - 1)
        /\ \A j \in 1..(Len(toWorker[w]) - 1) : toWorker'[w][j] = toWorker[w][j + 1]
    BY <1>1, Consumed
  <2>2. i \in 1..(Len(toWorker[w]) - 1)
    BY <1>4, <2>1
  <2>3. /\ i + 1 \in DOMAIN toWorker[w] /\ toWorker'[w][i] = toWorker[w][i + 1]
        /\ 1 \in DOMAIN toWorker[w] /\ Len(toWorker[w]) # 1
        /\ i + 1 = Len(toWorker[w]) => i = Len(toWorker'[w])
    BY <2>1, <2>2
  <2>4. t # "GET_BLOCK"
    BY <1>1, <1>2, <2>1, <2>3 DEF RequestInv
  <2>5. toManager'[w] = toManager[w]
    BY <2>4
  <2> DEFINE n == toWorker[w][i + 1]
  <2>6. /\ n.tag = "STORE_BLOCK" => n.key \in Keys /\ n.data \in Data
        /\ n.tag = "GET_BLOCK" =>
             /\ i + 1 = Len(toWorker[w])
             /\ phase = "waiting" /\ w = StoredRank(want) /\ n.key = want
             /\ toManager[w] = <<>>
        /\ n.tag = "FINISH" => i + 1 = Len(toWorker[w]) /\ Winding /\ w < nextRank
    BY <1>2, <2>3 DEF RequestInv
  <2>7. toWorker'[v][i] = n
    BY <1>4, <2>3
  <2> HIDE DEF n
  <2> QED BY <1>1, <1>4, <2>3, <2>5, <2>6, <2>7 DEF Winding
<1> QED BY <1>3, <1>4

\* A message that stores nothing leaves what the workers will hold.
LEMMA HandleOtherRemote ==
  ASSUME IInv, NEW w \in Workers, NEW t, Handle(w, t), t # "STORE_BLOCK",
         UNCHANGED cache,
         NEW k \in Keys, NumWorkers # 0, RemoteHolds(k)
  PROVE  RemoteHolds(k)'
<1>1. /\ UNCHANGED written
      /\ toWorker[w] \in Seq(Message) /\ toWorker[w] # <<>>
      /\ toWorker'[w] = Tail(toWorker[w])
      /\ Head(toWorker[w]).tag = t
      /\ \A v \in Workers : v # w => toWorker'[v] = toWorker[v]
  BY HandleEffect
<1>2. StoredRank(k) \in Workers
  BY KeyFacts, ConstantsAssumption
<1>3. CASE StoredRank(k) = w
  <2>1. ~StoreFor(Head(toWorker[w]), k)
    BY <1>1 DEF StoreFor
  <2>2. WillHold(Tail(toWorker[w]), cache[w][k], k, written[k])
    BY <1>1, <1>3, <2>1, HandledOtherHolds DEF RemoteHolds
  <2> QED BY <1>1, <1>3, <2>2 DEF RemoteHolds
<1>4. CASE StoredRank(k) # w
  BY <1>1, <1>2, <1>4 DEF RemoteHolds
<1> QED BY <1>3, <1>4

\* A worker stores the block it was sent.
LEMMA WorkerStoreKeepsIInv ==
  ASSUME IInv, NEW w \in Workers, WorkerStore(w)
  PROVE  IInv'
<1> USE DEF WorkerStore
<1> DEFINE m == Head(toWorker[w])
<1>1. /\ m.tag = "STORE_BLOCK"
      /\ m = toWorker[w][1] /\ 1 \in DOMAIN toWorker[w]
      /\ ~finished[w] /\ toWorker[w] # <<>> /\ toWorker[w] \in Seq(Message)
      /\ UNCHANGED <<phase, want, incoming, evicted, nextRank, written, got>>
      /\ toWorker' \in [Workers -> Seq(Message)]
      /\ toWorker'[w] = Tail(toWorker[w])
      /\ \A v \in Workers : v # w => toWorker'[v] = toWorker[v]
      /\ UNCHANGED <<finished, toManager>>
  BY HandleEffect
<1>2. m.key \in Keys /\ m.data \in Data
  BY <1>1 DEF IInv, RequestInv
<1>3. /\ cache' \in [Ranks -> [Keys -> Data \cup {None}]]
      /\ currentBytes' \in [Ranks -> 0..Word-1]
      /\ cache'[w][m.key] = m.data
      /\ \A r \in Ranks, j \in Keys :
           r # w \/ j # m.key => cache'[r][j] = cache[r][j]
  BY <1>2, RankFacts, AddBlockEffect DEF IInv
<1>4. \A k \in Keys : cache'[Manager][k] = cache[Manager][k]
  BY <1>3, RankFacts
<1>5. TypeOK'
  BY <1>1, <1>3 DEF IInv, TypeOK
<1>6. PhaseInv'
  BY <1>1, <1>4 DEF IInv, PhaseInv, Winding, Resident
<1>7. RequestInv'
  BY <1>1, HandleKeepsRequests
<1>8. FinishInv'
  BY <1>1 DEF IInv, FinishInv, Winding
<1>9. ReplyMatchesRequest' /\ ReplyInv'
  BY <1>1 DEF IInv, ReplyMatchesRequest, ReplyInv, StoredRank
<1>10. Coherent'
  <2>1. ASSUME NEW k \in Keys, NumWorkers # 0, RemoteHolds(k)
        PROVE  RemoteHolds(k)'
    <3>1. StoredRank(k) \in Workers /\ StoredRank(k) \in Ranks
      BY <2>1, KeyFacts, RankFacts, ConstantsAssumption
    <3>2. CASE StoredRank(k) = w /\ k = m.key
      <4>1. StoreFor(m, k)
        BY <1>1, <3>2 DEF StoreFor
      <4>2. WillHold(Tail(toWorker[w]), m.data, k, written[k])
        BY <1>1, <2>1, <3>2, <4>1, HandledStoreHolds DEF RemoteHolds
      <4> QED BY <1>1, <1>3, <3>2, <4>2 DEF RemoteHolds
    <3>3. CASE StoredRank(k) = w /\ k # m.key
      <4>1. ~StoreFor(m, k)
        BY <3>3 DEF StoreFor
      <4>2. WillHold(Tail(toWorker[w]), cache[w][k], k, written[k])
        BY <1>1, <2>1, <3>3, <4>1, HandledOtherHolds DEF RemoteHolds
      <4>3. cache'[w][k] = cache[w][k]
        BY <1>3, <3>1, <3>3
      <4> QED BY <1>1, <3>3, <4>2, <4>3 DEF RemoteHolds
    <3>4. CASE StoredRank(k) # w
      BY <1>1, <1>3, <2>1, <3>1, <3>4 DEF RemoteHolds
    <3> QED BY <3>2, <3>3, <3>4
  <2>2. CASE phase = "crashed"
    BY <1>1, <2>2 DEF Coherent
  <2>3. CASE phase # "crashed"
    BY <1>1, <1>4, <2>1, <2>3, QuietCoherent DEF IInv
  <2> QED BY <2>2, <2>3
<1> QED BY <1>5, <1>6, <1>7, <1>8, <1>9, <1>10 DEF IInv

\* A worker answers a request, or not.
LEMMA WorkerGetKeepsIInv ==
  ASSUME IInv, NEW w \in Workers, WorkerGet(w)
  PROVE  IInv'
<1> USE DEF WorkerGet
<1> DEFINE m == Head(toWorker[w])
           d == cache[w][m.key]
<1>1. /\ m.tag = "GET_BLOCK"
      /\ m = toWorker[w][1] /\ 1 \in DOMAIN toWorker[w]
      /\ ~finished[w] /\ toWorker[w] # <<>> /\ toWorker[w] \in Seq(Message)
      /\ UNCHANGED <<phase, want, incoming, evicted, nextRank, written, got>>
      /\ toWorker' \in [Workers -> Seq(Message)]
      /\ toWorker'[w] = Tail(toWorker[w])
      /\ \A v \in Workers : v # w => toWorker'[v] = toWorker[v]
      /\ UNCHANGED <<cache, currentBytes, finished>>
  BY HandleEffect DEF store
<1>2. /\ 1 = Len(toWorker[w])
      /\ phase = "waiting" /\ w = StoredRank(want) /\ m.key = want
      /\ toManager[w] = <<>>
  BY <1>1 DEF IInv, RequestInv
<1>3. NumWorkers > 0 /\ want \in Keys \ Resident /\ incoming = None /\ evicted = None
  BY <1>2 DEF IInv, PhaseInv
\* The request is the whole queue, so the worker holds what was written.
<1>4. cache[w][want] = written[want]
  <2>1. RemoteHolds(want)
    BY <1>2, <1>3 DEF IInv, Coherent, CoherentAt
  <2>2. \A i \in DOMAIN toWorker[w] : ~StoreFor(toWorker[w][i], want)
    <3>1. DOMAIN toWorker[w] = {1}
      BY <1>1, <1>2, Consumed
    <3> QED BY <1>1, <3>1 DEF StoreFor
  <2> QED BY <1>2, <2>1, <2>2 DEF RemoteHolds, WillHold
<1>5. \/ toManager' = toManager
      \/ /\ toManager' = [toManager EXCEPT ![w] = <<StoreMsg(want, written[want])>>]
         /\ written[want] \in Data
  <2>1. CASE d = None
    BY <2>1
  <2>2. CASE d # None
    <3>1. written[want] \in Data
      BY <1>2, <1>3, <1>4, <2>2 DEF IInv, TypeOK
    <3>2. toManager' = [toManager EXCEPT ![w] = Append(<<>>, StoreMsg(want, written[want]))]
      BY <1>2, <1>4, <2>2
    <3>3. Append(<<>>, StoreMsg(want, written[want])) = <<StoreMsg(want, written[want])>>
      OBVIOUS
    <3> QED BY <3>1, <3>2, <3>3
  <2> QED BY <2>1, <2>2
<1>6. TypeOK'
  <2>1. toManager' \in [Workers -> Seq(Message)]
    <3>1. written[want] \in Data => <<StoreMsg(want, written[want])>> \in Seq(Message)
      BY <1>3, MessageTypes
    <3> QED BY <1>5, <3>1 DEF IInv, TypeOK
  <2> QED BY <1>1, <2>1 DEF IInv, TypeOK
<1>7. PhaseInv'
  BY <1>1 DEF IInv, PhaseInv, Winding, Resident
<1>8. RequestInv'
  <2>1. \A v \in Workers : v # w => toManager'[v] = toManager[v]
    BY <1>5 DEF IInv, TypeOK
  <2> QED BY <1>1, <2>1, HandleKeepsRequests
<1>9. FinishInv'
  BY <1>1 DEF IInv, FinishInv, Winding
<1>10. ReplyMatchesRequest' /\ ReplyInv'
  <2> SUFFICES ASSUME NEW v \in Workers, toManager'[v] # <<>>
               PROVE  /\ phase = "waiting" /\ v = StoredRank(want)
                      /\ toManager'[v] = <<StoreMsg(want, written[want])>>
                      /\ written[want] \in Data
    BY <1>1 DEF ReplyMatchesRequest, ReplyInv
  <2>1. CASE toManager' = toManager
    BY <2>1 DEF IInv, ReplyMatchesRequest, ReplyInv
  <2>2. CASE /\ toManager' = [toManager EXCEPT ![w] = <<StoreMsg(want, written[want])>>]
             /\ written[want] \in Data
    <3>1. CASE v = w
      BY <1>2, <2>2, <3>1 DEF IInv, TypeOK
    <3>2. CASE v # w
      BY <2>2, <3>2 DEF IInv, TypeOK, ReplyMatchesRequest, ReplyInv
    <3> QED BY <3>1, <3>2
  <2> QED BY <1>5, <2>1, <2>2
<1>11. Coherent'
  <2>1. ASSUME NEW k \in Keys, NumWorkers # 0, RemoteHolds(k)
        PROVE  RemoteHolds(k)'
    BY <1>1, <2>1, HandleOtherRemote
  <2> QED BY <1>1, <1>2, <2>1, QuietCoherent DEF IInv
<1> QED BY <1>6, <1>7, <1>8, <1>9, <1>10, <1>11 DEF IInv

\* A worker leaves its loop.
LEMMA WorkerFinishKeepsIInv ==
  ASSUME IInv, NEW w \in Workers, WorkerFinish(w)
  PROVE  IInv'
<1> USE DEF WorkerFinish
<1>1. /\ Head(toWorker[w]).tag = "FINISH"
      /\ Head(toWorker[w]) = toWorker[w][1] /\ 1 \in DOMAIN toWorker[w]
      /\ toWorker[w] # <<>> /\ toWorker[w] \in Seq(Message)
      /\ UNCHANGED <<phase, want, incoming, evicted, nextRank, written, got>>
      /\ toWorker' \in [Workers -> Seq(Message)]
      /\ toWorker'[w] = Tail(toWorker[w])
      /\ \A v \in Workers : v # w => toWorker'[v] = toWorker[v]
      /\ UNCHANGED <<cache, currentBytes, toManager>>
      /\ finished' = [finished EXCEPT ![w] = TRUE]
  BY HandleEffect DEF store
<1>2. 1 = Len(toWorker[w]) /\ Winding /\ w < nextRank
  BY <1>1 DEF IInv, RequestInv
<1>3. Tail(toWorker[w]) = <<>>
  <2>1. Tail(toWorker[w]) \in Seq(Message) /\ Len(Tail(toWorker[w])) = 0
    BY <1>1, <1>2, Consumed
  <2> QED BY <2>1, EmptySeq
<1>4. phase # "crashed"
  BY <1>2 DEF Winding
<1>5. TypeOK'
  BY <1>1 DEF IInv, TypeOK
<1>6. PhaseInv'
  BY <1>1 DEF IInv, PhaseInv, Winding, Resident
<1>7. RequestInv'
  BY <1>1, HandleKeepsRequests
<1>8. FinishInv'
  <2> SUFFICES ASSUME NEW v \in Workers, finished'[v]
               PROVE  toWorker'[v] = <<>> /\ Winding /\ v < nextRank
    BY <1>1 DEF FinishInv, Winding
  <2>1. CASE v = w
    BY <1>1, <1>2, <1>3, <2>1
  <2>2. CASE v # w
    BY <1>1, <2>2 DEF IInv, TypeOK, FinishInv
  <2> QED BY <2>1, <2>2
<1>9. ReplyMatchesRequest' /\ ReplyInv'
  BY <1>1 DEF IInv, ReplyMatchesRequest, ReplyInv, StoredRank
<1>10. Coherent'
  <2>1. ASSUME NEW k \in Keys, NumWorkers # 0, RemoteHolds(k)
        PROVE  RemoteHolds(k)'
    BY <1>1, <2>1, HandleOtherRemote
  <2> QED BY <1>1, <1>4, <2>1, QuietCoherent DEF IInv
<1> QED BY <1>5, <1>6, <1>7, <1>8, <1>9, <1>10 DEF IInv
-------------------------------------------------------------------------------
(* The theorems. *)

\* A step that changes nothing keeps the inductive invariant.
LEMMA StutterKeepsIInv == IInv /\ UNCHANGED vars => IInv'
<1> SUFFICES ASSUME IInv, UNCHANGED vars PROVE IInv'
  OBVIOUS
<1> USE DEF IInv, vars
<1>1. TypeOK' /\ PhaseInv' /\ FinishInv' /\ ReplyMatchesRequest' /\ ReplyInv'
  BY DEF TypeOK, PhaseInv, Winding, Resident, FinishInv, ReplyMatchesRequest, ReplyInv,
         StoredRank
<1>2. RequestInv'
  BY DEF RequestInv, Winding, StoredRank
<1>3. Coherent'
  BY DEF Coherent, CoherentAt, Resident, RemoteHolds
<1> QED BY <1>1, <1>2, <1>3

\* Every step of the manager and of the workers keeps the inductive invariant.
LEMMA StepKeepsIInv == IInv /\ [Next]_vars => IInv'
<1> SUFFICES ASSUME IInv, [Next]_vars PROVE IInv'
  OBVIOUS
<1>1. CASE \E k \in Keys, d \in Data : ManagerStore(k, d)
  BY <1>1, ManagerStoreKeepsIInv
<1>2. CASE \E k \in Keys : GetBlockFallbackRemote(k)
  BY <1>2, GetBlockKeepsIInv
<1>3. CASE Stop \/ Stopped
  BY <1>3, StopKeepsIInv
<1>4. CASE SendEvicted
  BY <1>4, SendEvictedKeepsIInv
<1>5. CASE SendGet
  BY <1>5, SendGetKeepsIInv
<1>6. CASE ReceiveBlock
  BY <1>6, ReceiveBlockKeepsIInv
<1>7. CASE SendFinish
  BY <1>7, SendFinishKeepsIInv
<1>8. CASE \E w \in Workers : WorkerStore(w) \/ WorkerGet(w) \/ WorkerFinish(w)
  BY <1>8, WorkerStoreKeepsIInv, WorkerGetKeepsIInv, WorkerFinishKeepsIInv
<1>9. CASE Terminated \/ UNCHANGED vars
  BY <1>9, StutterKeepsIInv DEF Terminated
<1> QED BY <1>1, <1>2, <1>3, <1>4, <1>5, <1>6, <1>7, <1>8, <1>9 DEF Next

\* The inductive invariant holds in every reachable state.
LEMMA Inductive == Spec => []IInv
  BY InitIInv, StepKeepsIInv, PTL DEF Spec

\* Every variable keeps its type, for any number of workers, blocks, block sizes
\* and channel capacity.
THEOREM TypeCorrect == Spec => []TypeOK
<1>1. IInv => TypeOK
  BY DEF IInv
<1> QED BY <1>1, Inductive, PTL

\* storeCacheBlock, refer, getBlockFallbackRemote and the workers' handlers never
\* lose or outdate a block the application has stored: it is always where the next
\* get looks for it.
THEOREM BlocksAreCoherent == Spec => []Coherent
<1>1. IInv => Coherent
  BY DEF IInv
<1> QED BY <1>1, Inductive, PTL

\* recv(storedRank) takes the first message of that worker, whatever it is; it is
\* always the answer to the request just sent.
THEOREM RepliesMatchRequests == Spec => []ReplyMatchesRequest
<1>1. IInv => ReplyMatchesRequest
  BY DEF IInv
<1> QED BY <1>1, Inductive, PTL

\* finalize() sends each worker one FINISH, after everything else, and a worker
\* that left its loop left no message unread.
THEOREM FinishComesLast == Spec => []NothingAfterFinish
<1>1. IInv => NothingAfterFinish
  BY DEF IInv, RequestInv, FinishInv, NothingAfterFinish
<1> QED BY <1>1, Inductive, PTL
-------------------------------------------------------------------------------
(* The whole system implements the memory of BlockStore. *)

\* At the start the memory is empty.
LEMMA InitRefines == Init => Store!Init
  BY DEF Init, Store!Init

\* What a store on the manager looks like from outside, given that d is what was
\* written: with a get under way, its answer or nothing; else nothing.
LEMMA StoreVisible ==
  ASSUME NEW k \in Keys, NEW d \in Data, StoreCacheBlock(k, d)
  PROVE  \/ want' = None /\ got' = IF want = None THEN got ELSE <<k, d>>
         \/ want' = want /\ got' = got
  BY DEF StoreCacheBlock, StoreInPlace, StoreEvicting, StoreCrashing, Return

\* Every step of the processes is a step of the memory, or invisible.
LEMMA StepRefines == IInv /\ [Next]_vars => [Store!Next]_(Store!vars)
<1> SUFFICES ASSUME IInv, [Next]_vars PROVE [Store!Next]_(Store!vars)
  OBVIOUS
<1> USE DEF Store!vars
<1>1. ASSUME NEW k \in Keys, NEW d \in Data, ManagerStore(k, d)
      PROVE  Store!Next
  <2>1. phase = "idle" /\ want = None
    BY <1>1 DEF ManagerStore, IInv, PhaseInv
  <2>2. want' = None /\ got' = got
    BY <1>1, <2>1, StoreVisible DEF ManagerStore
  <2>3. Store!Store(k, d)
    BY <1>1, <2>1, <2>2 DEF ManagerStore, Store!Store
  <2> QED BY <2>3 DEF Store!Next
<1>2. ASSUME NEW k \in Keys, GetBlockFallbackRemote(k)
      PROVE  [Store!Next]_(Store!vars)
  <2> USE DEF GetBlockFallbackRemote
  <2>1. phase = "idle" /\ want = None /\ written' = written
    BY <1>2 DEF IInv, PhaseInv
  <2>2. CASE GetHit(k)
    <3>1. cache[Manager][k] = written[k]
      BY <1>2, <2>1, <2>2 DEF GetHit, IInv, Coherent, CoherentAt
    <3>2. Store!Load(k)
      BY <2>1, <2>2, <3>1 DEF GetHit, Store!Load
    <3> QED BY <3>2 DEF Store!Next
  <2>3. CASE GetMiss(k)
    <3>1. (want' = k /\ got' = got) \/ (want' = want /\ got' = got)
      BY <2>3 DEF GetMiss
    <3>2. CASE want' = k /\ got' = got
      BY <2>1, <3>2 DEF Store!Next, Store!StartLoad
    <3> QED BY <2>1, <3>1, <3>2
  <2> QED BY <1>2, <2>2, <2>3
<1>3. CASE SendEvicted
  <2> USE DEF SendEvicted
  <2>1. /\ incoming # None /\ incoming.key \in Keys
        /\ incoming.key \notin Resident
        /\ want \in {None, incoming.key}
        /\ phase = "evicting"
    <3>1. /\ incoming \in [tag : {"STORE_BLOCK"}, key : Keys, data : Data]
          /\ incoming.key \notin Resident
          /\ want \in {None, incoming.key}
      BY <1>3 DEF IInv, PhaseInv
    <3>2. incoming \in Message
      BY <3>1 DEF Message, Tags
    <3> QED BY <1>3, <3>1, <3>2, MessageTypes
  <2>2. incoming.data = written[incoming.key]
    BY <2>1 DEF IInv, Coherent, CoherentAt
  <2>3. /\ want' = None /\ written' = written
        /\ got' = IF want = None THEN got ELSE <<incoming.key, incoming.data>>
    BY <1>3 DEF Return
  <2>4. CASE want = None
    BY <2>3, <2>4
  <2>5. CASE want # None
    BY <2>1, <2>2, <2>3, <2>5 DEF Store!Next, Store!FinishLoad
  <2> QED BY <2>4, <2>5
<1>4. CASE ReceiveBlock
  <2> USE DEF ReceiveBlock
  <2> DEFINE w == StoredRank(want)
  <2>1. /\ phase = "waiting" /\ want \in Keys /\ w \in Workers
        /\ toManager[w] # <<>> /\ written' = written
    BY <1>4, KeyFacts DEF IInv, PhaseInv
  <2>2. toManager[w] = <<StoreMsg(want, written[want])>> /\ written[want] \in Data
    BY <2>1 DEF IInv, ReplyMatchesRequest, ReplyInv
  <2>3. StoreCacheBlock(want, written[want])
    BY <1>4, <2>2 DEF StoreMsg
  <2>4. want # None
    BY <2>1, KeyFacts
  <2>5. \/ want' = None /\ got' = <<want, written[want]>>
        \/ want' = want /\ got' = got
    BY <2>1, <2>2, <2>3, <2>4, StoreVisible
  <2>6. CASE want' = None /\ got' = <<want, written[want]>>
    BY <2>1, <2>4, <2>6 DEF Store!Next, Store!FinishLoad
  <2> QED BY <2>1, <2>5, <2>6
<1>5. CASE SendGet \/ SendFinish \/ Stop \/ Stopped
  BY <1>5 DEF SendGet, SendFinish, Stop, Stopped
<1>6. CASE \E w \in Workers : WorkerStore(w) \/ WorkerGet(w) \/ WorkerFinish(w)
  BY <1>6 DEF WorkerStore, WorkerGet, WorkerFinish, Handle
<1>7. CASE Terminated \/ UNCHANGED vars
  BY <1>7 DEF Terminated, vars
<1> QED BY <1>1, <1>2, <1>3, <1>4, <1>5, <1>6, <1>7 DEF Next

\* Eviction, the worker processes and their messages are invisible: a get always
\* returns what the last store of that block wrote.
THEOREM ImplementsBlockStore == Spec => ImplementsStore
<1>1. Init => Store!Init
  BY InitRefines
<1>2. IInv /\ [Next]_vars => [Store!Next]_(Store!vars)
  BY StepRefines
<1> QED BY <1>1, <1>2, Inductive, PTL DEF Spec, ImplementsStore, Store!Spec
-------------------------------------------------------------------------------
(* Sums over finite sets of blocks. *)

\* The sum of a set, defined by taking one element after another.
IsSum(g, S) ==
  g = [s \in SUBSET S |-> IF s = {} THEN 0
                          ELSE SizeOf(CHOOSE x \in s : TRUE) + g[s \ {CHOOSE x \in s : TRUE}]]

LEMMA BytesOfIsSum ==
  ASSUME NEW S
  PROVE  BytesOf(S) = (CHOOSE g : IsSum(g, S))[S]
BY DEF BytesOf, MapThenSumSet, MapThenFoldSet, IsSum

\* Such a sum of the sets with at most n elements.
Partial(g, S, n) ==
  LET D == {s \in SUBSET S : Cardinality(s) <= n} IN
  /\ g \in [D -> Nat]
  /\ \A s \in D : g[s] = IF s = {} THEN 0
                       ELSE SizeOf(CHOOSE x \in s : TRUE) + g[s \ {CHOOSE x \in s : TRUE}]

\* The sizes of a finite set of blocks add up: the definition is of a function.
LEMMA SumExists ==
  ASSUME NEW S \in SUBSET Keys, IsFiniteSet(S)
  PROVE  \E g \in [SUBSET S -> Nat] : IsSum(g, S)
<1> DEFINE D(n) == {s \in SUBSET S : Cardinality(s) <= n}
           x(s) == CHOOSE e \in s : TRUE
           Bad == {n \in Nat : ~\E g : Partial(g, S, n)}
<1>1. \A s \in SUBSET S : IsFiniteSet(s) /\ Cardinality(s) \in Nat
  BY FS_Subset, FS_CardinalityType
<1>2. ASSUME NEW s \in SUBSET S, s # {}
      PROVE  /\ x(s) \in s /\ SizeOf(x(s)) \in Nat /\ s \ {x(s)} \in SUBSET S
             /\ Cardinality(s \ {x(s)}) = Cardinality(s) - 1
  <2>1. x(s) \in s
    BY <1>2
  <2>2. SizeOf(x(s)) \in Nat
    BY <2>1, KeyFacts
  <2>3. Cardinality(s \ {x(s)}) = Cardinality(s) - 1
    BY <1>1, <2>1, FS_RemoveElement
  <2> QED
    BY <2>1, <2>2, <2>3
<1>3. Bad = {}
  <2> SUFFICES ASSUME Bad # {}
               PROVE  FALSE
    OBVIOUS
  <2>1. Bad \in SUBSET Nat
    OBVIOUS
  <2> HIDE DEF Bad
  <2>2. PICK m \in Bad : \A y \in Bad : ~(<<y, m>> \in OpToRel(<, Nat))
    BY <2>1, NatLessThanWellFounded, WFMin
  <2>3. m \in Nat /\ \A y \in Nat : y < m => y \notin Bad
    BY <2>1, <2>2 DEF OpToRel
  <2>4. ~\E g : Partial(g, S, m)
    BY <2>2 DEF Bad
  <2>5. CASE m = 0
    <3> DEFINE g == [s \in D(0) |-> 0]
    <3>1. \A s \in D(0) : s = {}
      BY <1>1, FS_EmptySet
    <3>2. Partial(g, S, 0)
      BY <3>1 DEF Partial
    <3> QED
      BY <2>4, <2>5, <3>2
  <2>6. CASE m # 0
    <3>1. m - 1 \in Nat /\ m - 1 < m
      BY <2>3, <2>6
    <3>2. PICK g : Partial(g, S, m - 1)
      BY <2>3, <3>1 DEF Bad
    <3> DEFINE h == [s \in D(m) |-> IF s = {} THEN 0 ELSE SizeOf(x(s)) + g[s \ {x(s)}]]
    <3>3. /\ g \in [D(m - 1) -> Nat]
          /\ \A s \in D(m - 1) : g[s] = IF s = {} THEN 0 ELSE SizeOf(x(s)) + g[s \ {x(s)}]
      BY <3>2 DEF Partial
    <3>4. \A s \in D(m) : s # {} => s \ {x(s)} \in D(m - 1)
      BY <1>1, <1>2, <2>3
    <3>5. \A s \in D(m - 1) : s \in D(m) /\ h[s] = g[s]
      <4>1. \A s \in D(m - 1) : s \in D(m)
        BY <1>1, <2>3, <3>1
      <4> QED
        BY <3>3, <4>1
    <3>6. h \in [D(m) -> Nat]
      <4> SUFFICES ASSUME NEW s \in D(m), s # {}
                   PROVE  SizeOf(x(s)) + g[s \ {x(s)}] \in Nat
        OBVIOUS
      <4>1. SizeOf(x(s)) \in Nat /\ g[s \ {x(s)}] \in Nat
        BY <1>2, <3>3, <3>4
      <4> QED
        BY <4>1
    <3>7. \A s \in D(m) : h[s] = IF s = {} THEN 0 ELSE SizeOf(x(s)) + h[s \ {x(s)}]
      <4> SUFFICES ASSUME NEW s \in D(m)
                   PROVE  h[s] = IF s = {} THEN 0 ELSE SizeOf(x(s)) + h[s \ {x(s)}]
        OBVIOUS
      <4>1. h[s] = IF s = {} THEN 0 ELSE SizeOf(x(s)) + g[s \ {x(s)}]
        OBVIOUS
      <4>2. s # {} => h[s \ {x(s)}] = g[s \ {x(s)}]
        BY <3>4, <3>5
      <4> QED
        BY <4>1, <4>2
    <3> HIDE DEF h
    <3>8. Partial(h, S, m)
      BY <3>6, <3>7 DEF Partial
    <3> QED
      BY <2>4, <3>8
  <2> QED
    BY <2>5, <2>6
<1> DEFINE n == Cardinality(S)
<1>4. n \in Nat /\ D(n) = SUBSET S
  <2>1. \A s \in SUBSET S : Cardinality(s) <= n
    BY FS_Subset
  <2> QED
    BY <1>1, <2>1
<1>5. PICK g : Partial(g, S, n)
  BY <1>3, <1>4
<1>6. /\ g \in [SUBSET S -> Nat]
      /\ \A s \in SUBSET S : g[s] = IF s = {} THEN 0 ELSE SizeOf(x(s)) + g[s \ {x(s)}]
  BY <1>4, <1>5 DEF Partial
<1>7. IsSum(g, S)
  BY <1>6 DEF IsSum
<1> QED
  BY <1>6, <1>7

\* Any element of a set may be taken first.
LEMMA SumTakes ==
  ASSUME NEW S \in SUBSET Keys, IsFiniteSet(S), NEW g \in [SUBSET S -> Nat], IsSum(g, S)
  PROVE  \A s \in SUBSET S : \A z \in s : g[s] = SizeOf(z) + g[s \ {z}]
<1> DEFINE x(s) == CHOOSE e \in s : TRUE
           B == {s \in SUBSET S : \E z \in s : g[s] # SizeOf(z) + g[s \ {z}]}
<1>1. \A s \in SUBSET S : g[s] = IF s = {} THEN 0 ELSE SizeOf(x(s)) + g[s \ {x(s)}]
  BY DEF IsSum
<1> SUFFICES ASSUME B # {}
             PROVE  FALSE
  OBVIOUS
<1>2. B \in SUBSET SUBSET S
  OBVIOUS
<1> HIDE DEF B
<1>3. PICK s \in B : \A r \in B : Cardinality(s) <= Cardinality(r)
  BY <1>2, SmallestSet
<1>4. s \in SUBSET S /\ IsFiniteSet(s)
  BY <1>2, FS_Subset
<1>5. PICK z \in s : g[s] # SizeOf(z) + g[s \ {z}]
  BY DEF B
<1> DEFINE e == x(s)
<1>6. e \in s /\ g[s] = SizeOf(e) + g[s \ {e}] /\ e # z
  BY <1>1, <1>4, <1>5
<1> HIDE DEF e
<1>7. s \ {e} \notin B /\ s \ {z} \notin B
  <2>1. /\ Cardinality(s) \in Nat /\ Cardinality(s \ {e}) = Cardinality(s) - 1
        /\ Cardinality(s \ {z}) = Cardinality(s) - 1
    BY <1>4, <1>5, <1>6, FS_CardinalityType, FS_RemoveElement
  <2>2. ~(Cardinality(s) <= Cardinality(s) - 1)
    BY <2>1
  <2> QED
    BY <1>3, <2>1, <2>2
<1> DEFINE r == s \ {e, z}
<1>8. g[s \ {e}] = SizeOf(z) + g[r]
  <2>1. z \in s \ {e} /\ s \ {e} \in SUBSET S /\ (s \ {e}) \ {z} = r
    BY <1>4, <1>6
  <2> QED
    BY <1>7, <2>1 DEF B
<1>9. g[s \ {z}] = SizeOf(e) + g[r]
  <2>1. e \in s \ {z} /\ s \ {z} \in SUBSET S /\ (s \ {z}) \ {e} = r
    BY <1>4, <1>6
  <2> QED
    BY <1>7, <2>1 DEF B
<1>10. SizeOf(e) \in Nat /\ SizeOf(z) \in Nat /\ g[r] \in Nat
  BY <1>4, <1>6, KeyFacts
<1> HIDE DEF r
<1> QED
  BY <1>5, <1>6, <1>8, <1>9, <1>10

\* The sum does not depend on the set it was defined for.
LEMMA SumsAgree ==
  ASSUME NEW T \in SUBSET Keys, IsFiniteSet(T), NEW S \in SUBSET T,
         NEW g, IsSum(g, T), NEW h, IsSum(h, S)
  PROVE  \A s \in SUBSET S : g[s] = h[s]
<1> DEFINE x(s) == CHOOSE e \in s : TRUE
           B == {s \in SUBSET S : g[s] # h[s]}
<1>1. /\ \A s \in SUBSET T : g[s] = IF s = {} THEN 0 ELSE SizeOf(x(s)) + g[s \ {x(s)}]
      /\ \A s \in SUBSET S : h[s] = IF s = {} THEN 0 ELSE SizeOf(x(s)) + h[s \ {x(s)}]
  BY DEF IsSum
<1> SUFFICES ASSUME B # {}
             PROVE  FALSE
  OBVIOUS
<1>2. B \in SUBSET SUBSET S /\ IsFiniteSet(S)
  BY FS_Subset
<1> HIDE DEF B
<1>3. PICK s \in B : \A r \in B : Cardinality(s) <= Cardinality(r)
  BY <1>2, SmallestSet
<1>4. s \in SUBSET S /\ s \in SUBSET T /\ IsFiniteSet(s) /\ g[s] # h[s]
  BY <1>2, FS_Subset DEF B
<1>5. s # {}
  BY <1>1, <1>4
<1> DEFINE r == s \ {x(s)}
<1>6. x(s) \in s /\ r \in SUBSET S
  BY <1>4, <1>5
<1>7. r \notin B
  <2>1. Cardinality(s) \in Nat /\ Cardinality(r) = Cardinality(s) - 1
    BY <1>4, <1>6, FS_CardinalityType, FS_RemoveElement
  <2>2. ~(Cardinality(s) <= Cardinality(s) - 1)
    BY <2>1
  <2> QED
    BY <1>3, <2>1, <2>2
<1>8. g[r] = h[r]
  BY <1>6, <1>7 DEF B
<1> QED
  BY <1>1, <1>4, <1>5, <1>8

\* The bytes of no blocks, and of one more block.
LEMMA BytesFacts ==
  /\ BytesOf({}) = 0
  /\ \A S \in SUBSET Keys : IsFiniteSet(S) =>
       /\ BytesOf(S) \in Nat
       /\ \A y \in Keys \ S : BytesOf(S \cup {y}) = BytesOf(S) + SizeOf(y)
<1> DEFINE Sum(S) == CHOOSE g : IsSum(g, S)
<1>1. ASSUME NEW S \in SUBSET Keys, IsFiniteSet(S)
      PROVE  Sum(S) \in [SUBSET S -> Nat] /\ IsSum(Sum(S), S) /\ BytesOf(S) = Sum(S)[S]
  <2>1. PICK g \in [SUBSET S -> Nat] : IsSum(g, S)
    BY <1>1, SumExists
  <2>2. IsSum(Sum(S), S)
    BY <2>1
  <2> HIDE DEF Sum
  <2>3. \A s \in SUBSET S : Sum(S)[s] = g[s]
    BY <1>1, <2>1, <2>2, SumsAgree
  <2>4. Sum(S) \in [SUBSET S -> Nat]
    <3>1. Sum(S) = [s \in SUBSET S |-> Sum(S)[s]]
      BY <2>2 DEF IsSum
    <3> QED
      BY <2>3, <3>1
  <2>5. BytesOf(S) = Sum(S)[S]
    BY BytesOfIsSum DEF Sum
  <2> QED
    BY <2>2, <2>4, <2>5
<1> HIDE DEF Sum
<1>2. BytesOf({}) = 0
  <2>1. IsSum(Sum({}), {}) /\ BytesOf({}) = Sum({})[{}]
    BY <1>1, FS_EmptySet
  <2> QED
    BY <2>1 DEF IsSum
<1>3. ASSUME NEW S \in SUBSET Keys, IsFiniteSet(S), NEW y \in Keys \ S
      PROVE  BytesOf(S \cup {y}) = BytesOf(S) + SizeOf(y)
  <2> DEFINE T == S \cup {y}
  <2>1. T \in SUBSET Keys /\ IsFiniteSet(T) /\ S \in SUBSET T /\ T \ {y} = S /\ y \in T
    BY <1>3, FS_AddElement
  <2> HIDE DEF T
  <2>2. /\ Sum(T) \in [SUBSET T -> Nat] /\ IsSum(Sum(T), T) /\ BytesOf(T) = Sum(T)[T]
        /\ Sum(S) \in [SUBSET S -> Nat] /\ IsSum(Sum(S), S) /\ BytesOf(S) = Sum(S)[S]
    BY <1>1, <1>3, <2>1
  <2> DEFINE g == Sum(T)
             h == Sum(S)
  <2> HIDE DEF g, h
  <2>3. g[T] = SizeOf(y) + g[S]
    <3>1. \A s \in SUBSET T : \A z \in s : g[s] = SizeOf(z) + g[s \ {z}]
      BY <2>1, <2>2, SumTakes DEF g
    <3> QED
      BY <2>1, <3>1
  <2>4. g[S] = h[S]
    <3>1. \A s \in SUBSET S : g[s] = h[s]
      BY <2>1, <2>2, SumsAgree DEF g, h
    <3> QED
      BY <3>1
  <2>5. SizeOf(y) \in Nat /\ h[S] \in Nat
    BY <2>2, KeyFacts DEF h
  <2> QED
    BY <2>2, <2>3, <2>4, <2>5 DEF T, g, h
<1>4. ASSUME NEW S \in SUBSET Keys, IsFiniteSet(S)
      PROVE  BytesOf(S) \in Nat
  <2>1. Sum(S) \in [SUBSET S -> Nat] /\ BytesOf(S) = Sum(S)[S]
    BY <1>1, <1>4
  <2> DEFINE h == Sum(S)
  <2> HIDE DEF h
  <2>2. h \in [SUBSET S -> Nat] /\ BytesOf(S) = h[S] /\ S \in SUBSET S
    BY <2>1 DEF h
  <2> QED
    BY <2>2
<1> QED
  BY <1>2, <1>3, <1>4
-------------------------------------------------------------------------------
(* Counting modulo the width of the counter. *)

\* A remainder is known by its range.
LEMMA Remainder ==
  ASSUME NEW W \in Nat \ {0}, NEW q \in Int, NEW r \in 0 .. W - 1
  PROVE  (q * W + r) % W = r
<1> DEFINE n == q * W + r
           p == n \div W
           e == n % W
<1>1. n \in Int /\ p \in Int /\ e \in 0 .. W - 1 /\ n = p * W + e
  OBVIOUS
<1> HIDE DEF p, e
<1>2. (q - p) * W = e - r
  BY <1>1
<1>3. e - r < W /\ e - r > -W
  BY <1>1
<1>4. q - p >= 1 => (q - p) * W >= W
  BY <1>1
<1>5. q - p <= -1 => (q - p) * W <= -W
  BY <1>1
<1>6. q = p
  BY <1>1, <1>2, <1>3, <1>4, <1>5
<1> QED
  BY <1>1, <1>6 DEF e

\* What is added to a counter may be added before the remainder is taken.
LEMMA ModularSum ==
  ASSUME NEW W \in Nat \ {0}, NEW a \in Int, NEW b \in Int
  PROVE  ((a % W) + b) % W = (a + b) % W
<1> DEFINE q == a \div W
           c == (a % W) + b
           p == c \div W
           r == c % W
<1>1. a % W \in 0 .. W - 1 /\ q \in Int /\ a = q * W + (a % W)
  OBVIOUS
<1>2. c \in Int /\ p \in Int /\ r \in 0 .. W - 1 /\ c = p * W + r
  BY <1>1
<1> HIDE DEF q, p, r
<1>3. a + b = q * W + c
  BY <1>1
<1> HIDE DEF c
<1>4. a + b = q * W + p * W + r
  BY <1>1, <1>2, <1>3
<1>5. q * W + p * W = (q + p) * W
  BY <1>1, <1>2
<1>6. ((q + p) * W + r) % W = r
  BY <1>1, <1>2, Remainder
<1> QED
  BY <1>4, <1>5, <1>6 DEF r, c
-------------------------------------------------------------------------------
(* The counters are exact. *)

\* What recv() returns is stored: a block, with its content.
LEMMA AnswerIsStored ==
  ASSUME IInv, ReceiveBlock
  PROVE  phase = "waiting" /\ \E k \in Keys, d \in Data : StoreCacheBlock(k, d)
<1> DEFINE w == StoredRank(want)
           m == Head(toManager[w])
<1>1. phase = "waiting" /\ want \in Keys /\ NumWorkers > 0
  BY DEF ReceiveBlock, IInv, PhaseInv
<1>2. w \in Workers /\ toManager[w] # <<>> /\ StoreCacheBlock(m.key, m.data)
  BY <1>1, KeyFacts DEF ReceiveBlock
<1>3. m = StoreMsg(want, written[want]) /\ written[want] \in Data
  BY <1>2 DEF IInv, ReplyMatchesRequest, ReplyInv
<1>4. m.key \in Keys /\ m.data \in Data
  BY <1>1, <1>3 DEF StoreMsg
<1> HIDE DEF m
<1> QED
  BY <1>1, <1>2, <1>4

\* The three ways a step treats the caches: it leaves them alone, adds a block to one
\* of them, or takes one from the manager's.
LEMMA StoreStep ==
  ASSUME IInv, [Next]_vars
  PROVE  \/ UNCHANGED store
         \/ \E r \in Ranks, k \in Keys, d \in Data : AddBlock(r, k, d)
         \/ \E k \in Resident : EraseBlock(Manager, k)
<1>1. ASSUME NEW k \in Keys, NEW d \in Data, StoreCacheBlock(k, d)
      PROVE  \/ UNCHANGED store
             \/ AddBlock(Manager, k, d)
             \/ \E v \in Resident : EraseBlock(Manager, v)
  BY <1>1 DEF StoreCacheBlock, StoreInPlace, StoreEvicting, StoreCrashing, store
<1>2. CASE \E k \in Keys, d \in Data : ManagerStore(k, d)
  BY <1>1, <1>2, RankFacts DEF ManagerStore
<1>3. CASE SendEvicted
  <2>1. /\ AddBlock(Manager, incoming.key, incoming.data)
        /\ incoming.key \in Keys /\ incoming.data \in Data
    BY <1>3 DEF SendEvicted, IInv, PhaseInv
  <2> QED
    BY <2>1, RankFacts
<1>4. CASE ReceiveBlock
  BY <1>1, <1>4, AnswerIsStored, RankFacts
<1>5. CASE \E w \in Workers : WorkerStore(w)
  <2>1. PICK w \in Workers : WorkerStore(w)
    BY <1>5
  <2> DEFINE m == Head(toWorker[w])
  <2>2. toWorker[w] # <<>> /\ m.tag = "STORE_BLOCK" /\ AddBlock(w, m.key, m.data)
    BY <2>1 DEF WorkerStore, Handle
  <2>3. toWorker[w] \in Seq(Message)
    BY DEF IInv, TypeOK
  <2>4. 1 \in DOMAIN toWorker[w] /\ m = toWorker[w][1]
    BY <2>2, <2>3
  <2>5. m.key \in Keys /\ m.data \in Data
    BY <2>2, <2>4 DEF IInv, RequestInv
  <2> QED
    BY <2>2, <2>5, RankFacts
<1>6. CASE \/ \E k \in Keys : GetBlockFallbackRemote(k)
           \/ Stop \/ SendGet \/ SendFinish \/ Stopped \/ Terminated \/ UNCHANGED vars
           \/ \E w \in Workers : WorkerGet(w) \/ WorkerFinish(w)
  BY <1>6 DEF GetBlockFallbackRemote, Stop, SendGet, SendFinish, Stopped, Terminated, WorkerGet,
              WorkerFinish, vars, store
<1> QED
  BY <1>2, <1>3, <1>4, <1>5, <1>6 DEF Next

\* A block added is counted once, whether or not the rank had one with its key.
LEMMA AddCounted ==
  ASSUME TypeOK, BytesInv, NEW r \in Ranks, NEW k \in Keys, NEW d \in Data, AddBlock(r, k, d)
  PROVE  BytesInv' /\ HeldBy(r)' = HeldBy(r) \cup {k}
<1> DEFINE n == BytesOf(HeldBy(r))
<1>1. /\ cache' \in [Ranks -> [Keys -> Data \cup {None}]] /\ cache'[r][k] = d
      /\ \A s \in Ranks, j \in Keys : s # r \/ j # k => cache'[s][j] = cache[s][j]
  BY AddBlockEffect
<1>2. HeldBy(r)' = HeldBy(r) \cup {k} /\ \A s \in Ranks \ {r} : HeldBy(s)' = HeldBy(s)
  <2>1. d # None
    BY ConstantsAssumption
  <2>2. \A s \in Ranks \ {r} : \A j \in Keys : cache'[s][j] = cache[s][j]
    BY <1>1
  <2>3. \A j \in Keys \ {k} : cache'[r][j] = cache[r][j]
    BY <1>1
  <2> QED
    BY <1>1, <2>1, <2>2, <2>3 DEF HeldBy
<1>3. /\ IsFiniteSet(HeldBy(r)) /\ HeldBy(r) \in SUBSET Keys /\ currentBytes[r] = n % Word
  BY DEF BytesInv, BytesExact, HeldBy
<1>4. n \in Nat /\ SizeOf(k) \in Nat /\ Word \in Nat \ {0}
  BY <1>3, BytesFacts, KeyFacts, ConstantsAssumption
<1>5. /\ \A s \in Ranks \ {r} : currentBytes'[s] = currentBytes[s]
      /\ currentBytes'[r] =
           (currentBytes[r] - (IF cache[r][k] # None THEN SizeOf(k) ELSE 0) + SizeOf(k)) % Word
  BY DEF AddBlock, TypeOK
<1>6. currentBytes'[r] = BytesOf(HeldBy(r) \cup {k}) % Word
  <2> HIDE DEF n
  <2>0. n % Word \in 0 .. Word - 1
    BY <1>4
  <2>1. CASE k \in HeldBy(r)
    <3>1. cache[r][k] # None /\ HeldBy(r) \cup {k} = HeldBy(r)
      BY <2>1 DEF HeldBy
    <3> DEFINE c == n % Word
    <3> HIDE DEF c
    <3>2. c \in 0 .. Word - 1 /\ currentBytes[r] = c
      BY <1>3, <2>0 DEF c
    <3>3. currentBytes'[r] = c % Word
      BY <1>4, <1>5, <3>1, <3>2
    <3>4. c % Word = c
      BY <1>4, <3>2
    <3> QED
      BY <3>1, <3>3, <3>4 DEF n, c
  <2>2. CASE k \notin HeldBy(r)
    <3>1. cache[r][k] = None
      BY <2>2 DEF HeldBy
    <3>2. currentBytes'[r] = ((n % Word) + SizeOf(k)) % Word
      BY <1>3, <1>4, <1>5, <2>0, <3>1
    <3>3. BytesOf(HeldBy(r) \cup {k}) = n + SizeOf(k)
      BY <1>3, <2>2, BytesFacts DEF n
    <3>4. ((n % Word) + SizeOf(k)) % Word = (n + SizeOf(k)) % Word
      <4> DEFINE b == SizeOf(k)
      <4>1. n \in Int /\ b \in Int /\ Word \in Nat \ {0}
        BY <1>4
      <4> HIDE DEF b
      <4>2. ((n % Word) + b) % Word = (n + b) % Word
        BY <4>1, ModularSum
      <4> QED
        BY <4>2 DEF b
    <3> QED
      BY <3>2, <3>3, <3>4
  <2> QED
    BY <2>1, <2>2
<1>7. \A s \in Ranks : currentBytes'[s] = BytesOf(HeldBy(s)') % Word /\ IsFiniteSet(HeldBy(s)')
  <2>1. IsFiniteSet(HeldBy(r) \cup {k})
    BY <1>3, FS_AddElement
  <2> QED
    BY <1>2, <1>5, <1>6, <2>1 DEF BytesInv, BytesExact
<1> QED
  BY <1>2, <1>7 DEF BytesInv, BytesExact

\* A block erased is taken from the count.
LEMMA EraseCounted ==
  ASSUME TypeOK, BytesInv, NEW r \in Ranks, NEW k \in HeldBy(r), EraseBlock(r, k)
  PROVE  /\ BytesInv' /\ HeldBy(r)' = HeldBy(r) \ {k}
         /\ BytesOf(HeldBy(r)) = BytesOf(HeldBy(r) \ {k}) + SizeOf(k)
<1> DEFINE rest == HeldBy(r) \ {k}
           n == BytesOf(rest)
<1>0. k \in Keys
  BY DEF HeldBy
<1>1. /\ cache' \in [Ranks -> [Keys -> Data \cup {None}]] /\ cache'[r][k] = None
      /\ \A s \in Ranks, j \in Keys : s # r \/ j # k => cache'[s][j] = cache[s][j]
  BY <1>0, EraseBlockEffect
<1>2. HeldBy(r)' = rest /\ \A s \in Ranks \ {r} : HeldBy(s)' = HeldBy(s)
  <2>1. \A s \in Ranks \ {r} : \A j \in Keys : cache'[s][j] = cache[s][j]
    BY <1>1
  <2>2. \A j \in Keys \ {k} : cache'[r][j] = cache[r][j]
    BY <1>1
  <2> QED
    BY <1>1, <2>1, <2>2 DEF HeldBy
<1>3. /\ IsFiniteSet(HeldBy(r)) /\ HeldBy(r) \in SUBSET Keys
      /\ currentBytes[r] = BytesOf(HeldBy(r)) % Word
  BY DEF BytesInv, BytesExact, HeldBy
<1>4. IsFiniteSet(rest) /\ rest \in SUBSET Keys /\ k \in Keys \ rest /\ rest \cup {k} = HeldBy(r)
  BY <1>0, <1>3, FS_RemoveElement
<1>5. n \in Nat /\ BytesOf(HeldBy(r)) = n + SizeOf(k) /\ SizeOf(k) \in Nat /\ Word \in Nat \ {0}
  <2> HIDE DEF rest
  <2> QED
    BY <1>0, <1>4, BytesFacts, KeyFacts, ConstantsAssumption
<1>6. /\ \A s \in Ranks \ {r} : currentBytes'[s] = currentBytes[s]
      /\ currentBytes'[r] = (currentBytes[r] - SizeOf(k)) % Word
  BY DEF EraseBlock, TypeOK
<1>7. currentBytes'[r] = n % Word
  <2> HIDE DEF n
  <2> DEFINE b == -SizeOf(k)
             a == n + SizeOf(k)
             c == a % Word
  <2>1. a \in Int /\ b \in Int /\ a + b = n /\ \A e \in Int : e - SizeOf(k) = e + b
    BY <1>5
  <2>2. BytesOf(HeldBy(r)) = a
    BY <1>5
  <2> HIDE DEF a, b
  <2>3. c \in Int
    BY <1>5, <2>1
  <2>4. currentBytes[r] = c
    BY <1>3, <2>2
  <2>5. (c + b) % Word = (a + b) % Word
    BY <1>5, <2>1, ModularSum
  <2> HIDE DEF c
  <2> QED
    BY <1>6, <2>1, <2>3, <2>4, <2>5
<1>8. \A s \in Ranks : currentBytes'[s] = BytesOf(HeldBy(s)') % Word /\ IsFiniteSet(HeldBy(s)')
  BY <1>2, <1>4, <1>6, <1>7 DEF BytesInv, BytesExact
<1> QED
  BY <1>2, <1>5, <1>8 DEF BytesInv, BytesExact

LEMMA ResidentIsHeld == Resident = HeldBy(Manager)
BY DEF Resident, HeldBy

LEMMA StepKeepsBytes ==
  ASSUME IInv, BytesInv, [Next]_vars
  PROVE  BytesInv'
<1>1. TypeOK
  BY DEF IInv
<1>2. CASE UNCHANGED store
  BY <1>2 DEF store, BytesInv, BytesExact, HeldBy
<1>3. CASE \E r \in Ranks, k \in Keys, d \in Data : AddBlock(r, k, d)
  BY <1>1, <1>3, AddCounted
<1>4. CASE \E k \in Resident : EraseBlock(Manager, k)
  BY <1>1, <1>4, EraseCounted, RankFacts, ResidentIsHeld
<1> QED
  BY <1>2, <1>3, <1>4, StoreStep

LEMMA InitBytes == Init => BytesInv
<1> SUFFICES ASSUME Init
             PROVE  BytesInv
  OBVIOUS
<1>1. \A r \in Ranks : HeldBy(r) = {} /\ currentBytes[r] = 0
  BY DEF Init, HeldBy
<1>2. BytesOf({}) = 0 /\ IsFiniteSet({})
  BY BytesFacts, FS_EmptySet
<1>3. 0 % Word = 0
  BY ConstantsAssumption
<1> QED
  BY <1>1, <1>2, <1>3 DEF BytesInv, BytesExact

LEMMA Counted == Spec => []BytesInv
  BY InitBytes, StepKeepsBytes, Inductive, PTL DEF Spec

\* storeCacheBlock and eraseCacheBlock count every block once, on every rank, for any
\* block sizes and any width of the counter.
THEOREM BytesAreExact == Spec => []BytesExact
<1>1. BytesInv => BytesExact
  BY DEF BytesInv
<1> QED
  BY <1>1, Counted, PTL
-------------------------------------------------------------------------------
(* What follows from exact counters. *)

Configured == NumWorkers > 0 /\ \A ds \in DsTags : MsgSize[ds] <= CacheSize

\* With exact counters an empty cache has room for any block that fits at all, so that
\* refer() never takes the back of an empty list.
LEMMA EmptyHasRoom ==
  ASSUME BytesInv, Configured, Resident = {}, NEW k \in Keys
  PROVE  RoomFor(k)
<1> DEFINE c == SizeOf(k)
<1>1. currentBytes[Manager] = 0
  <2>1. currentBytes[Manager] = BytesOf({}) % Word
    BY RankFacts, ResidentIsHeld DEF BytesInv, BytesExact
  <2> QED
    BY <2>1, BytesFacts, ConstantsAssumption
<1>2. c \in Nat /\ c <= CacheSize /\ Word \in Nat \ {0} /\ CacheSize \in Nat
  <2>1. k[1] \in DsTags
    BY DEF Keys
  <2> QED
    BY <2>1, KeyFacts, ConstantsAssumption DEF Configured, SizeOf
<1> HIDE DEF c
<1>3. c % Word <= c
  <2>1. c % Word \in 0 .. Word - 1 /\ c \div Word \in Nat /\ c = (c \div Word) * Word + (c % Word)
    BY <1>2
  <2>2. (c \div Word) * Word >= 0
    BY <1>2, <2>1
  <2> QED
    BY <1>2, <2>1, <2>2
<1>4. c % Word \in Int
  BY <1>2
<1>5. (0 + c) % Word <= CacheSize
  BY <1>2, <1>3, <1>4
<1> QED
  BY <1>1, <1>5 DEF RoomFor, c

LEMMA StepKeepsRunning ==
  ASSUME IInv, BytesInv, Configured, phase # "crashed", [Next]_vars
  PROVE  phase' # "crashed"
<1>1. ASSUME NEW k \in Keys, NEW d \in Data, StoreCacheBlock(k, d)
      PROVE  phase' # "crashed"
  <2>1. ~StoreCrashing(k)
    BY EmptyHasRoom, ConstantsAssumption DEF StoreCrashing, Configured
  <2> QED
    BY <1>1, <2>1 DEF StoreCacheBlock, StoreInPlace, StoreEvicting, Return
<1>2. CASE \E k \in Keys, d \in Data : ManagerStore(k, d)
  BY <1>1, <1>2 DEF ManagerStore
<1>3. CASE \E k \in Keys : GetBlockFallbackRemote(k)
  BY <1>3 DEF GetBlockFallbackRemote, GetHit, GetMiss, Configured
<1>4. CASE ReceiveBlock
  BY <1>1, <1>4, AnswerIsStored
<1>5. CASE SendEvicted
  BY <1>5 DEF SendEvicted, Return
<1>6. CASE \/ Stop \/ SendGet \/ SendFinish \/ Stopped \/ Terminated \/ UNCHANGED vars
           \/ \E w \in Workers : WorkerStore(w) \/ WorkerGet(w) \/ WorkerFinish(w)
  BY <1>6 DEF Stop, SendGet, SendFinish, Stopped, Terminated, WorkerStore, WorkerGet, WorkerFinish,
              Handle, vars
<1> QED
  BY <1>2, <1>3, <1>4, <1>5, <1>6 DEF Next

\* With at least one worker and blocks no larger than the cache, no store or fetch
\* makes refer() evict from an empty queue or divide by zero, whatever the sizes of
\* the blocks and even if the counters wrap.
THEOREM ManagerSurvives == Spec => []CrashOnlyIfMisconfigured
<1>1. Init => CrashOnlyIfMisconfigured
  BY DEF Init, CrashOnlyIfMisconfigured
<1>2. IInv /\ BytesInv /\ CrashOnlyIfMisconfigured /\ [Next]_vars => CrashOnlyIfMisconfigured'
  BY StepKeepsRunning DEF CrashOnlyIfMisconfigured, Configured
<1> QED
  BY <1>1, <1>2, Counted, Inductive, PTL DEF Spec

\* In a cache of equal blocks, one eviction makes the room that one block needs.
LEMMA StepKeepsRoom ==
  ASSUME Uniform, IInv, BytesInv, RoomInv, [Next]_vars
  PROVE  RoomInv'
<1> DEFINE n == BytesOf(Resident)
<1>1. /\ TypeOK /\ IsFiniteSet(Resident) /\ Resident \in SUBSET Keys /\ Manager \in Ranks
      /\ currentBytes[Manager] = n % Word
  BY RankFacts, ResidentIsHeld DEF IInv, BytesInv, BytesExact, Resident
<1>2. n \in Nat /\ n <= CacheSize /\ CacheSize \in Nat /\ Word \in Nat \ {0}
  BY <1>1, BytesFacts, ConstantsAssumption DEF RoomInv, WithinCapacity
<1>3. \A j, k \in Keys : SizeOf(j) = SizeOf(k) /\ SizeOf(k) \in Nat /\ CacheSize + SizeOf(k) < Word
  <2>1. \A k \in Keys : k[1] \in DsTags
    BY DEF Keys
  <2> QED
    BY <2>1, KeyFacts DEF Uniform, SizeOf
<1>4. ASSUME NEW k \in Keys \ Resident
      PROVE  RoomFor(k) <=> n + SizeOf(k) <= CacheSize
  <2> DEFINE c == SizeOf(k)
  <2>1. c \in Nat /\ CacheSize + c < Word
    BY <1>3
  <2> HIDE DEF n, c
  <2>2. n % Word = n
    BY <1>2, <2>1
  <2>3. n + c \in 0 .. Word - 1
    BY <1>2, <2>1
  <2>4. (n + c) % Word = n + c
    BY <1>2, <2>3
  <2> QED
    BY <1>1, <2>2, <2>4 DEF RoomFor, c
<1>5. ASSUME NEW k \in Keys, NEW d \in Data, AddBlock(Manager, k, d), phase' = "idle",
             k \in Resident \/ n + SizeOf(k) <= CacheSize
      PROVE  RoomInv'
  <2>1. Resident' = Resident \cup {k}
    BY <1>1, <1>5, AddCounted DEF Resident, HeldBy
  <2>2. BytesOf(Resident \cup {k}) <= CacheSize
    <3>1. CASE k \in Resident
      <4>1. Resident \cup {k} = Resident
        BY <3>1
      <4> QED
        BY <1>2, <4>1
    <3>2. CASE k \notin Resident
      BY <1>1, <1>5, <3>2, BytesFacts
    <3> QED
      BY <3>1, <3>2
  <2> QED
    BY <1>5, <2>1, <2>2 DEF RoomInv, WithinCapacity
<1>6. ASSUME NEW k \in Keys, NEW d \in Data, StoreCacheBlock(k, d), phase # "evicting"
      PROVE  RoomInv'
  <2>1. CASE StoreInPlace(k, d)
    BY <1>4, <1>5, <2>1 DEF StoreInPlace, Return
  <2>2. CASE StoreEvicting(k, d)
    <3>1. PICK v \in Resident : EraseBlock(Manager, v)
      BY <2>2 DEF StoreEvicting
    <3>2. incoming' = StoreMsg(k, d)
      BY <2>2 DEF StoreEvicting
    <3> DEFINE rest == BytesOf(Resident \ {v})
    <3>3. Resident' = Resident \ {v} /\ n = rest + SizeOf(v)
      BY <1>1, <3>1, EraseCounted, ResidentIsHeld DEF Resident, HeldBy
    <3>4. IsFiniteSet(Resident \ {v}) /\ Resident \ {v} \in SUBSET Keys /\ v \in Keys
      BY <1>1, FS_RemoveElement
    <3>5. rest \in Nat
      BY <3>4, BytesFacts
    <3>6. SizeOf(v) = SizeOf(k) /\ SizeOf(k) \in Nat
      BY <1>3, <3>4
    <3> HIDE DEF n, rest
    <3>7. rest <= CacheSize /\ rest + SizeOf(k) <= CacheSize
      BY <1>2, <3>3, <3>5, <3>6
    <3>8. incoming'.key = k
      BY <3>2 DEF StoreMsg
    <3> QED
      BY <3>3, <3>7, <3>8 DEF RoomInv, WithinCapacity, rest, SizeOf
  <2>3. CASE StoreCrashing(k)
    BY <2>3 DEF StoreCrashing, RoomInv, WithinCapacity, Resident
  <2> QED
    BY <1>6, <2>1, <2>2, <2>3 DEF StoreCacheBlock
<1>7. CASE \E k \in Keys, d \in Data : ManagerStore(k, d)
  BY <1>6, <1>7 DEF ManagerStore
<1>8. CASE SendEvicted
  <2>1. /\ AddBlock(Manager, incoming.key, incoming.data) /\ phase' = "idle"
        /\ incoming.key \in Keys /\ incoming.data \in Data
        /\ n + SizeOf(incoming.key) <= CacheSize
    BY <1>8 DEF SendEvicted, Return, IInv, PhaseInv, RoomInv
  <2> QED
    BY <1>5, <2>1
<1>9. CASE ReceiveBlock
  BY <1>6, <1>9, AnswerIsStored
<1>10. CASE \E w \in Workers : WorkerStore(w)
  <2>1. PICK w \in Workers : WorkerStore(w)
    BY <1>10
  <2>2. UNCHANGED <<phase, incoming>>
    BY <2>1 DEF WorkerStore, Handle
  <2>3. cache'[Manager] = cache[Manager]
    BY <1>1, <2>1, RankFacts DEF WorkerStore, AddBlock, TypeOK
  <2>4. Resident' = Resident
    BY <2>3 DEF Resident
  <2> QED
    BY <2>2, <2>4 DEF RoomInv, WithinCapacity, SizeOf
<1>11. CASE \/ \E k \in Keys : GetBlockFallbackRemote(k)
            \/ Stop \/ SendGet \/ SendFinish \/ Stopped \/ Terminated \/ UNCHANGED vars
            \/ \E w \in Workers : WorkerGet(w) \/ WorkerFinish(w)
  <2>1. UNCHANGED cache /\ (phase' = "evicting" => phase = "evicting" /\ incoming' = incoming)
    BY <1>11 DEF GetBlockFallbackRemote, GetHit, GetMiss, Stop, SendGet, SendFinish, Stopped, Terminated,
                WorkerGet, WorkerFinish, Handle, vars, store
  <2>2. Resident' = Resident
    BY <2>1 DEF Resident
  <2> QED
    BY <2>1, <2>2 DEF RoomInv, WithinCapacity, SizeOf
<1> QED
  BY <1>7, <1>8, <1>9, <1>10, <1>11 DEF Next

\* If all blocks have one size, and a block more than cacheSize still fits in the
\* counter, the manager's blocks never outgrow cacheSize, between any two steps of a
\* store, an eviction or a fetch.
THEOREM EqualBlocksStayWithin == ASSUME Uniform PROVE Spec => []WithinCapacity
<1>1. Init => RoomInv
  <2> SUFFICES ASSUME Init
               PROVE  RoomInv
    OBVIOUS
  <2>1. Resident = {} /\ phase = "idle"
    BY RankFacts DEF Init, Resident
  <2> QED
    BY <2>1, BytesFacts, ConstantsAssumption DEF RoomInv, WithinCapacity
<1>2. IInv /\ BytesInv /\ RoomInv /\ [Next]_vars => RoomInv'
  BY StepKeepsRoom
<1>3. RoomInv => WithinCapacity
  BY DEF RoomInv
<1> QED
  BY <1>1, <1>2, <1>3, Counted, Inductive, PTL DEF Spec
===============================================================================
