------------------------------- MODULE ListCache -------------------------------
(***************************************************************************)
(* The LRU and MRU managers down to the nodes of their std::list: queue    *)
(* links one node per resident block, and the cache entry of a block keeps *)
(* placeInQueue, an iterator, which is the address of a node.  refer() on  *)
(* a resident block erases that node and pushes a new one at the front but *)
(* does not store the new iterator; only addToCache does.  So after a get  *)
(* the iterator is right only if the allocator gave the new node the       *)
(* address of the erased one.                                              *)
(***************************************************************************)
EXTENDS StrategyConstants, SequencesExt

VARIABLES
  policy,   \* "LRU": LeastRecentlyUsedCacheWorker, "MRU": MostRecently...
  queue,    \* the list: addresses of its nodes, front first
  keyAt,    \* keyAt[n]: the key in node n, or None if n is free
  place,    \* place[k]: placeInQueue of the entry of k, None if k has no entry
  remote,   \* blocks the workers hold, because they were evicted once
  broken    \* the program used a freed node or an entry that is not there

vars == <<policy, queue, keyAt, place, remote, broken>>

Empty == /\ queue = <<>>
         /\ keyAt = [n \in Nodes |-> None]
         /\ place = [k \in Keys |-> None]
         /\ remote = {}
         /\ broken = FALSE

Init == Empty /\ policy \in {"LRU", "MRU"}

\* The members of the manager, as one value that its methods transform.
State == [queue |-> queue, keyAt |-> keyAt, place |-> place, remote |-> remote,
          broken |-> broken]

Become(s) == /\ UNCHANGED policy
             /\ queue' = s.queue /\ keyAt' = s.keyAt /\ place' = s.place
             /\ remote' = s.remote /\ broken' = s.broken

Break(s) == [s EXCEPT !.broken = TRUE]

Has(s, k)  == s.place[k] # None
Held(s)    == {k \in Keys : Has(s, k)}
Unlink(s, n) == [s EXCEPT !.queue = RemoveFirst(@, n), !.keyAt[n] = None]

\* Slip: push_back.
PushBack(s, k, n) == [s EXCEPT !.queue = @ \o <<n>>, !.keyAt[n] = k]

PushFront(s, k, n) == [s EXCEPT !.queue = <<n>> \o @, !.keyAt[n] = k]
Free(s)    == {n \in Nodes : s.keyAt[n] = None}

\* Slip: the victim is not sent.
EvictUnsent(s, n) ==
  LET v == s.keyAt[n] IN
  IF ~Has(s, v) THEN Break(s) ELSE [Unlink(s, n) EXCEPT !.place[v] = None]

\* Pop node n, erase the entry of its key, send the block to its worker.
EvictNode(s, n) ==
  LET v == s.keyAt[n] IN
  IF ~Has(s, v) THEN Break(s)
  ELSE [Unlink(s, n) EXCEPT !.place[v] = None, !.remote = @ \cup {v}]

EvictLru(s) == EvictNode(s, Last(s.queue))
EvictMru(s) == EvictNode(s, Head(s.queue))

Evict(s) == IF policy = "MRU" THEN EvictMru(s) ELSE EvictLru(s)

\* Slip: one block too many before the first eviction.
ReferNewLate(s, k) ==
  LET t == IF Cardinality(Held(s)) > Capacity THEN Evict(s) ELSE s
  IN  {PushFront(t, k, n) : n \in Free(t)}

\* refer(): the states it may leave, one per address push_front may get.
ReferNew(s, k) ==
  LET t == IF Cardinality(Held(s)) >= Capacity THEN Evict(s) ELSE s
  IN  {PushFront(t, k, n) : n \in Free(t)}

\* Slip: the node is not erased before the push.
ReferHeldTwice(s, k) == {PushFront(s, k, s.place[k])}

ReferHeld(s, k) ==
  LET n == s.place[k] IN
  IF s.keyAt[n] = None
    THEN {Break(s)}
    ELSE LET t == Unlink(s, n)
         IN  {PushFront(t, k, m) : m \in IF Reuse THEN {n} ELSE Free(t)}

Refer(s, k) == IF s.broken THEN {s}
               ELSE IF Has(s, k) THEN ReferHeld(s, k) ELSE ReferNew(s, k)

\* Slip: the iterator of the other end.
AddToCacheBack(s, k) == IF s.broken THEN s ELSE [s EXCEPT !.place[k] = Last(s.queue)]

\* cache[key] = {msg, queue.begin()}
AddToCache(s, k) == IF s.broken THEN s ELSE [s EXCEPT !.place[k] = Head(s.queue)]

StoreCacheBlock(s, k) == {AddToCache(t, k) : t \in Refer(s, k)}

\* A data structure stores block k.
Store(k) == ~broken /\ \E s \in StoreCacheBlock(State, k) : Become(s)

\* getBlock on a resident block: one refer.
GetBlock(k) == ~broken /\ Has(State, k) /\ \E s \in Refer(State, k) : Become(s)

\* getBlockFallbackRemote on a resident block: getBlock's refer and its own.
GetHit(k) ==
  /\ ~broken /\ Has(State, k)
  /\ \E s \in Refer(State, k) : \E t \in Refer(s, k) : Become(t)

\* getBlockFallbackRemote on an evicted block: the worker's copy is stored, then
\* referred to.
GetMiss(k) ==
  /\ ~broken /\ ~Has(State, k) /\ k \in remote
  /\ \E s \in StoreCacheBlock(State, k) : \E t \in Refer(s, k) : Become(t)

Next == \E k \in Keys : Store(k) \/ GetBlock(k) \/ GetHit(k) \/ GetMiss(k)

Spec == Init /\ [][Next]_vars
-------------------------------------------------------------------------------
\* Types; a node is in the list once, and a node outside the list is free.
TypeOK == /\ queue \in Seq(Nodes)
          /\ IsInjective(queue)
          /\ \A n \in Nodes : n \in ToSet(queue) <=> keyAt[n] # None
          /\ keyAt \in [Nodes -> Keys \cup {None}]
          /\ place \in [Keys -> Nodes \cup {None}]
          /\ remote \subseteq Keys
          /\ broken \in BOOLEAN

\* The iterator of every entry is "this MessagePtr's current place in the LRU
\* queue" (LeastRecentlyUsedCacheWorker.h:81-82): the live node with its key.
PlaceIsCurrent ==
  \A k \in Keys : Has(State, k) => place[k] \in ToSet(queue) /\ keyAt[place[k]] = k

\* No freed node is erased or read, and every key in the queue has its entry.
NeverBroken == ~broken

\* The order queue keeps is the order of use, so that what LRU evicts is the least
\* and what MRU evicts the most recently used block, and get and store count alike.
Order == INSTANCE Recency WITH order <- [i \in DOMAIN queue |-> keyAt[queue[i]]]
KeepsRecency == Order!Spec

\* A strategy that only evicts a block it holds, and only when it must.
Residents == INSTANCE ResidentSet WITH resident <- Held(State)
ManagesResidents == Residents!Spec

\* No block is dropped: what left the cache is at the workers.
EvictedGoToWorkers == [][ Held(State) \ Held(State)' \subseteq remote' ]_vars
-------------------------------------------------------------------------------
(* The inductive invariant behind these, if addresses are reused: the list and the *)
(* entries are two views of one set of blocks, node by node.                       *)
Linked(s) ==
  /\ s \in [queue : Seq(Nodes), keyAt : [Nodes -> Keys \cup {None}],
            place : [Keys -> Nodes \cup {None}], remote : SUBSET Keys, broken : {FALSE}]
  /\ IsInjective(s.queue)
  /\ \A n \in Nodes : n \in ToSet(s.queue) <=> s.keyAt[n] # None
  /\ \A n \in Nodes, k \in Keys : s.keyAt[n] = k <=> s.place[k] = n
  /\ IsFiniteSet(Held(s)) /\ Cardinality(Held(s)) = Len(s.queue)
  /\ Len(s.queue) <= Capacity

IInv == Linked(State)
===============================================================================
