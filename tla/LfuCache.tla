------------------------------- MODULE LfuCache -------------------------------
(***************************************************************************)
(* The LFU manager: queues maps a frequency to a list of items, the most   *)
(* recently referred first; placeInQueue maps a block to its item.  refer  *)
(* moves a resident block to the front of the next frequency's list, and a *)
(* full cache gives up the last item of the smallest frequency.            *)
(***************************************************************************)
EXTENDS StrategyConstants, SequencesExt

VARIABLES
  queues,   \* queues[f]: keys of the items with frequency f, for the f in the map
  freq,     \* freq[k]: the frequency in k's item, 0 if k is not in placeInQueue
  msg,      \* msg[k]: the content of the message in k's item
  remote,   \* remote[k]: the content the workers hold for k, or None
  broken,   \* back() of an empty list, or begin() of an empty map
  recent,   \* history: resident keys by their last refer or add, latest first
  stored    \* history: what was last stored for k; None if that was another message
            \* than the one the cache held for k

vars == <<queues, freq, msg, remote, broken, recent, stored>>

Init == /\ queues = [f \in {} |-> <<>>]
        /\ freq = [k \in Keys |-> 0]
        /\ msg = [k \in Keys |-> None]
        /\ remote = [k \in Keys |-> None]
        /\ broken = FALSE
        /\ recent = <<>>
        /\ stored = [k \in Keys |-> None]

State == [queues |-> queues, freq |-> freq, msg |-> msg, remote |-> remote,
          broken |-> broken, recent |-> recent]

Become(s) == /\ queues' = s.queues /\ freq' = s.freq /\ msg' = s.msg
             /\ remote' = s.remote /\ broken' = s.broken
             /\ recent' = s.recent

Has(s, k) == s.freq[k] # 0
Held(s)   == {k \in Keys : Has(s, k)}
At(qs, f) == IF f \in DOMAIN qs THEN qs[f] ELSE <<>>   \* operator[] of the map

\* Slip: the emptied list stays in the map.
TakeLeavingEmpty(qs, f, k) == [qs EXCEPT ![f] = RemoveFirst(@, k)]

\* An item leaves its list; an empty list leaves the map.
Take(qs, f, k) ==
  LET q == RemoveFirst(qs[f], k) IN
  IF q = <<>> THEN [g \in DOMAIN qs \ {f} |-> qs[g]] ELSE [qs EXCEPT ![f] = q]

\* push_front into the list of frequency f, which is made if it is not there.
Put(qs, f, k) == [g \in DOMAIN qs \cup {f} |-> IF g = f THEN <<k>> \o At(qs, f) ELSE qs[g]]

Latest(s, k) == <<k>> \o RemoveFirst(s.recent, k)

\* The last item of the smallest frequency, queues.begin()->second.back().
Smallest(s) == Min(DOMAIN s.queues)

\* Slip: the first item of the smallest frequency.
VictimFront(s) == Head(s.queues[Smallest(s)])

Victim(s) == Last(s.queues[Smallest(s)])

\* Slip: the victim is not sent to its worker.
EvictUnsent(s) ==
  LET v == Victim(s) IN
  [s EXCEPT !.queues = Take(@, Smallest(s), v), !.freq[v] = 0,
            !.msg[v] = None, !.recent = RemoveFirst(@, v)]

\* Pop the victim's item, forget the block, send it to its worker.
Evict(s) ==
  IF DOMAIN s.queues = {} \/ s.queues[Smallest(s)] = <<>>
    THEN [s EXCEPT !.broken = TRUE]
    ELSE LET v == Victim(s) IN
         [s EXCEPT !.queues = Take(@, Smallest(s), v), !.freq[v] = 0,
                   !.remote[v] = s.msg[v], !.msg[v] = None,
                   !.recent = RemoveFirst(@, v)]

\* refer() of a block that is not resident only makes room.
ReferNew(s) == IF Cardinality(Held(s)) >= Capacity THEN Evict(s) ELSE s

ReferHeld(s, k) ==
  LET f == s.freq[k] IN
  [s EXCEPT !.queues = Put(Take(@, f, k), f + 1, k), !.freq[k] = f + 1,
            !.recent = Latest(s, k)]

Refer(s, k) == IF s.broken THEN s
               ELSE IF Has(s, k) THEN ReferHeld(s, k) ELSE ReferNew(s)

\* Slip: every item that is added starts with the frequency of the smallest list.
AddToCacheLow(s, k, d) ==
  IF s.broken \/ Has(s, k) THEN s
  ELSE LET f == IF DOMAIN s.queues = {} THEN 1 ELSE Smallest(s) IN
       [s EXCEPT !.queues = Put(@, 1, k), !.freq[k] = f, !.msg[k] = d,
                 !.recent = Latest(s, k)]

\* An item is made for a block that has none; the item there is keeps its message.
AddToCache(s, k, d) ==
  IF s.broken \/ Has(s, k) THEN s
  ELSE [s EXCEPT !.queues = Put(@, 1, k), !.freq[k] = 1, !.msg[k] = d,
                 !.recent = Latest(s, k)]

\* The manager can serve k with n references.
Ready(k, n) == freq[k] + n <= MaxFreq /\ ~broken

\* A data structure stores content d for k.  If k is resident its message may be
\* the one in the cache, written in place, or another one with the same key.
Store(k, d, inPlace) ==
  /\ Ready(k, 1)
  /\ inPlace => Has(State, k)
  /\ LET s == IF inPlace THEN [State EXCEPT !.msg[k] = d] ELSE State IN
     Become(AddToCache(Refer(s, k), k, d))
  /\ stored' = [stored EXCEPT ![k] = IF Has(State, k) /\ ~inPlace THEN None ELSE d]

\* getBlock on a resident block.
GetBlock(k) ==
  /\ Ready(k, 1) /\ Has(State, k)
  /\ Become(Refer(State, k))
  /\ UNCHANGED stored

\* getBlockFallbackRemote on a resident block: getBlock's refer and its own.
GetHit(k) ==
  /\ Ready(k, 2) /\ Has(State, k)
  /\ Become(Refer(Refer(State, k), k))
  /\ UNCHANGED stored

\* getBlockFallbackRemote on an evicted block.
GetMiss(k) ==
  /\ Ready(k, 2) /\ ~Has(State, k) /\ remote[k] # None
  /\ Become(Refer(AddToCache(Refer(State, k), k, remote[k]), k))
  /\ UNCHANGED stored

Next == \E k \in Keys :
          \/ \E d \in Data, inPlace \in BOOLEAN : Store(k, d, inPlace)
          \/ GetBlock(k) \/ GetHit(k) \/ GetMiss(k)

Spec == Init /\ [][Next]_vars
-------------------------------------------------------------------------------
\* Types; a block has content exactly while it is resident, and the recency history
\* lists each resident block once.
TypeOK == /\ DOMAIN queues \subseteq 1 .. MaxFreq
          /\ \A f \in DOMAIN queues : queues[f] \in Seq(Keys)
          /\ freq \in [Keys -> 0 .. MaxFreq]
          /\ msg \in [Keys -> Data \cup {None}]
          /\ \A k \in Keys : Has(State, k) <=> msg[k] # None
          /\ remote \in [Keys -> Data \cup {None}]
          /\ broken \in BOOLEAN
          /\ ToSet(recent) = Held(State) /\ IsInjective(recent)
          /\ stored \in [Keys -> Data \cup {None}]

\* a is in front of b in q.
Before(q, a, b) == \E i, j \in DOMAIN q : i < j /\ q[i] = a /\ q[j] = b

\* The two structures agree: the map has a list for exactly the frequencies in use,
\* never an empty one, and each list is its blocks by their last use.
Agree(s) ==
  /\ DOMAIN s.queues = {s.freq[k] : k \in Held(s)}
  /\ \A f \in DOMAIN s.queues :
       /\ ToSet(s.queues[f]) = {k \in Keys : s.freq[k] = f} /\ IsInjective(s.queues[f])
       /\ \A a, b \in Keys : Before(s.queues[f], a, b) => Before(s.recent, a, b)

QueuesAgree == Agree(State)

\* back() of an empty list and begin() of an empty map are never reached.
NeverBroken == ~broken

\* Of the blocks with the smallest frequency counted, the one unused for longest
\* goes, and its worker gets the content it had.
EvictsLeastFrequent ==
  [][\A v \in Held(State) \ Held(State)' :
       /\ \A k \in Held(State) : freq[v] <= freq[k]
       /\ \A k \in Held(State) \ {v} : freq[k] = freq[v] => Before(recent, k, v)
       /\ remote'[v] = msg[v]]_vars

\* A strategy that only evicts a block it holds, and only when it must.
Residents == INSTANCE ResidentSet WITH resident <- Held(State)
ManagesResidents == Residents!Spec

\* What the cache, or else a worker, holds for a block is what was last stored for
\* it, through any evictions and fetches, unless another message was stored for a
\* resident block: that one is dropped (addToCache).
HoldsLatest ==
  \A k \in Keys : stored[k] # None =>
    stored[k] = IF Has(State, k) THEN msg[k] ELSE remote[k]
-------------------------------------------------------------------------------
(* The inductive invariant behind these. *)
Filed(s) ==
  /\ s \in [queues : [DOMAIN s.queues -> Seq(Keys)],
            freq : [Keys -> 0 .. MaxFreq], msg : [Keys -> Data \cup {None}],
            remote : [Keys -> Data \cup {None}], broken : {FALSE}, recent : Seq(Keys)]
  /\ DOMAIN s.queues \subseteq 1 .. MaxFreq /\ Agree(s)
  /\ \A k \in Keys : Has(s, k) <=> s.msg[k] # None
  /\ IsInjective(s.recent) /\ ToSet(s.recent) = Held(s)
  /\ IsFiniteSet(Held(s)) /\ Cardinality(Held(s)) <= Capacity

IInv == Filed(State) /\ HoldsLatest /\ stored \in [Keys -> Data \cup {None}]
===============================================================================
