--------------------------------- MODULE Queues ---------------------------------
(* Queues of messages and of blocks. *)
EXTENDS Integers, Sequences

StoreFor(m, k) == m.tag = "STORE_BLOCK" /\ m.key = k

\* A worker with content c for block k and messages q before it will hold d.
WillHold(q, c, k, d) ==
  /\ (\A i \in DOMAIN q : ~StoreFor(q[i], k)) => c = d
  /\ \A i \in DOMAIN q :
       StoreFor(q[i], k) /\ (\A j \in DOMAIN q : j > i => ~StoreFor(q[j], k))
         => q[i].data = d
===============================================================================
