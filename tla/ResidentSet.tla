----------------------------- MODULE ResidentSet -----------------------------
(***************************************************************************)
(* What every eviction strategy owes to the cache it serves, whatever it   *)
(* prefers to evict: a block that is used is resident afterwards, a cache  *)
(* that is not full keeps everything, a full one gives up exactly one      *)
(* block, one it held, and never the block in use.                         *)
(***************************************************************************)
EXTENDS Naturals, FiniteSets

CONSTANTS Keys,      \* block identities
          Capacity   \* blocks of the (common) block size that fit in cacheSize

VARIABLE resident

Init == resident = {}

Use(k) ==
  \/ /\ k \in resident \/ Cardinality(resident) < Capacity
     /\ resident' = resident \cup {k}
  \/ /\ k \notin resident /\ Cardinality(resident) >= Capacity
     /\ \E victim \in resident : resident' = (resident \ {victim}) \cup {k}

Next == \E k \in Keys : Use(k)

Spec == Init /\ [][Next]_resident
===============================================================================
