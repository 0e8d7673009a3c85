-------------------------------- MODULE Recency --------------------------------
(***************************************************************************)
(* The order the LRU and MRU strategies promise: resident blocks from the  *)
(* most to the least recently used.  LRU gives up the last of them, MRU    *)
(* the first.                                                              *)
(***************************************************************************)
EXTENDS Naturals, SequencesExt

CONSTANTS Keys, Capacity

VARIABLES order,
          policy     \* "LRU" or "MRU"

Init == order = <<>>

Victim == IF policy = "MRU" THEN Head(order) ELSE Last(order)

Touch(k) ==
  LET kept == IF k \in ToSet(order) \/ Len(order) < Capacity
                THEN order ELSE RemoveFirst(order, Victim)
  IN  order' = <<k>> \o RemoveFirst(kept, k) /\ UNCHANGED policy

Next == \E k \in Keys : Touch(k)

Spec == Init /\ [][Next]_<<order, policy>>
===============================================================================
