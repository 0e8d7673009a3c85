--------------------------- MODULE StrategyConstants ---------------------------
(* The constants of the eviction strategies.  Blocks have one size here, so that *)
(* Capacity of them fit in cacheSize and one eviction makes room for one block.  *)
EXTENDS Naturals

CONSTANTS
  Keys,       \* blocks
  Data,       \* contents of a block
  Capacity,
  Nodes,      \* addresses the allocator may give a node of a std::list
  None,       \* no block, no node, no content
  Reuse,      \* TRUE: an allocation gets the node freed just before, as the
              \* C libraries' allocators do for equal sizes
  MaxFreq,    \* bound: LFU refers to no block more often
  MaxCount    \* bound: no call of PLRU starts with a larger trueCount

ASSUME StrategyAssumption ==
  /\ Capacity \in Nat \ {0} /\ MaxFreq \in Nat \ {0, 1} /\ MaxCount \in Nat /\ MaxCount >= Capacity
  /\ Reuse \in BOOLEAN

ASSUME NoneIsNothing == None \notin Keys \cup Data \cup Nodes
===============================================================================
