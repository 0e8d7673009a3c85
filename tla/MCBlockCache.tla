----------------------------- MODULE MCBlockCache -----------------------------
(* Small instances of BlockCache. *)
EXTENDS BlockBytes, TLC

\* Block sizes of the two kinds of instances: all alike, and two data structures
\* with different block sizes.
UniformSizes == [ds \in DsTags |-> 3]
MixedSizes   == [ds \in DsTags |-> IF ds = 1 THEN 1 ELSE 3]

Symmetry == Permutations(Data)
===============================================================================
