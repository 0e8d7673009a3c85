----------------------------- MODULE MCStrategies -----------------------------
(* Four blocks, of which three fit as in the tests, and one spare list node: ties *)
(* of frequency, emptied lists and every victim occur.                            *)
EXTENDS Strategies, TLC

Symmetry == Permutations(Keys) \cup Permutations(Data)
===============================================================================
