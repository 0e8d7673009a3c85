------------------------------ MODULE ElementSeq ------------------------------
(***************************************************************************)
(* What a pc2l::Vector is to its user: one sequence of values.  The user   *)
(* counts elements from 0, the sequence from 1.                            *)
(***************************************************************************)
EXTENDS Integers, SequencesExt

CONSTANT Values

VARIABLE elems

Init == elems = <<>>

Indices == 0 .. Len(elems) - 1

\* What each operation may turn the sequence into.
Insert  == {InsertAt(elems, i + 1, v) : i \in 0 .. Len(elems), v \in Values}
Replace == {[elems EXCEPT ![i + 1] = v] : i \in Indices, v \in Values}
Swap    == {[elems EXCEPT ![i + 1] = elems[j + 1], ![j + 1] = elems[i + 1]] : i, j \in Indices}
Erase   == {RemoveAt(elems, i + 1) : i \in Indices}
Clear   == {<<>>}
Sort    == {SortSeq(elems, <)}

\* The constructor that fills the sequence with one value.
Fill == elems = <<>> /\ \E v \in Values : \A i \in DOMAIN elems' : elems'[i] = v

Next == \/ elems' \in Replace \/ elems' \in Swap
        \/ elems' \in Insert \/ elems' \in Erase
        \/ elems' \in Clear \/ elems' \in Sort
        \/ Fill

Spec == Init /\ [][Next]_elems
===============================================================================
