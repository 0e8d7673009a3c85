------------------------------- MODULE MapStore -------------------------------
(***************************************************************************)
(* What a pc2l::Map is to its user: a function from some of the keys to    *)
(* values, in the order of the keys.                                       *)
(***************************************************************************)
EXTENDS Integers

CONSTANTS Keys, Vals

VARIABLE map

Init == map = <<>>

\* The map in which k has the value v.
With(k, v) == [j \in DOMAIN map \cup {k} |-> IF j = k THEN v ELSE map[j]]

\* insert(k, v) leaves a key that is there alone.
Insert == {With(k, v) : k \in Keys \ DOMAIN map, v \in Vals}

\* map[k] of an absent key adds it with the value 1; map[k] = v changes it.
Index  == {With(k, 1) : k \in Keys \ DOMAIN map}
Assign == {With(k, v) : k \in Keys, v \in Vals}

\* What a program can do that writes through no reference.
Add == map' \in Insert \cup Index

Next == Add \/ map' \in Assign

Spec == Init /\ [][Next]_map
===============================================================================
