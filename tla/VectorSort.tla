------------------------------ MODULE VectorSort ------------------------------
(***************************************************************************)
(* pc2l::Vector::sort: a merge sort in place, which works on the vector's  *)
(* own at() and replace().                                                 *)
(***************************************************************************)
EXTENDS Vector

\* Element second moves down to low, those between move up by one.
Rotated(s, low, second) ==
  LET t  == Touch(s, second)
      up == FoldLeft(LAMBDA x, j : Copied(x, j, j - 1), t, Downto(second, low + 1))
  IN  Replaced(up, low, ValueAt(t, second))

\* at(i) <= at(j): what it reads, and the vector after both reads.
Compared(s, i, j) == Touch(Touch(s, i), j)
LessEq(s, i, j) == ValueAt(Touch(s, i), i) <= ValueAt(Compared(s, i, j), j)

RECURSIVE MergeLoop(_, _, _, _, _)
MergeLoop(s, low, mid, second, high) ==
  IF s.stuck \/ low > mid \/ second > high THEN s
  ELSE LET c == Compared(s, low, second) IN
       IF LessEq(s, low, second)
         THEN MergeLoop(c, low + 1, mid, second, high)
         ELSE MergeLoop(Rotated(c, low, second), low + 1, mid + 1, second + 1, high)

Merge(s, low, mid, high) ==
  LET c == Compared(s, mid, mid + 1) IN
  IF s.stuck \/ LessEq(s, mid, mid + 1) THEN c ELSE MergeLoop(c, low, mid, mid + 1, high)

RECURSIVE MergeSort(_, _, _)
MergeSort(s, low, high) ==
  IF low >= high THEN s
  ELSE LET mid == low + (high - low) \div 2 IN
       Merge(MergeSort(MergeSort(s, low, mid), mid + 1, high), low, mid, high)

\* sort(), of a vector that is not empty: of an empty one, high is 2^64 - 1.
Sort == /\ "sort" \in program /\ ~stuck /\ siz > 0
        /\ Become(MergeSort(State, 0, siz - 1))

SortNext == Next \/ Sort

SortSpec == Init /\ [][SortNext]_vars
===============================================================================
