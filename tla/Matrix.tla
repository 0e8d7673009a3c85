--------------------------------- MODULE Matrix ---------------------------------
(***************************************************************************)
(* Matrix of the examples: a square matrix in one pc2l::Vector, here a     *)
(* sequence.  Its constructor and most operations insert the cells they    *)
(* compute, which moves the zeros the result began with to the end of the  *)
(* vector; replace() writes in place.  The variable is the matrix that the *)
(* last operation returned.                                                *)
(***************************************************************************)
EXTENDS Integers, SequencesExt, LibraryConstants

VARIABLES cells, rows, call

vars == <<cells, rows, call>>
Val  == 0 .. Mod - 1

\* The cells of a matrix of size n, row by row.
Cell(n, i) == <<(i - 1) \div n, (i - 1) % n>>
Cells(n)   == {Cell(n, i) : i \in 1 .. n * n}

\* Slip: the value goes behind the cell.
InsertBehind(c, n, p, v) == InsertAt(c, Min({p[1] * n + p[2] + 2, Len(c) + 1}), v)

\* insert(row, col, val), replace(row, col, val) and at(row, col)
Insert(c, n, p, v)  == InsertAt(c, p[1] * n + p[2] + 1, v)
Replace(c, n, p, v) == [c EXCEPT ![p[1] * n + p[2] + 1] = v]
At(p)               == cells[p[1] * rows + p[2] + 1]

\* The loops over the cells of a matrix, with insert() and with replace().
InsertEach(c, n, f) ==
  LET ret[i \in 0 .. n * n] == IF i = 0 THEN c ELSE Insert(ret[i - 1], n, Cell(n, i), f[Cell(n, i)])
  IN  ret[n * n]
ReplaceEach(c, n, f) ==
  LET ret[i \in 0 .. n * n] == IF i = 0 THEN c ELSE Replace(ret[i - 1], n, Cell(n, i), f[Cell(n, i)])
  IN  ret[n * n]

\* The constructor.
New(n, v) == InsertEach(<<>>, n, [p \in Cells(n) |-> v])

Inserted(f) == InsertEach(New(rows, 0), rows, f)
Replaced(f) == ReplaceEach(New(rows, 0), rows, f)

Init == /\ rows \in Sizes /\ call = <<"new", 0>>
        /\ \E v \in Val : cells = New(rows, v)

Returns(op, arg, ret) == cells' = ret /\ call' = <<op, arg>> /\ UNCHANGED rows

Plus(rhs)  == Returns("+", rhs, Inserted([p \in Cells(rows) |-> (At(p) + rhs[p]) % Mod]))
Minus(rhs) == Returns("-", rhs, Replaced([p \in Cells(rows) |-> (At(p) - rhs[p]) % Mod]))
Times(rhs) == Returns("*", rhs, Inserted([p \in Cells(rows) |-> (At(p) * rhs[p]) % Mod]))
Scale(val) == Returns("scale", val, Inserted([p \in Cells(rows) |-> (At(p) * val) % Mod]))
Apply(f)   == Returns("apply", f, Inserted([p \in Cells(rows) |-> f[At(p)]]))
Transpose  == Returns("transpose", 0, Inserted([p \in Cells(rows) |-> At(<<p[2], p[1]>>)]))
Set(p, v)  == Returns("set", <<p, v>>, Replace(cells, rows, p, v))

\* dot(): a sum of one cell of each side is inserted where the product is due, once
\* for every k.
Dotted(rhs) ==
  LET ret[i \in 0 .. rows * rows * rows] ==
        IF i = 0 THEN New(rows, 0)
        ELSE LET p == Cell(rows, ((i - 1) \div rows) + 1)
                 k == (i - 1) % rows
             IN  Insert(ret[i - 1], rows, p, (At(<<p[1], k>>) + rhs[<<k, p[2]>>]) % Mod)
  IN  ret[rows * rows * rows]
Dot(rhs) == Returns("dot", rhs, Dotted(rhs))

\* operator>>: every number of rhs, whose height is n, is put at (row, col), the
\* dimensions, which is behind the last cell.  If that is behind the blocks of the cells
\* too, replace() gets a block that nobody stored, and waits for ever.
BlockOf(i)   == i \div CellsInBlock
Read(n, rhs) ==
  /\ rows' = n /\ cells' = New(n, 0)
  /\ call' = <<IF BlockOf(n * n + n) > BlockOf(n * n - 1) THEN "waits" ELSE "read", rhs>>

Waits == call[1] = "waits"

Operation ==
  \/ \E rhs \in Operands[rows] : Plus(rhs) \/ Minus(rhs) \/ Times(rhs) \/ Dot(rhs)
  \/ \E n \in Sizes : \E rhs \in Operands[n] : Read(n, rhs)
  \/ \E v \in Val : Scale(v)
  \/ \E v \in Val : Apply([x \in Val |-> (x + v) % Mod])
  \/ \E p \in Cells(rows), v \in Val : Set(p, v)
  \/ Transpose

Next == (~Waits /\ Operation) \/ (Waits /\ UNCHANGED vars)

Spec == Init /\ [][Next]_vars
-------------------------------------------------------------------------------
Grid == [p \in Cells(rows) |-> At(p)]

\* Every operation but dot() and operator>> gives the matrix STDMatrix gives, however
\* many cells the operations before it left behind the last one.
Reference == INSTANCE STDMatrix WITH m <- Grid
MatchesSTDMatrix == [][call'[1] \notin {"dot", "read", "waits"} => Reference!Next]_<<Grid, call>>
===============================================================================
