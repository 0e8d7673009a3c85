------------------------------- MODULE STDMatrix -------------------------------
(***************************************************************************)
(* STDMatrix, the matrix of the examples on std::vector, as what the one   *)
(* on pc2l::Vector is compared with.  A matrix is a function of <<row,     *)
(* column>>.  Numbers are taken modulo Mod, which keeps sums and products. *)
(***************************************************************************)
EXTENDS Integers, FiniteSetsExt

CONSTANT Mod

VARIABLES
  m,      \* the matrix
  call    \* the operation that made it, and its argument

op  == call[1]
arg == call[2]

Plus(a, b)     == [p \in DOMAIN a |-> (a[p] + b[p]) % Mod]
Minus(a, b)    == [p \in DOMAIN a |-> (a[p] - b[p]) % Mod]
Hadamard(a, b) == [p \in DOMAIN a |-> (a[p] * b[p]) % Mod]
Scaled(a, v)   == [p \in DOMAIN a |-> (a[p] * v) % Mod]
Applied(a, f)  == [p \in DOMAIN a |-> f[a[p]]]
Transposed(a)  == [p \in {<<q[2], q[1]>> : q \in DOMAIN a} |-> a[<<p[2], p[1]>>]]

Dot(a, b) ==
  LET rows == {p[1] : p \in DOMAIN a}
      mid  == {p[1] : p \in DOMAIN b}
      cols == {p[2] : p \in DOMAIN b}
  IN  [p \in rows \X cols |->
         MapThenSumSet(LAMBDA k : a[<<p[1], k>>] * b[<<k, p[2]>>], mid) % Mod]

Next ==
  \/ op' = "+" /\ m' = Plus(m, arg')
  \/ op' = "-" /\ m' = Minus(m, arg')
  \/ op' = "*" /\ m' = Hadamard(m, arg')
  \/ op' = "scale" /\ m' = Scaled(m, arg')
  \/ op' = "apply" /\ m' = Applied(m, arg')
  \/ op' = "transpose" /\ m' = Transposed(m)
  \/ op' = "dot" /\ m' = Dot(m, arg')
  \/ op' = "read" /\ m' = arg'
  \/ op' = "set" /\ m' = [m EXCEPT ![arg'[1]] = arg'[2]]
===============================================================================
