------------------------------- MODULE MCVector -------------------------------
(* Up to three blocks of two elements, of which two fit in the cache, and the    *)
(* programs of the runs.                                                         *)
EXTENDS VectorSort

\* One program that has the manager to itself; one that shares it and writes by
\* insert and replace only; one that appends and sorts; one that fills a vector and
\* leaves it to the algorithms of the standard library.
Orderly == {{"edit", "assign", "forward"}, {"edit", "shared"},
            {"sort", "shared", "forward"}, {"fill", "assign", "exchange"}}

\* The same and one that does everything those avoid.
Anyhow == Orderly \cup {{"assign", "stray", "clear", "shared", "forward"}}

Appending == {{"stray"}}
Assigning == {{"assign", "shared"}}

\* What the theorems suppose of the programs.
ASSUME TheoremsApply == ExchangesApart /\ AssignsFit
===============================================================================
