------------------------------- MODULE MCLibrary -------------------------------
(* Command lines of up to four words with every type of option and of word; a    *)
(* map of up to four keys in two blocks, of which one fits; a process with two    *)
(* blocks of different sizes; matrices of one and of four cells.                  *)
EXTENDS Library

Option(c, t) == [command |-> c, type |-> t]
Valid   == <<Option("--f", "flag"), Option("-v", "value"), Option("--l", "list"), Option("--m", "message")>>
TooMany == Valid \o <<Option("x-y", "flag")>>

MCTables == {Valid, TooMany}
Preset(c, t, v) == [command |-> c, type |-> t, value |-> v]
MCPresets == {Preset("--l", "list", <<"x">>), Preset("-v", "value", <<"x-y">>),
              Preset("-v", "list", <<"x", "x">>)}
MCInputs == BoundedSeq(Words \ {Argv0}, 3) \cup [1 .. 4 -> {"--l", "-v", "x"}]

MCValues   == [first : Keys, second : Vals]
MCPrograms == {{"assign"}, {"shared"}}

MCSize == [k \in BlockKeys |-> k + 1]

OfRows(n, s) == [p \in {<<(i - 1) \div n, (i - 1) % n>> : i \in 1 .. n * n} |-> s[p[1] * n + p[2] + 1]]
MCOperands == [n \in Sizes |-> IF n = 1 THEN {OfRows(1, <<2>>)}
                               ELSE {OfRows(2, <<0, 1, 2, 2>>), OfRows(2, <<1, 2, 0, 1>>)}]

\* What the map's theorems suppose of the programs.
ASSUME MapTheoremsApply == MapsFit
===============================================================================
