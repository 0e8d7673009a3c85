------------------------------- MODULE ArgParser -------------------------------
(***************************************************************************)
(* pc2l::ArgParser: the records of the valid arguments, the two loops of   *)
(* parseArguments(), which take the arguments they know out of argv while  *)
(* they run over it, the check of what is left, and the help text.         *)
(*                                                                         *)
(* argv counts from 0 in the code and from 1 here, with the program's name *)
(* first.  A value that is converted from a word is that word.  No word is *)
(* empty.                                                                  *)
(***************************************************************************)
EXTENDS Integers, SequencesExt, LibraryConstants

VARIABLES
  phase,       \* "new", "set", "parse", "check", "help", "over"
  table,       \* the array the caller passed
  input,       \* the command line the caller passed
  caxoe,       \* Complain And eXit On Error
  argRecords,
  argv,
  argument, match,  \* the loop counters; match = 0: between two rounds of the outer loop
  data,        \* data[c]: the words the value of command c was set from
  preset,      \* history: data when parseArguments() was called
  exitCode,    \* of exit(), or Null
  maxLen, entry, left,  \* the help text: entry printed, characters of it left
  shown        \* what it has shown: commands and their values

argsVars == <<phase, table, input, caxoe, argRecords, argv, argument, match, data,
          preset, exitCode, maxLen, entry, left, shown>>
request == <<table, input, caxoe, preset>>
helpVars == <<maxLen, entry, left, shown>>

ArgsInit ==
  /\ phase = "new" /\ table = <<>> /\ input = <<>> /\ caxoe = TRUE
  /\ argRecords = <<>> /\ argv = <<>> /\ argument = 1 /\ match = 0
  /\ data = <<>> /\ preset = <<>> /\ exitCode = Null /\ maxLen = 6 /\ entry = 0 /\ left = 0
  /\ shown = <<>>

Exit(code) == phase' = "over" /\ exitCode' = code

\* The constructor and addValidArguments(), with what parseArguments() will be given.
Begin ==
  /\ phase = "new"
  /\ table' \in Tables /\ input' \in Inputs /\ caxoe' \in BOOLEAN
  /\ argv' = <<Argv0>> \o input'
  /\ data' = [x \in {table'[i].command : i \in DOMAIN table'} |-> <<>>]
  /\ IF Len(table') > MaximumArguments
       THEN Exit(100) /\ argRecords' = SubSeq(table', 1, MaximumArguments + 1)
       ELSE phase' = "set" /\ argRecords' = table' /\ UNCHANGED exitCode
  /\ UNCHANGED <<preset, argument, match, helpVars>>

\* setArgument(c, t, value); without a record of that command and type it returns
\* false.  Bound: one call that sets a value.
SetArgument(c, t, value) ==
  /\ phase = "set" /\ \A x \in DOMAIN data : data[x] = <<>>
  /\ data' = IF \E i \in DOMAIN argRecords : argRecords[i].command = c /\ argRecords[i].type = t
               THEN [data EXCEPT ![c] = value] ELSE data
  /\ UNCHANGED <<phase, request, argRecords, argv, argument, match, exitCode, helpVars>>

\* The call of parseArguments().
Parse ==
  /\ phase = "set"
  /\ phase' = "parse" /\ preset' = data
  /\ UNCHANGED <<table, input, caxoe, argRecords, argv, argument, match, data, exitCode, helpVars>>
-------------------------------------------------------------------------------
argc    == Len(argv)
NumArgs == Len(argRecords)
arg(i)  == argv[i + 1]        \* argv[i] of the code

\* removeArgument(i), n times.
Without(i, n) == [j \in 1 .. argc - n |-> IF j <= i THEN argv[j] ELSE argv[j + n]]

\* The outer loop: its test, and its step when the inner loop is over.
NextArgument ==
  /\ phase = "parse"
  /\ \/ /\ match = 0 /\ argument < argc
        /\ match' = 1 /\ UNCHANGED <<phase, argument>>
     \/ /\ match = 0 /\ argument >= argc
        /\ phase' = IF caxoe THEN "check" ELSE "over"
        /\ UNCHANGED <<argument, match>>
     \/ /\ match > 0 /\ (match > NumArgs \/ argument >= argc)
        /\ argument' = argument + 1 /\ match' = 0 /\ UNCHANGED phase
  /\ UNCHANGED <<request, argRecords, argv, data, exitCode, helpVars>>

InnerLoop == phase = "parse" /\ match \in 1 .. NumArgs /\ argument < argc
Record    == argRecords[match]
Matches   == InnerLoop /\ Record.command = arg(argument)

Mismatch ==
  /\ InnerLoop /\ ~Matches
  /\ match' = match + 1
  /\ UNCHANGED <<phase, request, argRecords, argv, argument, data, exitCode, helpVars>>

IsValue(i)   == i < argc /\ arg(i) \notin Dash1 \cap Dash2
ValueMissing == Record.type \notin {"flag", "list"} /\ ~IsValue(argument + 1)

\* exit(101), whatever caxoe says.
ExitWithoutValue ==
  /\ Matches /\ ValueMissing /\ Exit(101)
  /\ UNCHANGED <<request, argRecords, argv, argument, match, data, helpVars>>

\* The argument and its values leave argv and the word before it is looked at again.
Take(n, value) ==
  /\ argv' = Without(argument, n)
  /\ data' = [data EXCEPT ![Record.command] = value]
  /\ argument' = argument - 1 /\ match' = match + 1
  /\ UNCHANGED <<phase, request, argRecords, exitCode, helpVars>>

TakeFlag == Matches /\ Record.type = "flag" /\ Take(1, <<arg(argument)>>)

\* Slip: after two removals the loop goes on where it is.
TakeValueAndGoOn ==
  /\ Matches /\ Record.type = "value" /\ ~ValueMissing
  /\ argv' = Without(argument, 2)
  /\ data' = [data EXCEPT ![Record.command] = <<arg(argument + 1)>>]
  /\ match' = match + 1
  /\ UNCHANGED <<phase, request, argRecords, argument, exitCode, helpVars>>

TakeValue == /\ Matches /\ Record.type = "value" /\ ~ValueMissing
             /\ Take(2, <<arg(argument + 1)>>)

\* The words after index i that a list takes: up to one with '-' in first or in
\* second place.
EndsList(w) == w \in Dash1 \cup Dash2
ListAfter(i) ==
  LET stops == {j \in i + 1 .. argc - 1 : EndsList(arg(j))}
      n     == IF stops = {} THEN argc - 1 - i ELSE Min(stops) - i - 1
  IN  SubSeq(argv, i + 2, i + n + 1)

TakeList == /\ Matches /\ Record.type = "list"
            /\ Take(Len(ListAfter(argument)) + 1, data[Record.command] \o ListAfter(argument))

\* Slip: the message is processed again like a match.
StayOnMessage ==
  /\ Matches /\ Record.type = "message" /\ ~ValueMissing
  /\ IF caxoe THEN Exit(102) /\ UNCHANGED <<match, argument>>
              ELSE match' = 0 /\ UNCHANGED <<argument, phase, exitCode>>
  /\ UNCHANGED <<request, argRecords, argv, data, helpVars>>

\* The default case of the switch: "Invalid arg type in arg array!"
SkipMessage ==
  /\ Matches /\ Record.type = "message" /\ ~ValueMissing
  /\ IF caxoe THEN Exit(102) /\ UNCHANGED match
              ELSE match' = match + 1 /\ UNCHANGED <<phase, exitCode>>
  /\ UNCHANGED <<request, argRecords, argv, argument, data, helpVars>>
-------------------------------------------------------------------------------
\* checkRemainingArguments(argc, argv, true, false): the first word it stops at.
Offending == {i \in 1 .. argc - 1 : arg(i) = Help \/ arg(i) \in Dash1}

\* getValue(): the value an option has by now; lists and messages show none.
GetValue(r) == IF r.type \in {"flag", "value"} THEN data[r.command] ELSE <<>>

\* Characters of entry i that printArg() prints.  A message may be a MAIN_MESSAGE,
\* which is printed without it.
HelpText(i) == IF i <= NumArgs /\ argRecords[i].type = "message" THEN {0, HelpLength}
                                                               ELSE {HelpLength}

Check ==
  /\ phase = "check"
  /\ IF Offending = {}
       THEN phase' = "over" /\ UNCHANGED <<exitCode, helpVars>>
       ELSE /\ phase' = "help"
            /\ exitCode' = IF arg(Min(Offending)) = Help THEN 0 ELSE 103
            /\ maxLen' \in LongestCommands
            /\ entry' = 1 /\ left' \in HelpText(1) /\ UNCHANGED shown
  /\ UNCHANGED <<request, argRecords, argv, argument, match, data>>

\* spaceRemaining of printArg(), in size_t: 80 - 2 - maxLen - 3 - 1.  A command of
\* 74 characters leaves no space, and printArg() would print empty lines for ever.
HelpWidth == (74 - maxLen) % Word

\* printArg(): one line of an entry; after the entries that of --help itself.
PrintLine ==
  /\ phase = "help" /\ left > 0
  /\ left' = left - Min({HelpWidth, left})
  /\ UNCHANGED <<phase, request, argRecords, argv, argument, match, data, exitCode, maxLen, entry, shown>>

PrintNext ==
  /\ phase = "help" /\ left = 0
  /\ IF entry <= NumArgs
       THEN /\ shown' = Append(shown, <<argRecords[entry].command, GetValue(argRecords[entry])>>)
            /\ entry' = entry + 1 /\ left' \in HelpText(entry + 1) /\ UNCHANGED phase
       ELSE phase' = "over" /\ UNCHANGED <<entry, left, shown>>
  /\ UNCHANGED <<request, argRecords, argv, argument, match, data, exitCode, maxLen>>

\* parseArguments() returned or the process ended.
Ended == phase = "over" /\ UNCHANGED argsVars

ArgsStep == \/ Parse \/ NextArgument \/ Mismatch \/ ExitWithoutValue
        \/ TakeFlag \/ TakeValue \/ TakeList \/ SkipMessage
        \/ Check \/ PrintLine \/ PrintNext

ArgsNext == \/ Begin
        \/ \E p \in Presets : SetArgument(p.command, p.type, p.value)
        \/ ArgsStep \/ Ended

ArgsSpec == ArgsInit /\ [][ArgsNext]_argsVars

ArgsTypeOK ==
  /\ phase \in {"new", "set", "parse", "check", "help", "over"}
  /\ argRecords \in Seq([command : Words, type : ArgType]) /\ argv \in Seq(Words)
  /\ Len(argRecords) <= MaximumArguments + 1
  /\ argument \in 0 .. Len(input) + 1 /\ match \in 0 .. NumArgs + 1
  /\ \A c \in DOMAIN data : data[c] \in Seq(Words)
  /\ exitCode \in {Null, 0, 100, 101, 102, 103}
  /\ entry \in 0 .. NumArgs + 1 /\ left \in 0 .. HelpLength
-------------------------------------------------------------------------------
(* What the loops amount to: options are read from left to right. *)

\* The record of a word, or a word of no record.
TypeOf(w) == LET at == {i \in DOMAIN argRecords : argRecords[i].command = w} IN
             IF at = {} THEN "none" ELSE argRecords[CHOOSE i \in at : TRUE].type

\* How many words the option at i takes, its own included; none is left alone.
Span(i) ==
  CASE TypeOf(input[i]) = "flag"  -> 1
    [] TypeOf(input[i]) = "value" -> 2
    [] TypeOf(input[i]) = "list"  ->
         LET stops == {j \in i + 1 .. Len(input) : EndsList(input[j])} \cup {Len(input) + 1}
         IN  Min(stops) - i
    [] OTHER -> 0

\* The positions where an option or a word that stays begins, from i on.
Behind(i) == i + Max({Span(i), 1})
StartsFrom[i \in 1 .. Len(input) + 2] ==
  IF i > Len(input) THEN {} ELSE {i} \cup StartsFrom[Behind(i)]
Starts == StartsFrom[1]

Lacking   == {i \in Starts : /\ TypeOf(input[i]) \in {"value", "message"}
                            /\ (i = Len(input) \/ input[i + 1] \in Dash1 \cap Dash2)}
Forbidden == {i \in Starts : TypeOf(input[i]) = "message" /\ caxoe}
Errors    == Lacking \cup Forbidden

\* The n-th smallest of S, and the words at the positions in S.
Nth(S, n)  == CHOOSE i \in S : Cardinality({j \in S : j <= i}) = n
WordsAt(S) == [n \in 1 .. Cardinality(S) |-> input[Nth(S, n)]]

Kept == {i \in Starts : Span(i) = 0}

\* The value of command c after its options at the positions in at: that of the last of
\* them, or for a list the words it had and those all of them took.
ValueAfter(c, at) ==
  IF at = {} THEN preset[c] ELSE
  CASE TypeOf(c) = "flag"  -> <<c>>
    [] TypeOf(c) = "value" -> <<input[Max(at) + 1]>>
    [] TypeOf(c) = "list"  -> preset[c] \o WordsAt(UNION {i + 1 .. i + Span(i) - 1 : i \in at})
    [] OTHER -> preset[c]
Value(c) == ValueAfter(c, {i \in Starts : input[i] = c})

\* What the help text shows of an argument that is not on the command line.
Default(i) == IF table[i].type \in {"list", "message"} THEN <<>> ELSE preset[table[i].command]

\* parseArguments() stops at the first error; without one, argv keeps exactly the
\* words no option took, in order, every option has its last value, and help lists every
\* option, those that were not given with their defaults.  Not so if the name of a
\* message stays in argv: it is looked at again after the option behind it was removed,
\* and then may lack the value it needs.  Left open is what the code does otherwise than it
\* says: a missing value ends a call that was told not to exit (ArgParser.h:273-274), and
\* help shows of an option that was given its new value (ArgParser.cpp:235).
MessageStays == ~caxoe /\ \E i \in Starts : TypeOf(input[i]) = "message"

ReadsLeftToRight ==
  phase = "over" /\ Len(table) <= MaximumArguments /\ ~MessageStays =>
    IF Errors # {}
      THEN caxoe => exitCode = IF Min(Errors) \in Lacking THEN 101 ELSE 102
      ELSE /\ exitCode \in IF caxoe THEN {Null, 0, 103} ELSE {Null}
           /\ argv = <<Argv0>> \o WordsAt(Kept)
           /\ \A c \in DOMAIN data : data[c] = Value(c)
           /\ exitCode # Null => /\ Len(shown) = Len(table)
                                 /\ \A i \in DOMAIN table :
                                      /\ shown[i][1] = table[i].command
                                      /\ table[i].command \in {input[j] : j \in Starts} \/ shown[i][2] = Default(i)

\* parseArguments() ends, though the index of its loop goes down as well as up, and
\* so does the help text.
CallEnds == (phase = "parse") ~> (phase = "over")
===============================================================================
