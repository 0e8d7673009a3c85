---------------------------- MODULE ArgParserProofs ----------------------------
(***************************************************************************)
(* parseArguments() reads its options from left to right, for every table  *)
(* of valid arguments and every command line.                              *)
(***************************************************************************)
EXTENDS ArgParser, CommonLemmas

LEMMA MinIs ==
  ASSUME NEW S \in SUBSET Int, NEW m \in S, \A x \in S : m <= x
  PROVE  Min(S) = m
<1>1. \A x \in S : (\A y \in S : x <= y) => x = m
  OBVIOUS
<1> QED
  BY <1>1 DEF Min

LEMMA MaxIs ==
  ASSUME NEW S \in SUBSET Int, NEW m \in S, \A x \in S : x <= m
  PROVE  Max(S) = m
<1>1. \A x \in S : (\A y \in S : x >= y) => x = m
  OBVIOUS
<1> QED
  BY <1>1 DEF Max
-------------------------------------------------------------------------------
(* Types. *)

\* The words that a list takes are those up to the first with a '-'.
LEMMA ListTaken ==
  ASSUME argv \in Seq(Words), argument \in Nat, argument < argc
  PROVE  LET list == ListAfter(argument)
             n    == Len(list) IN
         /\ list \in Seq(Words) /\ n \in 0 .. argc - 1 - argument
         /\ \A m \in 1 .. n : list[m] = argv[argument + 1 + m] /\ ~EndsList(list[m])
         /\ n = argc - 1 - argument \/ EndsList(argv[argument + n + 2])
<1> DEFINE stops == {j \in argument + 1 .. argc - 1 : EndsList(arg(j))}
           n     == IF stops = {} THEN argc - 1 - argument ELSE Min(stops) - argument - 1
           list  == ListAfter(argument)
<1>1. argc \in Nat
  BY DEF argc
<1>2. stops \in SUBSET Nat
  BY <1>1
<1>3. n \in 0 .. argc - 1 - argument
  <2>1. CASE stops = {}
    BY <1>1, <2>1
  <2>2. CASE stops # {}
    <3>1. Min(stops) \in stops
      BY <1>2, <2>2, MinOf
    <3> QED
      BY <1>1, <2>2, <3>1
  <2> QED
    BY <2>1, <2>2
<1>4. list = SubSeq(argv, argument + 2, argument + n + 1)
  BY DEF ListAfter
<1>5. \A j \in argument + 1 .. argument + n : j \notin stops
  <2>1. CASE stops = {}
    BY <2>1
  <2>2. CASE stops # {}
    <3>1. \A j \in stops : Min(stops) <= j
      BY <1>2, <2>2, MinOf
    <3>2. Min(stops) \in Nat
      BY <1>2, <2>2, MinOf
    <3>3. Min(stops) = argument + n + 1
      BY <1>1, <2>2, <3>2
    <3> QED
      BY <1>2, <1>3, <3>1, <3>3
  <2> QED
    BY <2>1, <2>2
<1>6. n = argc - 1 - argument \/ argument + n + 1 \in stops
  <2>1. CASE stops = {}
    BY <2>1
  <2>2. CASE stops # {}
    <3>1. Min(stops) \in stops /\ Min(stops) \in Nat
      BY <1>2, <2>2, MinOf
    <3>2. Min(stops) = argument + n + 1
      BY <1>1, <2>2, <3>1
    <3> QED
      BY <3>1, <3>2
  <2> QED
    BY <2>1, <2>2
<1>7. \A j \in argument + 1 .. argc - 1 : j \in stops <=> EndsList(arg(j))
  OBVIOUS
<1> HIDE DEF n, stops
<1>8. list \in Seq(Words) /\ Len(list) = n
      /\ \A m \in 1 .. n : list[m] = argv[argument + 1 + m]
  <2>1. argument + 2 \in 1 .. Len(argv) + 1 /\ argument + n + 1 \in argument + 1 .. Len(argv)
    BY <1>1, <1>3 DEF argc
  <2>2. list = [m \in 1 .. n |-> argv[argument + 1 + m]]
    BY <1>3, <1>4, <2>1 DEF SubSeq
  <2>3. \A m \in 1 .. n : argument + 1 + m \in 1 .. Len(argv)
    BY <1>3, <2>1
  <2> QED
    BY <1>3, <2>2, <2>3
<1>9. ASSUME NEW m \in 1 .. n
      PROVE  ~EndsList(list[m])
  <2>1. argument + m \in argument + 1 .. argument + n /\ argument + m \in argument + 1 .. argc - 1
    BY <1>1, <1>3
  <2>2. list[m] = arg(argument + m)
    BY <1>3, <1>8 DEF arg
  <2> QED
    BY <1>5, <1>7, <2>1, <2>2
<1>10. ASSUME n # argc - 1 - argument
       PROVE  EndsList(argv[argument + n + 2])
  <2>1. argument + n + 1 \in argument + 1 .. argc - 1 /\ arg(argument + n + 1) = argv[argument + n + 2]
    BY <1>1, <1>3, <1>10 DEF arg
  <2> QED
    BY <1>6, <1>7, <1>10, <2>1
<1> QED
  BY <1>3, <1>8, <1>9, <1>10

\* n words less.
LEMMA WithoutWords ==
  ASSUME argv \in Seq(Words), NEW i \in Nat, NEW n \in Nat, i + n <= argc
  PROVE  /\ Without(i, n) \in Seq(Words) /\ Len(Without(i, n)) = argc - n
         /\ \A j \in 1 .. i : Without(i, n)[j] = argv[j]
         /\ \A j \in i + 1 .. argc - n : Without(i, n)[j] = argv[j + n]
<1>1. argc \in Nat /\ argc - n \in Nat
  BY DEF argc
<1>2. \A j \in 1 .. argc - n : (IF j <= i THEN argv[j] ELSE argv[j + n]) \in Words
  <2> SUFFICES ASSUME NEW j \in 1 .. argc - n
               PROVE  (IF j <= i THEN argv[j] ELSE argv[j + n]) \in Words
    OBVIOUS
  <2>1. j \in 1 .. Len(argv) /\ j + n \in 1 .. Len(argv)
    BY <1>1 DEF argc
  <2> QED
    BY <2>1
<1> QED
  BY <1>1, <1>2 DEF Without
-------------------------------------------------------------------------------
\* What ArgsTypeOK rests on: the call has its table and its words, removeArgument()
\* leaves the program's name in front, and the loop does not run below it.
Begun ==
  /\ table \in Tables /\ argRecords = table /\ Len(table) <= MaximumArguments
  /\ DOMAIN data = {table[i].command : i \in DOMAIN table}
  /\ input \in Seq(Words) /\ argc \in 1 .. Len(input) + 1 /\ argv[1] = Argv0

Unread == argument = 1 /\ match = 0 /\ argv = <<Argv0>> \o input

Silent == entry = 0 /\ left = 0 /\ shown = <<>>

Typed ==
  /\ ArgsTypeOK
  /\ input \in Seq(Words) /\ caxoe \in BOOLEAN /\ maxLen \in Nat
  /\ phase = "new" => argument = 1 /\ match = 0 /\ exitCode = Null /\ Silent
  /\ phase = "set" => Begun /\ Unread /\ exitCode = Null /\ Silent
  /\ phase = "parse" => /\ Begun /\ exitCode = Null /\ Silent
                        /\ IF match = 0 THEN argument \in 1 .. argc ELSE argument \in 0 .. argc - 1
  /\ phase = "check" => Begun /\ exitCode = Null /\ Silent
  /\ phase = "help" => Begun /\ exitCode \in {0, 103} /\ entry # 0

\* What matches is a word behind the program's name.
LEMMA MatchedWord ==
  ASSUME Typed, Matches
  PROVE  /\ argument \in 1 .. argc - 1 /\ argRecords[match] \in [command : Words \ {Argv0}, type : ArgType]
         /\ Record.command = argv[argument + 1] /\ match \in DOMAIN argRecords
         /\ Record.command \in DOMAIN data /\ argc \in Nat
<1>1. phase = "parse" /\ match \in 1 .. Len(argRecords) /\ argument < argc
  BY DEF Matches, InnerLoop, NumArgs
<1>2. Begun
  BY <1>1 DEF Typed
<1>3. argRecords \in Seq([command : Words \ {Argv0}, type : ArgType])
  BY <1>2, ArgParserAssumption DEF Begun
<1>4. argRecords[match] \in [command : Words \ {Argv0}, type : ArgType]
  <2> DEFINE R == [command : Words \ {Argv0}, type : ArgType]
  <2> HIDE DEF R
  <2>1. argRecords \in Seq(R)
    BY <1>3 DEF R
  <2>2. argRecords[match] \in R
    BY <1>1, <2>1
  <2> QED
    BY <2>2 DEF R
<1>5. Record.command = argv[argument + 1] /\ Record.command # Argv0
  BY <1>4 DEF Matches, Record, arg
<1>6. argument \in 0 .. argc - 1 /\ argument # 0 /\ argc \in Nat
  BY <1>1, <1>2, <1>5 DEF Typed, Begun
<1>7. match \in DOMAIN argRecords
  BY <1>1, <1>3
<1>8. Record.command \in DOMAIN data
  BY <1>2, <1>7 DEF Begun, Record
<1> QED
  BY <1>4, <1>5, <1>6, <1>7, <1>8

LEMMA TypedTake ==
  ASSUME Typed, Matches, NEW n \in Nat \ {0}, argument + n <= argc,
         NEW value \in Seq(Words), Take(n, value)
  PROVE  Typed'
<1>1. /\ argument \in 1 .. argc - 1 /\ match \in DOMAIN argRecords /\ argc \in Nat
      /\ Record.command \in DOMAIN data
  BY MatchedWord
<1>2. phase = "parse" /\ Begun /\ argv \in Seq(Words) /\ match \in 1 .. Len(argRecords)
  BY DEF Matches, InnerLoop, Typed, ArgsTypeOK, NumArgs
<1>3. argv' \in Seq(Words) /\ argc' = argc - n /\ argv'[1] = argv[1]
  <2>1. argv' = Without(argument, n) /\ argument \in Nat /\ 1 \in 1 .. argument
    BY <1>1 DEF Take
  <2>2. argv' \in Seq(Words) /\ Len(argv') = argc - n /\ argv'[1] = argv[1]
    BY <1>2, <2>1, WithoutWords
  <2> QED
    BY <2>2 DEF argc
<1>4. data' = [data EXCEPT ![Record.command] = value]
  BY DEF Take
<1>5. DOMAIN data' = DOMAIN data /\ \A c \in DOMAIN data' : data'[c] \in Seq(Words)
  <2> HIDE DEF Record
  <2> QED
    BY <1>4 DEF Typed, ArgsTypeOK
<1>6. argument' = argument - 1 /\ match' = match + 1 /\ UNCHANGED <<phase, request, argRecords, exitCode, helpVars>>
  BY DEF Take
<1>7. Begun'
  BY <1>1, <1>2, <1>3, <1>5, <1>6 DEF Begun, request
<1>8. argument' \in 0 .. argc' - 1
  BY <1>1, <1>3, <1>6
<1>9. ArgsTypeOK'
  <2>1. argument' \in 0 .. Len(input') + 1
    <3> DEFINE len == Len(input')
               size == argc'
    <3>3. len \in Nat
      BY <1>7 DEF Begun
    <3>4. size \in 1 .. len + 1
      BY <1>7 DEF Begun
    <3>1. len \in Nat /\ size \in 1 .. len + 1 /\ argument' \in 0 .. size - 1
      BY <1>8, <3>3, <3>4
    <3> HIDE DEF len, size
    <3>2. argument' \in 0 .. len + 1
      BY <3>1
    <3> QED
      BY <3>2 DEF len
  <2>2. match' \in 0 .. NumArgs' + 1
    BY <1>2, <1>6 DEF NumArgs
  <2>3. NumArgs' = NumArgs
    BY <1>6 DEF NumArgs
  <2> QED
    BY <1>3, <1>5, <1>6, <2>1, <2>2, <2>3 DEF ArgsTypeOK, Typed, helpVars
<1>10. match' # 0
  BY <1>2, <1>6
<1> QED
  BY <1>2, <1>6, <1>7, <1>8, <1>9, <1>10 DEF Typed, request, helpVars, Silent

\* The other rounds of the loops only count, or leave the loops.
LEMMA TypedRounds ==
  ASSUME Typed, NextArgument \/ Mismatch \/ ExitWithoutValue \/ SkipMessage
  PROVE  Typed'
<1>1. phase = "parse" /\ Begun /\ UNCHANGED <<request, argRecords, argv, data, helpVars>>
  BY DEF NextArgument, Mismatch, ExitWithoutValue, SkipMessage, Matches, InnerLoop, Typed
<1>2. Begun' /\ Silent' /\ argc' = argc /\ NumArgs' = NumArgs /\ argc \in Nat /\ NumArgs \in Nat
  BY <1>1 DEF Begun, Silent, Typed, request, helpVars, argc, NumArgs, ArgsTypeOK
<1>3. argument \in 0 .. argc /\ argc \in 1 .. Len(input) + 1 /\ match \in 0 .. NumArgs + 1 /\ Len(input) \in Nat
  BY <1>1 DEF Typed, Begun, ArgsTypeOK
<1>4. argument' \in 0 .. Len(input) + 1 /\ match' \in 0 .. NumArgs + 1
  <2>1. CASE NextArgument
    BY <1>1, <1>2, <1>3, <2>1 DEF NextArgument, Typed
  <2>2. CASE Mismatch
    BY <1>2, <1>3, <2>2 DEF Mismatch, InnerLoop
  <2>3. CASE ExitWithoutValue
    BY <1>3, <2>3 DEF ExitWithoutValue
  <2>4. CASE SkipMessage
    BY <1>2, <1>3, <2>4 DEF SkipMessage, Matches, InnerLoop, Exit
  <2> QED
    BY <2>1, <2>2, <2>3, <2>4
<1>5. phase' \in {"parse", "check", "over"} /\ exitCode' \in {Null, 101, 102}
  BY <1>1 DEF NextArgument, Mismatch, ExitWithoutValue, SkipMessage, Exit, Typed
<1>6. phase' # "over" => exitCode' = Null
  BY <1>1 DEF NextArgument, Mismatch, ExitWithoutValue, SkipMessage, Exit, Typed
<1>7. ASSUME phase' = "parse"
      PROVE  IF match' = 0 THEN argument' \in 1 .. argc ELSE argument' \in 0 .. argc - 1
  <2>1. CASE NextArgument
    BY <1>1, <1>2, <1>3, <1>7, <2>1 DEF NextArgument, Typed
  <2>2. CASE Mismatch
    BY <1>1, <1>2, <1>3, <2>2 DEF Mismatch, InnerLoop, Typed
  <2>3. CASE ExitWithoutValue
    BY <1>7, <2>3 DEF ExitWithoutValue, Exit
  <2>4. CASE SkipMessage
    BY <1>1, <1>2, <1>3, <1>7, <2>4 DEF SkipMessage, Matches, InnerLoop, Exit, Typed
  <2> QED
    BY <2>1, <2>2, <2>3, <2>4
<1>8. ArgsTypeOK'
  BY <1>1, <1>2, <1>4, <1>5 DEF ArgsTypeOK, Typed, request, helpVars
<1> QED
  BY <1>1, <1>2, <1>5, <1>6, <1>7, <1>8 DEF Typed, request, helpVars

\* Words that a value, a flag or a list takes are there to take.
LEMMA TypedOptions ==
  ASSUME Typed, TakeFlag \/ TakeValue \/ TakeList
  PROVE  Typed'
<1>1. Matches
  BY DEF TakeFlag, TakeValue, TakeList
<1>2. argument \in 1 .. argc - 1 /\ argc \in Nat /\ Record.command \in DOMAIN data
  BY <1>1, MatchedWord
<1>3. argv \in Seq(Words) /\ data[Record.command] \in Seq(Words)
  BY <1>2 DEF Typed, ArgsTypeOK
<1>4. CASE TakeFlag
  <2>1. arg(argument) \in Words
    BY <1>2, <1>3 DEF arg, argc
  <2> DEFINE value == <<arg(argument)>>
  <2>2. value \in Seq(Words) /\ Take(1, value)
    BY <1>4, <2>1 DEF TakeFlag
  <2> HIDE DEF value
  <2> QED
    BY <1>1, <1>2, <2>2, TypedTake
<1>5. CASE TakeValue
  <2>1. Record.type = "value" /\ ~ValueMissing
    BY <1>5 DEF TakeValue
  <2>2. argument + 1 < argc
    BY <2>1 DEF ValueMissing, IsValue
  <2>3. arg(argument + 1) \in Words
    BY <1>2, <1>3, <2>2 DEF arg, argc
  <2> DEFINE value == <<arg(argument + 1)>>
  <2>4. value \in Seq(Words) /\ Take(2, value) /\ argument + 2 <= argc
    BY <1>2, <1>5, <2>2, <2>3 DEF TakeValue
  <2> HIDE DEF value
  <2> QED
    BY <1>1, <2>4, TypedTake
<1>6. CASE TakeList
  <2> DEFINE list == ListAfter(argument)
  <2>1. list \in Seq(Words) /\ Len(list) \in 0 .. argc - 1 - argument
    BY <1>2, <1>3, ListTaken
  <2>2. Take(Len(list) + 1, data[Record.command] \o list)
    BY <1>6 DEF TakeList
  <2> HIDE DEF list
  <2>3. Len(list) + 1 \in Nat \ {0} /\ argument + (Len(list) + 1) <= argc
    BY <1>2, <2>1
  <2>4. data[Record.command] \o list \in Seq(Words)
    BY <1>3, <2>1, ConcatProperties
  <2> QED
    BY <1>1, <2>2, <2>3, <2>4, TypedTake
<1> QED
  BY <1>4, <1>5, <1>6

LEMMA TypedInit == ArgsInit => Typed
<1> SUFFICES ASSUME ArgsInit
             PROVE  Typed
  OBVIOUS
<1>1. argRecords = <<>> /\ argv = <<>> /\ input = <<>> /\ data = <<>>
  BY DEF ArgsInit
<1>2. /\ argRecords \in Seq([command : Words, type : ArgType]) /\ argv \in Seq(Words)
      /\ Len(argRecords) = 0 /\ Len(input) = 0 /\ DOMAIN data = {} /\ input \in Seq(Words)
  BY <1>1
<1>3. ArgsTypeOK
  BY <1>2, ArgParserAssumption DEF ArgsInit, ArgsTypeOK, NumArgs
<1> QED
  BY <1>2, <1>3 DEF ArgsInit, Typed, Silent

\* A table with too many arguments ends the process; of the others nothing is lost.
LEMMA TypedBegin ==
  ASSUME Typed, Begin
  PROVE  Typed'
<1>1. phase = "new" /\ argument = 1 /\ match = 0 /\ exitCode = Null /\ Silent
  BY DEF Begin, Typed
<1>2. /\ table' \in Tables /\ input' \in Seq(Words) /\ caxoe' \in BOOLEAN
      /\ argv' = <<Argv0>> \o input' /\ Argv0 \in Words
  BY ArgParserAssumption DEF Begin
<1> DEFINE R == [command : Words, type : ArgType]
<1>3. table' \in Seq(R)
  <2> DEFINE P == [command : Words \ {Argv0}, type : ArgType]
  <2>1. P \subseteq R /\ table' \in Seq(P)
    BY <1>2, ArgParserAssumption
  <2> HIDE DEF P, R
  <2> QED
    BY <2>1
<1>4. argv' \in Seq(Words) /\ Len(argv') = Len(input') + 1 /\ argv'[1] = Argv0 /\ Len(input') \in Nat
  <2>1. <<Argv0>> \in Seq(Words) /\ Len(<<Argv0>>) = 1 /\ <<Argv0>>[1] = Argv0
    BY <1>2
  <2> DEFINE a == <<Argv0>>
  <2> HIDE DEF a
  <2>2. a \o input' \in Seq(Words) /\ Len(a \o input') = 1 + Len(input') /\ (a \o input')[1] = Argv0
    BY <1>2, <2>1, ConcatProperties DEF a
  <2> QED
    BY <1>2, <2>2 DEF a
<1>5. DOMAIN data' = {table'[i].command : i \in DOMAIN table'} /\ \A c \in DOMAIN data' : data'[c] = <<>>
  BY DEF Begin
<1>6. \A c \in DOMAIN data' : data'[c] \in Seq(Words)
  <2>1. <<>> \in Seq(Words)
    OBVIOUS
  <2> QED
    BY <1>5, <2>1
<1>7. UNCHANGED <<argument, match, helpVars>>
  BY DEF Begin
<1>8. MaximumArguments \in Nat
  BY ArgParserAssumption
<1>9. Len(table') \in Nat
  BY <1>3
<1>10. CASE Len(table') > MaximumArguments
  <2>1. phase' = "over" /\ exitCode' = 100 /\ argRecords' = SubSeq(table', 1, MaximumArguments + 1)
    BY <1>10 DEF Begin, Exit
  <2>2. argRecords' \in Seq(R) /\ Len(argRecords') = MaximumArguments + 1
    <3> HIDE DEF R
    <3> QED
      BY <1>3, <1>8, <1>9, <1>10, <2>1, SubSeqProperties
  <2>3. ArgsTypeOK'
    BY <1>1, <1>4, <1>6, <1>7, <1>8, <2>1, <2>2 DEF ArgsTypeOK, NumArgs, helpVars, Silent, Typed
  <2> QED
    BY <1>2, <1>7, <2>1, <2>3 DEF Typed, helpVars
<1>11. CASE Len(table') <= MaximumArguments
  <2>1. phase' = "set" /\ exitCode' = Null /\ argRecords' = table'
    BY <1>1, <1>8, <1>9, <1>11 DEF Begin
  <2>2. ArgsTypeOK'
    BY <1>1, <1>3, <1>4, <1>6, <1>7, <1>8, <1>9, <1>11, <2>1 DEF ArgsTypeOK, NumArgs, helpVars, Silent, Typed
  <2>3. Begun'
    BY <1>2, <1>4, <1>5, <1>11, <2>1 DEF Begun, argc
  <2>4. Unread' /\ Silent'
    BY <1>1, <1>2, <1>7 DEF Unread, Silent, helpVars
  <2> QED
    BY <1>1, <1>2, <1>7, <2>1, <2>2, <2>3, <2>4 DEF Typed, helpVars
<1> QED
  BY <1>8, <1>9, <1>10, <1>11

LEMMA TypedSetArgument ==
  ASSUME Typed, NEW p \in Presets, SetArgument(p.command, p.type, p.value)
  PROVE  Typed'
<1>1. phase = "set" /\ Begun /\ Unread /\ Silent /\ exitCode = Null
  BY DEF SetArgument, Typed
<1>2. p.value \in Seq(Words)
  BY ArgParserAssumption
<1>3. UNCHANGED <<phase, request, argRecords, argv, argument, match, exitCode, helpVars>>
  BY DEF SetArgument
<1>4. DOMAIN data' = DOMAIN data /\ \A c \in DOMAIN data' : data'[c] \in Seq(Words)
  <2>1. data' = [data EXCEPT ![p.command] = p.value] \/ data' = data
    BY DEF SetArgument
  <2> QED
    BY <1>2, <2>1 DEF Typed, ArgsTypeOK
<1>5. Begun' /\ Unread' /\ Silent'
  BY <1>1, <1>3, <1>4 DEF Begun, Unread, Silent, request, helpVars, argc
<1>6. ArgsTypeOK'
  BY <1>3, <1>4 DEF ArgsTypeOK, Typed, NumArgs, request, helpVars
<1> QED
  BY <1>1, <1>3, <1>5, <1>6 DEF Typed, request, helpVars

LEMMA TypedParse ==
  ASSUME Typed, Parse
  PROVE  Typed'
<1>1. phase = "set" /\ phase' = "parse" /\ Begun /\ Unread /\ Silent /\ exitCode = Null
  BY DEF Parse, Typed
<1>2. UNCHANGED <<table, input, caxoe, argRecords, argv, argument, match, data, exitCode, helpVars>>
  BY DEF Parse
<1>3. Begun' /\ Silent'
  BY <1>1, <1>2 DEF Begun, Silent, helpVars, argc
<1>4. ArgsTypeOK'
  BY <1>1, <1>2 DEF ArgsTypeOK, Typed, NumArgs, helpVars
<1>5. match' = 0 /\ argument' = 1 /\ argc' \in 1 .. Len(input') + 1 /\ Len(input') \in Nat
  BY <1>1, <1>2, <1>3 DEF Unread, Begun
<1> QED
  BY <1>1, <1>2, <1>3, <1>4, <1>5 DEF Typed, helpVars

\* The help text: printLine() takes no more than is left.
LEMMA TypedHelp ==
  ASSUME Typed, Check \/ PrintLine \/ PrintNext
  PROVE  Typed'
<1>1. /\ phase \in {"check", "help"} /\ Begun
      /\ UNCHANGED <<request, argRecords, argv, argument, match, data>>
  BY DEF Check, PrintLine, PrintNext, Typed
<1>2. Begun' /\ NumArgs' = NumArgs /\ NumArgs \in Nat
  BY <1>1 DEF Begun, request, argc, NumArgs, Typed, ArgsTypeOK
<1>3. \A i : HelpText(i) \subseteq {0, HelpLength}
  BY DEF HelpText
<1>4. HelpLength \in Nat /\ LongestCommands \subseteq Nat /\ {0, HelpLength} \subseteq 0 .. HelpLength
  BY ArgParserAssumption
<1>5. maxLen' \in Nat
  BY <1>4 DEF Check, PrintLine, PrintNext, Typed, helpVars
<1>6. entry' \in 0 .. NumArgs + 1 /\ left' \in 0 .. HelpLength
  <2>1. entry \in 0 .. NumArgs + 1 /\ left \in 0 .. HelpLength /\ maxLen \in Nat
    BY DEF Typed, ArgsTypeOK
  <2>2. CASE Check
    BY <1>2, <1>3, <1>4, <2>1, <2>2 DEF Check, helpVars
  <2>3. CASE PrintLine
    <3>1. HelpWidth \in Nat
      BY <2>1, ArgParserAssumption DEF HelpWidth
    <3>2. Min({HelpWidth, left}) \in {HelpWidth, left} /\ Min({HelpWidth, left}) <= left
      <4> HIDE DEF HelpWidth
      <4>1. {HelpWidth, left} \in SUBSET Nat /\ {HelpWidth, left} # {} /\ left \in {HelpWidth, left}
        BY <2>1, <3>1
      <4> QED
        BY <4>1, MinOf
    <3> DEFINE m == Min({HelpWidth, left})
    <3> HIDE DEF m, HelpWidth
    <3>3. left' = left - m /\ entry' = entry /\ m \in Nat /\ m <= left
      BY <2>1, <2>3, <3>1, <3>2 DEF PrintLine, m
    <3> QED
      BY <1>4, <2>1, <3>3
  <2>4. CASE PrintNext
    BY <1>2, <1>3, <1>4, <2>1, <2>4 DEF PrintNext
  <2> QED
    BY <2>2, <2>3, <2>4
<1>7. /\ phase' \in {"help", "over"} /\ exitCode' \in {Null, 0, 103}
      /\ phase' = "help" => exitCode' \in {0, 103} /\ entry' # 0
  <2>1. CASE Check
    BY <2>1 DEF Check, Typed
  <2>2. CASE PrintLine
    BY <2>2 DEF PrintLine, Typed
  <2>3. CASE PrintNext
    <3>1. phase = "help" /\ exitCode' = exitCode
      BY <2>3 DEF PrintNext
    <3>2. entry # 0 /\ entry \in Nat
      BY <1>2, <3>1 DEF Typed, ArgsTypeOK
    <3> QED
      BY <2>3, <3>1, <3>2 DEF PrintNext, Typed
  <2> QED
    BY <2>1, <2>2, <2>3
<1>8. ArgsTypeOK'
  BY <1>1, <1>2, <1>6, <1>7 DEF ArgsTypeOK, Typed, request
<1> QED
  BY <1>1, <1>2, <1>5, <1>7, <1>8 DEF Typed, request

LEMMA TypedSteps ==
  ASSUME Typed, [ArgsNext]_argsVars
  PROVE  Typed'
<1>1. CASE Begin
  BY <1>1, TypedBegin
<1>2. ASSUME NEW p \in Presets, SetArgument(p.command, p.type, p.value)
      PROVE  Typed'
  BY <1>2, TypedSetArgument
<1>3. CASE ArgsStep
  BY <1>3, TypedParse, TypedRounds, TypedOptions, TypedHelp DEF ArgsStep
<1>4. CASE UNCHANGED argsVars
  <2> USE DEF argsVars, request, helpVars
  <2>1. ArgsTypeOK' /\ Begun' = Begun /\ Unread' = Unread /\ Silent' = Silent /\ argc' = argc
    BY <1>4 DEF Typed, ArgsTypeOK, NumArgs, Begun, Unread, Silent, argc
  <2> QED
    BY <1>4, <2>1 DEF Typed
<1> QED
  BY <1>1, <1>2, <1>3, <1>4 DEF ArgsNext, Ended

LEMMA AlwaysTyped == ArgsSpec => []Typed
BY TypedInit, TypedSteps, PTL DEF ArgsSpec

\* The types of the parser: its indices stay in their arrays, argv keeps the program's
\* name, and of the help text no more is printed than there is.
THEOREM ArgsTyped == ArgsSpec => []ArgsTypeOK
<1>1. Typed => ArgsTypeOK
  BY DEF Typed
<1> QED
  BY <1>1, AlwaysTyped, PTL
-------------------------------------------------------------------------------
(* The n-th smallest of a set of positions. *)

LEMMA NthIs ==
  ASSUME NEW S \in SUBSET Int, IsFiniteSet(S), NEW i \in S, NEW n,
         Cardinality({j \in S : j <= i}) = n
  PROVE  Nth(S, n) = i
<1>1. ASSUME NEW h \in S, NEW k \in S, h < k,
             Cardinality({j \in S : j <= h}) = Cardinality({j \in S : j <= k})
      PROVE  FALSE
  <2> DEFINE H == {j \in S : j <= h}
             K == {j \in S : j <= k}
  <2>1. K \in SUBSET S /\ H \in SUBSET K /\ k \in K /\ k \notin H
    <3>1. \A j \in S : j <= h => j <= k
      BY <1>1
    <3>2. h \in Int /\ k \in Int /\ k <= k /\ ~(k <= h)
      BY <1>1
    <3> QED
      BY <3>1, <3>2
  <2>2. IsFiniteSet(K)
    BY <2>1, FS_Subset
  <2>3. H = K
    BY <1>1, <2>1, <2>2, FS_Subset
  <2> QED
    BY <2>1, <2>3
<1>2. \A h \in S : Cardinality({j \in S : j <= h}) = n => h = i
  <2> SUFFICES ASSUME NEW h \in S, Cardinality({j \in S : j <= h}) = n, h # i
               PROVE  FALSE
    OBVIOUS
  <2>1. h < i \/ i < h
    OBVIOUS
  <2> QED
    BY <1>1, <2>1
<1> QED
  BY <1>2 DEF Nth

\* A finite set has an n-th smallest.
LEMMA NthFacts ==
  ASSUME NEW S \in SUBSET Int, IsFiniteSet(S), NEW n \in 1 .. Cardinality(S)
  PROVE  Nth(S, n) \in S /\ Cardinality({j \in S : j <= Nth(S, n)}) = n
<1> DEFINE Lower(T) == \A i \in T, j \in S : j < i => j \in T
           B == {T \in SUBSET S : Lower(T) /\ n <= Cardinality(T)}
<1>1. B \in SUBSET SUBSET S /\ S \in B
  BY FS_CardinalityType
<1>2. PICK T \in B : \A R \in B : Cardinality(T) <= Cardinality(R)
  <2> HIDE DEF B
  <2> QED
    BY <1>1, SmallestSet
<1>3. T \in SUBSET S /\ Lower(T) /\ n <= Cardinality(T) /\ IsFiniteSet(T) /\ Cardinality(T) \in Nat
  BY FS_Subset, FS_CardinalityType
<1>4. T # {}
  BY <1>3, FS_EmptySet
\* the upper parts of T
<1> DEFINE U == {R \in SUBSET T : R # {} /\ \A i \in R, j \in T : i < j => j \in R}
<1>5. PICK R \in U : \A Q \in U : Cardinality(R) <= Cardinality(Q)
  <2>1. U \in SUBSET SUBSET T /\ T \in U
    BY <1>4
  <2> HIDE DEF U
  <2> QED
    BY <1>3, <2>1, SmallestSet
<1>6. PICK m \in R : TRUE
  OBVIOUS
<1>7. \A j \in T : j <= m
  <2> SUFFICES ASSUME NEW j \in T, m < j
               PROVE  FALSE
    BY <1>3, <1>6
  <2> DEFINE Q == R \ {m}
  <2>1. \A i \in Q, h \in T : i < h => h \in Q
    <3> SUFFICES ASSUME NEW i \in Q, NEW h \in T, i < h, h = m
                 PROVE  FALSE
      OBVIOUS
    <3> DEFINE V == {x \in R : m < x}
    <3>1. V \in U
      <4>1. V \in SUBSET T /\ j \in V
        OBVIOUS
      <4>2. \A x \in V, y \in T : x < y => y \in V
        BY <1>3
      <4> QED
        BY <4>1, <4>2
    <3>2. IsFiniteSet(R) /\ V \in SUBSET R /\ m \notin V
      <4>1. R \in SUBSET T /\ m \in Int
        BY <1>3, <1>5, <1>6
      <4>2. IsFiniteSet(R)
        BY <1>3, <4>1, FS_Subset
      <4> QED
        BY <4>1, <4>2
    <3>3. Cardinality(V) <= Cardinality(R) /\ Cardinality(R) <= Cardinality(V)
          /\ Cardinality(R) \in Nat /\ Cardinality(V) \in Nat
      BY <1>5, <3>1, <3>2, FS_Subset, FS_CardinalityType
    <3>4. R = V
      BY <3>2, <3>3, FS_Subset
    <3> QED
      BY <1>6, <3>2, <3>4
  <2>2. j \in R /\ j \in Q
    BY <1>5, <1>6
  <2>3. Q \in U
    BY <2>1, <2>2
  <2>4. IsFiniteSet(R) /\ Cardinality(Q) = Cardinality(R) - 1 /\ Cardinality(R) \in Nat
    BY <1>3, <1>6, FS_Subset, FS_RemoveElement, FS_CardinalityType
  <2>5. Cardinality(R) <= Cardinality(Q)
    BY <1>5, <2>3
  <2> QED
    BY <2>4, <2>5
<1>8. m \in T /\ m \in S /\ m \in Int
  BY <1>3, <1>5, <1>6
<1>9. T = {j \in S : j <= m}
  <2>1. ASSUME NEW j \in S, j <= m
        PROVE  j \in T
    BY <1>3, <1>8, <2>1
  <2>2. T \in SUBSET S
    BY <1>3
  <2> QED
    BY <1>7, <2>1, <2>2
<1>10. Cardinality(T) = n
  <2> DEFINE Q == T \ {m}
  <2>1. Lower(Q)
    BY <1>3, <1>7, <1>8
  <2>2. Cardinality(Q) = Cardinality(T) - 1
    BY <1>3, <1>8, FS_RemoveElement
  <2>3. ~(n <= Cardinality(Q))
    <3> SUFFICES ASSUME n <= Cardinality(Q)
                 PROVE  FALSE
      OBVIOUS
    <3>1. Q \in B
      BY <1>3, <2>1
    <3>2. Cardinality(T) <= Cardinality(Q)
      BY <1>2, <3>1
    <3> QED
      BY <1>3, <2>2, <3>2
  <2>4. n \in Nat
    BY FS_CardinalityType
  <2> QED
    BY <1>3, <2>2, <2>3, <2>4
<1>11. Nth(S, n) = m
  BY <1>8, <1>9, <1>10, NthIs
<1> QED
  BY <1>8, <1>9, <1>10, <1>11

\* Positions behind all others are counted after them.
LEMMA NthBehind ==
  ASSUME NEW S \in SUBSET Int, IsFiniteSet(S), NEW a \in Int, NEW b \in Int,
         \A i \in S : i < a, a <= b + 1
  PROVE  LET T == S \cup (a .. b)
             c == Cardinality(S) IN
         /\ c \in Nat /\ Cardinality(T) = c + b + 1 - a
         /\ \A n \in 1 .. c : Nth(T, n) = Nth(S, n)
         /\ \A n \in 1 .. b + 1 - a : Nth(T, c + n) = a - 1 + n
<1> DEFINE T == S \cup (a .. b)
           c == Cardinality(S)
<1>1. c \in Nat
  BY FS_CardinalityType
<1>2. ASSUME NEW e \in Int, a <= e + 1
      PROVE  IsFiniteSet(S \cup (a .. e)) /\ Cardinality(S \cup (a .. e)) = c + e + 1 - a
  <2>1. IsFiniteSet(a .. e) /\ Cardinality(a .. e) = e + 1 - a
    BY <1>2, FS_Interval
  <2>2. S \cap (a .. e) = {}
    OBVIOUS
  <2>3. Cardinality(S \cap (a .. e)) = 0
    BY <2>2, FS_EmptySet
  <2>4. IsFiniteSet(S \cup (a .. e))
        /\ Cardinality(S \cup (a .. e)) = Cardinality(S) + Cardinality(a .. e) - Cardinality(S \cap (a .. e))
    BY <2>1, FS_Union
  <2> QED
    BY <1>1, <2>1, <2>3, <2>4
<1>3. IsFiniteSet(T) /\ Cardinality(T) = c + b + 1 - a /\ T \in SUBSET Int
  BY <1>2
<1>4. ASSUME NEW n \in 1 .. c
      PROVE  Nth(T, n) = Nth(S, n)
  <2> DEFINE i == Nth(S, n)
  <2>1. i \in S /\ Cardinality({j \in S : j <= i}) = n
    BY <1>4, NthFacts
  <2> HIDE DEF i
  <2>2. {j \in T : j <= i} = {j \in S : j <= i} /\ i \in T
    BY <2>1
  <2> HIDE DEF T
  <2>3. Nth(T, n) = i
    BY <1>3, <2>1, <2>2, NthIs
  <2> QED
    BY <2>3 DEF i
<1>5. ASSUME NEW n \in 1 .. b + 1 - a
      PROVE  Nth(T, c + n) = a - 1 + n
  <2> DEFINE i == a - 1 + n
  <2>1. i \in T /\ i \in Int
    OBVIOUS
  <2>2. {j \in T : j <= i} = S \cup (a .. i)
    <3>1. a <= i /\ i <= b
      OBVIOUS
    <3>2. \A j \in S : j <= i
      BY <2>1, <3>1
    <3>3. \A j \in Int : j \in a .. b /\ j <= i <=> j \in a .. i
      BY <2>1, <3>1
    <3>4. \A j : j \in a .. b => j \in Int
      OBVIOUS
    <3>5. \A j : j \in a .. i => j \in Int
      OBVIOUS
    <3>6. \A j : j \in T <=> j \in S \/ j \in a .. b
      OBVIOUS
    <3> HIDE DEF i, T
    <3>7. ASSUME NEW j
          PROVE  j \in T /\ j <= i <=> j \in S \cup (a .. i)
      BY <3>2, <3>3, <3>4, <3>5, <3>6
    <3> QED
      BY <3>7
  <2>3. Cardinality(S \cup (a .. i)) = c + n
    <3>1. a <= i + 1 /\ c + i + 1 - a = c + n
      BY <1>1
    <3> HIDE DEF i, c
    <3> QED
      BY <1>2, <2>1, <3>1
  <2> HIDE DEF T, i, c
  <2>4. Nth(T, c + n) = i
    BY <1>3, <2>1, <2>2, <2>3, NthIs
  <2> QED
    BY <2>4 DEF i
<1> QED
  BY <1>1, <1>3, <1>4, <1>5

\* The words there.
LEMMA WordsBehind ==
  ASSUME NEW S \in SUBSET Int, IsFiniteSet(S), NEW a \in Int, NEW b \in Int,
         \A i \in S : i < a, a <= b + 1
  PROVE  LET T == S \cup (a .. b)
             c == Cardinality(S) IN
         /\ c \in Nat /\ Cardinality(T) = c + b + 1 - a
         /\ \A n \in 1 .. c : WordsAt(T)[n] = WordsAt(S)[n]
         /\ \A n \in 1 .. b + 1 - a : WordsAt(T)[c + n] = input[a - 1 + n]
<1> DEFINE T == S \cup (a .. b)
           c == Cardinality(S)
<1>1. /\ c \in Nat /\ Cardinality(T) = c + b + 1 - a
      /\ \A n \in 1 .. c : Nth(T, n) = Nth(S, n)
      /\ \A n \in 1 .. b + 1 - a : Nth(T, c + n) = a - 1 + n
  BY NthBehind
<1>2. \A n \in 1 .. Cardinality(T) : WordsAt(T)[n] = input[Nth(T, n)]
  BY DEF WordsAt
<1>3. \A n \in 1 .. c : WordsAt(S)[n] = input[Nth(S, n)]
  BY DEF WordsAt
<1> HIDE DEF T, c
<1>4. \A n \in 1 .. c : n \in 1 .. Cardinality(T)
  BY <1>1
<1>5. \A n \in 1 .. b + 1 - a : c + n \in 1 .. Cardinality(T)
  BY <1>1
<1>6. \A n \in 1 .. c : WordsAt(T)[n] = WordsAt(S)[n]
  BY <1>1, <1>2, <1>3, <1>4
<1>7. \A n \in 1 .. b + 1 - a : WordsAt(T)[c + n] = input[a - 1 + n]
  BY <1>1, <1>2, <1>5
<1> QED
  BY <1>1, <1>6, <1>7 DEF T, c
-------------------------------------------------------------------------------
(* The records of words, and where options begin. *)

LEMMA TypeFacts ==
  ASSUME Begun
  PROVE  /\ \A i \in DOMAIN argRecords : TypeOf(argRecords[i].command) = argRecords[i].type
         /\ \A w : TypeOf(w) \in ArgType \cup {"none"}
         /\ \A w : TypeOf(w) = "none" <=> \A i \in DOMAIN argRecords : argRecords[i].command # w
<1> DEFINE At(w) == {i \in DOMAIN argRecords : argRecords[i].command = w}
<1>1. \A i, j \in DOMAIN argRecords : argRecords[i].command = argRecords[j].command => i = j
  BY ArgParserAssumption DEF Begun
<1>2. \A i \in DOMAIN argRecords : argRecords[i].type \in ArgType
  <2> DEFINE R == [command : Words \ {Argv0}, type : ArgType]
  <2>1. argRecords \in Seq(R) /\ \A r \in R : r.type \in ArgType
    BY ArgParserAssumption DEF Begun
  <2> HIDE DEF R
  <2> QED
    BY <2>1
<1>3. \A w : TypeOf(w) = IF At(w) = {} THEN "none" ELSE argRecords[CHOOSE i \in At(w) : TRUE].type
  BY DEF TypeOf
<1>4. \A w : At(w) # {} => (CHOOSE i \in At(w) : TRUE) \in At(w)
  OBVIOUS
<1>5. \A w : At(w) # {} => TypeOf(w) \in ArgType
  BY <1>2, <1>3, <1>4
<1>6. \A w : At(w) = {} => TypeOf(w) = "none"
  BY <1>3
<1>7. "none" \notin ArgType
  BY DEF ArgType
<1>8. \A w : At(w) = {} <=> \A i \in DOMAIN argRecords : argRecords[i].command # w
  OBVIOUS
<1>9. ASSUME NEW i \in DOMAIN argRecords
      PROVE  TypeOf(argRecords[i].command) = argRecords[i].type
  <2> DEFINE w == argRecords[i].command
             k == CHOOSE j \in At(w) : TRUE
  <2>1. i \in At(w)
    OBVIOUS
  <2>2. k \in At(w)
    BY <2>1
  <2>3. k = i
    BY <1>1, <2>2
  <2>4. TypeOf(w) = argRecords[k].type
    BY <1>3, <2>1
  <2> QED
    BY <2>3, <2>4
<1> HIDE DEF At
<1> QED
  BY <1>5, <1>6, <1>7, <1>8, <1>9

LEMMA SpanFacts ==
  ASSUME input \in Seq(Words), NEW i \in 1 .. Len(input)
  PROVE  /\ Span(i) \in Nat
         /\ TypeOf(input[i]) = "flag" => Span(i) = 1
         /\ TypeOf(input[i]) = "value" => Span(i) = 2
         /\ TypeOf(input[i]) = "list" =>
              /\ Span(i) # 0 /\ i + Span(i) <= Len(input) + 1
              /\ \A j \in i + 1 .. i + Span(i) - 1 : ~EndsList(input[j])
              /\ i + Span(i) = Len(input) + 1 \/ EndsList(input[i + Span(i)])
         /\ TypeOf(input[i]) \notin {"flag", "value", "list"} => Span(i) = 0
<1> DEFINE stops == {j \in i + 1 .. Len(input) : EndsList(input[j])} \cup {Len(input) + 1}
<1>1. Len(input) \in Nat /\ i \in Nat
  OBVIOUS
<1>2. stops \in SUBSET Nat /\ stops # {} /\ Len(input) + 1 \in stops
  BY <1>1
<1>3. /\ Min(stops) \in stops /\ \A j \in stops : Min(stops) <= j
  BY <1>2, MinOf
<1> DEFINE m == Min(stops)
<1>4. m \in i + 1 .. Len(input) + 1
  BY <1>1, <1>3
<1>5. m = Len(input) + 1 \/ EndsList(input[m])
  BY <1>3
<1>6. ASSUME NEW j \in i + 1 .. m - 1
      PROVE  ~EndsList(input[j])
  <2>1. j \in i + 1 .. Len(input) /\ ~(m <= j)
    BY <1>1, <1>4
  <2> QED
    BY <1>3, <2>1
<1>7. TypeOf(input[i]) = "list" => Span(i) = m - i
  BY DEF Span
<1>8. /\ TypeOf(input[i]) = "flag" => Span(i) = 1
      /\ TypeOf(input[i]) = "value" => Span(i) = 2
      /\ TypeOf(input[i]) \notin {"flag", "value", "list"} => Span(i) = 0
  BY DEF Span
<1> HIDE DEF stops, m
<1>9. CASE TypeOf(input[i]) = "list"
  <2>1. Span(i) = m - i /\ i + Span(i) = m /\ Span(i) \in Nat /\ Span(i) # 0
    BY <1>1, <1>4, <1>7, <1>9
  <2> QED
    BY <1>4, <1>5, <1>6, <1>8, <1>9, <2>1
<1>10. CASE TypeOf(input[i]) # "list"
  BY <1>8, <1>10
<1> QED
  BY <1>9, <1>10

LEMMA BehindFacts ==
  ASSUME input \in Seq(Words), NEW i \in 1 .. Len(input)
  PROVE  /\ Behind(i) \in i + 1 .. Len(input) + 2
         /\ Behind(i) = IF Span(i) = 0 THEN i + 1 ELSE i + Span(i)
<1>1. Span(i) \in Nat /\ (i + Span(i) <= Len(input) + 1 \/ Span(i) <= 2) /\ Len(input) \in Nat
  BY SpanFacts
<1> DEFINE s == Span(i)
<1> HIDE DEF s
<1>2. s \in Nat
  BY <1>1 DEF s
<1>3. Max({s, 1}) = IF s = 0 THEN 1 ELSE s
  <2>1. CASE s = 0
    <3>0. {s, 1} \in SUBSET Int /\ 1 \in {s, 1} /\ \A x \in {s, 1} : x <= 1
      BY <1>2, <2>1
    <3>1. Max({s, 1}) = 1
      BY <3>0, MaxIs
    <3> QED
      BY <2>1, <3>1
  <2>2. CASE s # 0
    <3>1. Max({s, 1}) = s
      BY <1>2, <2>2, MaxIs
    <3> QED
      BY <2>2, <3>1
  <2> QED
    BY <2>1, <2>2
<1>4. Behind(i) = i + IF s = 0 THEN 1 ELSE s
  BY <1>3 DEF Behind, s
<1>5. s \in Nat /\ (i + s <= Len(input) + 1 \/ s <= 2)
  BY <1>1 DEF s
<1>6. Behind(i) \in i + 1 .. Len(input) + 2
  BY <1>1, <1>4, <1>5
<1>7. Behind(i) = IF s = 0 THEN i + 1 ELSE i + s
  BY <1>4, <1>5
<1> QED
  BY <1>6, <1>7 DEF s

\* The recursive function StartsFrom: its equation has a solution, the least sets that
\* hold a place and with every place the one behind it.
LEMMA StartsEquation ==
  ASSUME input \in Seq(Words)
  PROVE  StartsFrom = [i \in 1 .. Len(input) + 2 |->
                         IF i > Len(input) THEN {} ELSE {i} \cup StartsFrom[Behind(i)]]
<1> DEFINE n == Len(input)
           Closed(C) == \A j \in C : Behind(j) <= n => Behind(j) \in C
           From(i) == {j \in 1 .. n : \A C \in SUBSET (1 .. n) :
                         Closed(C) /\ (i <= n => i \in C) => j \in C}
           f == [i \in 1 .. n + 2 |-> From(i)]
<1>1. n \in Nat /\ \A j \in 1 .. n : Behind(j) \in j + 1 .. n + 2
  BY BehindFacts
<1> HIDE DEF n
<1>2. ASSUME NEW i \in 1 .. n + 2, i > n
      PROVE  From(i) = {}
  <2>1. {} \in SUBSET (1 .. n) /\ Closed({}) /\ ~(i <= n)
    BY <1>1, <1>2
  <2> QED
    BY <2>1
<1>3. ASSUME NEW i \in 1 .. n + 2
      PROVE  Closed(From(i)) /\ (i <= n => i \in From(i))
  <2>1. ASSUME NEW j \in From(i), Behind(j) <= n
        PROVE  Behind(j) \in From(i)
    <3>1. Behind(j) \in 1 .. n
      BY <1>1, <2>1
    <3>2. ASSUME NEW C \in SUBSET (1 .. n), Closed(C), i <= n => i \in C
          PROVE  Behind(j) \in C
      <4>1. j \in C
        BY <3>2
      <4> QED
        BY <2>1, <3>2, <4>1
    <3> QED
      BY <3>1, <3>2
  <2>2. i <= n => i \in From(i)
    BY <1>1
  <2> QED
    BY <2>1, <2>2
<1>4. ASSUME NEW i \in 1 .. n + 2, ~(i > n)
      PROVE  From(i) = {i} \cup From(Behind(i))
  <2>1. i \in 1 .. n /\ Behind(i) \in 1 .. n + 2 /\ i <= n
    BY <1>1, <1>4
  <2> DEFINE D == {i} \cup From(Behind(i))
  <2>2. D \in SUBSET (1 .. n)
    BY <2>1
  <2>3. Closed(D)
    <3>1. Closed(From(Behind(i))) /\ (Behind(i) <= n => Behind(i) \in From(Behind(i)))
      BY <1>3, <2>1
    <3> HIDE DEF From
    <3> QED
      BY <3>1
  <2>4. \A j \in From(i) : j \in D
    <3> HIDE DEF D
    <3>1. i \in D
      BY DEF D
    <3> QED
      BY <2>2, <2>3, <3>1
  <2>5. ASSUME NEW j \in From(Behind(i))
        PROVE  j \in From(i)
    <3>1. ASSUME NEW C \in SUBSET (1 .. n), Closed(C), i <= n => i \in C
          PROVE  j \in C
      <4>1. Behind(i) <= n => Behind(i) \in C
        BY <2>1, <3>1
      <4> QED
        BY <2>5, <3>1, <4>1
    <3> QED
      BY <2>5, <3>1
  <2>6. i \in From(i)
    BY <1>3, <2>1
  <2> HIDE DEF From
  <2> QED
    BY <2>4, <2>5, <2>6
<1>5. f = [i \in 1 .. n + 2 |-> IF i > n THEN {} ELSE {i} \cup f[Behind(i)]]
  <2>1. ASSUME NEW i \in 1 .. n + 2
        PROVE  From(i) = IF i > n THEN {} ELSE {i} \cup f[Behind(i)]
    <3>1. CASE i > n
      BY <1>2, <3>1
    <3>2. CASE ~(i > n)
      <4>1. Behind(i) \in 1 .. n + 2
        BY <1>1, <3>2
      <4> HIDE DEF From
      <4>2. f[Behind(i)] = From(Behind(i))
        BY <4>1
      <4>3. From(i) = {i} \cup From(Behind(i))
        BY <1>4, <3>2
      <4> QED
        BY <3>2, <4>2, <4>3
    <3> QED
      BY <3>1, <3>2
  <2> HIDE DEF From
  <2> QED
    BY <2>1
<1>6. f = [i \in 1 .. Len(input) + 2 |-> IF i > Len(input) THEN {} ELSE {i} \cup f[Behind(i)]]
  BY <1>5 DEF n
<1> HIDE DEF f
<1> QED
  BY <1>6, Zenon DEF StartsFrom

LEMMA StartsFacts ==
  ASSUME input \in Seq(Words)
  PROVE  /\ \A i \in 1 .. Len(input) : StartsFrom[i] = {i} \cup StartsFrom[Behind(i)]
         /\ \A i \in 1 .. Len(input) + 2 : /\ i > Len(input) => StartsFrom[i] = {}
                                           /\ StartsFrom[i] \subseteq i .. Len(input)
         /\ Starts \subseteq 1 .. Len(input)
<1> DEFINE n == Len(input)
<1>1. n \in Nat /\ \A j \in 1 .. n : Behind(j) \in j + 1 .. n + 2
  BY BehindFacts
<1>2. \A i \in 1 .. n + 2 : StartsFrom[i] = IF i > n THEN {} ELSE {i} \cup StartsFrom[Behind(i)]
  BY StartsEquation, Zenon
<1> HIDE DEF n
<1> DEFINE Bad == {n + 2 - i : i \in {j \in 1 .. n + 2 : ~(StartsFrom[j] \subseteq j .. n)}}
<1>3. Bad = {}
  <2> SUFFICES ASSUME Bad # {}
               PROVE  FALSE
    OBVIOUS
  <2>1. Bad \in SUBSET Nat
    BY <1>1
  <2>2. Min(Bad) \in Bad /\ \A x \in Bad : Min(Bad) <= x
    <3> HIDE DEF Bad
    <3> QED
      BY <2>1, MinOf
  <2>3. PICK i \in 1 .. n + 2 : Min(Bad) = n + 2 - i /\ ~(StartsFrom[i] \subseteq i .. n)
    BY <2>2
  <2>4. i <= n
    <3>1. ~(i > n)
      <4>1. i > n => StartsFrom[i] = {}
        BY <1>2
      <4> QED
        BY <2>3, <4>1
    <3> QED
      BY <1>1, <3>1
  <2>5. Behind(i) \in i + 1 .. n + 2 /\ Behind(i) \in 1 .. n + 2
    BY <1>1, <2>3, <2>4
  <2>6. n + 2 - Behind(i) \notin Bad
    <3>1. ~(n + 2 - i <= n + 2 - Behind(i))
      BY <1>1, <2>5
    <3> HIDE DEF Bad
    <3> QED
      BY <2>2, <2>3, <3>1
  <2>7. StartsFrom[Behind(i)] \subseteq Behind(i) .. n
    BY <2>5, <2>6
  <2>8. StartsFrom[i] = {i} \cup StartsFrom[Behind(i)]
    BY <1>1, <1>2, <2>3, <2>4
  <2>9. Behind(i) .. n \subseteq i .. n /\ i \in i .. n
    BY <1>1, <2>3, <2>4, <2>5
  <2> QED
    BY <2>3, <2>7, <2>8, <2>9
<1>4. \A i \in 1 .. n + 2 : StartsFrom[i] \subseteq i .. n
  BY <1>3
<1>5. \A i \in 1 .. n : i \in 1 .. n + 2 /\ ~(i > n)
  BY <1>1
<1>6. Starts \subseteq 1 .. n
  <2>1. 1 \in 1 .. n + 2
    BY <1>1
  <2> QED
    BY <1>4, <2>1 DEF Starts
<1> QED
  BY <1>2, <1>4, <1>5, <1>6 DEF n
-------------------------------------------------------------------------------
(* What the loops have done when they have read the words before p. *)

Before(p)     == {i \in Starts : i < p}
KeptBefore(p) == {i \in Kept : i < p}
Options(c, p) == {i \in Starts : i < p /\ input[i] = c}
KeptCount(p)  == Cardinality(KeptBefore(p))

\* An option or a word that stays begins at p, or nothing is left; no error so far.
PlaceIs(p) ==
  /\ p \in 1 .. Len(input) + 1
  /\ Starts = Before(p) \cup StartsFrom[p]
  /\ \A i \in Before(p) : Behind(i) <= p
  /\ Errors \cap Before(p) = {}

\* argv: the program's name, the words that stay, the words still to be read.
ArgvAt(p) ==
  /\ argc = KeptCount(p) + Len(input) + 2 - p /\ argv[1] = Argv0
  /\ \A n \in 1 .. KeptCount(p) : argv[n + 1] = WordsAt(KeptBefore(p))[n]
  /\ \A n \in 1 .. Len(input) + 1 - p : argv[KeptCount(p) + 1 + n] = input[p - 1 + n]

DataAt(p) == \A c \in DOMAIN data : data[c] = ValueAfter(c, Options(c, p))

\* argument is at the word p, which is none of the commands before match, or at the word
\* before, when an option was just taken out: that word stays and matches nothing.
AtWord(p) ==
  /\ argument = KeptCount(p) + 1 /\ (match > 0 => p <= Len(input))
  /\ \A r \in 1 .. match - 1 : argRecords[r].command # input[p]
BeforeWord(p) == argument = KeptCount(p) /\ match > 0

ReadTo(p) == PlaceIs(p) /\ ArgvAt(p) /\ DataAt(p) /\ (AtWord(p) \/ BeforeWord(p))

Finished ==
  /\ Errors = {} /\ argv = <<Argv0>> \o WordsAt(Kept)
  /\ \A c \in DOMAIN data : data[c] = Value(c)

\* What the help text shows of an argument: what one reading gives it.
ShownEntry(i) == <<table[i].command, IF table[i].type \in {"list", "message"} THEN <<>>
                                                          ELSE Value(table[i].command)>>

\* The outcome, with what the property leaves open: every lacking value ends the process,
\* asked for or not, and help shows what was read so far.
ReadsExactly ==
  phase = "over" /\ Len(table) <= MaximumArguments /\ ~MessageStays =>
    IF Errors # {}
      THEN exitCode = IF Min(Errors) \in Lacking THEN 101 ELSE 102
      ELSE /\ exitCode \in {Null, 0, 103}
           /\ argv = <<Argv0>> \o WordsAt(Kept)
           /\ \A c \in DOMAIN data : data[c] = Value(c)
           /\ shown = IF exitCode = Null THEN <<>> ELSE [i \in DOMAIN table |-> ShownEntry(i)]

Reading ==
  /\ phase = "parse" => /\ \A c \in DOMAIN data : preset[c] \in Seq(Words)
                        /\ ~MessageStays => \E p \in 1 .. Len(input) + 1 : ReadTo(p)
  /\ phase \in {"check", "help"} /\ ~MessageStays => Finished
  /\ phase = "help" /\ ~MessageStays => shown = [i \in 1 .. entry - 1 |-> ShownEntry(i)]
  /\ ReadsExactly

\* What only the caller's request decides.
LEMMA RequestDecides ==
  ASSUME UNCHANGED <<request, argRecords>>
  PROVE  /\ StartsFrom' = StartsFrom /\ Starts' = Starts /\ Kept' = Kept
         /\ Lacking' = Lacking /\ Errors' = Errors /\ MessageStays' = MessageStays
         /\ \A S : WordsAt(S)' = WordsAt(S)
         /\ \A c, S : ValueAfter(c, S)' = ValueAfter(c, S)
         /\ \A c : Value(c)' = Value(c)
         /\ \A c, k : ValueAfter(c, Options(c, k))' = ValueAfter(c, Options(c, k))
         /\ \A i : ShownEntry(i)' = ShownEntry(i)
         /\ \A k : KeptBefore(k)' = KeptBefore(k) /\ KeptCount(k)' = KeptCount(k)
         /\ \A c, k : Options(c, k)' = Options(c, k)
         /\ \A k : PlaceIs(k)' = PlaceIs(k)
<1>1. input' = input /\ argRecords' = argRecords /\ caxoe' = caxoe /\ preset' = preset /\ table' = table
  BY DEF request
<1>2. \A w : TypeOf(w)' = TypeOf(w)
  BY <1>1 DEF TypeOf
<1>3. \A k : Span(k)' = Span(k)
  BY <1>1 DEF Span, TypeOf
<1>4. \A k : Behind(k)' = Behind(k)
  BY <1>3 DEF Behind
<1>5. StartsFrom' = StartsFrom
  BY <1>1 DEF StartsFrom, Behind, Span, TypeOf
<1>6. Starts' = Starts
  BY <1>5 DEF Starts
<1>7. Kept' = Kept
  BY <1>3, <1>6 DEF Kept
<1>8. Lacking' = Lacking
  BY <1>1, <1>2, <1>6 DEF Lacking
<1>9. Forbidden' = Forbidden
  BY <1>1, <1>2, <1>6 DEF Forbidden
<1>10. Errors' = Errors
  BY <1>8, <1>9 DEF Errors
<1>11. MessageStays' = MessageStays
  BY <1>1, <1>2, <1>6 DEF MessageStays
<1>12. \A S : WordsAt(S)' = WordsAt(S)
  BY <1>1 DEF WordsAt
<1>13. \A c, S : ValueAfter(c, S)' = ValueAfter(c, S)
  BY <1>1 DEF ValueAfter, WordsAt, Span, TypeOf
<1>14. \A c : Value(c)' = Value(c)
  BY <1>1, <1>6 DEF Value, ValueAfter, WordsAt, Span, TypeOf
<1>15. \A k : ShownEntry(k)' = ShownEntry(k)
  BY <1>1, <1>14 DEF ShownEntry
<1>16. \A k : KeptBefore(k)' = KeptBefore(k) /\ KeptCount(k)' = KeptCount(k)
  BY <1>7 DEF KeptBefore, KeptCount
<1>17. \A c, k : Options(c, k)' = Options(c, k)
  BY <1>1, <1>6 DEF Options
<1>18. \A k : Before(k)' = Before(k)
  BY <1>6 DEF Before
<1>19. \A k : PlaceIs(k)' = PlaceIs(k)
  BY <1>1, <1>4, <1>5, <1>6, <1>10, <1>18 DEF PlaceIs
<1>20. \A c, k : ValueAfter(c, Options(c, k))' = ValueAfter(c, Options(c, k))
  BY <1>1, <1>6 DEF Options, ValueAfter, WordsAt, Span, TypeOf
<1> QED
  BY <1>5, <1>6, <1>7, <1>8, <1>10, <1>11, <1>12, <1>13, <1>14, <1>15, <1>16, <1>17, <1>19, <1>20

\* The words that stay before p: they are options of no record.
LEMMA KeptWords ==
  ASSUME Begun, NEW p, PlaceIs(p)
  PROVE  /\ KeptBefore(p) \in SUBSET (1 .. p - 1) /\ IsFiniteSet(KeptBefore(p)) /\ KeptCount(p) \in Nat
         /\ ~MessageStays => \A j \in KeptBefore(p) : TypeOf(input[j]) = "none"
<1>1. input \in Seq(Words) /\ Len(input) \in Nat /\ p \in 1 .. Len(input) + 1
  BY DEF Begun, PlaceIs
<1>2. Starts \subseteq 1 .. Len(input)
  BY <1>1, StartsFacts
<1>3. KeptBefore(p) \in SUBSET (1 .. p - 1)
  <2>1. \A j \in Starts : j < p => j \in 1 .. p - 1
    BY <1>1, <1>2
  <2> QED
    BY <2>1 DEF KeptBefore, Kept
<1>4. IsFiniteSet(1 .. p - 1)
  BY <1>1, FS_Interval
<1>5. IsFiniteSet(KeptBefore(p)) /\ KeptCount(p) \in Nat
  BY <1>3, <1>4, FS_Subset, FS_CardinalityType DEF KeptCount
<1>6. ASSUME ~MessageStays, NEW j \in KeptBefore(p)
      PROVE  TypeOf(input[j]) = "none"
  <2>1. j \in Starts /\ Span(j) = 0 /\ j \in 1 .. Len(input) /\ j < p
    BY <1>2 DEF KeptBefore, Kept
  <2>2. TypeOf(input[j]) \in {"message", "none"}
    <3>1. TypeOf(input[j]) \in ArgType \cup {"none"}
      BY TypeFacts
    <3>2. TypeOf(input[j]) \notin {"flag", "value", "list"}
      BY <1>1, <2>1, SpanFacts
    <3> QED
      BY <3>1, <3>2 DEF ArgType
  <2>3. TypeOf(input[j]) # "message"
    <3>1. j \notin Errors
      BY <2>1 DEF PlaceIs, Before
    <3> QED
      BY <1>6, <2>1, <3>1 DEF Errors, Forbidden, MessageStays
  <2> QED
    BY <2>2, <2>3
<1> QED
  BY <1>3, <1>5, <1>6

\* Past the word at p, if it is no error.
LEMMA PlaceMoves ==
  ASSUME Begun, NEW p, PlaceIs(p), p <= Len(input), p \notin Errors
  PROVE  /\ p \in Starts /\ PlaceIs(Behind(p)) /\ p \in Nat
         /\ Span(p) = 0 => /\ Behind(p) = p + 1
                           /\ KeptBefore(Behind(p)) = KeptBefore(p) \cup {p}
         /\ Span(p) # 0 => /\ Behind(p) = p + Span(p)
                           /\ KeptBefore(Behind(p)) = KeptBefore(p)
         /\ \A c : Options(c, Behind(p)) = IF input[p] = c THEN Options(c, p) \cup {p} ELSE Options(c, p)
<1> DEFINE q == Behind(p)
           n == Len(input)
<1>1. input \in Seq(Words) /\ n \in Nat /\ p \in 1 .. n
  BY DEF Begun, PlaceIs
<1>2. q \in p + 1 .. n + 2 /\ q = IF Span(p) = 0 THEN p + 1 ELSE p + Span(p)
  BY <1>1, BehindFacts
<1>3. /\ StartsFrom[p] = {p} \cup StartsFrom[q]
      /\ StartsFrom[q] \subseteq q .. n /\ Starts \subseteq 1 .. n
  <2>1. q \in 1 .. n + 2
    BY <1>1, <1>2
  <2> HIDE DEF q
  <2> USE StartsFacts, <1>1, <2>1
  <2>2. StartsFrom[p] = {p} \cup StartsFrom[q]
    BY DEF q
  <2> QED
    BY <2>2
<1>4. Starts = Before(p) \cup StartsFrom[p]
  BY DEF PlaceIs
<1>5. p \in Starts
  BY <1>3, <1>4
<1>6. q <= n + 1
  <2>1. CASE TypeOf(input[p]) = "list"
    BY <1>1, <1>2, <2>1, SpanFacts
  <2>2. CASE TypeOf(input[p]) = "value"
    <3>1. p # n
      BY <1>5, <2>2 DEF Errors, Lacking
    <3>2. Span(p) = 2
      BY <1>1, <2>2, SpanFacts
    <3> QED
      BY <1>1, <1>2, <3>1, <3>2
  <2>3. CASE TypeOf(input[p]) \notin {"list", "value"}
    <3>1. Span(p) \in {0, 1}
      BY <1>1, <2>3, SpanFacts
    <3> QED
      BY <1>1, <1>2, <3>1
  <2> QED
    BY <2>1, <2>2, <2>3
<1> HIDE DEF q, n
<1>7. ASSUME NEW j \in Starts
      PROVE  j < q <=> j < p \/ j = p
  <2>1. j \in Int /\ p \in Int /\ q \in Int /\ p < q
    BY <1>1, <1>2, <1>3
  <2>2. CASE j \in Before(p)
    BY <2>1, <2>2 DEF Before
  <2>3. CASE j = p
    BY <2>1, <2>3
  <2>4. CASE j \in StartsFrom[q]
    BY <1>2, <1>3, <2>1, <2>4
  <2> QED
    BY <1>3, <1>4, <2>2, <2>3, <2>4
<1>8. Before(q) = Before(p) \cup {p}
  BY <1>5, <1>7 DEF Before
<1>9. PlaceIs(q)
  <2>1. q \in 1 .. Len(input) + 1
    BY <1>1, <1>2, <1>6 DEF n
  <2>2. Starts = Before(q) \cup StartsFrom[q]
    BY <1>3, <1>4, <1>8
  <2>3. \A j \in Before(q) : Behind(j) <= q
    <3>1. ASSUME NEW j \in Before(p)
          PROVE  Behind(j) <= q
      <4>1. Behind(j) <= p /\ j \in 1 .. n
        BY <1>3 DEF PlaceIs, Before
      <4>2. Behind(j) \in Int
        BY <1>1, <4>1, BehindFacts DEF n
      <4> QED
        BY <1>1, <1>2, <4>1, <4>2
    <3>2. Behind(p) <= q
      BY <1>1, <1>2 DEF q
    <3> QED
      BY <1>8, <3>1, <3>2
  <2>4. Errors \cap Before(q) = {}
    BY <1>8 DEF PlaceIs
  <2> QED
    BY <2>1, <2>2, <2>3, <2>4 DEF PlaceIs
<1>10. KeptBefore(q) = IF Span(p) = 0 THEN KeptBefore(p) \cup {p} ELSE KeptBefore(p)
  BY <1>5, <1>7 DEF KeptBefore, Kept
<1>11. \A c : Options(c, q) = IF input[p] = c THEN Options(c, p) \cup {p} ELSE Options(c, p)
  BY <1>5, <1>7 DEF Options
<1>12. p \in Nat /\ (Span(p) = 0 => q = p + 1) /\ (Span(p) # 0 => q = p + Span(p))
  BY <1>1, <1>2
<1>13. /\ Span(p) = 0 => KeptBefore(q) = KeptBefore(p) \cup {p}
       /\ Span(p) # 0 => KeptBefore(q) = KeptBefore(p)
  BY <1>10
<1> USE DEF q
<1> QED
  BY <1>5, <1>9, <1>11, <1>12, <1>13

\* A word that stays matches nothing, so what matches is the word at p.
LEMMA MatchAtWord ==
  ASSUME Typed, Matches, ~MessageStays, NEW p, ReadTo(p)
  PROVE  /\ argument = KeptCount(p) + 1 /\ p \in 1 .. Len(input) /\ KeptCount(p) \in Nat
         /\ arg(argument) = input[p] /\ Record.command = input[p]
         /\ TypeOf(input[p]) = Record.type /\ Record.type \in ArgType
         /\ IsValue(argument + 1) <=> p < Len(input) /\ input[p + 1] \notin Dash1 \cap Dash2
<1> DEFINE k == KeptCount(p)
           n == Len(input)
<1>1. phase = "parse" /\ Begun /\ PlaceIs(p) /\ ArgvAt(p)
  BY DEF Matches, InnerLoop, Typed, ReadTo
<1>2. /\ argument \in 1 .. argc - 1 /\ argRecords[match] \in [command : Words \ {Argv0}, type : ArgType]
      /\ Record.command = argv[argument + 1] /\ match \in DOMAIN argRecords /\ argc \in Nat
  BY MatchedWord
<1>3. p \in 1 .. n + 1 /\ n \in Nat
  BY <1>1 DEF PlaceIs, Begun
<1>4. k \in Nat /\ IsFiniteSet(KeptBefore(p)) /\ KeptBefore(p) \in SUBSET (1 .. p - 1)
      /\ \A j \in KeptBefore(p) : TypeOf(input[j]) = "none"
  BY <1>1, KeptWords
<1>5. Record.type \in ArgType /\ TypeOf(Record.command) = Record.type
  BY <1>1, <1>2, TypeFacts DEF Record
<1>6. ~BeforeWord(p)
  <2> SUFFICES ASSUME argument = k
               PROVE  FALSE
    BY DEF BeforeWord
  <2> DEFINE j == Nth(KeptBefore(p), k)
  <2>1. k \in 1 .. Cardinality(KeptBefore(p)) /\ KeptBefore(p) \in SUBSET Int
    BY <1>2, <1>3, <1>4 DEF KeptCount
  <2>2. j \in KeptBefore(p)
    BY <1>4, <2>1, NthFacts
  <2>3. argv[k + 1] = WordsAt(KeptBefore(p))[k]
    BY <1>1, <2>1 DEF ArgvAt, KeptCount
  <2>4. WordsAt(KeptBefore(p))[k] = input[j]
    BY <2>1 DEF WordsAt
  <2>5. TypeOf(Record.command) = "none"
    BY <1>2, <1>4, <2>2, <2>3, <2>4
  <2> QED
    BY <1>5, <2>5 DEF ArgType
<1>7. argument = k + 1 /\ match > 0 /\ p <= n
  <2>1. AtWord(p) /\ match > 0
    BY <1>6 DEF ReadTo, Matches, InnerLoop
  <2> QED
    BY <2>1 DEF AtWord
<1>8. argc = k + n + 2 - p /\ \A m \in 1 .. n + 1 - p : argv[k + 1 + m] = input[p - 1 + m]
  BY <1>1 DEF ArgvAt
<1> HIDE DEF k, n
<1>9. arg(argument) = input[p]
  <2>1. 1 \in 1 .. n + 1 - p /\ k + 1 + 1 = argument + 1 /\ p - 1 + 1 = p
    BY <1>3, <1>4, <1>7
  <2> QED
    BY <1>8, <2>1 DEF arg
<1>10. p < n => arg(argument + 1) = input[p + 1]
  <2> SUFFICES ASSUME p < n
               PROVE  arg(argument + 1) = input[p + 1]
    OBVIOUS
  <2>1. 2 \in 1 .. n + 1 - p /\ k + 1 + 2 = argument + 1 + 1 /\ p - 1 + 2 = p + 1
    BY <1>3, <1>4, <1>7
  <2> QED
    BY <1>8, <2>1 DEF arg
<1>11. argument + 1 < argc <=> p < n
  BY <1>3, <1>4, <1>7, <1>8
<1>12. IsValue(argument + 1) <=> p < n /\ input[p + 1] \notin Dash1 \cap Dash2
  BY <1>10, <1>11 DEF IsValue
<1>13. Record.command = input[p]
  BY <1>2, <1>9 DEF arg
<1> QED
  BY <1>3, <1>4, <1>5, <1>7, <1>9, <1>12, <1>13 DEF k, n

\* An error at p is the first one.
LEMMA FirstError ==
  ASSUME Begun, NEW p, PlaceIs(p), p \in Errors
  PROVE  Min(Errors) = p
<1>1. input \in Seq(Words) /\ p \in 1 .. Len(input) + 1 /\ Len(input) \in Nat
  BY DEF Begun, PlaceIs
<1>2. Errors \subseteq Starts /\ Starts \subseteq 1 .. Len(input)
  BY <1>1, StartsFacts DEF Errors, Lacking, Forbidden
<1>3. StartsFrom[p] \subseteq p .. Len(input)
  <2>1. p \in 1 .. Len(input) + 2
    BY <1>1
  <2> QED
    BY <1>1, <2>1, StartsFacts
<1>4. \A j \in Errors : p <= j
  BY <1>2, <1>3 DEF PlaceIs
<1>5. Errors \in SUBSET Int
  BY <1>2
<1> QED
  BY <1>4, <1>5, MinIs

\* The words of an option leave argv.
LEMMA ArgvMoves ==
  ASSUME Begun, argv \in Seq(Words), NEW p, PlaceIs(p), ArgvAt(p), p \in 1 .. Len(input),
         NEW n \in Nat, p + n <= Len(input) + 1, argument = KeptCount(p) + 1,
         KeptBefore(p + n) = KeptBefore(p), argv' = Without(argument, n),
         UNCHANGED <<request, argRecords>>
  PROVE  ArgvAt(p + n)'
<1> DEFINE k == KeptCount(p)
           len == Len(input)
<1>1. k \in Nat /\ len \in Nat /\ p \in 1 .. len
  BY KeptWords DEF Begun
<1>2. /\ argc = k + len + 2 - p /\ argv[1] = Argv0
      /\ \A m \in 1 .. k : argv[m + 1] = WordsAt(KeptBefore(p))[m]
      /\ \A m \in 1 .. len + 1 - p : argv[k + 1 + m] = input[p - 1 + m]
  BY DEF ArgvAt
<1>3. argument = k + 1 /\ argument + n <= argc /\ argument \in Nat
  BY <1>1, <1>2
<1>4. /\ Len(argv') = argc - n
      /\ \A j \in 1 .. argument : argv'[j] = argv[j]
      /\ \A j \in argument + 1 .. argc - n : argv'[j] = argv[j + n]
  BY <1>3, WithoutWords
<1>5. KeptCount(p + n) = k /\ KeptBefore(p + n) = KeptBefore(p)
  BY DEF KeptCount
<1>6. /\ input' = input /\ KeptCount(p + n)' = k
      /\ \A m : WordsAt(KeptBefore(p + n))[m]' = WordsAt(KeptBefore(p))[m]
  BY <1>5, RequestDecides DEF request
<1> HIDE DEF k, len
<1>7. Len(argv') = k + len + 2 - (p + n)
  BY <1>1, <1>2, <1>4
<1>8. argv'[1] = Argv0
  <2>1. 1 \in 1 .. argument
    BY <1>1, <1>3
  <2> QED
    BY <1>2, <1>4, <2>1
<1>9. \A m \in 1 .. k : argv'[m + 1] = WordsAt(KeptBefore(p))[m]
  <2>1. \A m \in 1 .. k : m + 1 \in 1 .. argument
    BY <1>1, <1>3
  <2> QED
    BY <1>2, <1>4, <2>1
<1>10. ASSUME NEW m \in 1 .. len + 1 - (p + n)
       PROVE  argv'[k + 1 + m] = input[p + n - 1 + m]
  <2>1. k + 1 + m \in argument + 1 .. argc - n /\ m + n \in 1 .. len + 1 - p
    BY <1>1, <1>2, <1>3
  <2>2. k + 1 + m + n = k + 1 + (m + n) /\ p - 1 + (m + n) = p + n - 1 + m
    BY <1>1
  <2>3. argv'[k + 1 + m] = argv[k + 1 + m + n]
    BY <1>4, <2>1
  <2>4. argv[k + 1 + (m + n)] = input[p - 1 + (m + n)]
    BY <1>2, <2>1
  <2> QED
    BY <2>2, <2>3, <2>4
<1> QED
  BY <1>6, <1>7, <1>8, <1>9, <1>10 DEF ArgvAt, argc, k, len

\* A list takes as many words as the inner loop finds.
LEMMA ListSpan ==
  ASSUME Typed, Matches, ~MessageStays, NEW p, ReadTo(p), Record.type = "list"
  PROVE  LET list == ListAfter(argument) IN
         /\ list \in Seq(Words) /\ Len(list) + 1 = Span(p) /\ p + Span(p) <= Len(input) + 1
         /\ \A m \in 1 .. Len(list) : list[m] = input[p + m]
<1> DEFINE list == ListAfter(argument)
           n == Len(list)
           len == Len(input)
           k == KeptCount(p)
           s == Span(p)
<1>1. /\ argument = k + 1 /\ p \in 1 .. len /\ k \in Nat /\ TypeOf(input[p]) = "list"
  BY MatchAtWord
<1>2. /\ input \in Seq(Words) /\ argv \in Seq(Words) /\ ArgvAt(p) /\ len \in Nat
  BY DEF Typed, ArgsTypeOK, ReadTo
<1>3. /\ argc = k + len + 2 - p
      /\ \A m \in 1 .. len + 1 - p : argv[k + 1 + m] = input[p - 1 + m]
  BY <1>2 DEF ArgvAt
<1>4. argument \in Nat /\ argument < argc
  BY <1>1, <1>2, <1>3
<1>5. /\ list \in Seq(Words) /\ n \in 0 .. argc - 1 - argument
      /\ \A m \in 1 .. n : list[m] = argv[argument + 1 + m] /\ ~EndsList(list[m])
      /\ n = argc - 1 - argument \/ EndsList(argv[argument + n + 2])
  BY <1>2, <1>4, ListTaken
<1>6. /\ s \in Nat /\ s # 0 /\ p + s <= len + 1
      /\ \A j \in p + 1 .. p + s - 1 : ~EndsList(input[j])
      /\ p + s = len + 1 \/ EndsList(input[p + s])
  BY <1>1, <1>2, SpanFacts
<1> HIDE DEF list, n, len, k, s
<1>7. n \in 0 .. len - p /\ argc - 1 - argument = len - p
  BY <1>1, <1>2, <1>3, <1>5
<1>8. \A m \in 1 .. n : list[m] = input[p + m]
  <2> SUFFICES ASSUME NEW m \in 1 .. n
               PROVE  list[m] = input[p + m]
    OBVIOUS
  <2>1. m + 1 \in 1 .. len + 1 - p /\ argument + 1 + m = k + 1 + (m + 1) /\ p - 1 + (m + 1) = p + m
    BY <1>1, <1>2, <1>7
  <2> QED
    BY <1>3, <1>5, <2>1
<1>9. n = len - p \/ EndsList(input[p + n + 1])
  <2> SUFFICES ASSUME n # len - p
               PROVE  EndsList(input[p + n + 1])
    OBVIOUS
  <2>1. n + 2 \in 1 .. len + 1 - p /\ argument + n + 2 = k + 1 + (n + 2) /\ p - 1 + (n + 2) = p + n + 1
    BY <1>1, <1>2, <1>7
  <2> QED
    BY <1>3, <1>5, <1>7, <2>1
<1>10. ~(n + 1 < s)
  <2> SUFFICES ASSUME n + 1 < s
               PROVE  FALSE
    OBVIOUS
  <2>1. p + n + 1 \in p + 1 .. p + s - 1 /\ n # len - p
    BY <1>1, <1>2, <1>6, <1>7
  <2> QED
    BY <1>6, <1>9, <2>1
<1>11. ~(s < n + 1)
  <2> SUFFICES ASSUME s < n + 1
               PROVE  FALSE
    OBVIOUS
  <2>1. s \in 1 .. n /\ p + s # len + 1
    BY <1>1, <1>2, <1>6, <1>7
  <2> QED
    BY <1>5, <1>6, <1>8, <2>1
<1>12. n + 1 = s
  BY <1>6, <1>7, <1>10, <1>11
<1> QED
  BY <1>5, <1>6, <1>8, <1>12 DEF list, n, len, s

\* What an option makes of its value.
LEMMA ValueIs ==
  ASSUME Typed, Matches, ~MessageStays, NEW p, ReadTo(p), p \notin Errors,
         \A c \in DOMAIN data : preset[c] \in Seq(Words)
  PROVE  LET c == Record.command
             at == Options(c, p) \cup {p} IN
         /\ Record.type = "flag" => ValueAfter(c, at) = <<arg(argument)>>
         /\ Record.type = "value" => ValueAfter(c, at) = <<arg(argument + 1)>>
         /\ Record.type = "list" => ValueAfter(c, at) = data[c] \o ListAfter(argument)
<1> DEFINE c == Record.command
           old == Options(c, p)
           at == old \cup {p}
<1>1. /\ argument = KeptCount(p) + 1 /\ p \in 1 .. Len(input) /\ KeptCount(p) \in Nat
      /\ arg(argument) = input[p] /\ c = input[p] /\ TypeOf(c) = Record.type
  BY MatchAtWord
<1>2. /\ Begun /\ PlaceIs(p) /\ ArgvAt(p) /\ DataAt(p) /\ input \in Seq(Words) /\ Len(input) \in Nat
  BY DEF Matches, InnerLoop, Typed, ReadTo
<1>3. c \in DOMAIN data
  BY MatchedWord
<1>4. old \in SUBSET (1 .. p - 1) /\ old \subseteq Before(p)
  <2>1. Starts \subseteq 1 .. Len(input)
    BY <1>2, StartsFacts
  <2>2. \A j \in Starts : j < p => j \in 1 .. p - 1
    BY <1>1, <1>2, <2>1
  <2> QED
    BY <2>2 DEF Options, Before
<1>5. at # {} /\ data[c] = ValueAfter(c, old)
  BY <1>2, <1>3 DEF DataAt
<1>6. CASE Record.type = "flag"
  BY <1>1, <1>5, <1>6 DEF ValueAfter
<1>7. CASE Record.type = "value"
  <2>1. Max(at) = p
    <3>1. at \in SUBSET Int /\ p \in at /\ \A j \in at : j <= p
      BY <1>1, <1>2, <1>4
    <3> HIDE DEF at
    <3> QED
      BY <3>1, MaxIs
  <2>2. ValueAfter(c, at) = <<input[p + 1]>>
    BY <1>1, <1>5, <1>7, <2>1 DEF ValueAfter
  <2>3. p < Len(input)
    <3>1. p \in Starts
      BY <1>1, <1>2, PlaceMoves
    <3> QED
      BY <1>1, <1>2, <1>7, <3>1 DEF Errors, Lacking
  <2>4. arg(argument + 1) = input[p + 1]
    <3> DEFINE k == KeptCount(p)
    <3> HIDE DEF k
    <3>1. argument = k + 1 /\ k \in Nat
      BY <1>1 DEF k
    <3>2. \A m \in 1 .. Len(input) + 1 - p : argv[k + 1 + m] = input[p - 1 + m]
      BY <1>2 DEF ArgvAt, k
    <3>3. 2 \in 1 .. Len(input) + 1 - p /\ argument + 1 + 1 = k + 1 + 2 /\ p - 1 + 2 = p + 1
      BY <1>1, <1>2, <2>3, <3>1
    <3> QED
      BY <3>2, <3>3 DEF arg
  <2> QED
    BY <1>7, <2>2, <2>4
<1>8. CASE Record.type = "list"
  <2> DEFINE list == ListAfter(argument)
             Took(S) == UNION {i + 1 .. i + Span(i) - 1 : i \in S}
             U == Took(old)
             n == Len(list)
  <2>1. list \in Seq(Words) /\ n + 1 = Span(p) /\ \A m \in 1 .. n : list[m] = input[p + m]
    BY <1>8, ListSpan
  <2>2. Took(at) = U \cup (p + 1 .. p + n)
    <3>1. Took(at) = U \cup (p + 1 .. p + Span(p) - 1)
      OBVIOUS
    <3>2. p + Span(p) - 1 = p + n
      BY <1>1, <2>1
    <3> QED
      BY <3>1, <3>2
  <2>3. U \in SUBSET (1 .. p - 1)
    <3>1. ASSUME NEW i \in old
          PROVE  i + 1 .. i + Span(i) - 1 \subseteq 1 .. p - 1
      <4>1. i \in 1 .. Len(input) /\ i < p /\ Behind(i) <= p
        BY <1>1, <1>2, <1>4 DEF PlaceIs
      <4>2. Span(i) \in Nat /\ Behind(i) = IF Span(i) = 0 THEN i + 1 ELSE i + Span(i)
        BY <1>2, <4>1, SpanFacts, BehindFacts
      <4> QED
        BY <1>1, <1>2, <4>1, <4>2
    <3> QED
      BY <3>1
  <2>4. ValueAfter(c, at) = preset[c] \o WordsAt(Took(at))
    BY <1>1, <1>5, <1>8 DEF ValueAfter
  <2>5. IsFiniteSet(U) /\ U \in SUBSET Int /\ \A i \in U : i < p + 1
    <3> HIDE DEF U
    <3>0. 1 \in Int /\ p - 1 \in Int
      BY <1>1
    <3>1. IsFiniteSet(1 .. p - 1)
      BY <3>0, FS_Interval
    <3>2. IsFiniteSet(U)
      BY <2>3, <3>1, FS_Subset
    <3>3. \A i \in 1 .. p - 1 : i \in Int /\ i < p + 1
      BY <1>1
    <3> QED
      BY <2>3, <3>2, <3>3
  <2>6. preset[c] \in Seq(Words)
    BY <1>3
  <2>7. WordsAt(U) \in Seq(Words)
    <3> HIDE DEF U
    <3>1. Cardinality(U) \in Nat
      BY <2>5, FS_CardinalityType
    <3>2. ASSUME NEW j \in 1 .. Cardinality(U)
          PROVE  input[Nth(U, j)] \in Words
      <4>1. Nth(U, j) \in U
        BY <2>5, NthFacts
      <4>2. Nth(U, j) \in 1 .. Len(input)
        <5>1. \A i \in 1 .. p - 1 : i \in 1 .. Len(input)
          BY <1>1, <1>2
        <5> QED
          BY <2>3, <4>1, <5>1
      <4> QED
        BY <1>2, <4>2
    <3> QED
      BY <3>1, <3>2 DEF WordsAt
  <2>8. data[c] = preset[c] \o WordsAt(U)
    <3>1. CASE old = {}
      <4>1. U = {} /\ Cardinality(U) = 0
        BY <3>1, FS_EmptySet
      <4>2. WordsAt(U) = <<>>
        <5> DEFINE w == WordsAt(U)
        <5>1. w \in Seq(Words) /\ DOMAIN w = 1 .. Cardinality(U)
          BY <2>7 DEF WordsAt
        <5> HIDE DEF w
        <5>2. Len(w) = 0
          BY <4>1, <5>1
        <5>3. w = <<>>
          BY <5>1, <5>2
        <5> QED
          BY <5>3 DEF w
      <4>3. data[c] = preset[c]
        <5>1. ValueAfter(c, {}) = preset[c]
          BY DEF ValueAfter
        <5> QED
          BY <1>5, <3>1, <5>1
      <4>4. preset[c] \o <<>> = preset[c]
        <5> HIDE DEF c
        <5> QED
          BY <2>6, ConcatEmptySeq
      <4> QED
        BY <4>2, <4>3, <4>4
    <3>2. CASE old # {}
      BY <1>1, <1>5, <1>8, <3>2 DEF ValueAfter
    <3> QED
      BY <3>1, <3>2
  <2>9. WordsAt(Took(at)) = WordsAt(U) \o list
    <3> DEFINE lo == p + 1
               hi == p + n
               T == U \cup (lo .. hi)
               d == Cardinality(U)
               w == WordsAt(U)
               wt == WordsAt(T)
    <3>1. n \in Nat /\ lo \in Int /\ hi \in Int /\ lo <= hi + 1 /\ hi + 1 - lo = n /\ lo - 1 = p
          /\ \A i \in U : i < lo
      BY <1>1, <2>1, <2>5
    <3> HIDE DEF U, n, list, lo, hi
    <3>2. /\ d \in Nat /\ Cardinality(T) = d + hi + 1 - lo
          /\ \A j \in 1 .. d : wt[j] = w[j]
          /\ \A j \in 1 .. hi + 1 - lo : wt[d + j] = input[lo - 1 + j]
      BY <2>5, <3>1, WordsBehind
    <3>3. Cardinality(T) = d + n
      <4> DEFINE card == Cardinality(T)
      <4>1. card = d + hi + 1 - lo /\ d \in Nat
        BY <3>2
      <4> HIDE DEF card, d, T
      <4>2. card = d + n
        BY <3>1, <4>1
      <4> QED
        BY <4>2 DEF card
    <3>4. \A j \in 1 .. n : wt[d + j] = list[j]
      BY <2>1, <3>1, <3>2
    <3>5. w \in Seq(Words) /\ DOMAIN w = 1 .. d /\ Len(list) = n
      BY <2>7 DEF WordsAt, n
    <3>6. wt = [j \in 1 .. d + n |-> wt[j]]
      BY <3>3 DEF WordsAt
    <3>7. T = Took(at)
      BY <2>2 DEF lo, hi
    <3> HIDE DEF w, wt, d, T
    <3>8. Len(w) = d
      BY <3>2, <3>5
    <3>9. w \o list = [j \in 1 .. d + n |-> IF j <= d THEN w[j] ELSE list[j - d]]
      <4> DEFINE both == w \o list
      <4>1. /\ both \in Seq(Words) /\ Len(both) = Len(w) + Len(list)
            /\ \A j \in 1 .. Len(w) + Len(list) : both[j] = IF j <= Len(w) THEN w[j] ELSE list[j - Len(w)]
        BY <2>1, <3>5, ConcatProperties
      <4> HIDE DEF both
      <4>2. both = [j \in 1 .. d + n |-> both[j]]
        BY <3>5, <3>8, <4>1
      <4> QED
        BY <3>5, <3>8, <4>1, <4>2 DEF both
    <3>10. ASSUME NEW j \in 1 .. d + n
           PROVE  wt[j] = IF j <= d THEN w[j] ELSE list[j - d]
      <4>1. CASE j <= d
        <5>1. j \in 1 .. d
          BY <3>1, <3>2, <4>1
        <5> QED
          BY <3>2, <4>1, <5>1
      <4>2. CASE ~(j <= d)
        <5>1. j - d \in 1 .. n /\ d + (j - d) = j
          BY <3>1, <3>2, <4>2
        <5>2. wt[d + (j - d)] = list[j - d]
          BY <3>4, <5>1
        <5> QED
          BY <4>2, <5>1, <5>2
      <4> QED
        BY <4>1, <4>2
    <3>11. wt = w \o list
      BY <3>6, <3>9, <3>10
    <3> QED
      BY <3>7, <3>11 DEF w, wt
  <2>10. (preset[c] \o WordsAt(U)) \o list = preset[c] \o (WordsAt(U) \o list)
    <3> DEFINE w == WordsAt(U)
               v == preset[c]
    <3>1. w \in Seq(Words) /\ v \in Seq(Words) /\ list \in Seq(Words)
      BY <2>1, <2>6, <2>7
    <3> HIDE DEF w, v, list
    <3>2. (v \o w) \o list = v \o (w \o list)
      BY <3>1, ConcatAssociative
    <3> QED
      BY <3>2 DEF w, v, list
  <2>11. ValueAfter(c, at) = data[c] \o list
    BY <2>4, <2>8, <2>9, <2>10
  <2> QED
    BY <1>8, <2>11
<1> QED
  BY <1>6, <1>7, <1>8

\* An option is taken out with its words, and has its value.
LEMMA OptionRead ==
  ASSUME Typed, Matches, ~MessageStays, NEW p, ReadTo(p), p \notin Errors,
         NEW n \in Nat \ {0}, Span(p) = n, NEW value, Take(n, value),
         value = ValueAfter(Record.command, Options(Record.command, p) \cup {p})
  PROVE  ReadTo(p + n)'
<1> DEFINE q == p + n
<1>1. /\ argument = KeptCount(p) + 1 /\ p \in 1 .. Len(input) /\ KeptCount(p) \in Nat
      /\ Record.command = input[p]
  BY MatchAtWord
<1>2. /\ Begun /\ PlaceIs(p) /\ ArgvAt(p) /\ DataAt(p) /\ input \in Seq(Words) /\ Len(input) \in Nat
      /\ argv \in Seq(Words)
  BY DEF Matches, InnerLoop, Typed, ReadTo, ArgsTypeOK
<1>3. /\ PlaceIs(q) /\ KeptBefore(q) = KeptBefore(p)
      /\ \A c : Options(c, q) = IF input[p] = c THEN Options(c, p) \cup {p} ELSE Options(c, p)
  <2>1. p <= Len(input)
    BY <1>1
  <2>2. Behind(p) = p + n
    BY <1>2, <2>1, PlaceMoves
  <2>3. /\ PlaceIs(Behind(p)) /\ KeptBefore(Behind(p)) = KeptBefore(p)
        /\ \A c : Options(c, Behind(p)) = IF input[p] = c THEN Options(c, p) \cup {p} ELSE Options(c, p)
    BY <1>2, <2>1, PlaceMoves
  <2> QED
    BY <2>2, <2>3
<1>4. n \in Nat /\ q <= Len(input) + 1
  BY <1>3 DEF PlaceIs
<1>5. UNCHANGED <<request, argRecords>> /\ argv' = Without(argument, n) /\ argument' = argument - 1
      /\ match' = match + 1 /\ data' = [data EXCEPT ![Record.command] = value] /\ match > 0 /\ match \in Nat
  BY DEF Take, Matches, InnerLoop
<1>6. ArgvAt(q)'
  BY <1>1, <1>2, <1>3, <1>4, <1>5, ArgvMoves
<1>7. PlaceIs(q)' /\ KeptCount(q)' = KeptCount(q) /\ KeptCount(q) = KeptCount(p)
  BY <1>3, <1>5, RequestDecides DEF KeptCount
<1>8. DataAt(q)'
  <2>1. \A c : ValueAfter(c, Options(c, q))' = ValueAfter(c, Options(c, q))
    BY <1>5, RequestDecides
  <2>2. ASSUME NEW c \in DOMAIN data'
        PROVE  data'[c] = ValueAfter(c, Options(c, q))
    <3>1. c \in DOMAIN data
      BY <1>5
    <3>2. CASE c = input[p]
      <4>1. data'[c] = value
        BY <1>1, <1>5, <3>1, <3>2
      <4> QED
        BY <1>1, <1>3, <3>2, <4>1
    <3>3. CASE c # input[p]
      <4>1. data'[c] = data[c]
        BY <1>1, <1>5, <3>1, <3>3
      <4> QED
        BY <1>2, <1>3, <3>1, <3>3, <4>1 DEF DataAt
    <3> QED
      BY <3>2, <3>3
  <2> QED
    BY <2>1, <2>2 DEF DataAt
<1>9. BeforeWord(q)'
  BY <1>1, <1>5, <1>7 DEF BeforeWord
<1> QED
  BY <1>6, <1>7, <1>8, <1>9 DEF ReadTo

\* The steps that take an option.
LEMMA OptionsReading ==
  ASSUME Typed, Reading, TakeFlag \/ TakeValue \/ TakeList
  PROVE  Reading'
<1>1. Matches /\ phase = "parse" /\ phase' = "parse" /\ Begun
      /\ UNCHANGED <<request, argRecords>> /\ DOMAIN data' = DOMAIN data
  BY DEF TakeFlag, TakeValue, TakeList, Take, Matches, InnerLoop, Typed
<1>2. \A c \in DOMAIN data : preset[c] \in Seq(Words)
  BY <1>1 DEF Reading
<1>3. \A c \in DOMAIN data' : preset'[c] \in Seq(Words)
  BY <1>1, <1>2 DEF request
<1>4. ASSUME ~MessageStays
      PROVE  \E q \in 1 .. Len(input) + 1 : ReadTo(q)'
  <2>1. PICK p : ReadTo(p)
    BY <1>1, <1>4 DEF Reading
  <2>2. /\ p \in 1 .. Len(input) /\ TypeOf(input[p]) = Record.type /\ input \in Seq(Words)
        /\ IsValue(argument + 1) <=> p < Len(input) /\ input[p + 1] \notin Dash1 \cap Dash2
    BY <1>1, <1>4, <2>1, MatchAtWord DEF Typed
  <2>3. p \notin Errors
    <3>1. Record.type \in {"flag", "list"} \/ (Record.type = "value" /\ IsValue(argument + 1))
      BY DEF TakeFlag, TakeValue, TakeList, ValueMissing
    <3>2. p # Len(input) \/ Record.type # "value"
      BY <2>2, <3>1
    <3> QED
      BY <2>2, <3>1, <3>2 DEF Errors, Lacking, Forbidden
  <2> DEFINE at == Options(Record.command, p) \cup {p}
  <2>4. /\ Record.type = "flag" => ValueAfter(Record.command, at) = <<arg(argument)>>
        /\ Record.type = "value" => ValueAfter(Record.command, at) = <<arg(argument + 1)>>
        /\ Record.type = "list" =>
             ValueAfter(Record.command, at) = data[Record.command] \o ListAfter(argument)
    BY <1>1, <1>2, <1>4, <2>1, <2>3, ValueIs
  <2>5. /\ Record.type = "flag" => Span(p) = 1
        /\ Record.type = "value" => Span(p) = 2
        /\ Record.type = "list" => Len(ListAfter(argument)) + 1 = Span(p)
    BY <1>1, <1>4, <2>1, <2>2, SpanFacts, ListSpan
  <2>6. Take(Span(p), ValueAfter(Record.command, at)) /\ Span(p) \in Nat \ {0}
    <3> HIDE DEF at, Take
    <3>1. CASE TakeFlag
      BY <2>4, <2>5, <3>1 DEF TakeFlag
    <3>2. CASE TakeValue
      BY <2>4, <2>5, <3>2 DEF TakeValue
    <3>3. CASE TakeList
      <4>1. Record.type = "list"
        BY <3>3 DEF TakeList
      <4>2. Take(Span(p), ValueAfter(Record.command, at))
        BY <2>4, <2>5, <3>3, <4>1 DEF TakeList
      <4>3. Span(p) \in Nat \ {0}
        BY <2>2, <4>1, SpanFacts
      <4> QED
        BY <4>2, <4>3
    <3> QED
      BY <3>1, <3>2, <3>3
  <2>7. PICK n \in Nat \ {0} : n = Span(p)
    BY <2>6
  <2>8. PICK value : value = ValueAfter(Record.command, at)
    OBVIOUS
  <2>9. Take(n, value)
    BY <2>6, <2>7, <2>8
  <2>10. ReadTo(p + n)'
    BY <1>1, <1>4, <2>1, <2>3, <2>7, <2>8, <2>9, OptionRead
  <2>11. p + n \in 1 .. Len(input) + 1
    BY <1>1, <2>10 DEF ReadTo, PlaceIs, request
  <2> QED
    BY <2>10, <2>11
<1>5. MessageStays' = MessageStays /\ input' = input
  BY <1>1, RequestDecides DEF request
<1> QED
  BY <1>1, <1>3, <1>4, <1>5 DEF Reading, ReadsExactly

\* The first error ends the process; a message that is no error stays.
LEMMA ErrorsReading ==
  ASSUME Typed, Reading, ExitWithoutValue \/ SkipMessage
  PROVE  Reading'
<1>1. Matches /\ phase = "parse" /\ Begun /\ UNCHANGED <<request, argRecords, data, argv, helpVars>>
  BY DEF ExitWithoutValue, SkipMessage, Matches, InnerLoop, Typed
<1>2. /\ MessageStays' = MessageStays /\ Errors' = Errors /\ Lacking' = Lacking
      /\ \A c \in DOMAIN data' : preset'[c] \in Seq(Words)
  BY <1>1, RequestDecides DEF request, Reading
<1>3. phase' \in {"parse", "over"}
  BY <1>1 DEF ExitWithoutValue, SkipMessage, Exit
<1>4. ASSUME ~MessageStays
      PROVE  /\ phase' = "over" /\ Errors # {}
             /\ exitCode' = IF Min(Errors) \in Lacking THEN 101 ELSE 102
  <2>1. PICK p : ReadTo(p)
    BY <1>1, <1>4 DEF Reading
  <2>2. /\ p \in 1 .. Len(input) /\ TypeOf(input[p]) = Record.type /\ input \in Seq(Words)
        /\ Record.type \in ArgType
        /\ IsValue(argument + 1) <=> p < Len(input) /\ input[p + 1] \notin Dash1 \cap Dash2
    BY <1>1, <1>4, <2>1, MatchAtWord DEF Typed
  <2>3. p \in Starts /\ PlaceIs(p)
    <3>1. PlaceIs(p)
      BY <2>1 DEF ReadTo
    <3>2. StartsFrom[p] = {p} \cup StartsFrom[Behind(p)]
      BY <2>2, StartsFacts
    <3> QED
      BY <3>1, <3>2 DEF PlaceIs
  <2>4. p \in Errors => Min(Errors) = p
    BY <1>1, <2>3, FirstError
  <2>5. p \in Lacking <=> /\ Record.type \in {"value", "message"}
                          /\ ~IsValue(argument + 1)
    <3>1. ~(p < Len(input)) <=> p = Len(input)
      BY <2>2
    <3> QED
      BY <2>2, <2>3, <3>1 DEF Lacking
  <2>6. CASE ExitWithoutValue
    <3>1. Record.type \in {"value", "message"} /\ ~IsValue(argument + 1)
      BY <2>2, <2>6 DEF ExitWithoutValue, ValueMissing, ArgType
    <3>2. p \in Lacking /\ p \in Errors
      BY <2>5, <3>1 DEF Errors
    <3> QED
      BY <2>4, <2>6, <3>2 DEF ExitWithoutValue, Exit
  <2>7. CASE SkipMessage
    <3>1. Record.type = "message" /\ IsValue(argument + 1)
      BY <2>7 DEF SkipMessage, ValueMissing
    <3>2. caxoe
      BY <1>4, <2>2, <2>3, <3>1 DEF MessageStays
    <3>3. p \in Errors /\ p \notin Lacking
      BY <2>2, <2>3, <2>5, <3>1, <3>2 DEF Errors, Forbidden
    <3> QED
      BY <2>4, <2>7, <3>2, <3>3 DEF SkipMessage, Exit
  <2> QED
    BY <2>6, <2>7
<1> QED
  BY <1>2, <1>3, <1>4 DEF Reading, ReadsExactly

\* At the end of the words all are read.
LEMMA EndFinished ==
  ASSUME Begun, argv \in Seq(Words), NEW p, PlaceIs(p), ArgvAt(p), DataAt(p), p = Len(input) + 1
  PROVE  Finished
<1> DEFINE kept == KeptBefore(p)
           k == Cardinality(kept)
<1>1. input \in Seq(Words) /\ Len(input) \in Nat /\ p \in Nat
  BY DEF Begun
<1>2. Starts \subseteq 1 .. Len(input) /\ StartsFrom[p] = {}
  <2>1. p \in 1 .. Len(input) + 2 /\ p > Len(input)
    BY <1>1
  <2> QED
    BY <1>1, <2>1, StartsFacts
<1>3. \A i \in Starts : i < p
  BY <1>1, <1>2
<1>4. Errors = {}
  <2>1. Errors \subseteq Starts
    BY DEF Errors, Lacking, Forbidden
  <2> QED
    BY <1>3, <2>1 DEF PlaceIs, Before
<1>5. kept = Kept /\ k \in Nat
  BY <1>3, KeptWords DEF KeptBefore, Kept, KeptCount
<1>6. \A c : Options(c, p) = {i \in Starts : input[i] = c}
  BY <1>3 DEF Options
<1>7. \A c \in DOMAIN data : data[c] = Value(c)
  BY <1>6 DEF DataAt, Value
<1>8. argv = <<Argv0>> \o WordsAt(kept)
  <2> DEFINE w == WordsAt(kept)
             a == <<Argv0>>
  <2>1. Len(argv) = k + 1 /\ argv[1] = Argv0 /\ \A n \in 1 .. k : argv[n + 1] = w[n]
    <3>1. argc = k + Len(input) + 2 - p
      BY DEF ArgvAt, KeptCount
    <3>2. argc = k + 1
      BY <1>1, <1>5, <3>1
    <3> QED
      BY <3>2 DEF ArgvAt, KeptCount, argc
  <2>2. w = [n \in 1 .. k |-> w[n]]
    BY DEF WordsAt
  <2> HIDE DEF kept
  <2>3. ASSUME NEW n \in 1 .. k
        PROVE  w[n] \in Words
    <3>1. w[n] = argv[n + 1] /\ n + 1 \in 1 .. Len(argv)
      BY <1>5, <2>1
    <3> QED
      BY <3>1
  <2> HIDE DEF w, k
  <2>4. w \in Seq(Words) /\ Len(w) = k
    BY <1>5, <2>2, <2>3
  <2>5. a \in Seq(Words) /\ Len(a) = 1 /\ a[1] = Argv0
    BY ArgParserAssumption
  <2> HIDE DEF a
  <2>6. /\ a \o w \in Seq(Words) /\ Len(a \o w) = k + 1
        /\ \A n \in 1 .. 1 + k : (a \o w)[n] = IF n <= 1 THEN a[n] ELSE w[n - 1]
    BY <1>5, <2>4, <2>5, ConcatProperties
  <2>7. ASSUME NEW n \in 1 .. k + 1
        PROVE  argv[n] = (a \o w)[n]
    <3>1. CASE n = 1
      BY <1>5, <2>1, <2>5, <2>6, <3>1
    <3>2. CASE n # 1
      <4>1. n - 1 \in 1 .. k /\ n - 1 + 1 = n /\ n \in 1 .. 1 + k /\ ~(n <= 1)
        BY <1>5, <3>2
      <4> QED
        BY <2>1, <2>6, <4>1
    <3> QED
      BY <3>1, <3>2
  <2> DEFINE b == a \o w
  <2>8. b \in Seq(Words) /\ Len(b) = Len(argv) /\ \A n \in 1 .. Len(argv) : argv[n] = b[n]
    BY <2>1, <2>6, <2>7
  <2> HIDE DEF b
  <2>9. argv = b
    BY <2>8
  <2> QED
    BY <2>9 DEF a, w, b
<1> QED
  BY <1>4, <1>5, <1>7, <1>8 DEF Finished

\* A word that no record has stays.
LEMMA WordStays ==
  ASSUME Typed, phase = "parse", NEW p, ReadTo(p), AtWord(p), p <= Len(input), ~MessageStays,
         \A r \in DOMAIN argRecords : argRecords[r].command # input[p]
  PROVE  PlaceIs(p + 1) /\ KeptCount(p + 1) = KeptCount(p) + 1 /\ ArgvAt(p + 1) /\ DataAt(p + 1)
<1> DEFINE k == KeptCount(p)
           len == Len(input)
<1>1. Begun /\ PlaceIs(p) /\ ArgvAt(p) /\ DataAt(p) /\ input \in Seq(Words)
  BY DEF Typed, ReadTo
<1>2. p \in 1 .. len /\ len \in Nat /\ p \in Int
  BY <1>1 DEF PlaceIs
<1>3. TypeOf(input[p]) = "none"
  BY <1>1, TypeFacts
<1>4. Span(p) = 0
  BY <1>1, <1>2, <1>3, SpanFacts
<1>5. p \notin Errors
  BY <1>3 DEF Errors, Lacking, Forbidden
<1>6. /\ Behind(p) = p + 1 /\ PlaceIs(p + 1) /\ KeptBefore(p + 1) = KeptBefore(p) \cup {p}
      /\ \A c : Options(c, p + 1) = IF input[p] = c THEN Options(c, p) \cup {p} ELSE Options(c, p)
  <2>1. Behind(p) = p + 1
    BY <1>1, <1>4, <1>5, PlaceMoves
  <2>2. /\ PlaceIs(Behind(p)) /\ KeptBefore(Behind(p)) = KeptBefore(p) \cup {p}
        /\ \A c : Options(c, Behind(p)) = IF input[p] = c THEN Options(c, p) \cup {p} ELSE Options(c, p)
    BY <1>1, <1>4, <1>5, PlaceMoves
  <2> QED
    BY <2>1, <2>2
<1>7. KeptBefore(p) \in SUBSET (1 .. p - 1) /\ IsFiniteSet(KeptBefore(p)) /\ k \in Nat
  BY <1>1, KeptWords
<1>8. {p} = p .. p
  BY <1>2
<1>9. /\ KeptCount(p + 1) = k + 1
      /\ \A n \in 1 .. k : WordsAt(KeptBefore(p + 1))[n] = WordsAt(KeptBefore(p))[n]
      /\ WordsAt(KeptBefore(p + 1))[k + 1] = input[p]
  <2> DEFINE S == KeptBefore(p)
             T == S \cup (p .. p)
             c == Cardinality(S)
  <2>1. S \in SUBSET Int /\ \A i \in S : i < p
    BY <1>2, <1>7
  <2>2. /\ c \in Nat /\ Cardinality(T) = c + p + 1 - p
        /\ \A n \in 1 .. c : WordsAt(T)[n] = WordsAt(S)[n]
        /\ \A n \in 1 .. p + 1 - p : WordsAt(T)[c + n] = input[p - 1 + n]
    <3> HIDE DEF S
    <3>1. p <= p + 1 /\ IsFiniteSet(S)
      BY <1>2, <1>7 DEF S
    <3> QED
      BY <1>2, <2>1, <3>1, WordsBehind
  <2>3. T = KeptBefore(p + 1) /\ c = k
    BY <1>6, <1>8 DEF KeptCount
  <2>4. 1 \in 1 .. p + 1 - p /\ p - 1 + 1 = p /\ c + p + 1 - p = c + 1
    BY <1>2, <2>2
  <2> HIDE DEF T, c, S, k
  <2>5. Cardinality(T) = k + 1 /\ WordsAt(T)[k + 1] = input[p]
    BY <2>2, <2>3, <2>4
  <2> QED
    BY <2>2, <2>3, <2>5 DEF KeptCount, S
<1>10. ArgvAt(p + 1)
  <2>1. /\ argc = k + len + 2 - p /\ argv[1] = Argv0
        /\ \A n \in 1 .. k : argv[n + 1] = WordsAt(KeptBefore(p))[n]
        /\ \A n \in 1 .. len + 1 - p : argv[k + 1 + n] = input[p - 1 + n]
    BY <1>1 DEF ArgvAt
  <2> HIDE DEF k, len
  <2>2. argc = (k + 1) + len + 2 - (p + 1)
    BY <1>2, <1>7, <2>1
  <2>3. ASSUME NEW n \in 1 .. k + 1
        PROVE  argv[n + 1] = WordsAt(KeptBefore(p + 1))[n]
    <3>1. CASE n \in 1 .. k
      BY <1>9, <2>1, <3>1
    <3>2. CASE n = k + 1
      <4>1. 1 \in 1 .. len + 1 - p /\ k + 1 + 1 = n + 1 /\ p - 1 + 1 = p
        BY <1>2, <1>7, <3>2
      <4> QED
        BY <1>9, <2>1, <3>2, <4>1
    <3> QED
      BY <1>7, <3>1, <3>2
  <2>4. ASSUME NEW n \in 1 .. len + 1 - (p + 1)
        PROVE  argv[k + 1 + 1 + n] = input[p + 1 - 1 + n]
    <3>1. n + 1 \in 1 .. len + 1 - p /\ k + 1 + (n + 1) = k + 1 + 1 + n /\ p - 1 + (n + 1) = p + 1 - 1 + n
      BY <1>2, <1>7
    <3> QED
      BY <2>1, <3>1
  <2> QED
    <3>1. KeptCount(p + 1) = k + 1
      BY <1>9
    <3>2. argc = KeptCount(p + 1) + len + 2 - (p + 1)
      BY <2>2, <3>1
    <3>3. \A n \in 1 .. KeptCount(p + 1) : argv[n + 1] = WordsAt(KeptBefore(p + 1))[n]
      BY <2>3, <3>1
    <3>4. \A n \in 1 .. len + 1 - (p + 1) : argv[KeptCount(p + 1) + 1 + n] = input[p + 1 - 1 + n]
      BY <2>4, <3>1
    <3>5. PICK q : q = p + 1
      OBVIOUS
    <3>6. argc = KeptCount(q) + len + 2 - q
      BY <3>2, <3>5
    <3>7. \A n \in 1 .. KeptCount(q) : argv[n + 1] = WordsAt(KeptBefore(q))[n]
      BY <3>3, <3>5
    <3>8. \A n \in 1 .. len + 1 - q : argv[KeptCount(q) + 1 + n] = input[q - 1 + n]
      <4> SUFFICES ASSUME NEW n \in 1 .. len + 1 - q
                   PROVE  argv[KeptCount(q) + 1 + n] = input[q - 1 + n]
        OBVIOUS
      <4>1. n \in 1 .. len + 1 - (p + 1) /\ KeptCount(q) = KeptCount(p + 1) /\ q - 1 + n = p + 1 - 1 + n
        <5>1. n \in 1 .. len + 1 - (p + 1)
          BY <3>5
        <5>2. KeptCount(q) = KeptCount(p + 1)
          BY <3>5
        <5>3. n \in Int
          OBVIOUS
        <5>4. q - 1 + n = p + 1 - 1 + n
          BY <1>2, <3>5, <5>3
        <5> QED
          BY <5>1, <5>2, <5>4
      <4>2. argv[KeptCount(p + 1) + 1 + n] = input[p + 1 - 1 + n]
        BY <3>4, <4>1
      <4> QED
        BY <4>1, <4>2
    <3>9. ArgvAt(q)
      BY <2>1, <3>6, <3>7, <3>8, Zenon DEF ArgvAt, len
    <3> QED
      BY <3>5, <3>9
<1>11. DataAt(p + 1)
  <2>1. \A c \in DOMAIN data : c # input[p]
    BY <1>1 DEF Begun
  <2> QED
    BY <1>1, <1>6, <2>1 DEF DataAt
<1> QED
  BY <1>6, <1>9, <1>10, <1>11

LEMMA RoundsReading ==
  ASSUME Typed, Reading, NextArgument \/ Mismatch
  PROVE  Reading'
<1>1. /\ phase = "parse" /\ Begun /\ UNCHANGED <<request, argRecords, argv, data, exitCode, helpVars>>
      /\ argv \in Seq(Words) /\ Silent /\ exitCode = Null
  BY DEF NextArgument, Mismatch, InnerLoop, Typed, ArgsTypeOK
<1>2. \A c \in DOMAIN data' : preset'[c] \in Seq(Words)
  BY <1>1 DEF request, Reading
<1>3. phase' \in {"parse", "check", "over"}
  BY <1>1 DEF NextArgument, Mismatch
<1>4. /\ MessageStays' = MessageStays /\ Errors' = Errors /\ Kept' = Kept
      /\ \A S : WordsAt(S)' = WordsAt(S)
      /\ \A c : Value(c)' = Value(c)
      /\ \A k : KeptBefore(k)' = KeptBefore(k) /\ KeptCount(k)' = KeptCount(k)
      /\ \A c, k : ValueAfter(c, Options(c, k))' = ValueAfter(c, Options(c, k))
      /\ \A k : PlaceIs(k)' = PlaceIs(k)
      /\ input' = input
  BY <1>1, RequestDecides DEF request
<1>5. ASSUME NEW q, PlaceIs(q), ArgvAt(q), DataAt(q)
      PROVE  PlaceIs(q)' /\ ArgvAt(q)' /\ DataAt(q)'
  <2>1. ArgvAt(q)'
    <3>1. WordsAt(KeptBefore(q))' = WordsAt(KeptBefore(q))
      BY <1>4 DEF WordsAt
    <3> QED
      BY <1>1, <1>4, <1>5, <3>1 DEF ArgvAt, argc
  <2>2. DataAt(q)'
    BY <1>1, <1>4, <1>5 DEF DataAt
  <2> QED
    BY <1>4, <1>5, <2>1, <2>2
<1>6. ASSUME ~MessageStays
      PROVE  /\ phase' = "parse" => \E q \in 1 .. Len(input) + 1 : ReadTo(q)'
             /\ phase' # "parse" => Finished
  <2>1. PICK p \in 1 .. Len(input) + 1 : ReadTo(p)
    BY <1>1, <1>6 DEF Reading
  <2>2. PlaceIs(p) /\ ArgvAt(p) /\ DataAt(p) /\ KeptCount(p) \in Nat /\ argc = KeptCount(p) + Len(input) + 2 - p
        /\ Len(input) \in Nat /\ p \in Nat
    BY <1>1, <2>1, KeptWords DEF ReadTo, ArgvAt, Begun
  <2>3. match \in Nat /\ match <= NumArgs + 1 /\ NumArgs \in Nat /\ DOMAIN argRecords = 1 .. NumArgs
    BY DEF Typed, ArgsTypeOK, NumArgs
  <2>4. CASE match = 0 /\ argument < argc /\ NextArgument
    <3>1. AtWord(p) /\ match' = 1 /\ phase' = "parse" /\ argument' = argument
      <4>1. AtWord(p)
        BY <2>1, <2>4 DEF ReadTo, BeforeWord
      <4>2. ~(argument >= argc)
        BY <2>2, <2>4, <4>1 DEF AtWord
      <4> QED
        BY <1>1, <2>4, <4>1, <4>2 DEF NextArgument
    <3>2. p <= Len(input)
      BY <2>2, <2>4, <3>1 DEF AtWord
    <3>3. AtWord(p)'
      BY <1>4, <3>1, <3>2 DEF AtWord
    <3> QED
      BY <1>5, <2>2, <3>1, <3>3 DEF ReadTo
  <2>5. CASE match = 0 /\ argument >= argc /\ NextArgument
    <3>1. AtWord(p)
      BY <2>1, <2>5 DEF ReadTo, BeforeWord
    <3>2. p = Len(input) + 1
      BY <2>2, <2>5, <3>1 DEF AtWord
    <3>3. Finished
      BY <1>1, <2>2, <3>2, EndFinished
    <3>4. phase' # "parse"
      BY <2>2, <2>5, <3>1 DEF NextArgument, AtWord
    <3> QED
      BY <3>3, <3>4
  <2>6. CASE match > 0 /\ NextArgument
    <3>1. /\ argument' = argument + 1 /\ match' = 0 /\ phase' = "parse"
          /\ match > NumArgs \/ argument >= argc
      BY <1>1, <2>6 DEF NextArgument
    <3>2. CASE AtWord(p)
      <4>1. argument = KeptCount(p) + 1 /\ p <= Len(input)
        BY <2>6, <3>2 DEF AtWord
      <4>2. match > NumArgs
        BY <2>2, <3>1, <4>1
      <4>3. \A r \in DOMAIN argRecords : argRecords[r].command # input[p]
        BY <2>3, <3>2, <4>2 DEF AtWord
      <4>4. PlaceIs(p + 1) /\ KeptCount(p + 1) = KeptCount(p) + 1 /\ ArgvAt(p + 1) /\ DataAt(p + 1)
        BY <1>1, <1>6, <2>1, <3>2, <4>1, <4>3, WordStays
      <4>5. AtWord(p + 1)'
        BY <1>4, <2>2, <3>1, <4>1, <4>4 DEF AtWord
      <4>6. p + 1 \in 1 .. Len(input) + 1
        BY <2>2, <4>1
      <4> QED
        BY <1>5, <3>1, <4>4, <4>5, <4>6 DEF ReadTo
    <3>3. CASE BeforeWord(p)
      <4>1. AtWord(p)'
        BY <1>4, <2>2, <3>1, <3>3 DEF AtWord, BeforeWord
      <4> QED
        BY <1>5, <2>2, <3>1, <4>1 DEF ReadTo
    <3> QED
      BY <2>1, <3>2, <3>3 DEF ReadTo
  <2>7. CASE Mismatch
    <3>1. /\ InnerLoop /\ Record.command # arg(argument) /\ match' = match + 1 /\ match > 0
          /\ argument' = argument /\ phase' = "parse"
      BY <1>1, <2>7 DEF Mismatch, InnerLoop, Matches
    <3>2. CASE AtWord(p)
      <4>1. argument = KeptCount(p) + 1 /\ p <= Len(input)
        BY <3>1, <3>2 DEF AtWord
      <4>2. arg(argument) = input[p]
        <5>1. 1 \in 1 .. Len(input) + 1 - p /\ KeptCount(p) + 1 + 1 = argument + 1 /\ p - 1 + 1 = p
          BY <2>2, <4>1
        <5> QED
          BY <2>2, <5>1 DEF ArgvAt, arg
      <4>3. \A r \in 1 .. match : argRecords[r].command # input[p]
        <5>1. \A r \in 1 .. match : r = match \/ r \in 1 .. match - 1
          BY <2>3
        <5> QED
          BY <3>1, <3>2, <4>2, <5>1 DEF AtWord, Record
      <4>4. AtWord(p)'
        <5>1. 1 .. match' - 1 = 1 .. match
          BY <2>3, <3>1
        <5> QED
          BY <1>1, <1>4, <3>1, <4>1, <4>3, <5>1 DEF AtWord
      <4> QED
        BY <1>5, <2>2, <3>1, <4>4 DEF ReadTo
    <3>3. CASE BeforeWord(p)
      <4>1. BeforeWord(p)'
        BY <1>4, <2>3, <3>1, <3>3 DEF BeforeWord
      <4> QED
        BY <1>5, <2>2, <3>1, <4>1 DEF ReadTo
    <3> QED
      BY <2>1, <3>2, <3>3 DEF ReadTo
  <2> QED
    BY <2>3, <2>4, <2>5, <2>6, <2>7 DEF NextArgument
<1>7. ASSUME Finished
      PROVE  Finished'
  <2>1. WordsAt(Kept)' = WordsAt(Kept)
    BY <1>1, <1>4 DEF WordsAt, request
  <2> QED
    BY <1>1, <1>4, <1>7, <2>1 DEF Finished
<1>8. shown' = <<>> /\ exitCode' = Null
  BY <1>1 DEF Silent, helpVars
<1>9. ASSUME phase' = "over"
      PROVE  ReadsExactly'
  <2>1. ~MessageStays' => Finished'
    BY <1>4, <1>6, <1>7, <1>9
  <2> QED
    BY <1>8, <2>1 DEF ReadsExactly, Finished
<1>10. phase' # "over" => ReadsExactly'
  BY DEF ReadsExactly
<1>11. phase' # "help"
  BY <1>3
<1>12. phase' \in {"check", "help"} /\ ~MessageStays' => Finished'
  BY <1>4, <1>6, <1>7
<1>13. phase' = "parse" /\ ~MessageStays' => (\E q \in 1 .. Len(input) + 1 : ReadTo(q))'
  BY <1>4, <1>6
<1> QED
  BY <1>2, <1>9, <1>10, <1>11, <1>12, <1>13 DEF Reading

\* At the call nothing is read.
LEMMA NothingRead ==
  Begun /\ Unread /\ argv \in Seq(Words) /\ preset = data => ReadTo(1)
<1> SUFFICES ASSUME Begun, Unread, argv \in Seq(Words), preset = data
             PROVE  ReadTo(1)
  OBVIOUS
<1>1. input \in Seq(Words) /\ Len(input) \in Nat
  BY DEF Begun
<1>2. Starts \subseteq 1 .. Len(input)
  BY <1>1, StartsFacts
<1>3. \A i \in Starts : ~(i < 1)
  BY <1>1, <1>2
<1>4. PlaceIs(1)
  BY <1>1, <1>3 DEF PlaceIs, Before, Starts
<1>5. KeptBefore(1) = {} /\ KeptCount(1) = 0
  BY <1>3, FS_EmptySet DEF KeptBefore, Kept, KeptCount
<1>6. \A c : Options(c, 1) = {}
  BY <1>3 DEF Options
<1>7. DataAt(1)
  BY <1>6 DEF DataAt, ValueAfter
<1>8. ArgvAt(1)
  <2> DEFINE a == <<Argv0>>
  <2>1. a \in Seq(Words) /\ Len(a) = 1 /\ a[1] = Argv0
    BY ArgParserAssumption
  <2> HIDE DEF a
  <2>2. /\ Len(a \o input) = 1 + Len(input)
        /\ \A n \in 1 .. 1 + Len(input) : (a \o input)[n] = IF n <= 1 THEN a[n] ELSE input[n - 1]
    <3>1. /\ Len(a \o input) = Len(a) + Len(input)
          /\ \A n \in 1 .. Len(a) + Len(input) :
               (a \o input)[n] = IF n <= Len(a) THEN a[n] ELSE input[n - Len(a)]
      BY <1>1, <2>1, ConcatProperties
    <3> QED
      BY <2>1, <3>1
  <2>3. argv = a \o input
    BY DEF Unread, a
  <2>4. Len(argv) = 1 + Len(input) /\ argv[1] = Argv0
    <3>1. 1 \in 1 .. 1 + Len(input)
      BY <1>1
    <3> QED
      BY <2>1, <2>2, <2>3, <3>1
  <2>5. ASSUME NEW n \in 1 .. Len(input) + 1 - 1
        PROVE  argv[0 + 1 + n] = input[1 - 1 + n]
    <3>1. 0 + 1 + n \in 1 .. 1 + Len(input) /\ ~(0 + 1 + n <= 1) /\ 0 + 1 + n - 1 = 1 - 1 + n
      BY <1>1
    <3> QED
      BY <2>2, <2>3, <3>1
  <2>6. argc = 0 + Len(input) + 2 - 1
    BY <1>1, <2>4 DEF argc
  <2> QED
    BY <1>5, <2>4, <2>5, <2>6 DEF ArgvAt
<1>9. AtWord(1)
  BY <1>5 DEF AtWord, Unread
<1> QED
  BY <1>4, <1>7, <1>8, <1>9 DEF ReadTo

LEMMA ParseReading ==
  ASSUME Typed, Parse
  PROVE  Reading'
<1>1. /\ phase = "set" /\ phase' = "parse" /\ preset' = data /\ Begun /\ Unread /\ argv \in Seq(Words)
      /\ \A c \in DOMAIN data : data[c] \in Seq(Words)
      /\ UNCHANGED <<table, input, caxoe, argRecords, argv, argument, match, data, exitCode, helpVars>>
  BY DEF Parse, Typed, ArgsTypeOK
<1>2. Begun' /\ Unread' /\ argv' \in Seq(Words) /\ preset' = data'
  BY <1>1 DEF Begun, Unread, argc
<1>3. (Begun /\ Unread /\ argv \in Seq(Words) /\ preset = data => ReadTo(1))'
  BY NothingRead, PTL
<1>4. ReadTo(1)'
  BY <1>2, <1>3
<1>5. 1 \in 1 .. Len(input') + 1
  BY <1>2 DEF Begun
<1>6. (\E q \in 1 .. Len(input) + 1 : ReadTo(q))'
  BY <1>4, <1>5
<1>7. \A c \in DOMAIN data' : preset'[c] \in Seq(Words)
  BY <1>1
<1> QED
  BY <1>1, <1>6, <1>7 DEF Reading, ReadsExactly

\* The check of what is left, and the help text.
LEMMA HelpReading ==
  ASSUME Typed, Reading, Check \/ PrintLine \/ PrintNext
  PROVE  Reading'
<1>1. /\ phase \in {"check", "help"} /\ phase' \in {"help", "over"} /\ Begun
      /\ UNCHANGED <<request, argRecords, argv, argument, match, data>>
  BY DEF Check, PrintLine, PrintNext, Typed
<1>2. /\ MessageStays' = MessageStays /\ Errors' = Errors /\ Kept' = Kept /\ \A c : Value(c)' = Value(c)
      /\ \A i : ShownEntry(i)' = ShownEntry(i)
      /\ table' = table
  BY <1>1, RequestDecides DEF request
<1>3. CASE MessageStays
  BY <1>1, <1>2, <1>3 DEF Reading, ReadsExactly
<1>4. CASE ~MessageStays
  <2>1. Finished
    BY <1>1, <1>4 DEF Reading
  <2>2. Finished'
    <3>1. WordsAt(Kept)' = WordsAt(Kept)
      BY <1>1, <1>2 DEF WordsAt, request
    <3> QED
      BY <1>1, <1>2, <2>1, <3>1 DEF Finished
  <2>3. table = argRecords /\ NumArgs \in Nat /\ DOMAIN table = 1 .. NumArgs
        /\ \A i \in DOMAIN table : table[i].type \in ArgType /\ table[i].command \in DOMAIN data
    <3>1. argRecords \in Seq([command : Words, type : ArgType]) /\ table = argRecords
      BY <1>1 DEF Typed, ArgsTypeOK, Begun
    <3> DEFINE R == [command : Words, type : ArgType]
    <3>2. \A r \in R : r.type \in ArgType
      OBVIOUS
    <3>3. argRecords \in Seq(R)
      BY <3>1
    <3> HIDE DEF R
    <3>4. \A i \in DOMAIN argRecords : argRecords[i] \in R
      BY <3>3
    <3>5. NumArgs \in Nat /\ DOMAIN argRecords = 1 .. NumArgs
      BY <3>3 DEF NumArgs
    <3> QED
      BY <1>1, <3>1, <3>2, <3>4, <3>5 DEF Begun
  <2>4. CASE Check
    <3>1. phase = "check" /\ exitCode = Null /\ Silent
      BY <2>4 DEF Check, Typed
    <3>2. CASE phase' = "over"
      <4>1. exitCode' = Null /\ shown' = <<>>
        BY <2>4, <3>1, <3>2 DEF Check, Silent, helpVars
      <4>2. ReadsExactly'
        BY <2>2, <4>1 DEF ReadsExactly, Finished
      <4> QED
        BY <3>2, <4>2 DEF Reading
    <3>3. CASE phase' = "help"
      <4>1. entry' = 1 /\ shown' = <<>>
        BY <2>4, <3>1, <3>3 DEF Check, Silent
      <4>2. <<>> = [i \in 1 .. 0 |-> ShownEntry(i)]
        OBVIOUS
      <4>3. (shown = [i \in 1 .. entry - 1 |-> ShownEntry(i)])'
        BY <1>2, <4>1, <4>2
      <4> QED
        BY <2>2, <3>3, <4>3 DEF Reading, ReadsExactly
    <3> QED
      BY <1>1, <3>2, <3>3
  <2>5. CASE PrintLine
    <3>1. phase = "help" /\ phase' = "help" /\ entry' = entry /\ shown' = shown
      BY <2>5 DEF PrintLine
    <3>2. (shown = [i \in 1 .. entry - 1 |-> ShownEntry(i)])'
      BY <1>2, <1>4, <3>1 DEF Reading
    <3> QED
      BY <2>2, <3>1, <3>2 DEF Reading, ReadsExactly
  <2>6. CASE PrintNext
    <3>1. phase = "help" /\ exitCode' = exitCode /\ entry \in 1 .. NumArgs + 1 /\ exitCode \in {0, 103}
      BY <2>3, <2>6 DEF PrintNext, Typed, ArgsTypeOK
    <3>2. shown = [i \in 1 .. entry - 1 |-> ShownEntry(i)]
      BY <1>4, <3>1 DEF Reading
    <3>3. CASE entry <= NumArgs
      <4> DEFINE new == <<argRecords[entry].command, GetValue(argRecords[entry])>>
      <4>1. phase' = "help" /\ entry' = entry + 1 /\ shown' = Append(shown, new)
        BY <2>6, <3>1, <3>3 DEF PrintNext
      <4>2. new = ShownEntry(entry)
        <5>1. entry \in DOMAIN table
          BY <2>3, <3>1, <3>3
        <5>2. data[table[entry].command] = Value(table[entry].command)
          BY <2>1, <2>3, <5>1 DEF Finished
        <5> QED
          BY <2>3, <5>1, <5>2 DEF GetValue, ShownEntry, ArgType
      <4> HIDE DEF new
      <4>3. Append(shown, new) = [i \in 1 .. entry |-> ShownEntry(i)]
        BY <3>1, <3>2, <4>2
      <4>4. (shown = [i \in 1 .. entry - 1 |-> ShownEntry(i)])'
        <5>1. entry' - 1 = entry
          BY <3>1, <4>1
        <5> QED
          BY <1>2, <4>1, <4>3, <5>1
      <4> QED
        BY <2>2, <4>1, <4>4 DEF Reading, ReadsExactly
    <3>4. CASE entry > NumArgs
      <4>1. phase' = "over" /\ shown' = shown /\ entry - 1 = NumArgs
        BY <2>3, <2>6, <3>1, <3>4 DEF PrintNext
      <4>2. exitCode' # Null /\ exitCode' \in {Null, 0, 103}
        BY <3>1, ArgParserAssumption
      <4>3. shown' = [i \in DOMAIN table' |-> ShownEntry(i)']
        BY <1>2, <2>3, <3>2, <4>1
      <4>4. ReadsExactly'
        BY <2>2, <4>2, <4>3 DEF ReadsExactly, Finished, ShownEntry
      <4> QED
        BY <4>1, <4>4 DEF Reading
    <3> QED
      BY <2>3, <3>1, <3>3, <3>4
  <2> QED
    BY <2>4, <2>5, <2>6
<1> QED
  BY <1>3, <1>4

\* Steps outside parseArguments().
LEMMA OthersReading ==
  ASSUME Typed, Reading, Begin \/ (\E p \in Presets : SetArgument(p.command, p.type, p.value))
                         \/ UNCHANGED argsVars
  PROVE  Reading'
<1>1. CASE Begin
  <2>1. phase' \in {"set", "over"} /\ (phase' = "over" => Len(table') > MaximumArguments)
    BY <1>1 DEF Begin, Exit
  <2>2. table' \in Tables
    BY <1>1 DEF Begin
  <2>3. Len(table') \in Nat /\ MaximumArguments \in Nat
    BY <2>2, ArgParserAssumption
  <2> QED
    BY <2>1, <2>3 DEF Reading, ReadsExactly
<1>2. CASE \E p \in Presets : SetArgument(p.command, p.type, p.value)
  <2>1. phase' = "set"
    BY <1>2 DEF SetArgument
  <2> QED
    BY <2>1 DEF Reading, ReadsExactly
<1>3. CASE UNCHANGED argsVars
  <2>1. /\ UNCHANGED <<request, argRecords>> /\ UNCHANGED <<phase, argv, argument, match, data, exitCode, helpVars>>
    BY <1>3 DEF argsVars, request, helpVars
  <2> USE <2>1
  <2>2. /\ MessageStays' = MessageStays /\ Errors' = Errors /\ Kept' = Kept /\ Lacking' = Lacking
        /\ \A c : Value(c)' = Value(c)
        /\ \A i : ShownEntry(i)' = ShownEntry(i)
        /\ \A k : KeptBefore(k)' = KeptBefore(k) /\ KeptCount(k)' = KeptCount(k)
        /\ \A c, k : ValueAfter(c, Options(c, k))' = ValueAfter(c, Options(c, k))
        /\ \A k : PlaceIs(k)' = PlaceIs(k)
        /\ input' = input /\ table' = table /\ preset' = preset
    BY RequestDecides DEF request
  <2>3. \A q : ReadTo(q) => ReadTo(q)'
    BY <2>2 DEF ReadTo, ArgvAt, DataAt, AtWord, BeforeWord, argc, WordsAt
  <2>4. Finished => Finished'
    BY <2>2 DEF Finished, WordsAt
  <2>5. ReadsExactly => ReadsExactly'
    <3>1. WordsAt(Kept)' = WordsAt(Kept)
      BY <2>2 DEF WordsAt
    <3>2. [i \in DOMAIN table |-> ShownEntry(i)]' = [i \in DOMAIN table |-> ShownEntry(i)]
      BY <2>2
    <3>3. shown' = shown /\ exitCode' = exitCode /\ phase' = phase /\ argv' = argv /\ data' = data
      BY DEF helpVars
    <3> QED
      BY <2>2, <3>1, <3>2, <3>3 DEF ReadsExactly
  <2>6. entry' = entry /\ shown' = shown
    BY DEF helpVars
  <2>7. (\E q \in 1 .. Len(input) + 1 : ReadTo(q)) => (\E q \in 1 .. Len(input) + 1 : ReadTo(q))'
    BY <2>2, <2>3
  <2> QED
    BY <2>2, <2>4, <2>5, <2>6, <2>7 DEF Reading
<1> QED
  BY <1>1, <1>2, <1>3

LEMMA AlwaysReading == ArgsSpec => []Reading
<1>1. ArgsInit => Reading
  BY DEF ArgsInit, Reading, ReadsExactly
<1>2. Typed /\ Reading /\ [ArgsNext]_argsVars => Reading'
  <2> SUFFICES ASSUME Typed, Reading, [ArgsNext]_argsVars
               PROVE  Reading'
    OBVIOUS
  <2>1. CASE ArgsStep
    BY <2>1, ParseReading, RoundsReading, ErrorsReading, OptionsReading, HelpReading DEF ArgsStep
  <2>2. CASE Begin \/ (\E p \in Presets : SetArgument(p.command, p.type, p.value)) \/ UNCHANGED argsVars
    BY <2>2, OthersReading
  <2> QED
    BY <2>1, <2>2 DEF ArgsNext, Ended
<1> QED
  BY <1>1, <1>2, AlwaysTyped, PTL DEF ArgsSpec

\* Only a call that may exit looks at what is left, or ends because of a message.
Asked ==
  /\ phase \in {"set", "parse", "check", "help"} => exitCode = Null \/ caxoe
  /\ phase \in {"check", "help"} => caxoe
  /\ phase = "over" /\ ~caxoe => exitCode \in {Null, 100, 101}

LEMMA AlwaysAsked == ArgsSpec => []Asked
<1>1. ArgsInit => Asked
  BY DEF ArgsInit, Asked
<1>2. Typed /\ Asked /\ [ArgsNext]_argsVars => Asked'
  <2> SUFFICES ASSUME Typed, Asked, [ArgsNext]_argsVars
               PROVE  Asked'
    OBVIOUS
  <2>1. CASE Begin
    BY <2>1 DEF Begin, Exit, Typed, Asked
  <2>2. CASE \E p \in Presets : SetArgument(p.command, p.type, p.value)
    BY <2>2 DEF SetArgument, request, Asked
  <2>3. CASE Parse \/ NextArgument \/ Mismatch
    BY <2>3 DEF Parse, NextArgument, Mismatch, InnerLoop, request, Typed, Asked
  <2>4. CASE ExitWithoutValue \/ SkipMessage
    BY <2>4 DEF ExitWithoutValue, SkipMessage, Exit, Matches, InnerLoop, request, Typed, Asked
  <2>5. CASE TakeFlag \/ TakeValue \/ TakeList
    BY <2>5 DEF TakeFlag, TakeValue, TakeList, Take, Matches, InnerLoop, request, Typed, Asked
  <2>6. CASE Check \/ PrintLine \/ PrintNext
    BY <2>6 DEF Check, PrintLine, PrintNext, request, Typed, Asked
  <2>7. CASE UNCHANGED argsVars
    BY <2>7 DEF argsVars, Asked
  <2> QED
    BY <2>1, <2>2, <2>3, <2>4, <2>5, <2>6, <2>7 DEF ArgsNext, ArgsStep, Ended
<1> QED
  BY <1>1, <1>2, AlwaysTyped, PTL DEF ArgsSpec

\* An option without a place on the command line keeps its default, which help shows.
LEMMA NotGivenShows ==
  ASSUME NEW i \in DOMAIN table, table[i].command \notin {input[j] : j \in Starts}
  PROVE  ShownEntry(i) = <<table[i].command, Default(i)>>
<1>1. {j \in Starts : input[j] = table[i].command} = {}
  OBVIOUS
<1>2. Value(table[i].command) = preset[table[i].command]
  BY <1>1 DEF Value, ValueAfter
<1> QED
  BY <1>2 DEF ShownEntry, Default

\* The two loops of parseArguments(), which take words out of argv while they run over
\* it and step back, read every option once and from left to right: what is left in argv,
\* what every option ends up with, which error ends the process, and what help lists.
THEOREM OptionsReadLeftToRight == ArgsSpec => []ReadsLeftToRight
<1>1. Reading /\ Asked => ReadsLeftToRight
  <2> SUFFICES ASSUME ReadsExactly, Asked,
                      phase = "over", Len(table) <= MaximumArguments, ~MessageStays
               PROVE  IF Errors # {}
                        THEN caxoe => exitCode = IF Min(Errors) \in Lacking THEN 101 ELSE 102
                        ELSE /\ exitCode \in IF caxoe THEN {Null, 0, 103} ELSE {Null}
                             /\ argv = <<Argv0>> \o WordsAt(Kept)
                             /\ \A c \in DOMAIN data : data[c] = Value(c)
                             /\ exitCode # Null =>
                                  /\ Len(shown) = Len(table)
                                  /\ \A i \in DOMAIN table :
                                       /\ shown[i][1] = table[i].command
                                       /\ \/ table[i].command \in {input[j] : j \in Starts}
                                          \/ shown[i][2] = Default(i)
    BY DEF Reading, ReadsLeftToRight
  <2>1. CASE Errors # {}
    BY <2>1 DEF ReadsExactly
  <2>2. CASE Errors = {}
    <3>1. /\ exitCode \in {Null, 0, 103} /\ argv = <<Argv0>> \o WordsAt(Kept)
          /\ \A c \in DOMAIN data : data[c] = Value(c)
          /\ exitCode # Null => shown = [i \in DOMAIN table |-> ShownEntry(i)]
      BY <2>2 DEF ReadsExactly
    <3>2. ~caxoe => exitCode = Null
      BY <3>1 DEF Asked
    <3>3. ASSUME exitCode # Null
          PROVE  /\ Len(shown) = Len(table)
                 /\ \A i \in DOMAIN table :
                      /\ shown[i][1] = table[i].command
                      /\ \/ table[i].command \in {input[j] : j \in Starts}
                         \/ shown[i][2] = Default(i)
      <4>1. shown = [i \in DOMAIN table |-> ShownEntry(i)]
        BY <3>1, <3>3
      <4>2. \A i \in DOMAIN table : shown[i][1] = table[i].command
        BY <4>1 DEF ShownEntry
      <4>3. ASSUME NEW i \in DOMAIN table, table[i].command \notin {input[j] : j \in Starts}
            PROVE  shown[i][2] = Default(i)
        BY <4>1, <4>3, NotGivenShows
      <4> QED
        BY <4>1, <4>2, <4>3
    <3> QED
      BY <2>2, <3>1, <3>2, <3>3
  <2> QED
    BY <2>1, <2>2
<1> QED
  BY <1>1, AlwaysReading, AlwaysAsked, PTL
===============================================================================
