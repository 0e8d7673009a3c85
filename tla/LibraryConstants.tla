---------------------------- MODULE LibraryConstants ----------------------------
(* The constants of the parts that Library puts together, and what is assumed of *)
(* them.  A map has those of its vector besides.                                 *)
EXTENDS Integers, Sequences

CONSTANTS
  Null,              \* no value, no pointer

  Words,             \* ArgParser: the words of command lines
  Dash1, Dash2,      \* those whose first (second) character is '-'
  Argv0, Help,     \* the words argv[0] and --help
  Tables,            \* arrays of valid arguments: sequences of [command, type]
  MaximumArguments,
  Inputs,            \* what follows the program's name on the command line
  Presets,           \* calls of setArgument(): [command, type, value]
  LongestCommands,   \* maxLen of operator<<
  HelpLength,        \* bound: characters of a help entry
  Word,              \* 2 ^ width of size_t

  Addr,              \* MessageBuffers: addresses of buffers
  BlockKeys,
  Data,
  Size,              \* Size[k]: bytes of a STORE_BLOCK of block k; other messages have 1
  MaxCap,            \* bound: capacity of recvBuf
  Free,

  UserBlockSizes,    \* BlockIndex: template arguments of a vector
  TypeSizes,         \* sizes of element types
  DsTags,
  MaxIndex,          \* bound: indices of elements
  Half,              \* 2 ^ width of unsigned int

  Mod,               \* Matrix: numbers are taken modulo Mod
  Sizes,             \* heights (and widths)
  Operands,          \* Operands[n]: the right hand sides of size n
  CellsInBlock

\* BOOLEAN; the six types with one value; STRING_LIST; INFO_MESSAGE and MAIN_MESSAGE.
ArgType == {"flag", "value", "list", "message"}

ASSUME ArgParserAssumption ==
  /\ {Argv0, Help} \cup Dash1 \cup Dash2 \subseteq Words /\ Inputs \subseteq Seq(Words)
  /\ Tables \subseteq Seq([command : Words \ {Argv0}, type : ArgType])
  /\ \A t \in Tables : \A i, j \in DOMAIN t : t[i].command = t[j].command => i = j
  /\ \A p \in Presets : p.type \in ArgType /\ p.value \in Seq(Words)
  /\ {MaximumArguments, HelpLength} \subseteq Nat /\ Word \in Nat \ {0}
  /\ LongestCommands \subseteq Nat \ {74}   \* see HelpWidth
  /\ Null \notin {0, 100, 101, 102, 103}

\* A message in a buffer; ownBuf: the buffer is the message's own.
Message == [tag : {"STORE_BLOCK", "GET_BLOCK", "FINISH"}, key : BlockKeys \cup {Null},
            data : Data \cup {Null}, ownBuf : BOOLEAN]

ASSUME MessageBuffersAssumption ==
  /\ MaxCap \in Nat \ {0} /\ Size \in [BlockKeys -> 1 .. MaxCap]
  /\ Null \notin Addr /\ Null \notin BlockKeys /\ Null \notin Data /\ Free \notin Message

\* unsigned int log2(), and what rounds the user's block size up to a power of two.
Log2(n) == CHOOSE b \in 0 .. n : 2 ^ b <= n /\ n < 2 ^ (b + 1)
BlockShiftBits(u) == IF 2 ^ Log2(u) = u THEN Log2(u) ELSE Log2(u) + 1
BlockSizeOf(u) == 2 ^ BlockShiftBits(u)

ASSUME BlockIndexAssumption ==
  /\ \A u \in UserBlockSizes : BlockSizeOf(u) \in Nat \ {0}
  /\ TypeSizes \subseteq Nat \ {0} /\ MaxIndex \in Nat /\ Half \in Nat \ {0}
  /\ DsTags \subseteq 0 .. Half - 1

ASSUME MatrixAssumption ==
  /\ {Mod, CellsInBlock} \subseteq Nat \ {0} /\ Sizes \subseteq Nat \ {0}
  /\ \A n \in Sizes : Operands[n] \subseteq [(0 .. n - 1) \X (0 .. n - 1) -> 0 .. Mod - 1]
===============================================================================
