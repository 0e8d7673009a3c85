------------------------------- MODULE BlockIndex -------------------------------
(***************************************************************************)
(* Where the bytes of the elements are: Vector::indexCalculation() gives   *)
(* the block of an element and its first byte there, Message::getKey() the *)
(* number under which the block is kept.  Vectors of one type write their  *)
(* elements into the payloads of their blocks, byte by byte.               *)
(***************************************************************************)
EXTENDS LibraryConstants

VARIABLES
  userSize, typeSize,  \* UserBlockSize and TypeSize
  mem,                 \* mem[key][b]: what byte b of the payload holds: <<ds, index, byte>>
  written,             \* history: the elements written, <<ds, index>>
  outside              \* a byte was written behind the end of a payload

bytesVars == <<userSize, typeSize, mem, written, outside>>

Indices   == 0 .. MaxIndex
BlockSize == BlockSizeOf(userSize)

\* indexCalculation: offset >> BlockShiftBits and offset & IndexMask.
Offset(i) == i * typeSize
Tag(i)    == Offset(i) \div BlockSize
ByteOf(i) == Offset(i) % BlockSize

\* Slip: the tag of the data structure is not shifted.
KeyUnshifted(ds, tag) == (ds % Half) + (tag % Half)

\* getKey: both tags are cut to 32 bits.
Key(ds, tag) == ((ds % Half) * Half) + (tag % Half)

KeyNumbers  == 0 .. Half * Half - 1
Bytes == 0 .. BlockSize - 1

BytesInit ==
  /\ userSize \in UserBlockSizes /\ typeSize \in TypeSizes
  /\ mem = [k \in KeyNumbers |-> [b \in Bytes |-> Null]]
  /\ written = {} /\ outside = FALSE

\* The bytes of a value moved to &block[inBlockIdx].
Write(ds, i) ==
  LET k  == Key(ds, Tag(i))
      at == ByteOf(i)
  IN  /\ mem' = [mem EXCEPT ![k] = [b \in Bytes |->
                   IF at <= b /\ b < at + typeSize THEN <<ds, i, b - at>> ELSE mem[k][b]]]
      /\ written' = written \cup {<<ds, i>>}
      /\ outside' = (outside \/ at + typeSize > BlockSize)
      /\ UNCHANGED <<userSize, typeSize>>

BytesNext == \E ds \in DsTags, i \in Indices : Write(ds, i)

BytesSpec == BytesInit /\ [][BytesNext]_bytesVars
-------------------------------------------------------------------------------
BytesTypeOK ==
  /\ userSize \in UserBlockSizes /\ typeSize \in TypeSizes
  /\ mem \in [KeyNumbers -> [Bytes -> DsTags \X Indices \X Nat \cup {Null}]]
  /\ written \subseteq DsTags \X Indices
  /\ outside \in BOOLEAN

\* The size of the type divides that of the block, and block tags have 32 bits.
Fits == /\ BlockSize % typeSize = 0
        /\ \A e \in written : Tag(e[2]) < Half

\* Then every element has all its bytes to itself, in its block, whatever else is
\* written, and none is written outside a payload.
ElementsApart ==
  Fits => /\ ~outside
          /\ \A e \in written : \A b \in 0 .. typeSize - 1 :
               mem[Key(e[1], Tag(e[2]))][ByteOf(e[2]) + b] = <<e[1], e[2], b>>
===============================================================================
