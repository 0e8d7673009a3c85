-------------------------------- MODULE Library --------------------------------
(***************************************************************************)
(* The parts of PC2L that one process runs on its own: the command line    *)
(* parser, the map on a vector, the matrix of the examples, the buffers of *)
(* the messages a process receives, and the bytes of elements in blocks. A *)
(* behaviour is one of any of them; the others rest in their initial       *)
(* states.  Names without a part's prefix are Map's and ArgParser's.       *)
(***************************************************************************)
EXTENDS Map, ArgParser

CONSTANT Parts

VARIABLES
  part,
  role, pc, heap, buf, cap, msg, next, blocks, held, last, undefined,
  userSize, typeSize, mem, written, outside,
  cells, rows, call

Buffers  == INSTANCE MessageBuffers
Bytes    == INSTANCE BlockIndex
Matrices == INSTANCE Matrix

ASSUME MapAssumption == PairsInVector

buffersVars == <<role, pc, heap, buf, cap, msg, next, blocks, held, last, undefined>>
bytesVars   == <<userSize, typeSize, mem, written, outside>>
matrixVars  == <<cells, rows, call>>
allVars     == <<part, argsVars, vars, buffersVars, bytesVars, matrixVars>>

\* The variables of a part that rests start with one value.
LibraryInit ==
  /\ part \in Parts
  /\ ArgsInit /\ Init /\ Buffers!Init /\ Bytes!BytesInit /\ Matrices!Init
  /\ part # "map" => program = CHOOSE p \in Programs : TRUE
  /\ part # "buffers" => role = "worker"
  /\ part # "bytes" => /\ userSize = CHOOSE u \in UserBlockSizes : TRUE
                       /\ typeSize = CHOOSE t \in TypeSizes : TRUE
  /\ part # "matrix" => rows = 1 /\ cells = <<0>>

ArgsPart    == /\ part = "args" /\ ArgsNext
               /\ UNCHANGED <<part, vars, buffersVars, bytesVars, matrixVars>>
MapPart     == /\ part = "map" /\ MapNext
               /\ UNCHANGED <<part, argsVars, buffersVars, bytesVars, matrixVars>>
BuffersPart == /\ part = "buffers" /\ Buffers!Next
               /\ UNCHANGED <<part, argsVars, vars, bytesVars, matrixVars>>
BytesPart   == /\ part = "bytes" /\ Bytes!BytesNext
               /\ UNCHANGED <<part, argsVars, vars, buffersVars, matrixVars>>
MatrixPart  == /\ part = "matrix" /\ Matrices!Next
               /\ UNCHANGED <<part, argsVars, vars, buffersVars, bytesVars>>

LibraryNext == ArgsPart \/ MapPart \/ BuffersPart \/ BytesPart \/ MatrixPart

LibrarySpec == LibraryInit /\ [][LibraryNext]_allVars

\* A process that parses its arguments goes on.
ParserStep == /\ part = "args" /\ ArgsStep
            /\ UNCHANGED <<part, vars, buffersVars, bytesVars, matrixVars>>
FairSpec == LibrarySpec /\ WF_allVars(ParserStep)
-------------------------------------------------------------------------------
\* Types of all parts.
AllTypesOK == part \in Parts /\ ArgsTypeOK /\ TypeOK /\ Buffers!TypeOK /\ Bytes!BytesTypeOK

\* Messages: the cache owns what it holds, and holds what was stored.
CacheOwnsItsBlocks == Buffers!CacheOwnsItsBlocks

\* Messages: no buffer without an owner, no owner without its buffer.
BuffersHaveOwners == Buffers!BuffersHaveOwners

\* Blocks: elements that fit have their bytes to themselves.
ElementsApart == Bytes!ElementsApart

\* Matrix: on a vector it computes what it computes on std::vector.
MatchesSTDMatrix == Matrices!MatchesSTDMatrix

\* "The lifetime of the supplied buffer should exceed the lifetime of the Message
\* object returned by this method" (Message.h:216-217): recv() frees recvBuf only
\* when no message points into it.
BufferOutlivesMessage == Buffers!BufferOutlivesMessage
===============================================================================
