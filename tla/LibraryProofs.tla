------------------------------ MODULE LibraryProofs ------------------------------
(***************************************************************************)
(* What is proved of the parts holds of the process they are parts of: a   *)
(* step of Library is a step of the part or leaves its variables alone.    *)
(* The matrix of the examples is proved about here.                        *)
(***************************************************************************)
EXTENDS Library, VectorProofs, ArgParserProofs

Memory == INSTANCE MemoryProofs

\* Library runs BlockIndex: its initial states and steps are those of BlockIndex.
LEMMA RunsBytes == LibrarySpec => Memory!BytesSpec
<1>1. LibraryInit => Memory!BytesInit
  BY DEF LibraryInit, Bytes!BytesInit, Memory!BytesInit, Bytes!KeyNumbers, Memory!KeyNumbers, Bytes!Bytes, Memory!Bytes,
         Bytes!BlockSize, Memory!BlockSize, Bytes!BlockSizeOf, Memory!BlockSizeOf,
         Bytes!BlockShiftBits, Memory!BlockShiftBits, Bytes!Log2, Memory!Log2
<1>2. [LibraryNext]_allVars => [Memory!BytesNext]_Memory!bytesVars
  <2>1. BytesPart => Memory!BytesNext
    BY DEF BytesPart, Bytes!BytesNext, Memory!BytesNext, Bytes!Indices, Memory!Indices, Bytes!Write, Memory!Write,
           Bytes!Key, Memory!Key, Bytes!Tag, Memory!Tag, Bytes!Offset, Memory!Offset,
           Bytes!ByteOf, Memory!ByteOf, Bytes!BlockSize, Memory!BlockSize, Bytes!KeyNumbers,
           Memory!KeyNumbers, Bytes!Bytes, Memory!Bytes, Bytes!BlockSizeOf, Memory!BlockSizeOf,
           Bytes!BlockShiftBits, Memory!BlockShiftBits, Bytes!Log2, Memory!Log2
  <2>2. ArgsPart \/ MapPart \/ BuffersPart \/ MatrixPart \/ UNCHANGED allVars => UNCHANGED Memory!bytesVars
    BY DEF ArgsPart, MapPart, BuffersPart, MatrixPart, allVars, bytesVars, Memory!bytesVars
  <2>3. [LibraryNext]_allVars =>
          BytesPart \/ ArgsPart \/ MapPart \/ BuffersPart \/ MatrixPart \/ UNCHANGED allVars
    BY DEF LibraryNext
  <2> QED
    BY <2>1, <2>2, <2>3, Zenon
<1> QED
  BY <1>1, <1>2, PTL DEF LibrarySpec, Memory!BytesSpec

\* What the parts assume of the constants is what Library assumes.
LEMMA MemoryAssumptions ==
  /\ Memory!ArgParserAssumption /\ Memory!MessageBuffersAssumption /\ Memory!BlockIndexAssumption
  /\ Memory!MatrixAssumption
<1>1. Memory!ArgParserAssumption
  BY ArgParserAssumption DEF ArgType, Memory!ArgParserAssumption, Memory!ArgType
<1>2. Memory!MessageBuffersAssumption
  BY MessageBuffersAssumption DEF Message, Memory!MessageBuffersAssumption, Memory!Message
<1>3. Memory!BlockIndexAssumption
  BY BlockIndexAssumption DEF BlockSizeOf, BlockShiftBits, Log2, Memory!BlockIndexAssumption,
     Memory!BlockSizeOf, Memory!BlockShiftBits, Memory!Log2
<1>4. Memory!MatrixAssumption
  BY MatrixAssumption DEF Memory!MatrixAssumption
<1> QED
  BY <1>1, <1>2, <1>3, <1>4

\* Library runs MessageBuffers.
LEMMA RunsBuffers == LibrarySpec => Memory!Spec
<1> USE DEF Buffers!Create, Memory!Create, Buffers!InBuffer, Memory!InBuffer, Buffers!Clone,
           Memory!Clone, Buffers!SizeOf, Memory!SizeOf, Buffers!Unused, Memory!Unused,
           Buffers!Deleted, Memory!Deleted, Buffers!Incoming, Memory!Incoming,
           Buffers!MPI_GET_COUNT, Memory!MPI_GET_COUNT, Buffers!Grow, Memory!Grow,
           Buffers!Handles, Memory!Handles, Buffers!Kept, Memory!Kept, Buffers!vars,
           Memory!vars, Buffers!Range, Memory!Range
<1>1. LibraryInit => Memory!Init
  <2>1. LibraryInit => Buffers!Init
    BY DEF LibraryInit
  <2>2. Buffers!Init => Memory!Init
    BY DEF Buffers!Init, Memory!Init
  <2> QED
    BY <2>1, <2>2
<1>2. [LibraryNext]_allVars => [Memory!Next]_Memory!vars
  <2>1. Buffers!Recv => Memory!Recv
    BY DEF Buffers!Recv, Memory!Recv
  <2>2. Buffers!Assign => Memory!Assign
    BY DEF Buffers!Assign, Memory!Assign
  <2>3. Buffers!StoreCacheBlock => Memory!StoreCacheBlock
    BY DEF Buffers!StoreCacheBlock, Memory!StoreCacheBlock
  <2>4. Buffers!SendCacheBlock => Memory!SendCacheBlock
    BY DEF Buffers!SendCacheBlock, Memory!SendCacheBlock
  <2>5. Buffers!Finish => Memory!Finish
    BY DEF Buffers!Finish, Memory!Finish
  <2>6. Buffers!Program => Memory!Program
    BY DEF Buffers!Program, Memory!Program, Buffers!StoreFresh, Memory!StoreFresh,
           Buffers!Hold, Memory!Hold, Buffers!Evict, Memory!Evict, Buffers!Ask, Memory!Ask,
           Buffers!Return, Memory!Return
  <2>7. Buffers!Over => Memory!Over
    BY DEF Buffers!Over, Memory!Over
  <2>8. BuffersPart => Memory!Next
    BY <2>1, <2>2, <2>3, <2>4, <2>5, <2>6, <2>7 DEF BuffersPart, Buffers!Next, Memory!Next
  <2>9. ArgsPart \/ MapPart \/ BytesPart \/ MatrixPart \/ UNCHANGED allVars => UNCHANGED Memory!vars
    BY DEF ArgsPart, MapPart, BytesPart, MatrixPart, allVars, buffersVars
  <2> QED
    BY <2>8, <2>9 DEF LibraryNext
<1> QED
  BY <1>1, <1>2, PTL DEF LibrarySpec, Memory!Spec

\* The library run's ElementsApart: Vector::indexCalculation() and Message::getKey()
\* leave every element its bytes, for all block sizes, type sizes and indices.
THEOREM ElementsKeepTheirBytes == LibrarySpec => []ElementsApart
<1>1. Memory!ElementsApart => ElementsApart
  BY DEF ElementsApart, Bytes!ElementsApart, Memory!ElementsApart, Bytes!Fits, Memory!Fits, Bytes!Key,
         Memory!Key, Bytes!Tag, Memory!Tag, Bytes!Offset, Memory!Offset, Bytes!ByteOf,
         Memory!ByteOf, Bytes!BlockSize, Memory!BlockSize, Bytes!BlockSizeOf, Memory!BlockSizeOf,
         Bytes!BlockShiftBits, Memory!BlockShiftBits, Bytes!Log2, Memory!Log2
<1>2. Memory!BytesSpec => []Memory!ElementsApart
  BY MemoryAssumptions, Memory!ElementsStayApart, PTL
<1> QED
  BY <1>1, <1>2, RunsBytes, PTL

\* The library run's CacheOwnsItsBlocks: a block in the cache (storeCacheBlock()) keeps
\* its contents, whatever recv() receives later, for any number of buffers and blocks.
THEOREM CacheKeepsItsBlocks == LibrarySpec => []CacheOwnsItsBlocks
<1>1. Memory!CacheOwnsItsBlocks => CacheOwnsItsBlocks
  BY DEF CacheOwnsItsBlocks, Buffers!CacheOwnsItsBlocks, Memory!CacheOwnsItsBlocks, Buffers!Create, Memory!Create
<1>2. Memory!Spec => []Memory!CacheOwnsItsBlocks
  BY MemoryAssumptions, Memory!CacheOwnership, PTL
<1> QED
  BY <1>1, <1>2, RunsBuffers, PTL

\* The library run's BuffersHaveOwners: MessageDeleter and resize() free every buffer
\* with its last pointer and none before, for any number of buffers and blocks.
THEOREM BuffersKeepTheirOwners == LibrarySpec => []BuffersHaveOwners
<1>1. Memory!BuffersHaveOwners => BuffersHaveOwners
  BY DEF BuffersHaveOwners, Buffers!BuffersHaveOwners, Memory!BuffersHaveOwners, Buffers!Range, Memory!Range
<1>2. Memory!Spec => []Memory!BuffersHaveOwners
  BY MemoryAssumptions, Memory!OwnersAndBuffers, PTL
<1> QED
  BY <1>1, <1>2, RunsBuffers, PTL

\* Library runs Map.
LEMMA RunsMap == LibrarySpec => MapSpec
<1>1. LibraryInit => Init
  BY DEF LibraryInit
<1>2. [LibraryNext]_allVars => [MapNext]_vars
  <2>1. MapPart => MapNext
    BY DEF MapPart
  <2>2. ArgsPart \/ BuffersPart \/ BytesPart \/ MatrixPart \/ UNCHANGED allVars => UNCHANGED vars
    BY DEF ArgsPart, BuffersPart, BytesPart, MatrixPart, allVars
  <2> QED
    BY <2>1, <2>2 DEF LibraryNext
<1> QED
  BY <1>1, <1>2, PTL DEF LibrarySpec, MapSpec

\* The library run's Ascending: the binary search of Map::insert() finds the right place
\* whatever blocks its reads move, for any numbers of keys and blocks.
THEOREM KeysStayAscending ==
  ASSUME MapsFit
  PROVE  LibrarySpec => []Ascending
BY MapAscends, MapAssumption, RunsMap, PTL

\* The library run's IsFunction: for any numbers of keys, values and blocks, Map's insert()
\* and operator[] implement MapStore.
THEOREM MapStaysFunction ==
  ASSUME MapsFit
  PROVE  LibrarySpec => IsFunction
BY MapIsFunction, MapAssumption, RunsMap, PTL

\* Library runs ArgParser.
LEMMA RunsArgs == LibrarySpec => ArgsSpec
<1>1. LibraryInit => ArgsInit
  BY DEF LibraryInit
<1>2. [LibraryNext]_allVars => [ArgsNext]_argsVars
  <2>1. ArgsPart => ArgsNext
    BY DEF ArgsPart
  <2>2. MapPart \/ BuffersPart \/ BytesPart \/ MatrixPart \/ UNCHANGED allVars => UNCHANGED argsVars
    BY DEF MapPart, BuffersPart, BytesPart, MatrixPart, allVars
  <2> QED
    BY <2>1, <2>2 DEF LibraryNext
<1> QED
  BY <1>1, <1>2, PTL DEF LibrarySpec, ArgsSpec

\* The library run's ReadsLeftToRight: for any tables of options, presets and command
\* lines, ArgParser's nested loops over argv that they shift leave in the variables what
\* one reading of the command line from left to right gives.
THEOREM CommandLineIsRead == LibrarySpec => []ReadsLeftToRight
BY OptionsReadLeftToRight, RunsArgs, PTL

\* The library run's AllTypesOK, for any constants: every part keeps its types.
THEOREM PartsKeepTheirTypes ==
  ASSUME MapsFit
  PROVE  LibrarySpec => []AllTypesOK
<1>1. LibrarySpec => [](part \in Parts)
  <2>1. LibraryInit => part \in Parts
    BY DEF LibraryInit
  <2>2. part \in Parts /\ [LibraryNext]_allVars => (part \in Parts)'
    BY DEF LibraryNext, ArgsPart, MapPart, BuffersPart, BytesPart, MatrixPart, allVars
  <2> QED
    BY <2>1, <2>2, PTL DEF LibrarySpec
<1>2. LibrarySpec => []ArgsTypeOK
  BY ArgsTyped, RunsArgs, PTL
<1>3. LibrarySpec => []TypeOK
  <2>1. MapInv => TypeOK
    BY SoundTyped DEF MapInv
  <2>2. MapSpec => []MapInv
    BY MapInvariance, MapAssumption
  <2> QED
    BY <2>1, <2>2, RunsMap, PTL
<1>4. LibrarySpec => []Buffers!TypeOK
  <2>1. Memory!TypeOK => Buffers!TypeOK
    BY DEF Memory!TypeOK, Buffers!TypeOK, Memory!Message, Buffers!Message
  <2>2. Memory!Spec => []Memory!TypeOK
    BY MemoryAssumptions, Memory!BuffersTyped, PTL
  <2> QED
    BY <2>1, <2>2, RunsBuffers, PTL
<1>5. LibrarySpec => []Bytes!BytesTypeOK
  <2>1. Memory!BytesTypeOK => Bytes!BytesTypeOK
    <3>1. Memory!Bytes = Bytes!Bytes /\ Memory!Indices = Bytes!Indices /\ Memory!KeyNumbers = Bytes!KeyNumbers
      BY DEF Memory!Bytes, Bytes!Bytes, Memory!BlockSize, Bytes!BlockSize, Memory!BlockSizeOf, Bytes!BlockSizeOf,
             Memory!BlockShiftBits, Bytes!BlockShiftBits, Memory!Log2, Bytes!Log2, Memory!Indices, Bytes!Indices,
             Memory!KeyNumbers, Bytes!KeyNumbers
    <3> QED
      BY <3>1, Zenon DEF Memory!BytesTypeOK, Bytes!BytesTypeOK
  <2>2. Memory!BytesSpec => []Memory!BytesTypeOK
    BY MemoryAssumptions, Memory!BytesTyped, PTL
  <2> QED
    BY <2>1, <2>2, RunsBytes, PTL
<1> QED
  BY <1>1, <1>2, <1>3, <1>4, <1>5, PTL DEF AllTypesOK
-------------------------------------------------------------------------------
(* The matrix of the examples. *)

\* A product grows with its first factor.
LEMMA RowsApart ==
  ASSUME NEW a \in Nat, NEW b \in Nat, NEW n \in Nat, a < b
  PROVE  a * n + n <= b * n
<1>1. PICK d \in Nat : b = a + 1 + d
  <2> b - a - 1 \in Nat /\ b = a + 1 + (b - a - 1)
    OBVIOUS
  <2> QED
    OBVIOUS
<1>2. b * n = a * n + n + d * n
  BY <1>1
<1>3. d * n \in Nat /\ a * n \in Nat
  BY <1>1
<1> QED
  BY <1>2, <1>3

\* Where insert(), replace() and at() look for the i-th cell.
LEMMA CellPlace ==
  ASSUME NEW n \in Nat \ {0}, NEW i \in 1 .. n * n
  PROVE  /\ Matrices!Cell(n, i)[1] \in 0 .. n - 1 /\ Matrices!Cell(n, i)[2] \in 0 .. n - 1
         /\ Matrices!Cell(n, i)[1] * n + Matrices!Cell(n, i)[2] + 1 = i
<1> DEFINE x == i - 1
           a == x \div n
           b == x % n
<1>1. n * n \in Nat
  OBVIOUS
<1>2. x \in Nat /\ x < n * n /\ x + 1 = i
  BY <1>1
<1>3. a \in Nat /\ b \in 0 .. n - 1 /\ x = a * n + b
  <2> HIDE DEF x
  <2> QED
    BY <1>2
<1>4. Matrices!Cell(n, i) = <<a, b>>
  BY DEF Matrices!Cell
<1> HIDE DEF x, a, b
<1>5. a < n
  <2> SUFFICES ASSUME n <= a
               PROVE  FALSE
    BY <1>3
  <2>1. CASE a = n
    BY <1>2, <1>3, <2>1
  <2>2. CASE n < a
    <3>1. n * n + n <= a * n
      BY <1>3, <2>2, RowsApart
    <3>2. a * n \in Nat
      BY <1>3
    <3> QED
      BY <1>1, <1>2, <1>3, <3>1, <3>2
  <2> QED
    BY <1>3, <2>1, <2>2
<1> QED
  BY <1>2, <1>3, <1>4, <1>5

\* Every row and column is that of a cell.
LEMMA CellOf ==
  ASSUME NEW n \in Nat \ {0}, NEW a \in 0 .. n - 1, NEW b \in 0 .. n - 1
  PROVE  a * n + b + 1 \in 1 .. n * n /\ Matrices!Cell(n, a * n + b + 1) = <<a, b>>
<1> DEFINE i == a * n + b + 1
<1>1. a \in Nat /\ b \in Nat /\ a < n /\ b < n
  OBVIOUS
<1>2. a * n \in Nat /\ n * n \in Nat /\ a * n + n <= n * n
  BY <1>1, RowsApart
<1>3. i \in 1 .. n * n
  BY <1>1, <1>2
<1> HIDE DEF i
<1> DEFINE c == Matrices!Cell(n, i)
<1>4. c[1] \in 0 .. n - 1 /\ c[2] \in 0 .. n - 1 /\ c[1] * n + c[2] + 1 = i
  BY <1>3, CellPlace
<1>5. c = <<c[1], c[2]>>
  BY DEF Matrices!Cell
<1> HIDE DEF c
<1>6. c[1] \in Nat /\ c[2] \in Nat /\ c[1] * n + c[2] = a * n + b
  <2>1. c[1] \in Nat /\ c[2] \in Nat
    BY <1>4
  <2>2. c[1] * n \in Nat
    BY <2>1
  <2>3. c[1] * n + c[2] + 1 = a * n + b + 1
    BY <1>4 DEF i
  <2> QED
    BY <1>1, <1>2, <2>1, <2>2, <2>3
<1>7. ~(c[1] < a)
  <2> SUFFICES ASSUME c[1] < a
               PROVE  FALSE
    OBVIOUS
  <2>1. c[1] * n + n <= a * n
    BY <1>1, <1>6, RowsApart
  <2>2. c[1] * n \in Nat /\ c[2] < n
    BY <1>4, <1>6
  <2> QED
    BY <1>1, <1>2, <1>6, <2>1, <2>2
<1>8. ~(a < c[1])
  <2> SUFFICES ASSUME a < c[1]
               PROVE  FALSE
    OBVIOUS
  <2>1. a * n + n <= c[1] * n
    BY <1>1, <1>6, RowsApart
  <2>2. c[1] * n \in Nat
    BY <1>6
  <2> QED
    BY <1>1, <1>2, <1>6, <2>1, <2>2
<1>9. c[1] = a
  BY <1>1, <1>6, <1>7, <1>8
<1>10. c[2] = b
  BY <1>1, <1>2, <1>6, <1>9
<1> QED
  BY <1>3, <1>5, <1>9, <1>10 DEF i, c

LEMMA CellsAre ==
  ASSUME NEW n \in Nat \ {0}
  PROVE  Matrices!Cells(n) = (0 .. n - 1) \X (0 .. n - 1)
<1>1. ASSUME NEW p \in Matrices!Cells(n)
      PROVE  p \in (0 .. n - 1) \X (0 .. n - 1)
  <2>1. PICK i \in 1 .. n * n : p = Matrices!Cell(n, i)
    BY DEF Matrices!Cells
  <2>2. p[1] \in 0 .. n - 1 /\ p[2] \in 0 .. n - 1
    BY <2>1, CellPlace
  <2>3. p = <<p[1], p[2]>>
    BY <2>1 DEF Matrices!Cell
  <2> QED
    BY <2>2, <2>3
<1>2. ASSUME NEW a \in 0 .. n - 1, NEW b \in 0 .. n - 1
      PROVE  <<a, b>> \in Matrices!Cells(n)
  <2>1. a * n + b + 1 \in 1 .. n * n /\ Matrices!Cell(n, a * n + b + 1) = <<a, b>>
    BY CellOf
  <2> QED
    BY <2>1 DEF Matrices!Cells
<1> QED
  BY <1>1, <1>2

\* The function f has a value for every cell, and the sequence c shows them.
OnCells(f, n, S) == f \in [Matrices!Cells(n) -> S]
HasCells(c, f, n, S, len) ==
  c \in Seq(S) /\ Len(c) = len /\ \A i \in 1 .. n * n : c[i] = f[Matrices!Cell(n, i)]

\* insert() for every cell: the values, and behind them what was there.
LEMMA InsertEachGives ==
  ASSUME NEW S, NEW n \in Nat \ {0}, NEW c \in Seq(S), NEW f, OnCells(f, n, S)
  PROVE  HasCells(Matrices!InsertEach(c, n, f), f, n, S, n * n + Len(c))
<1> DEFINE N == n * n
           e == [i \in 1 .. N |-> f[Matrices!Cell(n, i)]]
           Grown(k) == [j \in 1 .. k + Len(c) |-> IF j <= k THEN e[j] ELSE c[j - k]]
           g == [k \in 0 .. N |-> Grown(k)]
           IsRet(r) == r = [i \in 0 .. N |-> IF i = 0 THEN c
                                             ELSE Matrices!Insert(r[i - 1], n, Matrices!Cell(n, i), f[Matrices!Cell(n, i)])]
           ret == CHOOSE r : IsRet(r)
<1>1. N \in Nat /\ Len(c) \in Nat
  OBVIOUS
<1>2. \A i \in 1 .. N : f[Matrices!Cell(n, i)] = e[i] /\ e[i] \in S
  BY DEF Matrices!Cells, OnCells
<1>3. Matrices!InsertEach(c, n, f) = ret[N]
  BY DEF Matrices!InsertEach
<1>4. \A k \in 0 .. N : g[k] = Grown(k)
  OBVIOUS
<1> HIDE DEF e, g, N
<1>5. ASSUME NEW k \in 0 .. N
      PROVE  g[k] \in Seq(S) /\ Len(g[k]) = k + Len(c)
  <2>1. ASSUME NEW j \in 1 .. k + Len(c)
        PROVE  (IF j <= k THEN e[j] ELSE c[j - k]) \in S
    <3>1. CASE j <= k
      BY <1>1, <1>2, <3>1
    <3>2. CASE ~(j <= k)
      <4>1. j - k \in 1 .. Len(c)
        BY <1>1, <3>2
      <4> QED
        BY <3>2, <4>1
    <3> QED
      BY <3>1, <3>2
  <2>2. k + Len(c) \in Nat /\ g[k] = [j \in 1 .. k + Len(c) |-> IF j <= k THEN e[j] ELSE c[j - k]]
    BY <1>1, <1>4
  <2>3. g[k] \in [1 .. k + Len(c) -> S]
    BY <2>1, <2>2
  <2> DEFINE m == k + Len(c)
             x == g[k]
  <2>4. m \in Nat /\ x \in [1 .. m -> S]
    BY <2>2, <2>3
  <2> HIDE DEF m, x
  <2>5. x \in Seq(S) /\ Len(x) = m
    BY <2>4
  <2> QED
    BY <2>5 DEF m, x
<1>6. ASSUME NEW k \in 1 .. N
      PROVE  g[k] = Matrices!Insert(g[k - 1], n, Matrices!Cell(n, k), f[Matrices!Cell(n, k)])
  <2> DEFINE q == g[k - 1]
  <2>1. k - 1 \in 0 .. N /\ k \in 0 .. N /\ k \in Nat
    BY <1>1
  <2>2. /\ k - 1 \in 0 .. N /\ k \in 0 .. N /\ k \in Nat
        /\ q \in Seq(S) /\ Len(q) = k - 1 + Len(c)
    BY <1>5, <2>1
  <2>3. k \in 1 .. Len(q) + 1 /\ Len(q) + 1 = k + Len(c)
    BY <1>1, <2>2
  <2>4. Matrices!Insert(q, n, Matrices!Cell(n, k), f[Matrices!Cell(n, k)]) = InsertAt(q, k, e[k])
    <3>1. Matrices!Cell(n, k)[1] * n + Matrices!Cell(n, k)[2] + 1 = k
      BY CellPlace DEF N
    <3>2. f[Matrices!Cell(n, k)] = e[k]
      BY <1>2
    <3> HIDE DEF q
    <3> QED
      BY <3>1, <3>2 DEF Matrices!Insert, Matrices!InsertAt, InsertAt
  <2>5. InsertAt(q, k, e[k]) = [i \in 1 .. Len(q) + 1 |->
                                  IF i < k THEN q[i] ELSE IF i = k THEN e[k] ELSE q[i - 1]]
    <3>1. e[k] \in S
      BY <1>2
    <3>2. q \in Seq(S) /\ k \in 1 .. Len(q) + 1
      BY <2>2, <2>3
    <3> HIDE DEF q
    <3>3. ASSUME NEW v \in S
          PROVE  InsertAt(q, k, v) = [i \in 1 .. Len(q) + 1 |->
                                        IF i < k THEN q[i] ELSE IF i = k THEN v ELSE q[i - 1]]
      BY <3>2, InsertedAt
    <3> QED
      BY <3>1, <3>3
  <2>6. ASSUME NEW i \in 1 .. k + Len(c)
        PROVE  (IF i < k THEN q[i] ELSE IF i = k THEN e[k] ELSE q[i - 1])
                 = (IF i <= k THEN e[i] ELSE c[i - k])
    <3>1. q = [j \in 1 .. k - 1 + Len(c) |-> IF j <= k - 1 THEN e[j] ELSE c[j - (k - 1)]]
      BY <1>4, <2>1
    <3>2. \A j \in 1 .. k - 1 + Len(c) : q[j] = IF j <= k - 1 THEN e[j] ELSE c[j - (k - 1)]
      BY <3>1
    <3> HIDE DEF q
    <3>3. CASE i < k
      <4>1. i \in 1 .. k - 1 + Len(c) /\ i <= k - 1
        BY <1>1, <2>2, <3>3
      <4> QED
        BY <2>2, <3>2, <3>3, <4>1
    <3>4. CASE i = k
      BY <2>2, <3>4
    <3>5. CASE k < i
      <4>1. i - 1 \in 1 .. k - 1 + Len(c) /\ ~(i - 1 <= k - 1) /\ (i - 1) - (k - 1) = i - k
        BY <1>1, <2>2, <3>5
      <4> QED
        BY <2>2, <3>2, <3>5, <4>1
    <3> QED
      BY <2>2, <3>3, <3>4, <3>5
  <2>7. g[k] = [i \in 1 .. k + Len(c) |-> IF i <= k THEN e[i] ELSE c[i - k]]
    BY <1>4, <2>2
  <2> HIDE DEF q
  <2>8. g[k] = [i \in 1 .. Len(q) + 1 |->
                  IF i < k THEN q[i] ELSE IF i = k THEN e[k] ELSE q[i - 1]]
    BY <2>3, <2>6, <2>7
  <2> QED
    BY <2>4, <2>5, <2>8 DEF q
<1>7. g[0] = c
  <2>1. 0 \in 0 .. N /\ c = [j \in 1 .. Len(c) |-> c[j]]
    BY <1>1
  <2>2. g[0] = [j \in 1 .. 0 + Len(c) |-> IF j <= 0 THEN e[j] ELSE c[j - 0]]
    BY <1>4, <2>1
  <2>3. 0 + Len(c) = Len(c) /\ \A j \in 1 .. Len(c) : ~(j <= 0) /\ j - 0 = j
    BY <1>1
  <2> QED
    BY <2>1, <2>2, <2>3
<1>8. IsRet(g)
  <2>1. g = [k \in 0 .. N |-> g[k]]
    BY DEF g
  <2>2. \A k \in 0 .. N : g[k] = IF k = 0 THEN c
                                 ELSE Matrices!Insert(g[k - 1], n, Matrices!Cell(n, k), f[Matrices!Cell(n, k)])
    BY <1>6, <1>7
  <2> QED
    BY <2>1, <2>2, Zenon
<1>9. IsRet(ret)
  BY <1>8
<1> HIDE DEF ret
<1>10. \A k \in 0 .. N : ret[k] = IF k = 0 THEN c
                                  ELSE Matrices!Insert(ret[k - 1], n, Matrices!Cell(n, k), f[Matrices!Cell(n, k)])
  <2> QED
    BY <1>9
<1> DEFINE W == {k \in 0 .. N : ret[k] = g[k]}
<1>11. 0 \in W
  BY <1>1, <1>7, <1>10
<1>12. ASSUME NEW k \in 1 .. N, k - 1 \in W
       PROVE  k \in W
  <2>1. k \in 0 .. N /\ k # 0
    BY <1>1
  <2>2. ret[k] = Matrices!Insert(ret[k - 1], n, Matrices!Cell(n, k), f[Matrices!Cell(n, k)])
    BY <1>10, <2>1
  <2>3. ret[k] = g[k]
    BY <1>6, <1>12, <2>2
  <2> QED
    BY <2>1, <2>3
<1> HIDE DEF W
<1>13. N \in W
  BY <1>1, <1>11, <1>12, RoundsKeep
<1>14. ret[N] = g[N] /\ N \in 0 .. N
  BY <1>1, <1>13 DEF W
<1>15. ASSUME NEW i \in 1 .. N
       PROVE  g[N][i] = e[i]
  <2>1. i \in 1 .. N + Len(c) /\ i <= N
    BY <1>1
  <2> QED
    BY <1>4, <1>14, <2>1
<1>16. ret[N] \in Seq(S) /\ Len(ret[N]) = N + Len(c)
  BY <1>5, <1>14
<1>17. \A i \in 1 .. N : ret[N][i] = f[Matrices!Cell(n, i)]
  BY <1>2, <1>14, <1>15
<1> QED
  BY <1>3, <1>16, <1>17 DEF N, HasCells

\* replace() for every cell: the values, and what was behind them.
LEMMA ReplaceEachGives ==
  ASSUME NEW S, NEW n \in Nat \ {0}, NEW c \in Seq(S), n * n <= Len(c), NEW f, OnCells(f, n, S)
  PROVE  HasCells(Matrices!ReplaceEach(c, n, f), f, n, S, Len(c))
<1> DEFINE N == n * n
           L == Len(c)
           e == [i \in 1 .. N |-> f[Matrices!Cell(n, i)]]
           g == [k \in 0 .. N |-> [j \in 1 .. L |-> IF j <= k THEN e[j] ELSE c[j]]]
           IsRet(r) == r = [i \in 0 .. N |-> IF i = 0 THEN c
                                             ELSE Matrices!Replace(r[i - 1], n, Matrices!Cell(n, i), f[Matrices!Cell(n, i)])]
           ret == CHOOSE r : IsRet(r)
<1>1. N \in Nat /\ L \in Nat /\ N <= L /\ c = [j \in 1 .. L |-> c[j]]
  OBVIOUS
<1>2. \A i \in 1 .. N : f[Matrices!Cell(n, i)] = e[i] /\ e[i] \in S
  BY DEF Matrices!Cells, OnCells
<1>3. Matrices!ReplaceEach(c, n, f) = ret[N]
  BY DEF Matrices!ReplaceEach
<1>4. \A k \in 0 .. N : g[k] = [j \in 1 .. L |-> IF j <= k THEN e[j] ELSE c[j]]
  OBVIOUS
<1>5. \A j \in 1 .. L : c[j] \in S
  OBVIOUS
<1>6. g = [k \in 0 .. N |-> g[k]]
  OBVIOUS
<1> HIDE DEF e, g, N, L
<1>7. ASSUME NEW k \in 0 .. N
      PROVE  g[k] \in Seq(S) /\ Len(g[k]) = L
  <2>1. \A j \in 1 .. L : (IF j <= k THEN e[j] ELSE c[j]) \in S
    BY <1>1, <1>2, <1>5
  <2>2. g[k] \in [1 .. L -> S]
    BY <1>4, <2>1
  <2> QED
    BY <1>1, <2>2
<1>8. ASSUME NEW k \in 1 .. N
      PROVE  g[k] = Matrices!Replace(g[k - 1], n, Matrices!Cell(n, k), f[Matrices!Cell(n, k)])
  <2> DEFINE q == g[k - 1]
  <2>1. k - 1 \in 0 .. N /\ k \in 0 .. N /\ k \in Nat /\ k \in 1 .. L
    BY <1>1
  <2>2. q = [j \in 1 .. L |-> IF j <= k - 1 THEN e[j] ELSE c[j]]
    BY <1>4, <2>1
  <2> HIDE DEF q
  <2>3. Matrices!Replace(q, n, Matrices!Cell(n, k), f[Matrices!Cell(n, k)]) = [q EXCEPT ![k] = e[k]]
    <3>1. Matrices!Cell(n, k)[1] * n + Matrices!Cell(n, k)[2] + 1 = k
      BY CellPlace DEF N
    <3>2. f[Matrices!Cell(n, k)] = e[k]
      BY <1>2
    <3> QED
      BY <3>1, <3>2 DEF Matrices!Replace
  <2>4. [q EXCEPT ![k] = e[k]] = [j \in 1 .. L |-> IF j <= k THEN e[j] ELSE c[j]]
    <3>1. ASSUME NEW j \in 1 .. L
          PROVE  [q EXCEPT ![k] = e[k]][j] = IF j <= k THEN e[j] ELSE c[j]
      <4>1. CASE j = k
        BY <2>1, <2>2, <4>1
      <4>2. CASE j # k
        <5>1. j <= k - 1 <=> j <= k
          BY <2>1, <4>2
        <5> QED
          BY <2>2, <4>2, <5>1
      <4> QED
        BY <4>1, <4>2
    <3>2. [q EXCEPT ![k] = e[k]] = [j \in 1 .. L |-> [q EXCEPT ![k] = e[k]][j]]
      BY <2>2
    <3> QED
      BY <3>1, <3>2
  <2> QED
    BY <1>4, <2>1, <2>3, <2>4 DEF q
<1>9. g[0] = c
  <2>1. 0 \in 0 .. N /\ \A j \in 1 .. L : ~(j <= 0)
    BY <1>1
  <2> QED
    BY <1>1, <1>4, <2>1
<1>10. IsRet(g)
  <2>1. \A k \in 0 .. N : g[k] = IF k = 0 THEN c
                                 ELSE Matrices!Replace(g[k - 1], n, Matrices!Cell(n, k), f[Matrices!Cell(n, k)])
    BY <1>8, <1>9
  <2> QED
    BY <1>6, <2>1, Zenon
<1>11. IsRet(ret)
  BY <1>10
<1> HIDE DEF ret
<1>12. \A k \in 0 .. N : ret[k] = IF k = 0 THEN c
                                  ELSE Matrices!Replace(ret[k - 1], n, Matrices!Cell(n, k), f[Matrices!Cell(n, k)])
  BY <1>11
<1> DEFINE W == {k \in 0 .. N : ret[k] = g[k]}
<1>13. 0 \in W
  <2>1. 0 \in 0 .. N
    BY <1>1
  <2>2. ret[0] = c
    BY <1>12, <2>1
  <2> QED
    BY <1>9, <2>1, <2>2
<1>14. ASSUME NEW k \in 1 .. N, k - 1 \in W
       PROVE  k \in W
  <2>1. k \in 0 .. N /\ k # 0
    BY <1>1
  <2>2. ret[k] = Matrices!Replace(ret[k - 1], n, Matrices!Cell(n, k), f[Matrices!Cell(n, k)])
    BY <1>12, <2>1
  <2>3. ret[k] = g[k]
    BY <1>8, <1>14, <2>2
  <2> QED
    BY <2>1, <2>3
<1> HIDE DEF W
<1>15. N \in W
  BY <1>1, <1>13, <1>14, RoundsKeep
<1>16. ret[N] = g[N] /\ N \in 0 .. N
  BY <1>1, <1>15 DEF W
<1>17. ret[N] \in Seq(S) /\ Len(ret[N]) = L
  BY <1>7, <1>16
<1>18. \A i \in 1 .. N : ret[N][i] = f[Matrices!Cell(n, i)]
  <2>1. ret[N] = [j \in 1 .. L |-> IF j <= N THEN e[j] ELSE c[j]]
    BY <1>4, <1>16
  <2>2. \A i \in 1 .. N : i \in 1 .. L /\ i <= N
    BY <1>1
  <2> QED
    BY <1>2, <2>1, <2>2
<1> QED
  BY <1>3, <1>17, <1>18 DEF N, L, HasCells

\* The rounds of h keep to S, and r is what they make of base, one by one.
KeepsTo(h, n, S) == \A x \in S : \A i \in 1 .. n : h[<<x, i>>] \in S
Makes(r, h, n, S, base) ==
  /\ r = [i \in 0 .. n |-> IF i = 0 THEN base ELSE h[<<r[i - 1], i>>]]
  /\ \A i \in 0 .. n : r[i] \in S

\* A loop whose rounds keep to a set has its rounds.
LEMMA RoundsExist ==
  ASSUME NEW n \in Nat, NEW S, NEW base \in S, NEW h, KeepsTo(h, n, S)
  PROVE  \E r : Makes(r, h, n, S, base)
<1> DEFINE V == [k \in 0 .. n |-> S]
<1>1. \A k \in 0 .. n : V[k] = S
  OBVIOUS
<1> HIDE DEF V
<1>2. base \in V[0] /\ \A k \in 1 .. n : \A i \in 1 .. n : \A x \in V[k - 1] : h[<<x, i>>] \in V[k]
  BY <1>1 DEF KeepsTo
<1>3. PICK g : IsLoop(g, n, h, base)
  BY <1>2, LoopWithin
<1>4. \A s \in SUBSET (1 .. n) : g[s] = IF s = {} THEN base ELSE h[<<g[s \ {Max(s)}], Max(s)>>]
  BY <1>3 DEF IsLoop
<1>5. g[{}] = base
  BY <1>4
<1>6. EndsIn(g[1 .. n], n, h, V, base)
  BY <1>2, <1>4, <1>5, LoopEnds
<1>7. PICK t : RoundByRound(t, n, h, V, base)
  BY <1>6 DEF EndsIn
<1> DEFINE r == [i \in 0 .. n |-> t[i]]
<1>8. \A i \in 0 .. n : r[i] = t[i] /\ r[i] \in S
  BY <1>1, <1>7 DEF RoundByRound
<1>9. ASSUME NEW i \in 0 .. n
      PROVE  r[i] = IF i = 0 THEN base ELSE h[<<r[i - 1], i>>]
  <2>1. i # 0 => i \in 1 .. n /\ i - 1 \in 0 .. n
    OBVIOUS
  <2> HIDE DEF r
  <2> QED
    BY <1>7, <1>8, <2>1 DEF RoundByRound
<1>10. r = [i \in 0 .. n |-> IF i = 0 THEN base ELSE h[<<r[i - 1], i>>]]
  <2>1. r = [i \in 0 .. n |-> r[i]]
    BY <1>8
  <2> HIDE DEF r
  <2> QED
    BY <1>9, <2>1
<1> QED
  BY <1>8, <1>10 DEF Makes

\* What a matrix is: its cells come first, whatever is behind them.
MatrixInv == /\ rows \in Sizes /\ cells \in Seq(Matrices!Val) /\ rows * rows <= Len(cells)

\* A matrix just made.
LEMMA NewGives ==
  ASSUME NEW n \in Nat \ {0}, NEW v \in Matrices!Val
  PROVE  Matrices!New(n, v) \in Seq(Matrices!Val) /\ Len(Matrices!New(n, v)) = n * n
<1> DEFINE f == [p \in Matrices!Cells(n) |-> v]
           none == <<>>
           c == Matrices!InsertEach(none, n, f)
<1>1. OnCells(f, n, Matrices!Val) /\ none \in Seq(Matrices!Val) /\ Len(none) = 0
  BY DEF OnCells
<1>2. Matrices!New(n, v) = c
  BY DEF Matrices!New
<1> HIDE DEF f, none
<1>3. c \in Seq(Matrices!Val) /\ Len(c) = n * n + Len(none)
  <2>1. HasCells(c, f, n, Matrices!Val, n * n + Len(none))
    BY <1>1, InsertEachGives
  <2> HIDE DEF c
  <2> QED
    BY <2>1 DEF HasCells
<1> HIDE DEF c
<1>4. n * n \in Nat
  OBVIOUS
<1> QED
  BY <1>1, <1>2, <1>3, <1>4

LEMMA SizeFacts ==
  ASSUME MatrixInv
  PROVE  rows \in Nat \ {0} /\ Mod \in Nat \ {0} /\ 0 \in Matrices!Val
BY MatrixAssumption DEF MatrixInv, Matrices!Val

\* at() of a cell.
LEMMA AtGives ==
  ASSUME MatrixInv, NEW a \in 0 .. rows - 1, NEW b \in 0 .. rows - 1
  PROVE  Matrices!At(<<a, b>>) \in Matrices!Val
<1>1. rows \in Nat \ {0}
  BY SizeFacts
<1> DEFINE N == rows * rows
           i == a * rows + b + 1
<1>2. i \in 1 .. N
  BY <1>1, CellOf
<1>3. N \in Nat /\ N <= Len(cells) /\ cells \in Seq(Matrices!Val)
  BY <1>1 DEF MatrixInv
<1>4. Matrices!At(<<a, b>>) = cells[i]
  BY DEF Matrices!At
<1> HIDE DEF i, N
<1>5. i \in 1 .. Len(cells)
  BY <1>2, <1>3
<1> QED
  BY <1>3, <1>4, <1>5

\* dot() gives a matrix, of whatever numbers.
LEMMA DottedGives ==
  ASSUME MatrixInv, NEW rhs \in Operands[rows]
  PROVE  Matrices!Dotted(rhs) \in Seq(Matrices!Val) /\ rows * rows <= Len(Matrices!Dotted(rhs))
<1> DEFINE n == rows
           N == n * n
           T == n * n * n
           S == {c \in Seq(Matrices!Val) : N <= Len(c)}
           p(i) == Matrices!Cell(n, ((i - 1) \div n) + 1)
           k(i) == (i - 1) % n
           v(i) == (Matrices!At(<<p(i)[1], k(i)>>) + rhs[<<k(i), p(i)[2]>>]) % Mod
           base == Matrices!New(n, 0)
           h == [e \in S \X (1 .. T) |-> Matrices!Insert(e[1], n, p(e[2]), v(e[2]))]
           IsRet(r) == r = [i \in 0 .. T |-> IF i = 0 THEN base ELSE Matrices!Insert(r[i - 1], n, p(i), v(i))]
           ret == CHOOSE r : IsRet(r)
<1>1. n \in Nat \ {0} /\ Mod \in Nat \ {0} /\ 0 \in Matrices!Val /\ n \in Sizes
  BY SizeFacts DEF MatrixInv
<1>2. rhs \in [(0 .. n - 1) \X (0 .. n - 1) -> 0 .. Mod - 1]
  BY <1>1, MatrixAssumption
<1>3. N \in Nat /\ T \in Nat /\ T = N * n
  BY <1>1
<1>4. Matrices!Dotted(rhs) = ret[T]
  BY DEF Matrices!Dotted
<1>5. base \in S
  <2>1. base \in Seq(Matrices!Val) /\ Len(base) = N
    BY <1>1, NewGives
  <2> QED
    BY <1>3, <2>1
<1>6. ASSUME NEW i \in 1 .. T
      PROVE  /\ p(i)[1] * n + p(i)[2] + 1 \in 1 .. N
             /\ v(i) \in Matrices!Val
  <2> DEFINE x == i - 1
             y == x \div n
             z == x % n
  <2>1. x \in Nat /\ x < N * n
    BY <1>3
  <2>2. y \in Nat /\ z \in 0 .. n - 1 /\ x = y * n + z
    <3> HIDE DEF x
    <3> QED
      BY <1>1, <2>1
  <2> HIDE DEF y, N, T, n
  <2>3. y < N
    <3> SUFFICES ASSUME N <= y
                 PROVE  FALSE
      BY <1>3, <2>2
    <3>1. CASE N = y
      BY <1>1, <1>3, <2>1, <2>2, <3>1
    <3>2. CASE N < y
      <4>1. N * n + n <= y * n
        BY <1>1, <1>3, <2>2, <3>2, RowsApart
      <4>2. y * n \in Nat /\ N * n \in Nat
        BY <1>1, <1>3, <2>2
      <4> QED
        BY <1>1, <2>1, <2>2, <4>1, <4>2
    <3> QED
      BY <1>3, <2>2, <3>1, <3>2
  <2>4. y + 1 \in 1 .. N
    BY <1>3, <2>2, <2>3
  <2>5. /\ p(i)[1] \in 0 .. n - 1 /\ p(i)[2] \in 0 .. n - 1
        /\ p(i)[1] * n + p(i)[2] + 1 = y + 1
    BY <1>1, <2>4, CellPlace DEF N, y
  <2>6. k(i) \in 0 .. n - 1
    BY <2>2 DEF z
  <2> DEFINE a == p(i)[1]
             b == p(i)[2]
             l == k(i)
             lhs == Matrices!At(<<a, l>>)
             other == rhs[<<l, b>>]
  <2>7. lhs \in Matrices!Val
    <3>1. a \in 0 .. rows - 1 /\ l \in 0 .. rows - 1
      BY <2>5, <2>6 DEF n
    <3> HIDE DEF a, l
    <3> QED
      BY <3>1, AtGives
  <2>8. other \in 0 .. Mod - 1
    BY <1>2, <2>5, <2>6
  <2>9. (lhs + other) % Mod \in Matrices!Val
    <3> HIDE DEF lhs, other
    <3> QED
      BY <1>1, <2>7, <2>8 DEF Matrices!Val
  <2> QED
    BY <2>4, <2>5, <2>9
<1> HIDE DEF p, k, v, base, T, N, n
<1>7. ASSUME NEW c \in S, NEW i \in 1 .. T
      PROVE  Matrices!Insert(c, n, p(i), v(i)) \in S
  <2> DEFINE at == p(i)[1] * n + p(i)[2] + 1
             d == InsertAt(c, at, v(i))
  <2>1. Matrices!Insert(c, n, p(i), v(i)) = d
    BY DEF Matrices!Insert, Matrices!InsertAt, InsertAt
  <2>2. at \in 1 .. N /\ v(i) \in Matrices!Val
    BY <1>6
  <2>3. c \in Seq(Matrices!Val) /\ N <= Len(c) /\ Len(c) \in Nat
    OBVIOUS
  <2> HIDE DEF at
  <2>4. at \in 1 .. Len(c) + 1
    BY <1>3, <2>2, <2>3
  <2>5. ASSUME NEW w \in Matrices!Val
        PROVE  InsertAt(c, at, w) = [j \in 1 .. Len(c) + 1 |->
                                  IF j < at THEN c[j] ELSE IF j = at THEN w ELSE c[j - 1]]
    BY <2>3, <2>4, InsertedAt
  <2>6. d = [j \in 1 .. Len(c) + 1 |->
                IF j < at THEN c[j] ELSE IF j = at THEN v(i) ELSE c[j - 1]]
    BY <2>2, <2>5
  <2> HIDE DEF d
  <2>7. ASSUME NEW j \in 1 .. Len(c) + 1
        PROVE  (IF j < at THEN c[j] ELSE IF j = at THEN v(i) ELSE c[j - 1]) \in Matrices!Val
    <3>1. j < at => j \in 1 .. Len(c)
      BY <1>3, <2>2, <2>3, <2>4
    <3>2. ~(j < at) /\ j # at => j - 1 \in 1 .. Len(c)
      BY <1>3, <2>2, <2>3, <2>4
    <3> QED
      BY <2>2, <2>3, <3>1, <3>2
  <2>8. d \in [1 .. Len(c) + 1 -> Matrices!Val]
    BY <2>6, <2>7
  <2>9. d \in Seq(Matrices!Val) /\ Len(d) = Len(c) + 1
    BY <2>3, <2>8
  <2> QED
    BY <1>3, <2>1, <2>3, <2>9
<1>8. \A c \in S : \A i \in 1 .. T : h[<<c, i>>] = Matrices!Insert(c, n, p(i), v(i)) /\ h[<<c, i>>] \in S
  <2>1. \A c \in S : \A i \in 1 .. T : h[<<c, i>>] = Matrices!Insert(c, n, p(i), v(i))
    OBVIOUS
  <2> HIDE DEF h, S
  <2> QED
    BY <1>7, <2>1
<1> HIDE DEF h, S
<1>9. PICK r : Makes(r, h, T, S, base)
  <2>1. T \in Nat /\ base \in S /\ KeepsTo(h, T, S)
    BY <1>3, <1>5, <1>8 DEF KeepsTo
  <2> QED
    BY <2>1, RoundsExist
<1>10. ASSUME NEW i \in 0 .. T, i # 0
       PROVE  h[<<r[i - 1], i>>] = Matrices!Insert(r[i - 1], n, p(i), v(i))
  <2>1. i \in 1 .. T /\ i - 1 \in 0 .. T
    BY <1>3, <1>10
  <2> QED
    BY <1>8, <1>9, <2>1 DEF Makes
<1>11. IsRet(r)
  BY <1>9, <1>10 DEF Makes
<1>12. IsRet(ret)
  BY <1>11
<1> HIDE DEF ret
<1>13. \A i \in 0 .. T : ret[i] = IF i = 0 THEN base ELSE Matrices!Insert(ret[i - 1], n, p(i), v(i))
  BY <1>12
<1> DEFINE W == {i \in 0 .. T : ret[i] \in S}
<1>14. 0 \in W
  BY <1>3, <1>5, <1>13
<1>15. ASSUME NEW i \in 1 .. T, i - 1 \in W
       PROVE  i \in W
  <2>1. i \in 0 .. T /\ i # 0
    BY <1>3
  <2> QED
    BY <1>7, <1>13, <1>15, <2>1
<1> HIDE DEF W
<1>16. T \in W
  BY <1>3, <1>14, <1>15, RoundsKeep
<1>17. ret[T] \in S
  BY <1>16 DEF W
<1> QED
  BY <1>4, <1>17 DEF S, N, n

\* What the loops over a new matrix give.
LEMMA MadeGives ==
  ASSUME MatrixInv, NEW f, OnCells(f, rows, Matrices!Val)
  PROVE  /\ HasCells(Matrices!Inserted(f), f, rows, Matrices!Val, rows * rows + rows * rows)
         /\ HasCells(Matrices!Replaced(f), f, rows, Matrices!Val, rows * rows)
<1> DEFINE new == Matrices!New(rows, 0)
           N == rows * rows
<1>1. rows \in Nat \ {0} /\ 0 \in Matrices!Val
  BY SizeFacts
<1>2. new \in Seq(Matrices!Val) /\ Len(new) = rows * rows
  BY <1>1, NewGives
<1>3. N \in Nat /\ Len(new) = N
  BY <1>1, <1>2
<1> HIDE DEF new, N
<1>4. rows * rows <= Len(new)
  BY <1>3 DEF N
<1>5. HasCells(Matrices!InsertEach(new, rows, f), f, rows, Matrices!Val, rows * rows + Len(new))
  BY <1>1, <1>2, InsertEachGives
<1>6. HasCells(Matrices!ReplaceEach(new, rows, f), f, rows, Matrices!Val, Len(new))
  BY <1>1, <1>2, <1>4, ReplaceEachGives
<1> QED
  BY <1>2, <1>5, <1>6 DEF Matrices!Inserted, Matrices!Replaced, new

\* The grid of the cells that a step leaves.
LEMMA GridOf ==
  ASSUME MatrixInv, rows' = rows, NEW f, OnCells(f, rows, Matrices!Val), NEW len \in Nat, rows * rows <= len,
         HasCells(cells', f, rows, Matrices!Val, len)
  PROVE  MatrixInv' /\ Matrices!Grid' = [p \in Matrices!Cells(rows) |-> f[p]]
<1> DEFINE N == rows * rows
<1>1. rows \in Nat \ {0}
  BY SizeFacts
<1>2. MatrixInv'
  BY DEF MatrixInv, HasCells, Matrices!Val
<1>3. Matrices!Grid' = [p \in Matrices!Cells(rows) |-> cells'[p[1] * rows + p[2] + 1]]
  BY DEF Matrices!Grid, Matrices!At, Matrices!Cells, Matrices!Cell
<1>4. ASSUME NEW p \in Matrices!Cells(rows)
      PROVE  cells'[p[1] * rows + p[2] + 1] = f[p]
  <2>1. PICK i \in 1 .. rows * rows : p = Matrices!Cell(rows, i)
    BY DEF Matrices!Cells
  <2>2. p[1] * rows + p[2] + 1 = i
    BY <1>1, <2>1, CellPlace
  <2> QED
    BY <2>1, <2>2 DEF HasCells
<1> QED
  BY <1>2, <1>3, <1>4

\* The grid of a matrix has numbers.
LEMMA GridFacts ==
  ASSUME MatrixInv
  PROVE  /\ DOMAIN Matrices!Grid = Matrices!Cells(rows)
         /\ Matrices!Cells(rows) = (0 .. rows - 1) \X (0 .. rows - 1)
         /\ \A p \in Matrices!Cells(rows) : /\ Matrices!Grid[p] = Matrices!At(p)
                                            /\ Matrices!At(p) \in Matrices!Val
<1>1. rows \in Nat \ {0}
  BY SizeFacts
<1>2. Matrices!Cells(rows) = (0 .. rows - 1) \X (0 .. rows - 1)
  BY <1>1, CellsAre
<1>3. ASSUME NEW p \in Matrices!Cells(rows)
      PROVE  Matrices!At(p) \in Matrices!Val
  <2>1. PICK a \in 0 .. rows - 1, b \in 0 .. rows - 1 : p = <<a, b>>
    BY <1>2
  <2> QED
    BY <2>1, AtGives
<1> QED
  BY <1>2, <1>3 DEF Matrices!Grid

\* A step whose result has the cells f.
LEMMA ReturnsGrid ==
  ASSUME MatrixInv, NEW o, NEW a, NEW f, OnCells(f, rows, Matrices!Val),
         \/ Matrices!Returns(o, a, Matrices!Inserted(f))
         \/ Matrices!Returns(o, a, Matrices!Replaced(f))
  PROVE  /\ MatrixInv' /\ Matrices!Grid' = [p \in Matrices!Cells(rows) |-> f[p]]
         /\ call' = <<o, a>>
<1>1. rows \in Nat \ {0}
  BY SizeFacts
<1>2. rows * rows \in Nat /\ rows * rows + rows * rows \in Nat /\ rows * rows <= rows * rows + rows * rows
  BY <1>1
<1>3. PICK len \in Nat : rows * rows <= len /\ HasCells(cells', f, rows, Matrices!Val, len)
  BY <1>2, MadeGives DEF Matrices!Returns
<1>4. rows' = rows /\ call' = <<o, a>>
  BY DEF Matrices!Returns
<1> QED
  BY <1>3, <1>4, GridOf

\* What MatchesSTDMatrix says of a step.
Matched == call'[1] \notin {"dot", "read", "waits"} => Matrices!Reference!Next

\* The operations that take a matrix.
LEMMA OperandsMatched ==
  ASSUME MatrixInv, NEW rhs \in Operands[rows], Matrices!Plus(rhs) \/ Matrices!Minus(rhs) \/ Matrices!Times(rhs)
  PROVE  MatrixInv' /\ Matched
<1>1. Mod \in Nat \ {0} /\ rows \in Sizes
  BY SizeFacts DEF MatrixInv
<1>2. /\ DOMAIN Matrices!Grid = Matrices!Cells(rows)
      /\ Matrices!Cells(rows) = (0 .. rows - 1) \X (0 .. rows - 1)
      /\ \A p \in Matrices!Cells(rows) : /\ Matrices!Grid[p] = Matrices!At(p)
                                         /\ Matrices!At(p) \in Matrices!Val
  BY GridFacts
<1>3. rhs \in [(0 .. rows - 1) \X (0 .. rows - 1) -> 0 .. Mod - 1]
  BY <1>1, MatrixAssumption
<1>4. \A p \in Matrices!Cells(rows) : rhs[p] \in 0 .. Mod - 1 /\ Matrices!At(p) \in 0 .. Mod - 1
  BY <1>2, <1>3 DEF Matrices!Val
<1>5. ASSUME NEW x \in 0 .. Mod - 1, NEW y \in 0 .. Mod - 1
      PROVE  (x + y) % Mod \in Matrices!Val /\ (x - y) % Mod \in Matrices!Val /\ (x * y) % Mod \in Matrices!Val
  <2>1. x + y \in Int /\ x - y \in Int /\ x * y \in Int
    BY <1>1
  <2>2. \A z \in Int : z % Mod \in 0 .. Mod - 1
    BY <1>1
  <2> QED
    BY <2>1, <2>2 DEF Matrices!Val
<1>6. CASE Matrices!Plus(rhs)
  <2> DEFINE f == [p \in Matrices!Cells(rows) |-> (Matrices!At(p) + rhs[p]) % Mod]
  <2>1. OnCells(f, rows, Matrices!Val)
    BY <1>4, <1>5 DEF OnCells
  <2>2. Matrices!Returns("+", rhs, Matrices!Inserted(f))
    BY <1>6 DEF Matrices!Plus
  <2>3. MatrixInv' /\ Matrices!Grid' = f /\ call' = <<"+", rhs>>
    BY <2>1, <2>2, ReturnsGrid
  <2>4. f = Matrices!Reference!Plus(Matrices!Grid, rhs)
    BY <1>2 DEF Matrices!Reference!Plus
  <2> QED
    BY <2>3, <2>4 DEF Matched, Matrices!Reference!Next, Matrices!Reference!op, Matrices!Reference!arg
<1>7. CASE Matrices!Minus(rhs)
  <2> DEFINE f == [p \in Matrices!Cells(rows) |-> (Matrices!At(p) - rhs[p]) % Mod]
  <2>1. OnCells(f, rows, Matrices!Val)
    BY <1>4, <1>5 DEF OnCells
  <2>2. Matrices!Returns("-", rhs, Matrices!Replaced(f))
    BY <1>7 DEF Matrices!Minus
  <2>3. MatrixInv' /\ Matrices!Grid' = f /\ call' = <<"-", rhs>>
    BY <2>1, <2>2, ReturnsGrid
  <2>4. f = Matrices!Reference!Minus(Matrices!Grid, rhs)
    BY <1>2 DEF Matrices!Reference!Minus
  <2> QED
    BY <2>3, <2>4 DEF Matched, Matrices!Reference!Next, Matrices!Reference!op, Matrices!Reference!arg
<1>8. CASE Matrices!Times(rhs)
  <2> DEFINE f == [p \in Matrices!Cells(rows) |-> (Matrices!At(p) * rhs[p]) % Mod]
  <2>1. OnCells(f, rows, Matrices!Val)
    BY <1>4, <1>5 DEF OnCells
  <2>2. Matrices!Returns("*", rhs, Matrices!Inserted(f))
    BY <1>8 DEF Matrices!Times
  <2>3. MatrixInv' /\ Matrices!Grid' = f /\ call' = <<"*", rhs>>
    BY <2>1, <2>2, ReturnsGrid
  <2>4. f = Matrices!Reference!Hadamard(Matrices!Grid, rhs)
    BY <1>2 DEF Matrices!Reference!Hadamard
  <2> QED
    BY <2>3, <2>4 DEF Matched, Matrices!Reference!Next, Matrices!Reference!op, Matrices!Reference!arg
<1> QED
  BY <1>6, <1>7, <1>8

\* The operations on one matrix.
LEMMA ScaleMatched ==
  ASSUME MatrixInv, NEW val \in Matrices!Val, Matrices!Scale(val)
  PROVE  MatrixInv' /\ Matched
<1> DEFINE f == [p \in Matrices!Cells(rows) |-> (Matrices!At(p) * val) % Mod]
<1>1. Mod \in Nat \ {0}
  BY SizeFacts
<1>2. OnCells(f, rows, Matrices!Val)
  <2>1. ASSUME NEW x \in Matrices!Val
        PROVE  (x * val) % Mod \in Matrices!Val
    <3>1. x * val \in Int /\ \A z \in Int : z % Mod \in 0 .. Mod - 1
      BY <1>1 DEF Matrices!Val
    <3> QED
      BY <3>1 DEF Matrices!Val
  <2> QED
    BY <2>1, GridFacts DEF OnCells
<1>3. Matrices!Returns("scale", val, Matrices!Inserted(f))
  BY DEF Matrices!Scale
<1>4. MatrixInv' /\ Matrices!Grid' = f /\ call' = <<"scale", val>>
  BY <1>2, <1>3, ReturnsGrid
<1>5. f = Matrices!Reference!Scaled(Matrices!Grid, val)
  BY GridFacts DEF Matrices!Reference!Scaled
<1> QED
  BY <1>4, <1>5 DEF Matched, Matrices!Reference!Next, Matrices!Reference!op, Matrices!Reference!arg

LEMMA ApplyMatched ==
  ASSUME MatrixInv, NEW fun \in [Matrices!Val -> Matrices!Val], Matrices!Apply(fun)
  PROVE  MatrixInv' /\ Matched
<1> DEFINE f == [p \in Matrices!Cells(rows) |-> fun[Matrices!At(p)]]
<1>1. OnCells(f, rows, Matrices!Val)
  BY GridFacts DEF OnCells
<1>2. Matrices!Returns("apply", fun, Matrices!Inserted(f))
  BY DEF Matrices!Apply
<1>3. MatrixInv' /\ Matrices!Grid' = f /\ call' = <<"apply", fun>>
  BY <1>1, <1>2, ReturnsGrid
<1>4. f = Matrices!Reference!Applied(Matrices!Grid, fun)
  BY GridFacts DEF Matrices!Reference!Applied
<1> QED
  BY <1>3, <1>4 DEF Matched, Matrices!Reference!Next, Matrices!Reference!op, Matrices!Reference!arg

LEMMA TransposeMatched ==
  ASSUME MatrixInv, Matrices!Transpose
  PROVE  MatrixInv' /\ Matched
<1> DEFINE f == [p \in Matrices!Cells(rows) |-> Matrices!At(<<p[2], p[1]>>)]
<1>1. \A p \in Matrices!Cells(rows) : <<p[2], p[1]>> \in Matrices!Cells(rows)
  BY GridFacts
<1>2. OnCells(f, rows, Matrices!Val)
  BY <1>1, GridFacts DEF OnCells
<1>3. Matrices!Returns("transpose", 0, Matrices!Inserted(f))
  BY DEF Matrices!Transpose
<1>4. MatrixInv' /\ Matrices!Grid' = f /\ call' = <<"transpose", 0>>
  BY <1>2, <1>3, ReturnsGrid
<1>5. f = Matrices!Reference!Transposed(Matrices!Grid)
  <2>1. Matrices!Cells(rows) = {<<q[2], q[1]>> : q \in DOMAIN Matrices!Grid}
    <3>1. \A p \in Matrices!Cells(rows) : p = <<p[1], p[2]>>
      BY DEF Matrices!Cells, Matrices!Cell
    <3>2. ASSUME NEW p \in Matrices!Cells(rows)
          PROVE  \E q \in Matrices!Cells(rows) : p = <<q[2], q[1]>>
      BY <1>1, <3>1
    <3> QED
      BY <1>1, <3>2, GridFacts
  <2>2. \A p \in Matrices!Cells(rows) : Matrices!Grid[<<p[2], p[1]>>] = Matrices!At(<<p[2], p[1]>>)
    BY <1>1, GridFacts
  <2> QED
    BY <2>1, <2>2 DEF Matrices!Reference!Transposed
<1> QED
  BY <1>4, <1>5 DEF Matched, Matrices!Reference!Next, Matrices!Reference!op, Matrices!Reference!arg

LEMMA SetMatched ==
  ASSUME MatrixInv, NEW p \in Matrices!Cells(rows), NEW v \in Matrices!Val, Matrices!Set(p, v)
  PROVE  MatrixInv' /\ Matched
<1> DEFINE f == [q \in Matrices!Cells(rows) |-> IF q = p THEN v ELSE Matrices!At(q)]
           N == rows * rows
<1>1. rows \in Nat \ {0} /\ N \in Nat
  BY SizeFacts
<1>2. OnCells(f, rows, Matrices!Val)
  BY GridFacts DEF OnCells
<1>3. PICK k \in 1 .. N : p = Matrices!Cell(rows, k)
  BY DEF Matrices!Cells
<1>4. /\ cells' = [cells EXCEPT ![k] = v] /\ rows' = rows /\ call' = <<"set", <<p, v>>>>
  <2>1. p[1] * rows + p[2] + 1 = k
    BY <1>1, <1>3, CellPlace
  <2> QED
    BY <2>1 DEF Matrices!Set, Matrices!Returns, Matrices!Replace
<1>5. cells \in Seq(Matrices!Val) /\ N <= Len(cells) /\ Len(cells) \in Nat
  BY DEF MatrixInv
<1>6. ASSUME NEW i \in 1 .. N
      PROVE  cells'[i] = f[Matrices!Cell(rows, i)]
  <2> DEFINE q == Matrices!Cell(rows, i)
  <2>1. q \in Matrices!Cells(rows) /\ i \in 1 .. Len(cells)
    BY <1>1, <1>5 DEF Matrices!Cells
  <2>2. q[1] * rows + q[2] + 1 = i /\ p[1] * rows + p[2] + 1 = k
    BY <1>1, <1>3, CellPlace
  <2>3. Matrices!At(q) = cells[i]
    BY <2>2 DEF Matrices!At
  <2> HIDE DEF q
  <2>4. CASE q = p
    <3>1. i = k
      BY <2>2, <2>4
    <3> QED
      BY <1>4, <1>5, <2>1, <2>4, <3>1 DEF q
  <2>5. CASE q # p
    <3>1. i # k
      BY <1>3, <2>5 DEF q
    <3> QED
      BY <1>4, <1>5, <2>1, <2>3, <2>5, <3>1 DEF q
  <2> QED
    BY <2>4, <2>5
<1>7. cells' \in Seq(Matrices!Val) /\ Len(cells') = Len(cells)
  <2> DEFINE L == Len(cells)
  <2>1. L \in Nat /\ cells \in [1 .. L -> Matrices!Val]
    BY <1>5
  <2> HIDE DEF L
  <2>2. cells' \in [1 .. L -> Matrices!Val]
    BY <1>4, <2>1
  <2>3. cells' \in Seq(Matrices!Val) /\ Len(cells') = L
    BY <2>1, <2>2
  <2> QED
    BY <2>3 DEF L
<1> HIDE DEF f
<1>8. HasCells(cells', f, rows, Matrices!Val, Len(cells))
  BY <1>6, <1>7 DEF HasCells
<1>9. MatrixInv' /\ Matrices!Grid' = [q \in Matrices!Cells(rows) |-> f[q]]
  BY <1>2, <1>4, <1>5, <1>8, GridOf
<1>10. [q \in Matrices!Cells(rows) |-> f[q]] = [Matrices!Grid EXCEPT ![p] = v]
  BY GridFacts DEF f
<1> QED
  BY <1>4, <1>9, <1>10 DEF Matched, Matrices!Reference!Next, Matrices!Reference!op, Matrices!Reference!arg

\* The operations that MatchesSTDMatrix leaves out give matrices all the same.
LEMMA DotAndRead ==
  ASSUME MatrixInv,
         \/ \E rhs \in Operands[rows] : Matrices!Dot(rhs)
         \/ \E n \in Sizes : \E rhs \in Operands[n] : Matrices!Read(n, rhs)
  PROVE  MatrixInv' /\ Matched
<1>1. Matched
  BY DEF Matched, Matrices!Dot, Matrices!Read, Matrices!Returns
<1>2. CASE \E rhs \in Operands[rows] : Matrices!Dot(rhs)
  <2>1. PICK rhs \in Operands[rows] : cells' = Matrices!Dotted(rhs) /\ rows' = rows
    BY <1>2 DEF Matrices!Dot, Matrices!Returns
  <2>2. cells' \in Seq(Matrices!Val) /\ rows * rows <= Len(cells')
    BY <2>1, DottedGives
  <2> QED
    BY <1>1, <2>1, <2>2 DEF MatrixInv, Matrices!Val
<1>3. CASE \E n \in Sizes : \E rhs \in Operands[n] : Matrices!Read(n, rhs)
  <2>1. PICK n \in Sizes : cells' = Matrices!New(n, 0) /\ rows' = n
    BY <1>3 DEF Matrices!Read
  <2>2. n \in Nat \ {0} /\ 0 \in Matrices!Val
    BY SizeFacts, MatrixAssumption
  <2>3. cells' \in Seq(Matrices!Val) /\ Len(cells') = n * n
    BY <2>1, <2>2, NewGives
  <2>4. n * n <= Len(cells')
    <3>1. n * n \in Nat
      BY <2>2
    <3> QED
      BY <2>3, <3>1
  <2> QED
    BY <1>1, <2>1, <2>3, <2>4 DEF MatrixInv, Matrices!Val
<1> QED
  BY <1>2, <1>3

LEMMA MatrixStep ==
  ASSUME MatrixInv, Matrices!Operation
  PROVE  MatrixInv' /\ Matched
<1>1. ASSUME NEW rhs \in Operands[rows],
             \/ Matrices!Plus(rhs) \/ Matrices!Minus(rhs) \/ Matrices!Times(rhs)
      PROVE  MatrixInv' /\ Matched
  BY <1>1, OperandsMatched
<1>2. ASSUME NEW v \in Matrices!Val, Matrices!Apply([x \in Matrices!Val |-> (x + v) % Mod])
      PROVE  MatrixInv' /\ Matched
  <2> DEFINE fun == [x \in Matrices!Val |-> (x + v) % Mod]
  <2>1. Mod \in Nat \ {0}
    BY SizeFacts
  <2>2. fun \in [Matrices!Val -> Matrices!Val]
    <3>1. ASSUME NEW x \in Matrices!Val
          PROVE  (x + v) % Mod \in Matrices!Val
      <4>1. x + v \in Int /\ \A z \in Int : z % Mod \in 0 .. Mod - 1
        BY <2>1 DEF Matrices!Val
      <4> QED
        BY <4>1 DEF Matrices!Val
    <3> QED
      BY <3>1
  <2> HIDE DEF fun
  <2>3. Matrices!Apply(fun)
    BY <1>2 DEF fun
  <2> QED
    BY <2>2, <2>3, ApplyMatched
<1>3. ASSUME NEW v \in Matrices!Val, Matrices!Scale(v)
      PROVE  MatrixInv' /\ Matched
  BY <1>3, ScaleMatched
<1>4. ASSUME NEW p \in Matrices!Cells(rows), NEW v \in Matrices!Val, Matrices!Set(p, v)
      PROVE  MatrixInv' /\ Matched
  BY <1>4, SetMatched
<1>5. ASSUME Matrices!Transpose
      PROVE  MatrixInv' /\ Matched
  BY <1>5, TransposeMatched
<1> QED
  BY <1>1, <1>2, <1>3, <1>4, <1>5, DotAndRead DEF Matrices!Operation

\* The library run's MatchesSTDMatrix: for matrices of any size, and whatever cells earlier
\* operations left behind the last one, every operation of Matrix but dot() and operator>>
\* gives what STDMatrix gives.
THEOREM MatrixMatchesSTDMatrix == LibrarySpec => MatchesSTDMatrix
<1>1. LibraryInit => MatrixInv
  <2> SUFFICES ASSUME LibraryInit
               PROVE  MatrixInv
    OBVIOUS
  <2>1. rows \in Sizes /\ \E v \in Matrices!Val : cells = Matrices!New(rows, v)
    BY DEF LibraryInit, Matrices!Init
  <2>2. rows \in Nat \ {0} /\ rows * rows \in Nat
    BY <2>1, MatrixAssumption
  <2>3. cells \in Seq(Matrices!Val) /\ Len(cells) = rows * rows
    BY <2>1, <2>2, NewGives
  <2> QED
    BY <2>1, <2>2, <2>3 DEF MatrixInv
<1>2. MatrixInv /\ [LibraryNext]_allVars => MatrixInv' /\ [Matched]_<<Matrices!Grid, call>>
  <2>1. ASSUME MatrixInv, Matrices!Operation
        PROVE  MatrixInv' /\ Matched
    BY <2>1, MatrixStep
  <2>2. ASSUME MatrixInv, \/ ArgsPart \/ MapPart \/ BuffersPart \/ BytesPart
                          \/ UNCHANGED Matrices!vars \/ UNCHANGED allVars
        PROVE  MatrixInv' /\ UNCHANGED <<Matrices!Grid, call>>
    <3>1. rows' = rows /\ cells' = cells /\ call' = call
      BY <2>2 DEF ArgsPart, MapPart, BuffersPart, BytesPart, allVars, matrixVars, Matrices!vars
    <3> QED
      BY <2>2, <3>1 DEF MatrixInv, Matrices!Val, Matrices!Grid, Matrices!At, Matrices!Cells, Matrices!Cell
  <2> QED
    BY <2>1, <2>2 DEF LibraryNext, MatrixPart, Matrices!Next
<1> QED
  BY <1>1, <1>2, PTL DEF LibrarySpec, MatchesSTDMatrix, Matrices!MatchesSTDMatrix, Matched
===============================================================================
