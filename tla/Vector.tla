-------------------------------- MODULE Vector --------------------------------
(***************************************************************************)
(* pc2l::Vector on an LRU manager.  The vector cuts its elements into      *)
(* blocks of BlockElems and keeps, beside its size, the last block it used *)
(* (prevBlockTag) and a pointer to that block's message (prevMsg), which   *)
(* it uses without asking the cache while the block tag stays the same.    *)
(*                                                                         *)
(* The message prevMsg points to may or may not still be the one in the    *)
(* cache: aliased says whether a write through prevMsg writes the cache.   *)
(* A vector has one user and its calls do not overlap, so a call, with the *)
(* loops it runs and every store and fetch in it, is one action.  Values   *)
(* are compared by sort alone.                                             *)
(***************************************************************************)
EXTENDS Integers, SequencesExt

CONSTANTS
  Values,
  Junk,           \* content of the payload of a fresh message
  None,           \* no message
  BlockElems,     \* BlockSize / TypeSize, without remainder
  TypeSize,
  Capacity,       \* blocks that fit in cacheSize
  PrefetchCount,
  MaxSize,        \* bound: elements
  Programs        \* what the programs do that use the vector, see below

\* "edit": insert anywhere, replace, swap, erase.  "assign": v[i] = x.
\* "exchange": std::swap(v[i], v[j]), as std::sort does it.  "fill": begins with a
\* number of equal elements.  "stray": push_back after using a block that is not the
\* last.  "clear": clear().  "sort": sort().  "shared": other data structures use the
\* same manager.  "forward": PFStrategy is FORWARD_SEQUENTIAL.
ASSUME VectorAssumption ==
  /\ Junk \notin Values
  /\ {BlockElems, TypeSize, Capacity} \subseteq Nat \ {0} /\ {PrefetchCount, MaxSize} \subseteq Nat
  /\ Programs \subseteq SUBSET {"edit", "assign", "exchange", "fill", "stray", "clear",
                               "sort", "shared", "forward"}

Payloads == [0 .. BlockElems - 1 -> Values \cup {Junk}]

ASSUME NoneIsNoPayload == None \notin Payloads

VARIABLES
  program,   \* which of Programs runs
  siz,
  prevTag,   \* prevBlockTag
  prev,      \* payload of the message prevMsg points to, or None (null)
  aliased,   \* prevMsg is the message the cache holds for prevTag
  cached,    \* cached[t]: payload of the manager's message for block t, or None
  order,     \* resident blocks of this vector, the most recently used first
  remote,    \* remote[t]: payload its worker holds for block t, or None
  stuck      \* a null pointer or a freed message was used, or a get waits for a
             \* block nobody has

vars == <<program, siz, prevTag, prev, aliased, cached, order, remote, stuck>>

BlockSize == BlockElems * TypeSize
Blocks    == 0 .. MaxSize \div BlockElems

Init == /\ program \in Programs
        /\ siz = 0 /\ prevTag = 0 /\ prev = None /\ aliased = FALSE
        /\ cached = [t \in Blocks |-> None] /\ order = <<>>
        /\ remote = [t \in Blocks |-> None] /\ stuck = FALSE

\* The vector and the cache as one value that the calls transform.
State == [siz |-> siz, prevTag |-> prevTag, prev |-> prev, aliased |-> aliased,
          cached |-> cached, order |-> order, remote |-> remote, stuck |-> stuck]

Become(s) == /\ UNCHANGED program
             /\ siz' = s.siz /\ prevTag' = s.prevTag /\ prev' = s.prev
             /\ aliased' = s.aliased /\ cached' = s.cached /\ order' = s.order
             /\ remote' = s.remote /\ stuck' = s.stuck

\* indexCalculation: the block of an element, its place there, and in bytes.
Tag(i)    == i \div BlockElems
Place(i)  == i % BlockElems
ByteOf(i) == Place(i) * TypeSize
-------------------------------------------------------------------------------
(* The manager, as far as this vector's blocks go. *)

Resident(s, t) == s.cached[t] # None

\* The block in use is the first of the list.
Used(s, t) == [s EXCEPT !.order = <<t>> \o RemoveFirst(@, t)]

\* Slip: a block its worker has already is not sent again.
EvictOnce(s, t) ==
  [s EXCEPT !.remote[t] = IF @ = None THEN s.cached[t] ELSE @, !.cached[t] = None,
            !.order = RemoveFirst(@, t), !.aliased = IF t = s.prevTag THEN FALSE ELSE @]

Evict(s, t) == [s EXCEPT !.remote[t] = s.cached[t], !.cached[t] = None,
                         !.order = RemoveFirst(@, t), !.aliased = IF t = s.prevTag THEN FALSE ELSE @]

\* Slip: one block too many before the first eviction.
ReferLate(s, t) ==
  LET room == IF ~Resident(s, t) /\ Len(s.order) > Capacity
                THEN Evict(s, Last(s.order)) ELSE s
  IN  Used(room, t)

Refer(s, t) ==
  LET room == IF ~Resident(s, t) /\ Len(s.order) >= Capacity
                THEN Evict(s, Last(s.order)) ELSE s
  IN  Used(room, t)

\* getBlockFallbackRemote: resident, or fetched into a message of its own, or (no
\* worker has it) never answered.
GetBlock(s, t) ==
  IF Resident(s, t) THEN Refer(s, t)
  ELSE IF s.remote[t] = None THEN [s EXCEPT !.stuck = TRUE]
  ELSE [Refer(s, t) EXCEPT !.cached[t] = s.remote[t]]

\* storeCacheBlock(prevMsg): from now on the cache holds that message.
StorePrev(s) == [Refer(s, s.prevTag) EXCEPT !.cached[s.prevTag] = s.prev, !.aliased = TRUE]
-------------------------------------------------------------------------------
(* The parts of the vector's calls. *)

Forward == "forward" \in program

\* Slip: the number of blocks is not compared.
PrefetchUnbounded(s, i) ==
  IF Forward /\ BlockSize - ByteOf(i) + 1 >= PrefetchCount /\ Tag(i) + 1 \in Blocks
    THEN GetBlock(s, Tag(i) + 1) ELSE s

\* prefetch(): siz counts elements, BlockSize bytes.
Prefetch(s, i) ==
  IF /\ Forward
     /\ BlockSize - ByteOf(i) + 1 >= PrefetchCount
     /\ s.siz \div BlockSize > Tag(i) + 1
    THEN GetBlock(s, Tag(i) + 1) ELSE s

\* Make prevMsg the message of block t.
Hold(s, t) ==
  IF t = s.prevTag THEN (IF s.prev = None THEN [s EXCEPT !.stuck = TRUE] ELSE s)
  ELSE LET g == GetBlock(s, t) IN
       IF g.stuck THEN g
       ELSE [g EXCEPT !.prevTag = t, !.prev = g.cached[t], !.aliased = TRUE]

\* at(), ptr() and operator[] up to the reference they return ...
Touch(s, i) == IF s.stuck THEN s ELSE Hold(Prefetch(s, i), Tag(i))

\* ... and the value there, after Touch(s, i).
ValueAt(t, i) == IF t.stuck THEN Junk ELSE t.prev[Place(i)]

\* A write through a pointer into prevMsg.
WriteHeld(s, i, v) ==
  IF s.stuck THEN s
  ELSE [s EXCEPT !.prev[Place(i)] = v,
                 !.cached[s.prevTag] = IF s.aliased THEN [@ EXCEPT ![Place(i)] = v] ELSE @]

\* T &x = v[i], &y = v[j]; std::swap(x, y).  While y is looked up, x points into the
\* message of its block, which lives on only in the cache.
Exchanged(s, i, j) ==
  LET a == Touch(s, i)
      b == Touch(a, j)
      w == WriteHeld(b, j, a.prev[Place(i)])
      y == b.prev[Place(j)]
  IN  IF b.stuck THEN b
      ELSE IF Tag(i) = Tag(j) THEN WriteHeld(w, i, y)
      ELSE IF a.aliased /\ Resident(b, Tag(i)) THEN [w EXCEPT !.cached[Tag(i)][Place(i)] = y]
      ELSE [b EXCEPT !.stuck = TRUE]

\* Slip: the block is written but not stored again.
WriteUnstored(s, i, v) == WriteHeld(s, i, v)

\* The element is moved into the payload and the message is stored.
WriteStored(s, i, v) == LET w == WriteHeld(s, i, v) IN IF w.stuck THEN w ELSE StorePrev(w)

\* replace(i, v)
Replaced(s, i, v) == WriteStored(Touch(s, i), i, v)

\* replace(to, at(from))
Copied(s, to, from) == LET t == Touch(s, from) IN Replaced(t, to, ValueAt(t, from))

FreshMessage(s, t) == [s EXCEPT !.prevTag = t, !.aliased = FALSE,
                                !.prev = [p \in 0 .. BlockElems - 1 |-> Junk]]

\* insert(size(), v): prevMsg if it is the last block, else a new message.
Appended(s, v) ==
  IF s.stuck THEN s
  ELSE LET t == Tag(s.siz)
           m == IF s.prevTag = t /\ s.siz > 0 THEN s ELSE FreshMessage(s, t)
       IN  [WriteStored(m, s.siz, v) EXCEPT !.siz = @ + 1]

\* n, n - 1, .., m
Downto(n, m) == [i \in 1 .. n - m + 1 |-> n + 1 - i]

\* The loop of insert: the last element appended again, those from index on moved.
Shifted(s, i) ==
  LET last  == Touch(s, s.siz - 1)
      grown == Appended(last, ValueAt(last, s.siz - 1))
  IN  FoldLeft(LAMBDA x, j : Copied(x, j, j - 1), grown, Downto(grown.siz - 2, i + 1))

\* insert(i, v); a block that is not the last is fetched, without a prefetch.
Inserted(s, i, v) ==
  IF i = s.siz THEN Appended(s, v)
  ELSE LET t == Shifted(s, i) IN
       IF t.stuck THEN t ELSE WriteStored(Hold(t, Tag(i)), i, v)

\* Vector(fillCount): insert(0, T{}), fillCount times.
Filled(s, n, v) == FoldLeft(LAMBDA x, k : Inserted(x, 0, v), s, [k \in 1 .. n |-> k])

\* swap(i, j)
Swapped(s, i, j) == LET t == Touch(s, i) IN Replaced(Copied(t, i, j), j, ValueAt(t, i))

\* erase(i)
Erased(s, i) ==
  LET t == FoldLeft(LAMBDA x, j : Swapped(x, j, j + 1), s, [n \in 1 .. s.siz - 1 - i |-> i + n - 1])
  IN  [t EXCEPT !.siz = @ - 1]

\* clear(): erase(i) for i = 0, 1, .. while i < siz, which every erase makes smaller.
Cleared(s) ==
  FoldLeft(LAMBDA x, i : IF i < x.siz THEN Erased(x, i) ELSE x, s, [n \in 1 .. s.siz |-> n - 1])
-------------------------------------------------------------------------------
Indices == 0 .. siz - 1

\* The program may append here: the block in hand is the last, or a new one starts.
MayAppend == "stray" \in program \/ Place(siz) = 0 \/ prevTag = Tag(siz)

\* insert(i, v), push_back(v)
Insert(i, v) == /\ ~stuck /\ siz < MaxSize
                /\ IF i = siz THEN MayAppend ELSE "edit" \in program
                /\ Become(Inserted(State, i, v))

Replace(i, v) == "edit" \in program /\ ~stuck /\ Become(Replaced(State, i, v))

Swap(i, j) == "edit" \in program /\ ~stuck /\ Become(Swapped(State, i, j))

Erase(i) == "edit" \in program /\ ~stuck /\ Become(Erased(State, i))

Clear == "clear" \in program /\ ~stuck /\ Become(Cleared(State))

\* at(i), *it, v[i] as a value
At(i) == ~stuck /\ Become(Touch(State, i))

\* v[i] = x, *it = x: the write goes through the reference, nothing is stored.
Assign(i, v) == /\ "assign" \in program /\ ~stuck
                /\ Become(WriteHeld(Touch(State, i), i, v))

\* std::swap(v[i], v[j]), std::iter_swap
Exchange(i, j) == "exchange" \in program /\ ~stuck /\ Become(Exchanged(State, i, j))

\* The constructor Vector(fillCount).
Fill(n, v) == "fill" \in program /\ siz = 0 /\ prev = None /\ Become(Filled(State, n, v))

\* Another data structure takes the place of this vector's oldest block.
OthersEvict == /\ "shared" \in program /\ ~stuck /\ order # <<>>
               /\ Become(Evict(State, Last(order)))

Next ==
  \/ \E i \in 0 .. siz, v \in Values : Insert(i, v)
  \/ \E i \in Indices, v \in Values : Replace(i, v)
  \/ \E i, j \in Indices : Swap(i, j)
  \/ \E i \in Indices : Erase(i)
  \/ Clear
  \/ \E i \in Indices : At(i)
  \/ \E i \in Indices, v \in Values : Assign(i, v)
  \/ \E i, j \in Indices : Exchange(i, j)
  \/ \E n \in 1 .. MaxSize, v \in Values : Fill(n, v)
  \/ OthersEvict

Spec == Init /\ [][Next]_vars
-------------------------------------------------------------------------------
\* Types; the cache lists its blocks once; an aliased prevMsg equals what it aliases.
TypeOK == /\ siz \in 0 .. MaxSize
          /\ prevTag \in Blocks
          /\ prev \in Payloads \cup {None}
          /\ aliased => Resident(State, prevTag) /\ prev = cached[prevTag]
          /\ cached \in [Blocks -> Payloads \cup {None}]
          /\ remote \in [Blocks -> Payloads \cup {None}]
          /\ ToSet(order) = {t \in Blocks : Resident(State, t)}
          /\ Len(order) = Cardinality(ToSet(order)) /\ Len(order) <= Capacity
          /\ stuck \in BOOLEAN

\* No call uses a null prevMsg, writes into a message that is gone or asks a worker
\* for a block it never got, whatever the program does and prefetch() guesses.  Two
\* references are held at once only by a program that has the cache to itself, with
\* room for two blocks and without prefetching.
NeverStuck == ~stuck

\* What at(i) would return.
Seen(i) == LET t == Tag(i) IN
           (IF t = prevTag THEN prev ELSE IF cached[t] # None THEN cached[t] ELSE remote[t])[Place(i)]

Elements == [i \in 1 .. siz |-> Seen(i - 1)]

\* Every call does to the vector what it does to a sequence of values; reading,
\* prefetching and the evictions of others are invisible.
Contents == INSTANCE ElementSeq WITH elems <- Elements
IsSequence == Contents!Spec

\* The programs the vector serves: they append to the block in hand or to a new
\* one, and write through references only if the cache holds that block for them.
Disciplined == /\ program \cap {"stray", "clear"} = {}
               /\ "shared" \in program => program \cap {"assign", "exchange"} = {}

\* For those, every call is that of a sequence.
SequenceIfDisciplined == Contents!Init /\ [][Disciplined => Contents!Next]_Elements

\* What the vector shows through prevMsg is also where the next fetch of the block
\* would find it: in the cache, or at its worker.
HeldIsSaved ==
  Disciplined /\ siz > 0 => prev = IF Resident(State, prevTag) THEN cached[prevTag] ELSE remote[prevTag]
-------------------------------------------------------------------------------
(* The inductive invariant behind these. *)

States == [siz : 0 .. MaxSize, prevTag : Blocks, prev : Payloads \cup {None}, aliased : BOOLEAN,
           cached : [Blocks -> Payloads \cup {None}], order : Seq(Blocks),
           remote : [Blocks -> Payloads \cup {None}], stuck : {FALSE}]

\* The payload the next fetch of block t gets.
Where(s, t) == IF Resident(s, t) THEN s.cached[t] ELSE s.remote[t]

\* The cache lists its blocks once, and prevMsg may be one of its messages.
Placed(s) ==
  /\ s \in States
  /\ IsInjective(s.order) /\ ToSet(s.order) = {t \in Blocks : Resident(s, t)}
  /\ Len(s.order) <= Capacity
  /\ s.aliased => Resident(s, s.prevTag) /\ s.prev = s.cached[s.prevTag]

\* The block in hand is the one used last, but for a prefetch of the next one.
InHand(s) ==
  /\ s.aliased
  /\ \/ s.order[1] = s.prevTag
     \/ /\ Forward /\ Len(s.order) > 1
        /\ s.order[1] = s.prevTag + 1 /\ s.order[2] = s.prevTag

\* A prefetch can push the block in hand out of a cache of one block.
PrefetchFits == Forward => Capacity > 1

\* Between two calls: every element has its block somewhere, and the one in hand is
\* what the cache or a worker has, if writes are stored or nobody else evicts.
Sound(s) ==
  /\ Placed(s)
  /\ s.siz > 0 => s.prev # None
  /\ \A i \in 0 .. s.siz - 1 : Where(s, Tag(i)) # None
  /\ s.prev # None =>
       /\ "shared" \notin program /\ PrefetchFits => InHand(s)
       /\ program \cap {"assign", "exchange"} = {} => s.prev = Where(s, s.prevTag)

\* Two references are held at once only by a program that has the cache to itself, with
\* room for two blocks and without prefetching.
ExchangesApart ==
  \A p \in Programs : "exchange" \in p => p \cap {"shared", "forward"} = {} /\ Capacity > 1

\* A program that writes through references does not prefetch into a cache of one block.
AssignsFit ==
  \A p \in Programs : "forward" \in p /\ p \cap {"assign", "exchange"} # {} => Capacity > 1

IInv == /\ program \in Programs /\ stuck \in BOOLEAN
        /\ Sound([State EXCEPT !.stuck = FALSE])
        /\ stuck => siz > 0 /\ ~ExchangesApart
===============================================================================
