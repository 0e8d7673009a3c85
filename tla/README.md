# PC2L in TLA+

PC2L is a C++ library for data structures that do not fit in the memory of one
machine.  A program is started as a set of MPI processes.  Rank 0 is the *manager*:
it runs the application, its data structures, and a bounded cache of blocks.  The
other ranks are *workers*: each runs a loop that keeps the blocks the manager evicts
and sends them back on request.  These modules model that program, TLC checks them
on small instances, and TLAPS proves, for every value of the constants, the main
properties of the distributed cache and its byte counters, of the life of the system,
of the four eviction strategies, of the vector and what it remembers of the cache, of
the map on it, of the memory of messages, of the layout of elements in blocks, of the
argument parser and of the example matrices.  Paths are relative to the repository.

## Inventory

| part | code | state | operations |
|---|---|---|---|
| manager | `src/CacheManager.cpp`, `src/CacheWorker.cpp` | cache, `currentBytes`, `cacheSize` | `storeCacheBlock`, `getBlock`, `getBlockFallbackRemote`, `finalize` |
| workers | `src/CacheWorker.cpp`, `src/StorageCacheWorker.cpp` | cache, `currentBytes` | `run`: STORE_BLOCK, GET_BLOCK, FINISH (ERASE_BLOCK is never sent) |
| transport | `src/Worker.cpp`, `src/MPIHelper.cpp` | messages of each pair, `recvBuf` | blocking `send`, probing `recv` |
| memory of messages | `include/Message.h`, `src/Message.cpp` | buffers, `ownBuf`, who points to them | the four `create`, `MessageDeleter`, `recv` growing its buffer |
| keys and sizes | `include/Vector.h`, `src/Message.cpp` | none | `indexCalculation`, the rounding of `BlockSize`, `getKey` |
| LRU, MRU | `src/{Least,Most}RecentlyUsedCacheWorker.cpp` | `std::list` of keys, entries with iterators | `refer`, `addToCache`, `getFromCache`, `eraseFromCache` |
| LFU | `src/LeastFrequentlyUsedCacheWorker.cpp` | map of lists by frequency, iterators | the same four |
| pseudo-LRU | `src/PseudoLRUCacheWorker.cpp` | entries with a bit, `trueCount`, `full` | the same four |
| `Vector` | `include/Vector.h` | `siz`, `prevBlockTag`, `prevMsg` | constructors, `insert`, `push_back`, `replace`, `swap`, `erase`, `clear`, `at`, `operator[]`, `prefetch`, `sort`, iterators |
| `Map` | `include/Map.h` | a sorted `Vector` of pairs | `insert`, `find`, `operator[]` |
| system, on every rank | `src/System.cpp` | strategy, world size, data structure count | `initialize`, `start`, `stop`, `finalize` |
| argument parser | `src/ArgParser.cpp`, `include/ArgParser.h` | argument records, the caller's `argc`, `argv` and variables | `addValidArguments`, `setArgument`, `parseArguments`, `checkRemainingArguments`, the help text |
| example matrices | `examples/Matrix.h`, `examples/STDMatrix.h` | one vector, two dimensions | `+`, `-`, `*`, `dot`, `apply`, `transpose`, `insert`, `replace`, `at`, `>>` |
| helpers | `Exception`, `Utilities` | none | formatting, timers |

How they interact.  A data structure calls the manager directly: `storeCacheBlock`
after it changed a block, `getBlockFallbackRemote` when it needs one.  Both call
`refer` of the strategy, which, if the cache is full, sends a block to worker
`blockTag % (worldSize - 1) + 1` in a blocking call.  A miss sends GET_BLOCK to that
worker and blocks in `recv` until something comes from it.  `System::stop` sends
FINISH to every worker; `start` then returns on that worker too, which runs the
program's code again on a manager object of its own.  Nothing is stored on disk,
nothing is retried, and there are no time limits; a message is neither lost nor
reordered within a pair (MPI).  Each process has one thread.  The concurrency is that
between the manager, the workers and the messages under way; beside it there is the
aliasing between the cache, the receive buffer, and the messages data structures
hold on to.

What is hard, and what makes each part correct:

- *manager, workers, transport*: copies of a block in up to three places, an eviction
  in flight while the next request is made, an answer matched to a request by its
  source alone, a byte counter kept by differences, shutdown behind unread messages.
  Correct if a get returns what the last store wrote, and comes back.
- *system*: the same code on every rank, before, inside and after the worker's loop,
  and several runs over the same channels.  Correct if runs do not mix, and end.
- *memory of messages*: a received message lies in a buffer that the next `recv`
  overwrites, a created one in its own; the deleter reads from the message itself
  which it is.  Correct if what the cache holds is its own.
- *strategies*: two structures, list and entries, changed at different moments of a
  call (`refer` first, `addToCache` later).  Correct if they agree, if the victim is
  the promised one, and if room is made only when needed.
- *Vector, Map, Matrix*: a remembered block that the cache may have let go.  Correct
  if they are a sequence, a function and a matrix.
- *keys and sizes*: correct if two elements share no byte.
- *argument parser*: two loops over an array that shrinks under them.  Correct if the
  options are read from left to right and the call ends.

`PROJECT.json` lists every hazard at its line with the properties that watch it.  Some
have a note in place of properties: the counter that wraps, the message LFU drops, a
`clear()` that leaves half, elements that straddle two blocks, tags beyond 32 bits, the
command of 74 characters.  The code has no answer to these, and the properties
are about the cases without them.

## Modules

**Distributed cache.**

- `BlockStore`: the abstract memory.  A store takes effect at once; a get is either
  immediate or a load that is started and finished, and returns the last stored value.
- `BlockCache`: the processes.  The manager's calls are cut where they can block:
  `phase` is `evicting` in the `send` inside `refer`, `requesting` in the `send` of
  GET_BLOCK, `waiting` in `recv`, `stopping` in the loop of `finalize`, `crashed`
  where the code divides by zero or takes `back()` of an empty list.  `incoming`,
  `evicted` and `want` are the local variables alive across these calls.  A worker's
  handler is one action.  A channel holds at most `ChanCap` messages, after which
  `send` blocks.  The victim of a new block is any resident block, which covers
  whatever LRU, MRU, LFU and pseudo-LRU may choose.  A store of a resident block
  replaces it; that LFU keeps the old message there is in `LfuCache` alone.  `written` and `got` are history.  The hit counters of profile mode and the
  prefetch request, which nothing issues, are left out.
- `BlockBytes`: the properties of it that add up the bytes of blocks.
  `BlockCacheProofs`: the theorems.  `MCBlockCache`: the instances.
- `Lifecycle`: one `main()` on every rank.  `at[r]` is where rank `r` is in it: before
  or after `initialize()`, in the program's code, in the worker's loop (`serving`), in
  `recv` (`waiting`), in `finalize()`.  `program` gives the code of each run as a list
  of stores and gets; `everywhere` says whether the code asks for rank 0, as
  `minimal_example` does, or not.  A send returns at once here, and a message carries
  the run it was sent in, as history.  `MCLifecycle`: the scripts; `LifecycleProofs`:
  the theorems.
- `Queues`: what a worker will hold when it has handled the messages before it, used
  in the invariants of `BlockCache` and `Lifecycle`.  `CommonLemmas`: how that changes
  with a message sent and one handled, with the lemmas on lists and finite sets that
  several proofs use.

**Memory and layout of messages.**

- `MessageBuffers`: one process.  `heap` maps addresses to messages with their
  `ownBuf`, `buf` and `cap` are `recvBuf`; `msg`, `next`, `blocks`, `held` are the
  pointers: the loop variable, the temporary it is assigned from, the cache, the
  vector's `prevMsg`.  `recv`, the assignment that deletes the previous message, and
  the handler are three actions.  A shared pointer's count is whether anything points
  there.  `undefined` records a deletion of freed memory.
- `BlockIndex`: every element written goes byte by byte into `mem[key]`, with the
  rounded block size, the shift and mask of `indexCalculation`, and tags cut to 32
  bits (`Half`).  `outside` records a write behind the payload.
- `MemoryProofs`: the theorems of both.

**Eviction strategies.**  Blocks have one size, `Capacity` fit.  An action is one
call of a data structure, with the two `refer` calls of a get that hits.

- `ResidentSet`: what every strategy owes: the set of resident blocks changes only
  for a block in use, and gives up one block only when full.
- `Recency`: the order LRU and MRU promise.
- `ListCache`: both of them on list nodes.  `place` is `placeInQueue`, the address of
  a node.  `refer` frees one node and allocates another; `Reuse` says that the new one
  is at the address just freed, which is what common allocators do.
- `LfuCache`: `queues`, `freq` (the item `placeInQueue` points to), contents.  A
  `recent` history orders the resident blocks.  Storing another message for a resident
  block leaves the old one in the cache: `Store(k, d, FALSE)`.
- `PlruCache`: hash order is any order.  The loop that resets the bits works on
  copies, so `used` only grows by gets and shrinks by stores and evictions.  The
  history `lastGot` is the block got last, until another resident block is used.
  `SparesLastGot` says that it is not the victim, however many new blocks come.  That is
  what pseudo-LRU has in common with LRU, and it does not hang on the reset: with a loop
  that cleared the bits of all others, older gets would be forgotten, and this would
  still hold.
- `Strategies`: `System::start` picks one of the four; `StrategyConstants` holds their
  constants, `MCStrategies` the instance, `StrategiesProofs` the theorems.

**Data structures.**

- `ElementSeq`: a sequence of values with the vector's operations.
- `Vector`: blocks of `BlockElems` elements, `prev` the payload `prevMsg` points to,
  and `aliased`, whether that is the message in the cache (a write through it then
  changes the cached block).  The manager is reduced to this vector's blocks in LRU
  order; `OthersEvict` is another data structure pushing the oldest of them out.  A
  call and its loops are one action since no other call overlaps it.
  `program` is chosen at the start and says which calls are made: among them the
  constructor that fills, and the swap of two references that `std::sort` makes on the
  iterators.
- `VectorSort`: `mergesort` and `merge`, recursive operators and so apart from
  `Vector`.  `MCVector`: the programs and instances.  `VectorProofs`: the theorems about
  `Vector` and `Map`.
- `MapStore`: a function from keys to values.  `Map` EXTENDS `Vector`: `std::lower_bound`
  as the probes it makes, each of which may move a block, then the insertion or the
  reference.  Iterators are indices.
- `STDMatrix`: the matrix of the examples on `std::vector`.  `Matrix`: the one on
  `pc2l::Vector`, whose operations build the result by inserting into a vector already
  full of zeros.  Its vector is a sequence, which `Vector` shows it is.

**Argument parser, and one process.**

- `ArgParser`: a round of the inner loop of `parseArguments()` is an action: the record
  does not match, or it does and words leave `argv` and both loop counters move.  `Check`
  and the `Print` actions are what follows, `SetArgument` what may precede.  The second
  half of the module reads the same command line from left to right, once.
  `ArgParserProofs`: the theorems.
- `Library`: one process and the five parts it runs by itself: parser, map, buffers,
  layout, matrix.  A behaviour is one of any of them.  It EXTENDS `Map` and `ArgParser`,
  whose names it uses as they are, and has an INSTANCE of each of the others.
  `LibraryConstants`: the constants of all with their assumptions; `MCLibrary`: the
  instance; `LibraryProofs`: that a step of `Library` is a step of the part, and so the
  theorems of the parts hold of it; the theorems about the matrix.

Operators under a comment "Slip" are single-fault variants of the operator after
them (a dropped guard, a wrong end of a list); each run was shown to fail when its
operator is replaced by the variant.

## Runs

| run | instance | shows |
|---|---|---|
| `core` | 2 workers, 3 blocks of size 3, 2 contents, cacheSize 7, 2 messages a channel | no interleaving loses or outdates a block, answers match requests, FINISH is last, cacheSize is kept: the whole is `BlockStore` |
| `implements` | 2 data structures with block sizes 1 and 3, 2 blocks each, cacheSize 3, 1 message a channel, fair | the byte counters are exact, the manager does not die, every fetch returns, `stop()` ends every worker |
| `strategies` | 4 blocks, 3 fit, frequencies up to 3 | all four strategies: structures agree, victims are the promised ones, residents change as `ResidentSet` says |
| `vector` | up to 5 elements in blocks of 2, 2 blocks fit, prefetching on and off | the vector is a sequence for four kinds of programs; for a fifth, which does everything those avoid, no null message is used and no block fetched that nobody has |
| `lifecycle` | 2 workers, 2 blocks, 1 fits, 2 runs of 3 scripts, fair | runs do not mix, nothing stays unread, every rank reads its writes, all ends |
| `library` | see below | command lines are read left to right, a map is a function, the cache owns its blocks, elements are apart, matrices agree |
| `unanswered_get` | a get of a block nobody stored | **violated**: the fetch never returns |
| `stale_place` | allocator gives any free node | **violated**: an iterator to a freed node |
| `plru_no_victim` | as `strategies` | **violated**: no victim once every block was got |
| `append_clobbers` | append and read only | **violated**: an append wipes the last block |
| `lost_assign` | writes through `v[i]`, shared manager | **violated**: the write is lost |
| `dangling_message` | the buffers of `library` | **violated**: the buffer of a message is freed before the message |

Bounds.  Two workers give blocks of the same and of different workers; with three
block numbers two share a worker, so that an eviction and a request meet in one
channel.  A capacity of one and of two messages makes `send` block and not block.
cacheSize 7 holds two blocks of size 3 and not a third; cacheSize 3 with sizes 1 and 3
has stores that evict nothing, one block, and one block too few.  `Word` is 16 and
larger than all sums, the counter does not wrap in these runs.  Four blocks of which
three fit give every position of the victim, and one spare list node gives the
allocator a choice.  `MaxFreq` 3 has an emptied list between two others and a smallest
frequency above one; `MaxCount` 5 lets `trueCount` overtake the size of the cache.
Five elements in blocks of two make three blocks, the last partly filled, of which one
is always evicted; the prefetch condition, which divides elements by bytes, is true
for some sizes and false for others.  In `lifecycle` one block fits, so that every
script but the empty one evicts, overwrites what a worker already has, and fetches
back; two runs are the least that can mix.

`library`: command lines of up to three words from all kinds (each option, `--help`, a
plain word, one with a '-' in second place), and those of four of a list, a value and a
plain word; four options of four types and, for `addValidArguments`, one more than
the limit; a longest command of 6 (the usual), 70 (the help text in columns of 4) and
75 characters (the width wraps in `size_t`).  Five addresses are two cached blocks,
`recvBuf`, a larger one that replaces it, and a message of its own.  The map has four
keys in two blocks of which one fits, so that a binary search of one call visits
both.  User block sizes 1, 3, 4 and 6 round to 1, 4 and 8, with element sizes that
divide them and one that does not; `Half` is 3, so that tags 0 to 2 are apart and the
width of tags is met.  Matrices of one and four cells over the numbers modulo 3 have
products and sums that differ.  With four cells in a block, `>>` finds the element behind
a matrix of one cell in the block of that cell, and waits for ever behind one of four.

Symmetry is used for contents in `core`, for blocks and contents in `strategies`,
where only safety is checked.  Named bounds: `MaxFreq` and `MaxCount` in
`StrategyConstants`, `MaxSize` in `Vector`, `ChanCap` in `BlockCache`, `Runs` in
`Lifecycle`, `MaxCap`, `MaxIndex` and `HelpLength` in `LibraryConstants`; one call of
`setArgument` that sets a value.  There are no others.

Fairness.  `implements`, `unanswered_get`: weak fairness of the manager's own steps
and of each worker's steps.  Every process runs on its own and MPI's blocking calls
return when they can; the application is free to call nothing, so its calls and
`stop()` have no fairness.  `lifecycle`: weak fairness of each rank, whose program is a
finite script.  `library`: weak fairness of the parser's steps, which are those of one
thread; the caller need not call.

### What the violated runs say

- `sendCacheBlock` has its block-not-found answer commented out.  `OnlyStored = TRUE`,
  the assumption of the passing runs, is therefore an obligation of the data
  structures; `NeverStuck` of the `vector` run shows that `Vector` meets it.
- `refer` erases `placeInQueue` and pushes a new node, but stores its iterator only in
  `addToCache`.  With an allocator that reuses the node nothing is seen.
- Pseudo-LRU copies the entries in its reset loop (`for (auto e : cache)`).
- `push_back` decides by `prevBlockTag` alone that the last block does not exist.
- `operator[]` hands out references into `prevMsg` even when the cache has let that
  message go.
- `recv()` resizes `recvBuf` for a larger message while the caller's variable still
  points to the message before it; the assignment then lets the deleter read `ownBuf`
  from memory that is freed.  `CacheOwnsItsBlocks` shows that the cache does not
  suffer as long as that read gives what was there.

Other divergences met while modelling, without a run of their own:

- *Cache.*  With blocks of different sizes one eviction may not be enough and the cache
  outgrows `cacheSize` (`LeastRecentlyUsedCacheWorker.cpp:68`).  `currentBytes` is 32
  bits wide, `cacheSize` 64 (`CacheWorker.h:80,173`): with a larger `cacheSize` the
  counter wraps and nothing is ever evicted.  Without workers or without
  `setCacheSize` (the member has no initial value) the manager dies
  (`CrashOnlyIfMisconfigured` is the converse).  A get counts twice for LFU and a
  store once; LFU's `addToCache` drops a new message for a resident block; `trueCount`
  of pseudo-LRU is not the number of set bits.  The rank of an eviction is computed
  from a 64-bit tag and that of a message from a 32-bit one.
- *System.*  Without a test of the rank every worker runs the program's code again
  after FINISH, on a manager object it made itself.  Each `start` allocates its objects
  anew and frees none.
- *Vector.*  `clear()` erases half of the elements.  `sort()` of an empty vector starts
  at index 2^64 - 1.  An element size that does not divide the block size makes an
  element straddle the end of its payload, as with `array<char, 10>` of
  `test_vector.cpp:118`: the block size becomes 128 and element 12 is written over its
  end (`OthersStraddle` proves it for every such pair of sizes).  `operator<=` of the
  iterators is `>=`.  `std::sort`, as `terrasort` calls it, needs two resident blocks,
  no prefetching and no other data structure: otherwise one of the two references it
  swaps points into a message the cache has let go.  With a cache of one block and
  prefetching, even `v[i] = x` is lost: the block prefetched pushes the block in hand out.
- *Map.*  `map[k]` of an absent key gives 1, not a default value.
- *Argument parser.*  The help text says that default values are shown within []
  (`ArgParser.cpp:235`), but shows of an option that was given what was read.
  `caxoe = false` is to suppress calls to `exit()` (`ArgParser.h:273`), but a missing
  value still exits with 101.  `ReadsLeftToRight` requires neither: it says nothing of
  the exit when there is an error and `caxoe` is false, and in a help text only of the
  values of options that were not given.  What the code does is part of the invariant of
  its proof (`ReadsExactly`).  A list appends to the value the program had set.  An option that only has a
  message stays in `argv` and is looked at again when the option behind it is gone.  A
  command of exactly 74 characters would print empty lines for ever, hence the
  assumption on `LongestCommands`.  A list also ends at a word with a '-' in second
  place.
- *Matrix.*  `dot()` inserts sums of cells where products are due; `>>` replaces,
  for every number, an element behind the last cell, and if the block of that element
  was never stored the get is not answered and the program waits for ever (`Waits`); `insert` multiplies by the height and `at` by the
  width, which agree on square matrices only.

## Proofs

`BlockCacheProofs` proves, for any numbers of workers (none included), data
structures, blocks, contents, sizes, cache size, word width and channel capacity:

- `TypeCorrect`: `TypeOK`;
- `BlocksAreCoherent`: `Coherent`, the content last stored in a block is where the
  next get will look for it;
- `RepliesMatchRequests`, `FinishComesLast`;
- `ImplementsBlockStore`: the processes implement `BlockStore`.

They assume `ConstantsAssumption` (the kinds of the constants) and `NoneIsNoMessage`
(the sentinel is no message), nothing else.  `Coherent` is not inductive: it needs to
know which local variables are set in which phase (`PhaseInv`), that a request is the
last message of its channel and its answer alone in the other (`RequestInv`,
`ReplyMatchesRequest`), that FINISH is sent after everything else and only to ranks
below `nextRank` (`FinishInv`), and that an answer carries a block once written
(`ReplyInv`).  `IInv` is their conjunction.  The proof has a lemma per action.  Three
ideas carry it: the content a worker *will* hold is that of the last STORE_BLOCK on
its way, or what it has (`WillHold`), which a send and a handler change in known ways
(lemmas `SentStoreHolds`, `HandledStoreHolds` and their counterparts); the message of
a request can only be last because the manager sends nothing while it waits; and
`StoreOutcome` reduces `storeCacheBlock`, which two actions share, to three outcomes.
The refinement follows from `IInv`: the answer taken in `ReceiveBlock` is the content
written, by `ReplyMatchesRequest`.

For the byte counters it proves, under the same two assumptions:

- `BytesAreExact`: `BytesExact`, for any sizes of blocks and any width of the counter;
- `ManagerSurvives`: `CrashOnlyIfMisconfigured`, for any sizes and also when counters
  wrap;
- `EqualBlocksStayWithin`: `WithinCapacity` if `Uniform` holds, that is if all blocks
  have one size and `cacheSize` and one block more are below the width of the counter.
  Neither part can go: with blocks of different sizes one eviction may make too little
  room, and a counter that wraps lets everything in.  The instance `core` satisfies it.

The inductive invariant of the first is `BytesInv`: `BytesExact`, and finitely many
blocks on each rank, so that the sums are sums.  The code adds and subtracts modulo the
width at every store and eviction, and `ModularSum` is why the remainder of the sum
comes out.  A sum over a finite set is defined by recursion, and that a block more adds
its size cannot be had from an induction theorem here; `SumTakes` shows it from a
smallest set for which it would fail (`SmallestSet`), which is the same argument without
a predicate as a parameter.  `ManagerSurvives` rests on this: a counter that says "no
room" is not the sum of nothing, so there is a block to evict.  The invariant of
the third is `RoomInv`: while the evicted block is being sent, there is room for the
block that is coming.

`LifecycleProofs` proves, for any numbers of workers, runs and blocks and any scripts:

- `TypeCorrect`; `RunsDoNotMix`: `RunsStayApart`; `NothingStaysUnread`: `NothingUnread`;
  `OnlyWorkersAnswer`: `WorkersOnlyAnswer`;
- `ReadsReturnWrites`: `EveryRankReadsItsWrites`.

It assumes that a script gets only what it stored before (`GetsWhatItStored`, what the
run `unanswered_get` shows to be needed) and that the sentinel is no content
(`NoneIsNoContent`).  `RunsStayApart` speaks of the head of a queue only.  What is
inductive is `QueueInv`: the whole queue to a worker is run by run, nothing in it is
older than the first run the worker has not finished, and it has the FINISH of each run
that the manager has ended and the worker has not, behind all else of that run
(`RunByRun`).  So a worker that serves run n and finds a message of run n + 1 before it
would have passed the FINISH of n.  The other parts: where a rank can be in which run
(`PlaceInv`); that run numbers, data structure counts and the first parts of keys agree
(`CountInv`), which is why the blocks of one run are not those of the next; that a
request is last and unanswered (`RequestInv`) and its answer alone (`AnswerInv`); and
that what a script stored is where its get will look (`CoherentInv`), with `WillHold`
of `Queues` as above.

`StrategiesProofs` proves, for any numbers of blocks, contents and list nodes and any
capacity, with one theorem for each property of the run `strategies`:

- all strategies: `StrategiesTyped`, `ManagersNeverBreak`, and `StrategiesManageResidents`
  (`ListCache`, `LfuCache` and `PlruCache` implement `ResidentSet`);
- LRU and MRU: `PlacesStayCurrent`, `ListVictimsAreSent`, and `ListsKeepRecency`
  (`ListCache` implements `Recency`: the victim is the promised one);
- LFU: `LfuQueuesStayInStep`, `LfuLosesNothing`, `LfuVictimIsLeastFrequent`;
- pseudo-LRU: `PlruVictimWasNotJustGot`, `PlruDiesOnlyOfGets`.

They assume `StrategyAssumption` and that the sentinel is nothing else (`NoneIsNothing`).
Those that say something of LRU and MRU are stated under `Reuse`, an allocator that
gives a list node just freed again: the run `stale_place` shows the code wrong without
it.  Those about LFU and pseudo-LRU alone need no such hypothesis.

- *LRU, MRU.*  The invariant is `Linked`: the list and the entries are two views of one
  set of blocks, node by node (`keyAt[n] = k` exactly if `place[k] = n`), and the list
  is as long as the cache and no longer than `Capacity`.  `PlaceIsCurrent` alone is not
  inductive: the node of an evicted block must be nobody else's.  Between `refer` and
  `addToCache` of a new block, `Linked` does not hold; the lemmas state what `refer`
  leaves, with the new node at the front and no entry, and what `addToCache` restores.
  The steps to `Recency` follow from what each does to the list, read through `keyAt`.
- *LFU.*  The invariant is `Filed`: a list exists for exactly the frequencies in use and
  holds the blocks of that frequency in the order of `recent`.  The promotion of a
  block moves it from one list to the next, possibly deleting the one and creating the
  other, and a get that hits does so twice; each lemma takes one `refer`.
- *Pseudo-LRU.*  The bits set are the blocks got since they were stored, because the
  loop that should reset them works on copies.  The first theorem takes less than that:
  the block got last has its bit set (`LastWasGot`).

`VectorProofs` proves, for any numbers of elements in a block, bytes in an element,
blocks that fit and blocks to prefetch, any bound of the size and any programs:

- `TypeCorrect`: `TypeOK`, whatever the programs do;
- `UseIsSafe`: `NeverStuck`, if programs that hold two references at once have a cache
  to themselves that fits two blocks, and do not prefetch (`ExchangesApart`);
- `HeldSaved`: `HeldIsSaved`, if programs that write through references do not
  prefetch into a cache of one block (`AssignsFit`);
- `IsASequence`: `SequenceIfDisciplined`, that the vector implements `ElementSeq`, under
  both.

They assume `VectorAssumption` and that a null pointer is no payload
(`NoneIsNoPayload`).  Both hypotheses are needed, as TLC shows on a cache of one block;
`MCVector` assumes them of its programs (`TheoremsApply`), so that TLC evaluates them on
each run.  The invariant is `Sound` of the state between
two calls.  `Placed` relates the cache, its list and `prevMsg`; beside it, every element
has its block in the cache or at its worker, which is why no get is left unanswered;
and the block in hand is the first of the list, or the second behind the one just
prefetched (`InHand`), which is why a write through a reference still meets the cache.
Where others evict, `InHand` fails, and what remains is that `prevMsg` has the content
that was stored, if nobody writes without storing.  A call is a composition of the few
parts that touch the cache (`Prefetch`, `Hold`, a write, `StorePrev`), with a lemma for
each, and of loops, which are folds.  That a loop keeps a set of states its body keeps
is `LoopKeeps`, shown from a smallest number of rounds that would not.  Two cases take
arithmetic of blocks: the block prefetched always exists (`PrefetchedBlock`; the
condition compares elements with bytes, and errs on the safe side), and an element
appended behind a full block starts the next one.

The refinement looks at the elements one by one.  What the vector shows of element *i*
is what the next fetch of its block would get (`Fetched`), because the block in hand is
saved (`SavedFacts`); no two elements have one place (`PlaceFacts`).  For each part of
a call and then for each call a lemma says which elements it changes and how (`Shows`,
`Writes`, `Grows`, `Exchanges`, `Inserts`, `Removes`), and five lemmas turn these into
what `ElementSeq` says of the sequence (`InsertedAt`, `RemovedAt`).  The loops need to
know how far they have come: `LoopEnds` gives the states after each round, and
`ShiftShows` and `EraseShows` show, from the smallest round for which it would fail,
that after *k* rounds the last *k* elements have moved up, or the erased one has moved
*k* places on.  The theorem is of `Vector`'s `Spec`; the run also sorts (`SortSpec`).

About `Map`, `VectorProofs` proves further, for any set of keys that are numbers, any
values with 1 among them, and the vectors above:

- `MapAscends`: `Ascending`, that no key is twice in the map and none is where a search
  would miss it;
- `MapIsFunction`: `IsFunction`, that the map implements `MapStore`.

They assume that the vector's elements are the pairs (`PairsInVector`, which `Library`
assumes too) and, beside `AssignsFit`, that a program with other data structures in the
cache writes through no reference (`MapsFit`); `MCLibrary` assumes that of its programs,
so that TLC evaluates it.  The invariant is `MapInv`: the vector's `IInv`, never stuck,
and `Keyed`, that the keys of what the next fetches would get ascend.  A search reads
one element a round and may move a block each time.  `Searching` is what holds after
each round: the elements are what they were, all before the interval that is left have
smaller keys, all behind it do not, and the interval has become short enough for the
rounds that remain, so the last one leaves it empty (`SearchEnds`).  One part of
`Searching` is about blocks, not keys: a search that ends behind the last element has
looked at the last block, so that the insertion there, which appends to the block in
hand without fetching it, appends to the right one.  That is why `insert` of the
largest key does not do what the run `append_clobbers` shows of `push_back`.  `PutFacts` and
`SlotFacts` say what the insertion or the reference does to the pairs, and `Having`
reads a list of pairs with ascending keys as a function.  The theorems are stated of
`MapSpec`; `LibraryProofs` carries them over.

About `MessageBuffers`, `MemoryProofs` proves, for any sizes of messages, any number of
buffers and blocks, and whatever is received: `CacheOwnership` (a cached block lies in a buffer of
its own, with the content last stored), `OwnersAndBuffers` (no buffer in use is freed
and none is left without a pointer), `BuffersTyped`.  The invariant `IInv` is `TypeOK`
with three parts.  `Sound` says which messages the pointers lead to: what the cache
and the vector hold is never `recvBuf`, and a message is its own buffer exactly if it
is not there.  `Used` says that every buffer in use is `recvBuf` or has a pointer.
`Places` says which local pointers are set at which `pc`.  `Sound` is what the clone
in `storeCacheBlock` buys, `Used` what the deleter does; neither can be shown without
the other, since a deletion that frees too much breaks `Sound` and one that frees too
little breaks `Used`.

About `BlockIndex`, it proves, for every block size, tag width and number of elements:
`ElementsStayApart`, that elements whose size divides the block size share no byte and
stay in their payload, and `OthersStraddle`, that with any other size some element
does not.  It rests on division with remainder and on `KeysApart`: `getKey` tells two
blocks apart as long as both tags fit.

`ArgParserProofs` proves, for any tables of options, any values the program had set,
any command lines and any limit of arguments:

- `ArgsTyped`: `ArgsTypeOK`, that the indices of the two loops stay in their arrays;
- `OptionsReadLeftToRight`: `ReadsLeftToRight`, that the loops over an `argv` that they
  shorten and step back in do what one reading of the command line does.

They assume `ArgParserAssumption`: an option's name is in its table once and is not the
program's name, and no command has 74 characters, with which the help text would not
end.  The invariant of the first is `Typed`, which adds where `argument` can be while
records are matched and what is still unset in which `phase`.  That of the second is
`Reading`.  When the call is over it says exactly how, also where the property leaves that
open (`ReadsExactly`).  While the loops run, there is a position p of the command line such that
`ReadTo(p)`.  The words before p are dealt with: the places where options and words that
stay begin are those before p and those a reading from p would find (`PlaceIs`), and no
error is among the former; `argv` is the program's name, the words before p that stay,
and then the words from p on (`ArgvAt`); each variable has the value that its options
before p give it (`DataAt`).  `argument` is either at the word p, which is no command
before `match`, or one word before it, where the loop steps back after it took an option
out (`AtWord`, `BeforeWord`).  A round of the inner loop either leaves p alone or moves
it behind the option.  The property is not about command lines on which the name of an
option that only has a message stays in `argv` (`MessageStays`): the word is then looked
at a second time, and the reading is no longer from left to right.

`LibraryProofs` carries the theorems of the layout, of the messages, of the map and of the
parser over to `Library`: every step of it is a step of the part or changes nothing of it
(`KeysStayAscending` and `MapStaysFunction` for the map, under `MapsFit` as above;
`CommandLineIsRead` for the parser).  They are stated of `LibrarySpec`, the specification
of the `library` run without its fairness.  It proves further:

- `PartsKeepTheirTypes`: `AllTypesOK`, the types of all five parts, also under `MapsFit`;
- `MatrixMatchesSTDMatrix`: `MatchesSTDMatrix`, for square matrices of any size and any
  modulus.

Both rest on the assumptions in `LibraryConstants`; `MatrixAssumption` says that sizes
and the modulus are positive and operands are matrices over the numbers below it.  The
invariant of the second is `MatrixInv`: the vector has at least as many elements as the
matrix has cells.  It may have many more, since an operation that makes a matrix inserts
it before the zeros that the constructor put there, and what `at` reads is the result
because the loops insert cell (r, c) at r * n + c, in this order.  `InsertEachGives` and
`ReplaceEachGives` give the vector after each round explicitly and show that it satisfies
the equation by which the loop is defined; `CellPlace` and `CellOf` are the division with
remainder that takes a place to its cell and back.  Of `dot()` and `>>`, which
disagree with `STDMatrix` (see above), the theorem says only that what follows them is
right again, where anything follows: after a `>>` that waits nothing does.

Only model-checked:

- liveness under fairness (`EveryFetchReturns`, `StopEndsEveryWorker`, `EveryRankEnds`,
  `CallEnds`), which is out of the prover's reach;
- that a vector that is sorted becomes the sorted sequence (`SequenceIfDisciplined` with
  `VectorSort`, which is recursive).

## Not modelled

- MPI itself (external: reliable ordered channels), and the wrappers of it that
  nothing calls (`MPIHelper.h`: broadcast, reduce, barriers).
- `Exception`, `Utilities`, profile output: no state other parts depend on.
- `CacheManager::getRemoteBlockNonblocking`, `CacheManager::startReceiveNonblocking`
  and `Worker::wait`, which nothing calls; the handler of ERASE_BLOCK, which nothing
  sends; the throw on an invalid mode.
- The read of the list node LFU freed one statement before, taken to give what the
  node held; references into a vector kept across later calls other than those of an
  assignment or a swap.
- The conversion of words to numbers and the wording of the help text.
- Matrices that are not square: `insert` and `at` then mix their cells from the start.
- The web cache example (not built; pipes, processes and HTTP), the timing of the
  benchmarks.

## Plan

1. Done: the distributed cache, its byte counters and its life on every rank; the four
   strategies; messages, their memory and the layout of blocks; `Vector` and `Map` with
   their refinements of `ElementSeq` and `MapStore`; the argument parser; the matrices.
   All with the proofs of their safety.
2. Models: two vectors, each over `BlockCache` in place of its own reduced manager;
   sort with three values.
