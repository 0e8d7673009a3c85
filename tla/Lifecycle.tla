------------------------------- MODULE Lifecycle -------------------------------
(***************************************************************************)
(* The life of a PC2L program.  Every rank runs the same main():           *)
(* initialize(), then start(), its own code and stop() as often as it      *)
(* likes, then finalize().  On rank 0 start() returns at once; on a worker *)
(* it returns only when the FINISH of the manager's stop() arrives, and    *)
(* then the worker runs that same code on its own, on a manager object of  *)
(* its own that evicts nothing.                                            *)
(*                                                                         *)
(* Where a call of the manager can block is BlockCache's business: here a  *)
(* send returns at once, and an eviction is part of the store that causes  *)
(* it.  The victim is any resident block.                                  *)
(***************************************************************************)
EXTENDS Integers, Sequences, FiniteSets, Queues

CONSTANTS
  NumWorkers,
  Blocks,     \* block tags of the one data structure a run creates
  Capacity,   \* blocks that fit in cacheSize
  Runs,       \* start()/stop() pairs of the program
  Scripts,    \* what the code between start() and stop() may do, see below
  None        \* no block content

\* A script is a sequence of stores and gets of blocks.
Ops   == [do : {"store", "get"}, block : Blocks]
Ranks == 0 .. NumWorkers
Workers == Ranks \ {0}

\* The code asks only for blocks it stored before, as the data structures do.
GetsWhatItStored(p) ==
  \A i \in DOMAIN p : p[i].do = "get" =>
    \E j \in 1 .. i - 1 : p[j] = [do |-> "store", block |-> p[i].block]

ASSUME LifecycleAssumption ==
  /\ NumWorkers \in Nat \ {0} /\ Runs \in Nat \ {0} /\ Capacity \in Nat \ {0}
  /\ Blocks \subseteq Nat
  /\ Scripts \subseteq Seq(Ops) /\ \A p \in Scripts : GetsWhatItStored(p)

VARIABLES
  program,    \* program[n]: the script between the n-th start() and stop()
  everywhere, \* FALSE: the program guards that code with MPI_GET_RANK() == 0
  at,         \* at[r]: where rank r is
  run,        \* run[r]: how often rank r called start()
  step,       \* step[r]: the operation of the script that is next; 0: none yet
  dsCount,    \* dsCount[r]: data structures rank r created
  cache,      \* cache[r]: the blocks of rank r's manager object
  storage,    \* storage[r]: the blocks of rank r's StorageCacheWorker
  chan,       \* chan[s][r]: the messages from s to r
  read        \* history: <<n, i, c>>, what the get at i of run n last gave on r

vars == <<program, everywhere, at, run, step, dsCount, cache, storage, chan, read>>
main == <<program, everywhere>>

Places   == {"new", "main", "serving", "app", "waiting", "finalizing", "over"}
Contents == [run : 1 .. Runs, by : Nat]

ASSUME NoneIsNoContent == None \notin Contents

Keys     == (0 .. Runs - 1) \X Blocks
Empty    == [k \in Keys |-> None]

\* The process-wide System object: no data structure yet.
Init ==
  /\ program \in [1 .. Runs -> Scripts] /\ everywhere \in BOOLEAN
  /\ at = [r \in Ranks |-> "new"]
  /\ run = [r \in Ranks |-> 0] /\ step = [r \in Ranks |-> 0]
  /\ dsCount = [r \in Ranks |-> 0]
  /\ cache = [r \in Ranks |-> Empty] /\ storage = [r \in Ranks |-> Empty]
  /\ chan = [s \in Ranks |-> [r \in Ranks |-> <<>>]]
  /\ read = [r \in Ranks |-> None]

StoredRank(k) == (k[2] % NumWorkers) + 1

\* The run field is history: the run in which the message was sent.
Msg(r, tag, k, c) == [tag |-> tag, key |-> k, data |-> c, run |-> run[r]]

\* MPI_SEND: messages of a pair stay in order.
Send(s, r, m) == chan' = [chan EXCEPT ![s][r] = Append(@, m)]

\* MPI_RECV: the first message from s to r.
Taken(s, r) == chan' = [chan EXCEPT ![s][r] = Tail(@)]

\* MPI_INIT: needs no other rank, and a message may be sent to a rank that has not
\* called it yet.
MPI_INIT(r) == at[r] = "new" /\ at' = [at EXCEPT ![r] = "main"]

\* MPI_FINALIZE returns when every rank has called it.
MPI_FINALIZE(r) ==
  /\ at[r] = "finalizing"
  /\ \A s \in Ranks : at[s] \in {"finalizing", "over"}
  /\ at' = [at EXCEPT ![r] = "over"]

\* MPI_PROBE: the message that is next from s at r.
MPI_PROBE(s, r) == {Head(q) : q \in {chan[s][r]} \ {<<>>}}
-------------------------------------------------------------------------------
(* System. *)

\* initialize()
Initialize(r) ==
  /\ MPI_INIT(r)
  /\ UNCHANGED <<main, run, step, dsCount, cache, storage, chan, read>>

\* start(): a new manager object everywhere, on a worker a new storage to run.
Start(r) ==
  /\ at[r] = "main" /\ run[r] < Runs
  /\ run' = [run EXCEPT ![r] = @ + 1]
  /\ step' = [step EXCEPT ![r] = 0]
  /\ cache' = [cache EXCEPT ![r] = Empty]
  /\ IF r = 0 THEN /\ at' = [at EXCEPT ![r] = "app"]
                   /\ UNCHANGED storage
              ELSE /\ at' = [at EXCEPT ![r] = "serving"]
                   /\ storage' = [storage EXCEPT ![r] = Empty]
  /\ UNCHANGED <<main, dsCount, chan, read>>

Script(r)   == program[run[r]]
Skips(r)    == r # 0 /\ ~everywhere
AtEnd(r)    == at[r] = "app" /\ (Skips(r) \/ step[r] > Len(Script(r)))
BackToMain(r) == /\ at' = [at EXCEPT ![r] = "main"]
                 /\ UNCHANGED <<main, run, step, dsCount, cache, storage, read>>

\* Slip: a second FINISH, in case the first was missed.
StopTwice ==
  /\ AtEnd(0) /\ BackToMain(0)
  /\ chan' = [chan EXCEPT ![0] = [r \in Ranks |->
       IF r = 0 THEN @[r] ELSE @[r] \o <<Msg(0, "FINISH", None, None), Msg(0, "FINISH", None, None)>>]]

\* stop() of the manager: FINISH to every worker.
Stop ==
  /\ AtEnd(0) /\ BackToMain(0)
  /\ chan' = [chan EXCEPT ![0] = [r \in Ranks |->
       IF r = 0 THEN @[r] ELSE Append(@[r], Msg(0, "FINISH", None, None))]]

\* stop() of a worker does nothing.
WorkerStop(r) == r # 0 /\ AtEnd(r) /\ BackToMain(r) /\ UNCHANGED chan

\* finalize()
Finalize(r) ==
  /\ \/ at[r] = "main" /\ run[r] = Runs /\ at' = [at EXCEPT ![r] = "finalizing"]
     \/ MPI_FINALIZE(r)
  /\ UNCHANGED <<main, run, step, dsCount, cache, storage, chan, read>>
-------------------------------------------------------------------------------
(* The code between start() and stop(), on any rank. *)

Op(r)  == Script(r)[step[r]]
Key(r) == <<dsCount[r] - 1, Op(r).block>>
Now(r) == [run |-> run[r], by |-> step[r]]
Does(r, what) == /\ at[r] = "app" /\ ~AtEnd(r) /\ step[r] > 0
                 /\ Op(r).do = what
Advance(r)    == step' = [step EXCEPT ![r] = @ + 1]

\* Slip: the default arguments build one more.
CreateTwo(r) ==
  /\ at[r] = "app" /\ ~Skips(r) /\ step[r] = 0
  /\ dsCount' = [dsCount EXCEPT ![r] = @ + 2]
  /\ Advance(r)
  /\ UNCHANGED <<main, at, run, cache, storage, chan, read>>

\* The constructor of the data structure.
Create(r) ==
  /\ at[r] = "app" /\ ~Skips(r) /\ step[r] = 0
  /\ dsCount' = [dsCount EXCEPT ![r] = @ + 1]
  /\ Advance(r)
  /\ UNCHANGED <<main, at, run, cache, storage, chan, read>>

Full(r) == Cardinality({k \in Keys : cache[r][k] # None}) >= Capacity

\* Slip: refer() without its first line.
AddOnAnyRank(r, k, c) ==
  IF cache[r][k] = None /\ Full(r)
    THEN \E v \in {x \in Keys : cache[r][x] # None} :
           /\ cache' = [cache EXCEPT ![r][v] = None, ![r][k] = c]
           /\ Send(r, StoredRank(v), Msg(r, "STORE_BLOCK", v, cache[r][v]))
    ELSE cache' = [cache EXCEPT ![r][k] = c] /\ UNCHANGED chan

\* storeCacheBlock with its refer(), which does nothing unless the rank is 0.
Add(r, k, c) ==
  IF r = 0 /\ cache[r][k] = None /\ Full(r)
    THEN \E v \in {x \in Keys : cache[r][x] # None} :
           /\ cache' = [cache EXCEPT ![r][v] = None, ![r][k] = c]
           /\ Send(r, StoredRank(v), Msg(r, "STORE_BLOCK", v, cache[r][v]))
    ELSE cache' = [cache EXCEPT ![r][k] = c] /\ UNCHANGED chan

Store(r) ==
  /\ Does(r, "store")
  /\ Add(r, Key(r), Now(r)) /\ Advance(r)
  /\ UNCHANGED <<main, at, run, dsCount, storage, read>>

Got(r, c) == read' = [read EXCEPT ![r] = <<run[r], step[r], c>>] /\ Advance(r)

Hit(r) ==
  /\ Does(r, "get") /\ cache[r][Key(r)] # None
  /\ Got(r, cache[r][Key(r)])
  /\ UNCHANGED <<main, at, run, dsCount, cache, storage, chan>>

\* The request names rank 0 as its source, whoever sends it.
Miss(r) ==
  /\ Does(r, "get") /\ cache[r][Key(r)] = None
  /\ Send(r, StoredRank(Key(r)), Msg(r, "GET_BLOCK", Key(r), None))
  /\ at' = [at EXCEPT ![r] = "waiting"]
  /\ UNCHANGED <<main, run, step, dsCount, cache, storage, read>>

\* The answer is taken; then storeCacheBlock(ret), which may evict as Add does.
Receive(r) ==
  /\ at[r] = "waiting"
  /\ LET s == StoredRank(Key(r)) IN \E m \in MPI_PROBE(s, r) :
       /\ IF r = 0 /\ Full(r)
            THEN \E v \in {x \in Keys : cache[r][x] # None} :
                   /\ cache' = [cache EXCEPT ![r][v] = None, ![r][m.key] = m.data]
                   /\ chan' = [chan EXCEPT ![s][r] = Tail(@), ![r][StoredRank(v)] =
                                 Append(@, Msg(r, "STORE_BLOCK", v, cache[r][v]))]
            ELSE cache' = [cache EXCEPT ![r][m.key] = m.data] /\ Taken(s, r)
       /\ Got(r, m.data)
  /\ at' = [at EXCEPT ![r] = "app"]
  /\ UNCHANGED <<main, run, dsCount, storage>>
-------------------------------------------------------------------------------
(* A worker between start() and FINISH: the loop of CacheWorker::run. *)

Serve(w, s, tag) ==
  /\ at[w] = "serving"
  /\ \E m \in MPI_PROBE(s, w) : m.tag = tag

\* Slip: a block that is there is not replaced.
WorkerStoreOnce(w, s) ==
  /\ Serve(w, s, "STORE_BLOCK")
  /\ LET m == Head(chan[s][w]) IN
       storage' = [storage EXCEPT ![w][m.key] = IF @ = None THEN m.data ELSE @]
  /\ Taken(s, w)
  /\ UNCHANGED <<main, at, run, step, dsCount, cache, read>>

WorkerStore(w, s) ==
  /\ Serve(w, s, "STORE_BLOCK")
  /\ LET m == Head(chan[s][w]) IN storage' = [storage EXCEPT ![w][m.key] = m.data]
  /\ Taken(s, w)
  /\ UNCHANGED <<main, at, run, step, dsCount, cache, read>>

\* sendCacheBlock: to rank 0; no answer if the block is not there.
WorkerGet(w, s) ==
  /\ Serve(w, s, "GET_BLOCK")
  /\ LET k == Head(chan[s][w]).key IN
       chan' = [chan EXCEPT ![s][w] = Tail(@),
                            ![w][0] = IF storage[w][k] = None THEN @
                                      ELSE Append(@, Msg(w, "STORE_BLOCK", k, storage[w][k]))]
  /\ UNCHANGED <<main, at, run, step, dsCount, cache, storage, read>>

\* run() returns, and with it start(): the worker goes on to its own code.
WorkerFinish(w, s) ==
  /\ Serve(w, s, "FINISH")
  /\ at' = [at EXCEPT ![w] = "app"]
  /\ Taken(s, w)
  /\ UNCHANGED <<main, run, step, dsCount, cache, storage, read>>
-------------------------------------------------------------------------------
Rank(r) ==
  \/ Initialize(r) \/ Start(r) \/ WorkerStop(r) \/ Finalize(r)
  \/ Create(r) \/ Store(r) \/ Hit(r) \/ Miss(r) \/ Receive(r)
  \/ \E s \in Ranks : WorkerStore(r, s) \/ WorkerGet(r, s) \/ WorkerFinish(r, s)
  \/ r = 0 /\ Stop

Done == (\A r \in Ranks : at[r] = "over") /\ UNCHANGED vars

Next == (\E r \in Ranks : Rank(r)) \/ Done

Spec == Init /\ [][Next]_vars

\* Every process runs on its own.
FairSpec == Spec /\ \A r \in Ranks : WF_vars(Rank(r))
-------------------------------------------------------------------------------
Message == [tag : {"STORE_BLOCK", "GET_BLOCK", "FINISH"}, key : Keys \cup {None},
            data : Contents \cup {None}, run : 1 .. Runs]

TypeOK ==
  /\ program \in [1 .. Runs -> Scripts] /\ everywhere \in BOOLEAN
  /\ at \in [Ranks -> Places]
  /\ run \in [Ranks -> 0 .. Runs] /\ step \in [Ranks -> Nat]
  /\ dsCount \in [Ranks -> 0 .. Runs]
  /\ cache \in [Ranks -> [Keys -> Contents \cup {None}]]
  /\ storage \in [Ranks -> [Keys -> Contents \cup {None}]]
  /\ chan \in [Ranks -> [Ranks -> Seq(Message)]]
  /\ read \in [Ranks -> {None} \cup ((1 .. Runs) \X Nat \X (Contents \cup {None}))]

\* A worker handles only messages of the run it is in: none of an earlier run is
\* left over, and none of the next run is handled before start() was called again.
RunsStayApart ==
  \A s \in Ranks, w \in Workers :
    at[w] = "serving" /\ chan[s][w] # <<>> => Head(chan[s][w]).run = run[w]

\* A rank that reached finalize() has no message left to read, nor gets one later.
NothingUnread ==
  \A s, r \in Ranks : at[r] \in {"finalizing", "over"} => chan[s][r] = <<>>

\* What run n last stored in block b before its operation i.
Latest(n, i, b) ==
  LET earlier == {j \in 1 .. i - 1 : program[n][j] = [do |-> "store", block |-> b]}
  IN  [run |-> n, by |-> CHOOSE j \in earlier : \A x \in earlier : x <= j]

\* The code of a run reads on every rank what it wrote: on the manager through the
\* workers, and on a worker, where it runs again after FINISH, without any of them.
EveryRankReadsItsWrites ==
  \A r \in Ranks : read[r] # None =>
    read[r][3] = Latest(read[r][1], read[r][2], program[read[r][1]][read[r][2]].block)

\* Only the manager asks and only workers answer: the code that runs on a worker
\* sends nothing.
WorkersOnlyAnswer == \A s, r \in Ranks : s # 0 /\ chan[s][r] # <<>> => r = 0 /\ at[0] = "waiting"

\* Every rank gets through all runs and finalize().
EveryRankEnds == <>(\A r \in Ranks : at[r] = "over")
-------------------------------------------------------------------------------
(* The inductive invariant behind these. *)

Running(r) == at[r] \in {"app", "waiting"}

\* Where a rank can be in which run, and what is true of a rank that waits.
PlaceInv ==
  /\ at[0] # "serving" /\ \A w \in Workers : at[w] # "waiting"
  /\ \A r \in Ranks :
       /\ at[r] = "new" => run[r] = 0
       /\ at[r] \in {"app", "waiting", "serving"} => run[r] > 0
       /\ at[r] \in {"finalizing", "over"} => run[r] = Runs
       /\ at[r] = "serving" => step[r] = 0
  /\ at[0] = "waiting" =>
       /\ step[0] \in 1 .. Len(Script(0)) /\ Op(0).do = "get"
       /\ cache[0][Key(0)] = None

\* A run that a rank is in, or was in last, is the first part of the keys of its
\* blocks: every rank creates one data structure a run.
CountInv ==
  \A r \in Ranks :
    /\ dsCount[r] = IF Skips(r) THEN 0
                    ELSE IF at[r] = "serving" \/ (at[r] = "app" /\ step[r] = 0)
                      THEN run[r] - 1 ELSE run[r]
    /\ \A k \in Keys : cache[r][k] # None => k[1] = run[r] - 1
    /\ \A k \in Keys : storage[r][k] # None => r # 0 /\ k[1] = run[r] - 1

\* The runs the manager has stopped, and the first that worker w has not finished.
Ended         == IF Running(0) THEN run[0] - 1 ELSE run[0]
Unfinished(w) == IF at[w] = "serving" THEN run[w] ELSE run[w] + 1

\* Messages q on their way to a worker that finished all runs before lo, when the
\* manager ended those up to ended and started those up to last: run by run, and of
\* each run ended and not finished the FINISH, behind all else of that run.
RunByRun(q, lo, ended, last) ==
  /\ lo <= ended + 1
  /\ \A i \in DOMAIN q :
       /\ q[i].run \in lo .. last
       /\ q[i].tag = "FINISH" => q[i].run <= ended
       /\ \A j \in DOMAIN q : i < j =>
            /\ q[i].run <= q[j].run
            /\ q[i].tag = "FINISH" => q[i].run < q[j].run
  /\ \A n \in lo .. ended : \E i \in DOMAIN q : q[i].tag = "FINISH" /\ q[i].run = n

QueueInv == \A w \in Workers : RunByRun(chan[0][w], Unfinished(w), Ended, run[0])

\* The other messages to a worker: blocks of their run, and the manager's request,
\* which is the last and unanswered.
RequestInv ==
  /\ chan[0][0] = <<>>
  /\ \A w \in Workers : \A i \in DOMAIN chan[0][w] :
       LET m == chan[0][w][i] IN
       /\ m.tag = "STORE_BLOCK" => m.key \in Keys /\ m.data \in Contents /\ m.key[1] = m.run - 1
       /\ m.tag = "GET_BLOCK" =>
            /\ i = Len(chan[0][w])
            /\ at[0] = "waiting" /\ w = StoredRank(Key(0)) /\ m.key = Key(0)
            /\ chan[w][0] = <<>>

\* What the script of rank r last stored in block b.
Current(r, b)   == Latest(run[r], step[r], b)
Stored(r, b) == \E j \in 1 .. step[r] - 1 : Script(r)[j] = [do |-> "store", block |-> b]

\* The only message from a worker is the answer the manager waits for.
AnswerInv ==
  \A w \in Workers :
    /\ \A r \in Ranks : chan[w][r] # <<>> => r = 0
    /\ chan[w][0] # <<>> =>
         /\ at[0] = "waiting" /\ w = StoredRank(Key(0)) /\ Len(chan[w][0]) = 1
         /\ chan[w][0][1].key = Key(0) /\ chan[w][0][1].data \in Contents
         /\ chan[w][0][1].data = Current(0, Op(0).block)

\* What the script stored is where a get looks for it: on a worker in its cache, on
\* the manager in the cache or at a worker or on its way there.
FindsIn(r, k, d) ==
  /\ d # None
  /\ IF r # 0 \/ cache[r][k] # None THEN cache[r][k] = d
     ELSE WillHold(chan[0][StoredRank(k)], storage[StoredRank(k)][k], k, d)

CoherentInv ==
  \A r \in Ranks : Running(r) /\ ~Skips(r) =>
    \A b \in Blocks : Stored(r, b) => FindsIn(r, <<run[r] - 1, b>>, Current(r, b))

IInv == TypeOK /\ PlaceInv /\ CountInv /\ QueueInv /\ RequestInv /\ AnswerInv /\ CoherentInv
        /\ EveryRankReadsItsWrites
===============================================================================
