---------------------------- MODULE LifecycleProofs ----------------------------
(* Theorems about Lifecycle, for any number of workers, runs and blocks and any *)
(* scripts that ask only for what they stored.                                  *)
EXTENDS Lifecycle, CommonLemmas

-------------------------------------------------------------------------------
(* Ranks, keys and scripts. *)

\* Rank 0 is the manager, every other rank a worker.
LEMMA RankFacts ==
  /\ 0 \in Ranks /\ Workers \subseteq Ranks
  /\ \A w \in Workers : w # 0
  /\ \A r \in Ranks : r # 0 => r \in Workers
  BY LifecycleAssumption DEF Ranks, Workers

\* A block has a worker, and its key is the run that made it and its tag.
LEMMA KeyFacts ==
  ASSUME NEW k \in Keys
  PROVE  /\ StoredRank(k) \in Workers
         /\ k[1] \in 0 .. Runs - 1 /\ k[2] \in Blocks /\ k = <<k[1], k[2]>>
<1>1. k[1] \in 0 .. Runs - 1 /\ k[2] \in Blocks /\ k = <<k[1], k[2]>>
  BY DEF Keys
<1>2. k[2] \in Nat /\ NumWorkers \in Nat \ {0}
  BY <1>1, LifecycleAssumption
<1>3. k[2] % NumWorkers \in 0 .. NumWorkers - 1
  BY <1>2
<1> QED
  BY <1>1, <1>2, <1>3 DEF StoredRank, Workers, Ranks

LEMMA KeysOfRuns ==
  ASSUME NEW n \in 1 .. Runs, NEW b \in Blocks
  PROVE  <<n - 1, b>> \in Keys
  BY LifecycleAssumption DEF Keys

\* The script of a run is one of Scripts.
LEMMA ScriptFacts ==
  ASSUME TypeOK, NEW r \in Ranks, run[r] > 0
  PROVE  /\ run[r] \in 1 .. Runs
         /\ Script(r) \in Seq(Ops) /\ GetsWhatItStored(Script(r))
<1>1. run[r] \in 1 .. Runs
  BY LifecycleAssumption DEF TypeOK
<1> QED
  BY <1>1, LifecycleAssumption DEF TypeOK, Script

\* What was stored last depends on the script alone.
LEMMA LatestFrozen ==
  ASSUME UNCHANGED program
  PROVE  \A n, i, b : Latest(n, i, b)' = Latest(n, i, b)
  BY DEF Latest

\* After an operation that stores the block it is what that stored.
LEMMA LatestAfterStore ==
  ASSUME NEW n, NEW i \in Nat \ {0}, NEW b, program[n][i] = [do |-> "store", block |-> b]
  PROVE  Latest(n, i + 1, b) = [run |-> n, by |-> i]
<1> DEFINE op == [do |-> "store", block |-> b]
           earlier == {j \in 1 .. (i + 1) - 1 : program[n][j] = op}
           last == CHOOSE j \in earlier : \A x \in earlier : x <= j
<1>1. Latest(n, i + 1, b) = [run |-> n, by |-> last]
  BY DEF Latest
<1>2. i \in earlier /\ \A x \in earlier : x <= i /\ x \in Nat
  OBVIOUS
<1> HIDE DEF earlier
<1>3. last \in earlier /\ \A x \in earlier : x <= last
  BY <1>2
<1> HIDE DEF last
<1>4. last = i
  BY <1>2, <1>3
<1> QED
  BY <1>1, <1>4

\* After any other it is what it was.
LEMMA LatestAfterOther ==
  ASSUME NEW n, NEW i \in Nat \ {0}, NEW b, program[n][i] # [do |-> "store", block |-> b]
  PROVE  Latest(n, i + 1, b) = Latest(n, i, b)
<1> DEFINE op == [do |-> "store", block |-> b]
<1>1. {j \in 1 .. (i + 1) - 1 : program[n][j] = op} = {j \in 1 .. i - 1 : program[n][j] = op}
  OBVIOUS
<1> QED
  BY <1>1 DEF Latest

\* A rank that stays where it is in its script.
LEMMA Resting ==
  ASSUME NEW r \in Ranks, UNCHANGED program, run'[r] = run[r], step'[r] = step[r]
  PROVE  /\ Script(r)' = Script(r)
         /\ \A b : (Stored(r, b)' <=> Stored(r, b)) /\ Current(r, b)' = Current(r, b)
  BY LatestFrozen DEF Script, Stored, Current

\* A rank that did an operation of its script.
LEMMA Advancing ==
  ASSUME NEW r \in Ranks, step[r] \in Nat \ {0}, UNCHANGED program,
         run'[r] = run[r], step'[r] = step[r] + 1
  PROVE  /\ Script(r)' = Script(r)
         /\ \A b : IF Op(r) = [do |-> "store", block |-> b]
                     THEN Current(r, b)' = Now(r)
                     ELSE (Stored(r, b)' <=> Stored(r, b)) /\ Current(r, b)' = Current(r, b)
<1>1. Script(r)' = Script(r) /\ Script(r) = program[run[r]]
  BY DEF Script
<1>2. ASSUME NEW b
      PROVE  IF Op(r) = [do |-> "store", block |-> b]
               THEN Current(r, b)' = Now(r)
               ELSE (Stored(r, b)' <=> Stored(r, b)) /\ Current(r, b)' = Current(r, b)
  <2>1. Current(r, b)' = Latest(run[r], step[r] + 1, b)
    BY LatestFrozen DEF Current
  <2>2. CASE Op(r) = [do |-> "store", block |-> b]
    BY <1>1, <2>1, <2>2, LatestAfterStore DEF Op, Now
  <2>3. CASE Op(r) # [do |-> "store", block |-> b]
    <3>1. Current(r, b)' = Current(r, b)
      <4>1. program[run[r]][step[r]] # [do |-> "store", block |-> b]
        BY <1>1, <2>3 DEF Op
      <4> QED
        BY <2>1, <4>1, LatestAfterOther DEF Current
    <3>2. Stored(r, b)' <=> Stored(r, b)
      BY <1>1, <2>3 DEF Stored, Op
    <3> QED
      BY <2>3, <3>1, <3>2
  <2> QED
    BY <2>2, <2>3
<1> QED
  BY <1>1, <1>2
-------------------------------------------------------------------------------
(* Messages run by run. *)

\* What is sent in the run under way goes behind everything else.
LEMMA SentRunByRun ==
  ASSUME NEW q \in Seq(Message), NEW m \in Message, m.tag # "FINISH",
         NEW lo \in Nat, NEW l \in Nat, m.run = l, RunByRun(q, lo, l - 1, l)
  PROVE  RunByRun(Append(q, m), lo, l - 1, l)
<1> DEFINE p == Append(q, m)
<1>1. /\ DOMAIN q = 1..Len(q) /\ DOMAIN p = 1..(Len(q) + 1) /\ Len(q) \in Nat
      /\ \A i \in 1..Len(q) : p[i] = q[i]
      /\ p[Len(q) + 1] = m
  BY AppendedLast
<1>2. \A i \in DOMAIN p : \/ i \in DOMAIN q /\ p[i] = q[i]
                          \/ i = Len(q) + 1 /\ p[i] = m
  BY <1>1
<1>3. \A i \in DOMAIN q : i \in DOMAIN p /\ p[i] = q[i] /\ i < Len(q) + 1
  BY <1>1
<1> HIDE DEF p
<1>4. lo <= l
  BY DEF RunByRun
<1>5. ASSUME NEW i \in DOMAIN p
      PROVE  /\ p[i].run \in lo .. l
             /\ p[i].tag = "FINISH" => p[i].run <= l - 1
             /\ \A j \in DOMAIN p : i < j =>
                  /\ p[i].run <= p[j].run
                  /\ p[i].tag = "FINISH" => p[i].run < p[j].run
  <2>1. ASSUME NEW j \in DOMAIN q
        PROVE  q[j].run \in lo .. l /\ (q[j].tag = "FINISH" => q[j].run <= l - 1)
    BY DEF RunByRun
  <2>2. /\ p[i].run \in lo .. l
        /\ p[i].tag = "FINISH" => p[i].run <= l - 1
    BY <1>2, <1>4, <2>1
  <2>3. ASSUME NEW j \in DOMAIN p, i < j
        PROVE  /\ p[i].run <= p[j].run
               /\ p[i].tag = "FINISH" => p[i].run < p[j].run
    <3>1. i \in DOMAIN q /\ p[i] = q[i]
      BY <1>1, <1>2, <2>3
    <3>2. CASE j \in DOMAIN q /\ p[j] = q[j]
      BY <2>3, <3>1, <3>2 DEF RunByRun
    <3>3. CASE p[j] = m
      BY <2>1, <3>1, <3>3
    <3> QED
      BY <1>2, <3>2, <3>3
  <2> QED
    BY <2>2, <2>3
<1>6. \A n \in lo .. l - 1 : \E i \in DOMAIN p : p[i].tag = "FINISH" /\ p[i].run = n
  BY <1>3 DEF RunByRun
<1>7. RunByRun(p, lo, l - 1, l)
  BY <1>4, <1>5, <1>6 DEF RunByRun
<1> QED
  BY <1>7 DEF p

\* The FINISH of the run under way ends it.
LEMMA SentFinishRunByRun ==
  ASSUME NEW q \in Seq(Message), NEW m \in Message, m.tag = "FINISH",
         NEW lo \in Nat, NEW l \in Nat, m.run = l, RunByRun(q, lo, l - 1, l)
  PROVE  RunByRun(Append(q, m), lo, l, l)
<1> DEFINE p == Append(q, m)
<1>1. /\ DOMAIN q = 1..Len(q) /\ DOMAIN p = 1..(Len(q) + 1) /\ Len(q) \in Nat
      /\ \A i \in 1..Len(q) : p[i] = q[i]
      /\ p[Len(q) + 1] = m
  BY AppendedLast
<1>2. \A i \in DOMAIN p : \/ i \in DOMAIN q /\ p[i] = q[i]
                          \/ i = Len(q) + 1 /\ p[i] = m
  BY <1>1
<1>3. /\ \A i \in DOMAIN q : i \in DOMAIN p /\ p[i] = q[i] /\ i < Len(q) + 1
      /\ Len(q) + 1 \in DOMAIN p /\ p[Len(q) + 1] = m
  BY <1>1
<1> HIDE DEF p
<1>4. lo <= l
  BY DEF RunByRun
<1>5. ASSUME NEW i \in DOMAIN p
      PROVE  /\ p[i].run \in lo .. l
             /\ p[i].tag = "FINISH" => p[i].run <= l
             /\ \A j \in DOMAIN p : i < j =>
                  /\ p[i].run <= p[j].run
                  /\ p[i].tag = "FINISH" => p[i].run < p[j].run
  <2>1. ASSUME NEW j \in DOMAIN q
        PROVE  q[j].run \in lo .. l /\ (q[j].tag = "FINISH" => q[j].run <= l - 1)
    BY DEF RunByRun
  <2>2. /\ p[i].run \in lo .. l
        /\ p[i].tag = "FINISH" => p[i].run <= l
    BY <1>2, <1>4, <2>1
  <2>3. ASSUME NEW j \in DOMAIN p, i < j
        PROVE  /\ p[i].run <= p[j].run
               /\ p[i].tag = "FINISH" => p[i].run < p[j].run
    <3>1. i \in DOMAIN q /\ p[i] = q[i]
      BY <1>1, <1>2, <2>3
    <3>2. CASE j \in DOMAIN q /\ p[j] = q[j]
      BY <2>3, <3>1, <3>2 DEF RunByRun
    <3>3. CASE p[j] = m
      BY <2>1, <3>1, <3>3
    <3> QED
      BY <1>2, <3>2, <3>3
  <2> QED
    BY <2>2, <2>3
<1>6. ASSUME NEW n \in lo .. l
      PROVE  \E i \in DOMAIN p : p[i].tag = "FINISH" /\ p[i].run = n
  <2>1. CASE n = l
    BY <1>3, <2>1
  <2>2. CASE n # l
    <3>1. n \in lo .. l - 1
      BY <2>2
    <3> QED
      BY <1>3, <3>1 DEF RunByRun
  <2> QED
    BY <2>1, <2>2
<1>7. RunByRun(p, lo, l, l)
  BY <1>4, <1>5, <1>6 DEF RunByRun
<1> QED
  BY <1>7 DEF p

\* The first message is of the first run that is not finished.
LEMMA HeadRunByRun ==
  ASSUME NEW q \in Seq(Message), q # <<>>, NEW lo \in Nat, NEW l \in Nat,
         NEW e \in {l - 1, l}, RunByRun(q, lo, e, l)
  PROVE  Head(q).run = lo
<1>1. DOMAIN q = 1..Len(q) /\ Len(q) \in Nat \ {0} /\ Head(q) = q[1]
  BY Consumed
<1>2. 1 \in DOMAIN q /\ Head(q).run \in lo .. l
  BY <1>1 DEF RunByRun
<1>3. CASE Head(q).run > lo
  <2>1. lo \in lo .. e
    BY <1>2, <1>3
  <2>2. PICK i \in DOMAIN q : q[i].run = lo
    BY <2>1 DEF RunByRun
  <2>3. i = 1 \/ 1 < i
    BY <1>1
  <2>4. q[1].run <= q[i].run
    BY <1>1, <1>2, <2>3 DEF RunByRun
  <2> QED
    BY <1>1, <1>2, <1>3, <2>2, <2>4
<1> QED
  BY <1>2, <1>3

\* A message handled leaves the rest in order, and a FINISH finishes its run.
LEMMA HandledRunByRun ==
  ASSUME NEW q \in Seq(Message), q # <<>>, NEW lo \in Nat, NEW l \in Nat,
         NEW e \in {l - 1, l}, RunByRun(q, lo, e, l)
  PROVE  /\ Head(q).tag # "FINISH" => RunByRun(Tail(q), lo, e, l)
         /\ Head(q).tag = "FINISH" => RunByRun(Tail(q), lo + 1, e, l)
<1> DEFINE p == Tail(q)
<1>1. /\ DOMAIN q = 1..Len(q) /\ DOMAIN p = 1..(Len(q) - 1)
      /\ Len(q) \in Nat \ {0}
      /\ \A i \in 1..(Len(q) - 1) : p[i] = q[i + 1]
      /\ Head(q) = q[1]
  BY Consumed
<1>2. Head(q).run = lo
  BY HeadRunByRun
<1>3. \A i \in DOMAIN p : i \in Nat /\ 1 < i + 1 /\ i + 1 \in DOMAIN q /\ p[i] = q[i + 1]
  BY <1>1
<1>4. \A i \in DOMAIN q : i = 1 \/ (i - 1 \in DOMAIN p /\ p[i - 1] = q[i])
  BY <1>1
<1>5. 1 \in DOMAIN q
  BY <1>1
<1> HIDE DEF p
<1>6. \A i \in DOMAIN q : q[i].run \in lo .. l
  BY DEF RunByRun
<1>7. ASSUME NEW i \in DOMAIN p
      PROVE  /\ p[i].run \in lo .. l
             /\ p[i].tag = "FINISH" => p[i].run <= e
             /\ \A j \in DOMAIN p : i < j =>
                  /\ p[i].run <= p[j].run
                  /\ p[i].tag = "FINISH" => p[i].run < p[j].run
             /\ Head(q).tag = "FINISH" => p[i].run \in lo + 1 .. l
  <2>1. /\ p[i].run \in lo .. l
        /\ p[i].tag = "FINISH" => p[i].run <= e
    BY <1>3 DEF RunByRun
  <2>2. ASSUME NEW j \in DOMAIN p, i < j
        PROVE  /\ p[i].run <= p[j].run
               /\ p[i].tag = "FINISH" => p[i].run < p[j].run
    <3>1. i + 1 < j + 1 /\ i + 1 \in DOMAIN q /\ j + 1 \in DOMAIN q /\ p[i] = q[i + 1] /\ p[j] = q[j + 1]
      BY <1>3, <2>2
    <3> QED
      BY <3>1 DEF RunByRun
  <2>3. Head(q).tag = "FINISH" => q[1].run < q[i + 1].run
    BY <1>1, <1>3, <1>5 DEF RunByRun
  <2> QED
    BY <1>1, <1>2, <1>3, <2>1, <2>2, <2>3
<1>8. ASSUME NEW n \in lo .. e, Head(q).tag # "FINISH" \/ n # lo
      PROVE  \E i \in DOMAIN p : p[i].tag = "FINISH" /\ p[i].run = n
  <2>1. PICK i \in DOMAIN q : q[i].tag = "FINISH" /\ q[i].run = n
    BY DEF RunByRun
  <2>2. i # 1
    BY <1>1, <1>2, <1>8, <2>1
  <2> QED
    BY <1>4, <2>1, <2>2
<1>9. lo <= e + 1
  BY DEF RunByRun
<1>10. Head(q).tag = "FINISH" => lo <= e
  BY <1>1, <1>2, <1>5 DEF RunByRun
<1>11. Head(q).tag # "FINISH" => RunByRun(p, lo, e, l)
  BY <1>7, <1>8, <1>9 DEF RunByRun
<1>12. ASSUME Head(q).tag = "FINISH"
       PROVE  RunByRun(p, lo + 1, e, l)
  <2>1. \A n \in lo + 1 .. e : n \in lo .. e /\ n # lo
    OBVIOUS
  <2> QED
    BY <1>7, <1>8, <1>10, <1>12, <2>1 DEF RunByRun
<1> QED
  BY <1>11, <1>12 DEF p

\* The manager starts another run.
LEMMA StartedRunByRun ==
  ASSUME NEW q \in Seq(Message), NEW lo \in Nat, NEW l \in Nat, RunByRun(q, lo, l, l)
  PROVE  RunByRun(q, lo, l, l + 1)
  BY DEF RunByRun
-------------------------------------------------------------------------------
(* The inductive invariant, one lemma per action. *)

\* What a rank sends in a run is a message.
LEMMA MessageTypes ==
  ASSUME TypeOK, NEW r \in Ranks, run[r] > 0,
         NEW k \in Keys \cup {None}, NEW c \in Contents \cup {None},
         NEW tag \in {"STORE_BLOCK", "GET_BLOCK", "FINISH"}
  PROVE  /\ Msg(r, tag, k, c) \in Message
         /\ Msg(r, tag, k, c) = [tag |-> tag, key |-> k, data |-> c, run |-> run[r]]
<1>1. run[r] \in 1 .. Runs
  BY ScriptFacts
<1> QED
  BY <1>1 DEF Msg, Message

\* A send appends to one channel.
LEMMA SendEffect ==
  ASSUME TypeOK, NEW s \in Ranks, NEW r \in Ranks, NEW m \in Message, Send(s, r, m)
  PROVE  /\ chan' \in [Ranks -> [Ranks -> Seq(Message)]]
         /\ chan'[s][r] = Append(chan[s][r], m)
         /\ \A u, v \in Ranks : u # s \/ v # r => chan'[u][v] = chan[u][v]
<1>1. chan[s][r] \in Seq(Message) /\ Append(chan[s][r], m) \in Seq(Message)
  BY AppendedLast DEF TypeOK
<1> QED
  BY <1>1 DEF TypeOK, Send

\* A receive takes the first message of one channel.
LEMMA TakenEffect ==
  ASSUME TypeOK, NEW s \in Ranks, NEW r \in Ranks, chan[s][r] # <<>>, Taken(s, r)
  PROVE  /\ chan' \in [Ranks -> [Ranks -> Seq(Message)]]
         /\ chan'[s][r] = Tail(chan[s][r])
         /\ \A u, v \in Ranks : u # s \/ v # r => chan'[u][v] = chan[u][v]
<1>1. chan[s][r] \in Seq(Message) /\ Tail(chan[s][r]) \in Seq(Message)
  BY Consumed DEF TypeOK
<1> QED
  BY <1>1 DEF TypeOK, Taken

\* No rank has started anything, no message is under way.
LEMMA InitIInv == Init => IInv
<1> SUFFICES ASSUME Init PROVE IInv
  OBVIOUS
<1> USE RankFacts DEF Init
<1>1. TypeOK
  BY LifecycleAssumption DEF TypeOK, Places, Empty
<1>2. PlaceInv /\ CountInv
  BY DEF PlaceInv, CountInv, Skips, Empty
<1>3. QueueInv
  BY LifecycleAssumption DEF QueueInv, RunByRun, Unfinished, Ended, Running
<1>4. RequestInv /\ AnswerInv
  BY DEF RequestInv, AnswerInv
<1>5. CoherentInv /\ EveryRankReadsItsWrites
  BY DEF CoherentInv, Running, EveryRankReadsItsWrites
<1> QED
  BY <1>1, <1>2, <1>3, <1>4, <1>5 DEF IInv

\* While the manager does not wait, blocks and FINISH are all that is under way.
LEMMA NobodyAsks ==
  ASSUME RequestInv, AnswerInv, at[0] # "waiting"
  PROVE  /\ \A w \in Workers, r \in Ranks : chan[w][r] = <<>>
         /\ \A w \in Workers : \A i \in DOMAIN chan[0][w] : chan[0][w][i].tag # "GET_BLOCK"
  BY DEF RequestInv, AnswerInv

\* A rank that moves on between runs, or to the end, disturbs nobody.
LEMMA MoveKeepsIInv ==
  ASSUME IInv, NEW r \in Ranks, NEW p \in {"main", "finalizing", "over"},
         at[r] \in {"new", "main", "finalizing"} \/ (r # 0 /\ AtEnd(r)),
         p # "main" => run[r] = Runs,
         at' = [at EXCEPT ![r] = p],
         UNCHANGED <<main, run, step, dsCount, cache, storage, chan, read>>
  PROVE  IInv'
<1> USE DEF IInv, main
<1>1. /\ UNCHANGED <<program, everywhere, run, step, dsCount, cache, storage, chan, read>>
      /\ at'[r] = p /\ \A s \in Ranks : s # r => at'[s] = at[s]
      /\ at[r] \in {"new", "main", "finalizing", "app"} /\ (r = 0 => at[r] # "app")
  BY DEF TypeOK, AtEnd
<1>2. TypeOK'
  BY <1>1 DEF TypeOK, Places
<1>3. /\ at'[0] = "waiting" <=> at[0] = "waiting"
      /\ Running(0)' <=> Running(0)
      /\ \A s \in Ranks : Running(s)' => Running(s)
      /\ \A s \in Ranks : at'[s] = "serving" <=> at[s] = "serving"
  BY <1>1, RankFacts DEF Running
<1>4. \A s \in Ranks : /\ Script(s)' = Script(s)
                       /\ \A b : (Stored(s, b)' <=> Stored(s, b)) /\ Current(s, b)' = Current(s, b)
  BY <1>1, Resting
<1>5. PlaceInv'
  BY <1>1, <1>3, <1>4, RankFacts DEF PlaceInv, Op, Key
<1>6. CountInv'
  <2>1. at[r] = "app" => step[r] # 0 \/ Skips(r)
    <3>1. CASE at[r] = "app" /\ ~Skips(r)
      <4>1. AtEnd(r) /\ run[r] > 0
        BY <3>1 DEF PlaceInv
      <4>2. step[r] > Len(Script(r)) /\ Script(r) \in Seq(Ops)
        BY <3>1, <4>1, ScriptFacts DEF AtEnd
      <4> QED
        BY <4>2
    <3> QED
      BY <3>1
  <2> QED
    BY <1>1, <1>3, <2>1 DEF CountInv, Skips
<1>7. QueueInv'
  BY <1>1, <1>3, RankFacts DEF QueueInv, Unfinished, Ended
<1>8. RequestInv' /\ AnswerInv'
  BY <1>1, <1>3, <1>4, RankFacts DEF RequestInv, AnswerInv, Key, Op
<1>9. CoherentInv'
  BY <1>1, <1>3, <1>4 DEF CoherentInv, Skips, FindsIn
<1>10. EveryRankReadsItsWrites'
  BY <1>1, LatestFrozen DEF EveryRankReadsItsWrites
<1> QED
  BY <1>2, <1>5, <1>6, <1>7, <1>8, <1>9, <1>10

\* initialize(), stop() on a worker, and finalize().
LEMMA InitializeKeepsIInv ==
  ASSUME IInv, NEW r \in Ranks, Initialize(r) \/ WorkerStop(r) \/ Finalize(r)
  PROVE  IInv'
<1>1. CASE Initialize(r)
  BY <1>1, MoveKeepsIInv DEF Initialize, MPI_INIT
<1>2. CASE WorkerStop(r)
  BY <1>2, MoveKeepsIInv DEF WorkerStop, BackToMain
<1>3. CASE Finalize(r)
  <2>1. at[r] = "finalizing" => run[r] = Runs
    BY DEF IInv, PlaceInv
  <2> QED
    BY <1>3, <2>1, MoveKeepsIInv DEF Finalize, MPI_FINALIZE
<1> QED
  BY <1>1, <1>2, <1>3

\* start(): the first message of the run to come finds the storage of no other run.
LEMMA StartKeepsIInv ==
  ASSUME IInv, NEW r \in Ranks, Start(r)
  PROVE  IInv'
<1> USE DEF IInv, Start, main
<1>1. /\ at[r] = "main" /\ run[r] \in Nat /\ run'[r] = run[r] + 1 /\ run'[r] \in 1 .. Runs
      /\ step'[r] = 0 /\ cache'[r] = Empty
      /\ at'[r] = IF r = 0 THEN "app" ELSE "serving"
      /\ storage'[r] = IF r = 0 THEN storage[r] ELSE Empty
      /\ \A s \in Ranks : s # r => /\ at'[s] = at[s] /\ run'[s] = run[s] /\ step'[s] = step[s]
                                   /\ cache'[s] = cache[s] /\ storage'[s] = storage[s]
      /\ UNCHANGED <<program, everywhere, dsCount, chan, read>>
  BY LifecycleAssumption DEF TypeOK
<1>2. TypeOK'
  <2>1. Empty \in [Keys -> Contents \cup {None}]
    BY DEF Empty
  <2>2. /\ run' \in [Ranks -> 0 .. Runs]
        /\ step' \in [Ranks -> Nat]
        /\ at' \in [Ranks -> Places]
    <3>1. run' \in [Ranks -> 0 .. Runs]
      <4>1. run[r] + 1 \in 0 .. Runs /\ run' = [run EXCEPT ![r] = run[r] + 1]
        BY <1>1
      <4> QED
        BY <4>1 DEF TypeOK
    <3>2. step' \in [Ranks -> Nat]
      BY DEF TypeOK
    <3>3. at' \in [Ranks -> Places]
      BY DEF TypeOK, Places
    <3> QED
      BY <3>1, <3>2, <3>3
  <2>3. cache' \in [Ranks -> [Keys -> Contents \cup {None}]]
        /\ storage' \in [Ranks -> [Keys -> Contents \cup {None}]]
    BY <2>1 DEF TypeOK
  <2> QED
    BY <1>1, <2>2, <2>3 DEF TypeOK
<1>3. /\ at'[0] = "waiting" <=> at[0] = "waiting"
      /\ Running(0)' <=> (Running(0) \/ r = 0)
      /\ \A s \in Ranks : s # r => (Running(s)' <=> Running(s)) /\ Skips(s)' = Skips(s)
  BY <1>1, RankFacts DEF Running, Skips
<1>4. \A s \in Ranks : s # r =>
        /\ Script(s)' = Script(s)
        /\ \A b : (Stored(s, b)' <=> Stored(s, b)) /\ Current(s, b)' = Current(s, b)
  BY <1>1, Resting
<1>5. PlaceInv'
  BY <1>1, <1>3, <1>4, RankFacts DEF PlaceInv, Op, Key
<1>6. CountInv'
  <2>1. \A k \in Keys : Empty[k] = None
    BY DEF Empty
  <2> QED
    BY <1>1, <2>1 DEF CountInv, Skips
<1>7. QueueInv'
  <2> SUFFICES ASSUME NEW w \in Workers
               PROVE  RunByRun(chan'[0][w], Unfinished(w)', Ended', run'[0])
    BY DEF QueueInv
  <2>1. RunByRun(chan[0][w], Unfinished(w), Ended, run[0]) /\ chan'[0][w] = chan[0][w]
    BY <1>1 DEF QueueInv
  <2>2. Unfinished(w)' = Unfinished(w)
    BY <1>1, RankFacts DEF Unfinished
  <2>3. CASE r = 0
    <3>1. run'[0] = run[0] + 1 /\ run[0] \in Nat
      BY <1>1, <2>3
    <3>2. Ended' = run[0] /\ Ended = run[0]
      BY <1>1, <1>3, <2>3, <3>1 DEF Ended, Running
    <3>3. Unfinished(w) \in Nat
      <4>1. run[w] \in Nat
        BY RankFacts, LifecycleAssumption DEF TypeOK
      <4> QED
        BY <4>1 DEF Unfinished
    <3>4. chan[0][w] \in Seq(Message)
      BY RankFacts DEF TypeOK
    <3>5. RunByRun(chan[0][w], Unfinished(w), run[0], run[0] + 1)
      BY <2>1, <3>1, <3>2, <3>3, <3>4, StartedRunByRun
    <3> QED
      BY <2>1, <2>2, <3>1, <3>2, <3>5
  <2>4. CASE r # 0
    <3>1. Ended' = Ended /\ run'[0] = run[0]
      BY <1>1, <1>3, <2>4, RankFacts DEF Ended
    <3> QED
      BY <2>1, <2>2, <3>1
  <2> QED
    BY <2>3, <2>4
<1>8. RequestInv' /\ AnswerInv'
  <2>1. CASE r = 0
    <3>1. at[0] # "waiting" /\ at'[0] # "waiting"
      BY <1>1, <2>1
    <3> QED
      BY <1>1, <3>1 DEF RequestInv, AnswerInv
  <2>2. CASE r # 0
    <3>1. Key(0)' = Key(0) /\ Op(0)' = Op(0) /\ \A b : Current(0, b)' = Current(0, b)
      BY <1>1, <1>4, <2>2, RankFacts DEF Key, Op
    <3> QED
      BY <1>1, <1>3, <3>1 DEF RequestInv, AnswerInv
  <2> QED
    BY <2>1, <2>2
<1>9. CoherentInv'
  <2> SUFFICES ASSUME NEW s \in Ranks, Running(s)', ~Skips(s)', NEW b \in Blocks, Stored(s, b)'
               PROVE  FindsIn(s, <<run[s] - 1, b>>, Current(s, b))'
    BY DEF CoherentInv
  <2>1. s # r
    BY <1>1 DEF Stored
  <2>2. run'[s] = run[s] /\ run[s] \in 1 .. Runs /\ Current(s, b)' = Current(s, b) /\ cache'[s] = cache[s]
    BY <1>1, <1>3, <1>4, <2>1, ScriptFacts DEF PlaceInv, Running
  <2> DEFINE k == <<run[s] - 1, b>>
             w == StoredRank(k)
  <2>3. FindsIn(s, k, Current(s, b))
    BY <1>3, <1>4, <2>1 DEF CoherentInv
  <2>4. k \in Keys /\ w \in Workers /\ k[1] = run[s] - 1
    BY <2>2, KeysOfRuns, KeyFacts
  <2>5. CASE s # 0
    BY <2>2, <2>3, <2>5 DEF FindsIn
  <2>6. CASE s = 0
    <3>1. storage'[w][k] = storage[w][k]
      <4>1. CASE w = r
        <5>1. Unfinished(r) <= Ended + 1 /\ Unfinished(r) = run[r] + 1 /\ Ended = run[0] - 1
          BY <1>1, <1>3, <2>1, <2>4, <2>6, <4>1 DEF QueueInv, RunByRun, Unfinished, Ended
        <5>2. run[r] # run[0]
          BY <1>1, <2>2, <2>6, <5>1
        <5>3. storage[r][k] = None
          <6> HIDE DEF k
          <6>1. storage[r][k] # None => k[1] = run[r] - 1
            BY <2>4 DEF CountInv
          <6> QED
            BY <1>1, <2>2, <2>4, <2>6, <5>2, <6>1
        <5>4. storage'[r][k] = None
          BY <1>1, <2>4, <4>1, RankFacts DEF Empty
        <5> QED
          BY <4>1, <5>3, <5>4
      <4>2. CASE w # r
        BY <1>1, <2>4, <4>2, RankFacts
      <4> QED
        BY <4>1, <4>2
    <3> QED
      BY <1>1, <2>2, <2>3, <2>4, <2>6, <3>1 DEF FindsIn, StoredRank
  <2> QED
    BY <2>5, <2>6
<1>10. EveryRankReadsItsWrites'
  BY <1>1, LatestFrozen DEF EveryRankReadsItsWrites
<1> QED
  BY <1>2, <1>5, <1>6, <1>7, <1>8, <1>9, <1>10

\* stop() of the manager: the FINISH closes the run in every channel.
LEMMA StopKeepsIInv ==
  ASSUME IInv, Stop
  PROVE  IInv'
<1> USE DEF IInv, Stop, BackToMain, main
<1> DEFINE m == Msg(0, "FINISH", None, None)
<1>1. /\ at[0] = "app" /\ at'[0] = "main" /\ \A s \in Ranks : s # 0 => at'[s] = at[s]
      /\ UNCHANGED <<program, everywhere, run, step, dsCount, cache, storage, read>>
      /\ run[0] \in 1 .. Runs
  BY RankFacts, ScriptFacts DEF TypeOK, AtEnd, PlaceInv
<1>2. m \in Message /\ m.tag = "FINISH" /\ m.run = run[0]
  BY <1>1, MessageTypes, RankFacts
<1>3. /\ chan' \in [Ranks -> [Ranks -> Seq(Message)]]
      /\ chan'[0][0] = chan[0][0]
      /\ \A w \in Workers : chan'[0][w] = Append(chan[0][w], m)
      /\ \A u, v \in Ranks : u # 0 => chan'[u][v] = chan[u][v]
  <2> HIDE DEF m
  <2>1. \A w \in Ranks : chan[0][w] \in Seq(Message) /\ Append(chan[0][w], m) \in Seq(Message)
    BY <1>2, RankFacts, AppendedLast DEF TypeOK
  <2>2. chan' = [chan EXCEPT ![0] = [w \in Ranks |-> IF w = 0 THEN chan[0][w] ELSE Append(chan[0][w], m)]]
    BY DEF m
  <2> DEFINE row == [w \in Ranks |-> IF w = 0 THEN chan[0][w] ELSE Append(chan[0][w], m)]
  <2>3. row \in [Ranks -> Seq(Message)] /\ row[0] = chan[0][0]
        /\ \A w \in Workers : row[w] = Append(chan[0][w], m)
    BY <2>1, RankFacts
  <2>4. chan' = [chan EXCEPT ![0] = row]
    BY <2>2
  <2>5. 0 \in Ranks /\ chan \in [Ranks -> [Ranks -> Seq(Message)]]
    BY RankFacts DEF TypeOK
  <2> HIDE DEF row
  <2>6. chan'[0] = row /\ \A u \in Ranks : u # 0 => chan'[u] = chan[u]
    BY <2>4, <2>5
  <2>7. chan' \in [Ranks -> [Ranks -> Seq(Message)]]
    BY <2>3, <2>4, <2>5
  <2> QED
    BY <2>3, <2>6, <2>7
<1> HIDE DEF m, Stop
<1>4. TypeOK'
  BY <1>1, <1>3 DEF TypeOK, Places, Stop
<1>5. PlaceInv'
  BY <1>1, RankFacts DEF PlaceInv
<1>6. CountInv'
  <2>1. step[0] # 0
    <3>1. step[0] > Len(Script(0)) /\ Script(0) \in Seq(Ops)
      BY <1>1, ScriptFacts, RankFacts DEF Stop, AtEnd, Skips
    <3> QED
      BY <3>1
  <2> QED
    BY <1>1, <2>1, RankFacts DEF CountInv, Skips
<1>7. QueueInv'
  <2> SUFFICES ASSUME NEW w \in Workers
               PROVE  RunByRun(chan'[0][w], Unfinished(w)', Ended', run'[0])
    BY DEF QueueInv
  <2>1. Ended' = run[0] /\ Ended = run[0] - 1 /\ run'[0] = run[0]
    BY <1>1 DEF Ended, Running
  <2>2. Unfinished(w)' = Unfinished(w) /\ Unfinished(w) \in Nat
    BY <1>1, RankFacts DEF Unfinished, TypeOK
  <2>3. RunByRun(chan[0][w], Unfinished(w), run[0] - 1, run[0]) /\ chan[0][w] \in Seq(Message)
    BY <2>1, RankFacts DEF QueueInv, TypeOK
  <2>4. RunByRun(Append(chan[0][w], m), Unfinished(w), run[0], run[0])
    BY <1>1, <1>2, <2>2, <2>3, SentFinishRunByRun
  <2> QED
    BY <1>3, <2>1, <2>2, <2>4
<1>8. RequestInv' /\ AnswerInv'
  <2>1. /\ \A w \in Workers, s \in Ranks : chan[w][s] = <<>>
        /\ \A w \in Workers : \A i \in DOMAIN chan[0][w] : chan[0][w][i].tag # "GET_BLOCK"
    BY <1>1, NobodyAsks
  <2>2. ASSUME NEW w \in Workers, NEW s \in Ranks PROVE chan'[w][s] = <<>>
    <3>1. w \in Ranks /\ w # 0
      BY RankFacts
    <3> QED
      BY <1>3, <2>1, <3>1
  <2>3. ASSUME NEW w \in Workers, NEW i \in DOMAIN chan'[0][w]
        PROVE  \/ i \in DOMAIN chan[0][w] /\ chan'[0][w][i] = chan[0][w][i]
               \/ chan'[0][w][i] = m
    <3>1. chan[0][w] \in Seq(Message) /\ chan'[0][w] = Append(chan[0][w], m)
      BY <1>3, RankFacts DEF TypeOK
    <3> QED
      BY <1>2, <3>1, EntryOfAppended
  <2>4. chan'[0][0] = <<>>
    BY <1>3 DEF RequestInv
  <2>5. RequestInv'
    BY <1>2, <2>1, <2>3, <2>4 DEF RequestInv
  <2>6. AnswerInv'
    BY <2>2, RankFacts DEF AnswerInv
  <2> QED
    BY <2>5, <2>6
<1>9. CoherentInv'
  BY <1>1, Resting, RankFacts DEF CoherentInv, Running, Skips, FindsIn
<1>10. EveryRankReadsItsWrites'
  BY <1>1, LatestFrozen DEF EveryRankReadsItsWrites
<1> QED
  BY <1>4, <1>5, <1>6, <1>7, <1>8, <1>9, <1>10

\* The constructor of the data structure of a run.
LEMMA CreateKeepsIInv ==
  ASSUME IInv, NEW r \in Ranks, Create(r)
  PROVE  IInv'
<1> USE DEF IInv, Create, Advance, main
<1>1. /\ at[r] = "app" /\ ~Skips(r) /\ step[r] = 0 /\ step'[r] = 1
      /\ dsCount[r] = run[r] - 1 /\ dsCount'[r] = run[r] /\ run[r] \in 1 .. Runs
      /\ \A s \in Ranks : s # r => step'[s] = step[s] /\ dsCount'[s] = dsCount[s]
      /\ UNCHANGED <<program, everywhere, at, run, cache, storage, chan, read>>
  BY ScriptFacts DEF TypeOK, CountInv, PlaceInv
<1>2. TypeOK'
  <2>1. dsCount' \in [Ranks -> 0 .. Runs] /\ step' \in [Ranks -> Nat]
    BY <1>1, LifecycleAssumption DEF TypeOK
  <2> QED
    BY <1>1, <2>1 DEF TypeOK
<1>3. \A s \in Ranks : s # r =>
        /\ Script(s)' = Script(s)
        /\ \A b : (Stored(s, b)' <=> Stored(s, b)) /\ Current(s, b)' = Current(s, b)
  BY <1>1, Resting
<1>4. PlaceInv'
  BY <1>1, <1>3, RankFacts DEF PlaceInv, Op, Key
<1>5. CountInv'
  BY <1>1 DEF CountInv, Skips
<1>6. QueueInv'
  BY <1>1 DEF QueueInv, Unfinished, Ended, Running
<1>7. RequestInv' /\ AnswerInv'
  <2>1. CASE r = 0
    BY <1>1, <2>1 DEF RequestInv, AnswerInv
  <2>2. CASE r # 0
    <3>1. Key(0)' = Key(0) /\ Op(0)' = Op(0) /\ \A b : Current(0, b)' = Current(0, b)
      BY <1>1, <1>3, <2>2, RankFacts DEF Key, Op
    <3> QED
      BY <1>1, <3>1 DEF RequestInv, AnswerInv
  <2> QED
    BY <2>1, <2>2
<1>8. CoherentInv'
  <2>1. \A b : ~Stored(r, b)'
    BY <1>1 DEF Stored
  <2> QED
    BY <1>1, <1>3, <2>1 DEF CoherentInv, Running, Skips, FindsIn
<1>9. EveryRankReadsItsWrites'
  BY <1>1, LatestFrozen DEF EveryRankReadsItsWrites
<1> QED
  BY <1>2, <1>4, <1>5, <1>6, <1>7, <1>8, <1>9

\* An operation of a script is on a block of the data structure of its run.
LEMMA OpFacts ==
  ASSUME TypeOK, CountInv, NEW r \in Ranks, Running(r), ~Skips(r), run[r] > 0,
         step[r] \in 1 .. Len(Script(r))
  PROVE  /\ Op(r).do \in {"store", "get"} /\ Op(r).block \in Blocks
         /\ Op(r) = [do |-> Op(r).do, block |-> Op(r).block]
         /\ Key(r) = <<run[r] - 1, Op(r).block>> /\ Key(r) \in Keys
         /\ Now(r) \in Contents
<1>1. run[r] \in 1 .. Runs /\ Script(r) \in Seq(Ops)
  BY ScriptFacts
<1>2. Op(r) \in Ops
  BY <1>1 DEF Op
<1>3. Key(r) = <<run[r] - 1, Op(r).block>>
  BY DEF CountInv, Running, Key
<1>4. Key(r) \in Keys
  BY <1>1, <1>2, <1>3, KeysOfRuns DEF Ops
<1>5. Now(r) \in Contents
  BY <1>1 DEF Now, Contents
<1> QED
  BY <1>2, <1>3, <1>4, <1>5 DEF Ops

LEMMA DoesFacts ==
  ASSUME IInv, NEW r \in Ranks, NEW what, Does(r, what)
  PROVE  /\ at[r] = "app" /\ Running(r) /\ ~Skips(r) /\ run[r] \in 1 .. Runs
         /\ step[r] \in 1 .. Len(Script(r)) /\ Op(r).do = what
<1>1. at[r] = "app" /\ Running(r) /\ ~AtEnd(r) /\ step[r] > 0 /\ Op(r).do = what
  BY DEF Does, Running
<1>2. run[r] \in 1 .. Runs /\ Script(r) \in Seq(Ops) /\ step[r] \in Nat
  BY <1>1, ScriptFacts DEF IInv, PlaceInv, TypeOK
<1>3. ~Skips(r) /\ ~(step[r] > Len(Script(r)))
  BY <1>1 DEF AtEnd
<1> QED
  BY <1>1, <1>2, <1>3

\* A block the script asks for is one it stored.
LEMMA GetsStored ==
  ASSUME TypeOK, NEW r \in Ranks, run[r] > 0, step[r] \in 1 .. Len(Script(r)), Op(r).do = "get"
  PROVE  Stored(r, Op(r).block)
<1>1. Script(r) \in Seq(Ops) /\ GetsWhatItStored(Script(r))
  BY ScriptFacts
<1>2. step[r] \in DOMAIN Script(r) /\ Script(r)[step[r]].do = "get"
  BY <1>1 DEF Op
<1> QED
  BY <1>1, <1>2 DEF GetsWhatItStored, Stored, Op

\* A block that is evicted is on its way to its worker.
LEMMA EvictionKeeps ==
  ASSUME TypeOK, run[0] > 0, NEW v \in Keys, cache[0][v] # None,
         NEW j \in Keys, NEW d, FindsIn(0, j, d),
         chan'[0][StoredRank(v)] = Append(chan[0][StoredRank(v)], Msg(0, "STORE_BLOCK", v, cache[0][v])),
         \A w \in Workers : w # StoredRank(v) => chan'[0][w] = chan[0][w],
         UNCHANGED storage, cache'[0][j] = IF j = v THEN None ELSE cache[0][j]
  PROVE  FindsIn(0, j, d)'
<1> DEFINE m == Msg(0, "STORE_BLOCK", v, cache[0][v])
           w == StoredRank(j)
<1>1. /\ m \in Message /\ m.tag = "STORE_BLOCK" /\ m.key = v /\ m.data = cache[0][v]
  <2>1. cache[0][v] \in Contents \cup {None}
    BY RankFacts DEF TypeOK
  <2> QED
    BY <2>1, MessageTypes, RankFacts
<1>2. w \in Workers /\ w \in Ranks /\ chan[0][w] \in Seq(Message)
  BY KeyFacts, RankFacts DEF TypeOK
<1> HIDE DEF m
<1>3. StoreFor(m, j) <=> j = v
  BY <1>1 DEF StoreFor
<1>4. CASE j = v
  <2>1. cache[0][v] = d /\ m.data = d
    BY <1>1, <1>4 DEF FindsIn
  <2>2. WillHold(Append(chan[0][w], m), storage[w][j], j, d)
    BY <1>1, <1>2, <1>3, <1>4, <2>1, SentStoreHolds
  <2> QED
    BY <1>4, <2>2 DEF FindsIn, m, StoredRank
<1>5. CASE j # v /\ cache[0][j] # None
  BY <1>5 DEF FindsIn
<1>6. CASE j # v /\ cache[0][j] = None
  <2>1. WillHold(chan[0][w], storage[w][j], j, d)
    BY <1>6 DEF FindsIn
  <2>2. WillHold(chan'[0][w], storage[w][j], j, d)
    <3>1. CASE w = StoredRank(v)
      <4>1. WillHold(Append(chan[0][w], m), storage[w][j], j, d)
        BY <1>1, <1>2, <1>3, <1>6, <2>1, SentOtherHolds
      <4> QED
        BY <3>1, <4>1 DEF m
    <3>2. CASE w # StoredRank(v)
      BY <1>2, <2>1, <3>2
    <3> QED
      BY <3>1, <3>2
  <2> QED
    BY <1>6, <2>2 DEF FindsIn, StoredRank
<1> QED
  BY <1>4, <1>5, <1>6

\* What a store, a get of a resident block and the end of a fetch have in common: the
\* block of the operation is in the cache with content c, perhaps in place of another,
\* which is sent away; then the script goes on.
Puts(r, c) ==
  /\ Running(r) /\ ~Skips(r) /\ step[r] \in 1 .. Len(Script(r))
  /\ c \in Contents /\ \A b \in {Op(r).block} : c = Current(r, b)'
  /\ at' = [at EXCEPT ![r] = "app"] /\ step' = [step EXCEPT ![r] = @ + 1]
  /\ UNCHANGED <<program, everywhere, run, dsCount, storage>>
  /\ chan' \in [Ranks -> [Ranks -> Seq(Message)]] /\ chan'[0][0] = chan[0][0]
  /\ \A w \in Workers, s \in Ranks : chan'[w][s] = IF r = 0 THEN <<>> ELSE chan[w][s]
  /\ r = 0 => \A w \in Workers : \A i \in DOMAIN chan[0][w] : chan[0][w][i].tag # "GET_BLOCK"

PutsInPlace(r, c) ==
  /\ Puts(r, c) /\ cache' = [cache EXCEPT ![r][Key(r)] = c]
  /\ \A w \in Workers : chan'[0][w] = chan[0][w]

PutsEvicting(v, c) ==
  /\ Puts(0, c) /\ cache[0][v] # None /\ cache[0][Key(0)] = None
  /\ cache' = [cache EXCEPT ![0][v] = None, ![0][Key(0)] = c]
  /\ chan'[0][StoredRank(v)] = Append(chan[0][StoredRank(v)], Msg(0, "STORE_BLOCK", v, cache[0][v]))
  /\ \A w \in Workers : w # StoredRank(v) => chan'[0][w] = chan[0][w]

\* What holds of every such step but for what concerns the channels to the workers.
LEMMA PutsKeepsCounts ==
  ASSUME IInv, NEW r \in Ranks, NEW c, Puts(r, c),
         cache' \in [Ranks -> [Keys -> Contents \cup {None}]],
         \A s \in Ranks : s # r => cache'[s] = cache[s],
         \A k \in Keys : k # Key(r) /\ cache'[r][k] # None => cache[r][k] # None,
         read' \in [Ranks -> {None} \cup ((1 .. Runs) \X Nat \X (Contents \cup {None}))]
  PROVE  /\ TypeOK' /\ PlaceInv' /\ CountInv' /\ AnswerInv'
         /\ \A s \in Ranks : /\ Running(s)' <=> Running(s)
                             /\ Skips(s)' = Skips(s) /\ run'[s] = run[s]
                             /\ s # r => at'[s] = at[s] /\ step'[s] = step[s]
         /\ at'[r] = "app" /\ step'[r] = step[r] + 1 /\ step[r] \in Nat \ {0}
         /\ \A s \in Ranks : s # r =>
              /\ Key(s)' = Key(s) /\ Op(s)' = Op(s)
              /\ \A b : (Stored(s, b)' <=> Stored(s, b)) /\ Current(s, b)' = Current(s, b)
<1> USE DEF IInv, Puts
<1>1. /\ at'[r] = "app" /\ \A s \in Ranks : s # r => at'[s] = at[s] /\ step'[s] = step[s]
      /\ step'[r] = step[r] + 1 /\ step[r] \in Nat \ {0}
      /\ at[r] \in {"app", "waiting"}
  BY DEF TypeOK, Running
<1>2. TypeOK'
  <2>1. at' \in [Ranks -> Places] /\ step' \in [Ranks -> Nat]
    BY <1>1 DEF TypeOK, Places
  <2> QED
    BY <2>1 DEF TypeOK
<1>3. \A s \in Ranks : (Running(s)' <=> Running(s)) /\ Skips(s)' = Skips(s)
  BY <1>1 DEF Running, Skips
<1>4. \A s \in Ranks : s # r =>
        /\ Script(s)' = Script(s) /\ Key(s)' = Key(s) /\ Op(s)' = Op(s)
        /\ \A b : (Stored(s, b)' <=> Stored(s, b)) /\ Current(s, b)' = Current(s, b)
  <2> SUFFICES ASSUME NEW s \in Ranks, s # r
               PROVE  /\ Script(s)' = Script(s) /\ Key(s)' = Key(s) /\ Op(s)' = Op(s)
                      /\ \A b : (Stored(s, b)' <=> Stored(s, b)) /\ Current(s, b)' = Current(s, b)
    OBVIOUS
  <2>1. /\ Script(s)' = Script(s)
        /\ \A b : (Stored(s, b)' <=> Stored(s, b)) /\ Current(s, b)' = Current(s, b)
    BY <1>1, Resting
  <2> QED
    BY <1>1, <2>1 DEF Key, Op
<1>5. PlaceInv'
  <2>1. at[r] # "serving" /\ at[r] # "new" /\ run[r] > 0
    BY <1>1 DEF PlaceInv
  <2> QED
    BY <1>1, <1>4, <2>1, RankFacts DEF PlaceInv
<1>6. CountInv'
  <2>1. run[r] > 0
    BY <1>1 DEF PlaceInv
  <2>2. Key(r)[1] = run[r] - 1
    BY <2>1, OpFacts
  <2>3. \A k \in Keys : cache'[r][k] # None => k[1] = run[r] - 1
    BY <2>2 DEF CountInv
  <2>4. dsCount[r] = run[r]
    BY <1>1 DEF CountInv
  <2>5. \A s \in Ranks : dsCount'[s] = IF Skips(s)' THEN 0
                    ELSE IF at'[s] = "serving" \/ (at'[s] = "app" /\ step'[s] = 0)
                      THEN run'[s] - 1 ELSE run'[s]
    BY <1>1, <1>3, <2>4 DEF CountInv
  <2>6. ASSUME NEW s \in Ranks, NEW k \in Keys, cache'[s][k] # None
        PROVE  k[1] = run[s] - 1
    <3>1. CASE s # r
      <4>1. cache'[s][k] = cache[s][k]
        BY <3>1
      <4> QED
        BY <2>6, <4>1 DEF CountInv
    <3> QED
      BY <2>3, <2>6, <3>1
  <2> QED
    BY <2>5, <2>6 DEF CountInv
<1>7. AnswerInv'
  <2>1. CASE r = 0
    BY <2>1, RankFacts DEF AnswerInv
  <2>2. CASE r # 0
    <3>1. \A w \in Workers, s \in Ranks : chan'[w][s] = chan[w][s]
      BY <2>2
    <3>2. at'[0] = at[0] /\ Key(0)' = Key(0) /\ Op(0)' = Op(0) /\ \A b : Current(0, b)' = Current(0, b)
      BY <1>1, <1>4, <2>2, RankFacts
    <3>3. Current(0, Op(0).block)' = Current(0, Op(0).block)
      BY <3>2
    <3> HIDE DEF Puts
    <3> QED
      BY <3>1, <3>2, <3>3, RankFacts DEF AnswerInv
  <2> QED
    BY <2>1, <2>2
<1> QED
  BY <1>1, <1>2, <1>3, <1>4, <1>5, <1>6, <1>7

\* The block of the operation is where the next get looks for it, others where they were.
LEMMA PutsFinds ==
  ASSUME IInv, NEW r \in Ranks, NEW c, Puts(r, c), NEW b \in Blocks, Stored(r, b)'
  PROVE  /\ b = Op(r).block /\ cache'[r][Key(r)] = c => FindsIn(r, <<run[r] - 1, b>>, Current(r, b))'
         /\ b # Op(r).block => /\ Current(r, b)' = Current(r, b)
                               /\ FindsIn(r, <<run[r] - 1, b>>, Current(r, b))
<1> USE DEF IInv, Puts
<1>1. step[r] \in Nat \ {0} /\ step'[r] = step[r] + 1 /\ run[r] > 0
  BY DEF TypeOK, PlaceInv, Running
<1>2. Key(r) = <<run[r] - 1, Op(r).block>> /\ c # None
  BY <1>1, OpFacts, NoneIsNoContent
<1>3. ASSUME b = Op(r).block, cache'[r][Key(r)] = c
      PROVE  FindsIn(r, <<run[r] - 1, b>>, Current(r, b))'
  BY <1>2, <1>3 DEF FindsIn
<1>4. ASSUME b # Op(r).block
      PROVE  /\ Current(r, b)' = Current(r, b)
             /\ FindsIn(r, <<run[r] - 1, b>>, Current(r, b))
  <2>1. Op(r) # [do |-> "store", block |-> b]
    BY <1>4
  <2>2. (Stored(r, b)' <=> Stored(r, b)) /\ Current(r, b)' = Current(r, b)
    BY <1>1, <2>1, Advancing
  <2> QED
    BY <2>2 DEF CoherentInv
<1> QED
  BY <1>3, <1>4

\* The step when nothing is evicted.
LEMMA PutsInPlaceKeepsIInv ==
  ASSUME IInv, NEW r \in Ranks, NEW c, PutsInPlace(r, c), EveryRankReadsItsWrites',
         read' \in [Ranks -> {None} \cup ((1 .. Runs) \X Nat \X (Contents \cup {None}))]
  PROVE  IInv'
<1> USE DEF IInv, PutsInPlace
<1>1. /\ Puts(r, c) /\ cache' = [cache EXCEPT ![r][Key(r)] = c]
      /\ \A w \in Workers : chan'[0][w] = chan[0][w]
      /\ chan'[0][0] = chan[0][0] /\ UNCHANGED <<program, everywhere, run, storage>>
      /\ Running(r) /\ ~Skips(r) /\ step[r] \in 1 .. Len(Script(r)) /\ c \in Contents
  BY DEF Puts
<1>2. Key(r) \in Keys /\ Key(r) = <<run[r] - 1, Op(r).block>>
  BY <1>1, OpFacts DEF PlaceInv, Running
<1>3. /\ cache' \in [Ranks -> [Keys -> Contents \cup {None}]]
      /\ \A s \in Ranks : s # r => cache'[s] = cache[s]
      /\ \A k \in Keys : k # Key(r) => cache'[r][k] = cache[r][k]
      /\ cache'[r][Key(r)] = c
  BY <1>1, <1>2 DEF TypeOK
<1>4. /\ TypeOK' /\ PlaceInv' /\ CountInv' /\ AnswerInv'
      /\ \A s \in Ranks : /\ Running(s)' <=> Running(s)
                          /\ Skips(s)' = Skips(s) /\ run'[s] = run[s]
                          /\ s # r => at'[s] = at[s] /\ step'[s] = step[s]
      /\ at'[r] = "app" /\ step'[r] = step[r] + 1 /\ step[r] \in Nat \ {0}
      /\ \A s \in Ranks : s # r =>
           /\ Key(s)' = Key(s) /\ Op(s)' = Op(s)
           /\ \A b : (Stored(s, b)' <=> Stored(s, b)) /\ Current(s, b)' = Current(s, b)
  BY <1>1, <1>3, PutsKeepsCounts
<1>5. QueueInv'
  <2>1. \A w \in Workers : Unfinished(w)' = Unfinished(w)
    BY <1>1, <1>4, RankFacts DEF Unfinished, Running
  <2>2. Ended' = Ended /\ run'[0] = run[0]
    BY <1>4, RankFacts DEF Ended
  <2> QED
    BY <1>1, <2>1, <2>2 DEF QueueInv
<1>6. RequestInv'
  <2>1. CASE r = 0
    <3>1. \A w \in Workers : \A i \in DOMAIN chan[0][w] : chan[0][w][i].tag # "GET_BLOCK"
      BY <1>1, <2>1 DEF Puts
    <3> QED
      BY <1>1, <3>1 DEF RequestInv
  <2>2. CASE r # 0
    <3>1. at'[0] = at[0] /\ Key(0)' = Key(0) /\ \A w \in Workers : chan'[w][0] = chan[w][0]
      BY <1>1, <1>4, <2>2, RankFacts DEF Puts
    <3> QED
      BY <1>1, <3>1 DEF RequestInv
  <2> QED
    BY <2>1, <2>2
<1>7. CoherentInv'
  <2> SUFFICES ASSUME NEW s \in Ranks, Running(s)', ~Skips(s)', NEW b \in Blocks, Stored(s, b)'
               PROVE  FindsIn(s, <<run[s] - 1, b>>, Current(s, b))'
    BY DEF CoherentInv
  <2> DEFINE k == <<run[s] - 1, b>>
  <2>1. run'[s] = run[s] /\ Running(s) /\ ~Skips(s)
    BY <1>4
  <2>2. k \in Keys /\ StoredRank(k) \in Workers
    BY <2>1, ScriptFacts, KeysOfRuns, KeyFacts DEF PlaceInv, Running
  <2>3. CASE s = r
    <3>1. CASE b = Op(r).block
      BY <1>1, <1>2, <1>3, <2>3, <3>1, PutsFinds
    <3>2. CASE b # Op(r).block
      <4>1. Current(r, b)' = Current(r, b) /\ FindsIn(r, k, Current(r, b))
        BY <1>1, <2>3, <3>2, PutsFinds
      <4>2. cache'[r][k] = cache[r][k]
        BY <1>2, <1>3, <2>2, <2>3, <3>2
      <4> QED
        BY <1>1, <2>1, <2>2, <2>3, <4>1, <4>2 DEF FindsIn, StoredRank
    <3> QED
      BY <3>1, <3>2
  <2>4. CASE s # r
    <3>1. FindsIn(s, k, Current(s, b)) /\ Current(s, b)' = Current(s, b)
      BY <1>4, <2>1, <2>4 DEF CoherentInv
    <3> QED
      BY <1>1, <1>3, <2>1, <2>2, <2>4, <3>1 DEF FindsIn, StoredRank
  <2> QED
    BY <2>3, <2>4
<1> QED
  BY <1>4, <1>5, <1>6, <1>7

\* The step when a block of the manager is sent away.
LEMMA PutsEvictingKeepsIInv ==
  ASSUME IInv, NEW v \in Keys, NEW c, PutsEvicting(v, c), EveryRankReadsItsWrites',
         read' \in [Ranks -> {None} \cup ((1 .. Runs) \X Nat \X (Contents \cup {None}))]
  PROVE  IInv'
<1> USE DEF IInv, PutsEvicting
<1> DEFINE m == Msg(0, "STORE_BLOCK", v, cache[0][v])
           to == StoredRank(v)
<1>1. /\ Puts(0, c) /\ cache' = [cache EXCEPT ![0][v] = None, ![0][Key(0)] = c]
      /\ cache[0][v] # None /\ cache[0][Key(0)] = None
      /\ chan'[0][to] = Append(chan[0][to], m)
      /\ \A w \in Workers : w # to => chan'[0][w] = chan[0][w]
      /\ chan'[0][0] = chan[0][0] /\ UNCHANGED <<program, everywhere, run, storage>>
      /\ Running(0) /\ ~Skips(0) /\ step[0] \in 1 .. Len(Script(0)) /\ c \in Contents
      /\ \A w \in Workers : chan'[w][0] = <<>>
      /\ \A w \in Workers : \A i \in DOMAIN chan[0][w] : chan[0][w][i].tag # "GET_BLOCK"
  BY RankFacts DEF Puts
<1>2. /\ Key(0) \in Keys /\ Key(0) = <<run[0] - 1, Op(0).block>> /\ v # Key(0)
      /\ run[0] \in 1 .. Runs
  BY <1>1, OpFacts, ScriptFacts, RankFacts DEF PlaceInv, Running
<1>3. /\ m \in Message /\ m.tag = "STORE_BLOCK" /\ m.key = v /\ m.data \in Contents
      /\ m.run = run[0] /\ v[1] = run[0] - 1
  <2>1. cache[0][v] \in Contents
    BY <1>1, RankFacts DEF TypeOK
  <2>2. v[1] = run[0] - 1
    BY <1>1, RankFacts DEF CountInv
  <2> QED
    BY <1>2, <2>1, <2>2, MessageTypes, RankFacts
<1>4. to \in Workers /\ to \in Ranks /\ \A w \in Workers : chan[0][w] \in Seq(Message)
  BY KeyFacts, RankFacts DEF TypeOK
<1> HIDE DEF m, to, PutsEvicting
<1>5. /\ cache' \in [Ranks -> [Keys -> Contents \cup {None}]]
      /\ \A s \in Ranks : s # 0 => cache'[s] = cache[s]
      /\ \A k \in Keys : k # Key(0) => cache'[0][k] = IF k = v THEN None ELSE cache[0][k]
      /\ cache'[0][Key(0)] = c
  BY <1>1, <1>2, RankFacts DEF TypeOK
<1>6. /\ TypeOK' /\ PlaceInv' /\ CountInv' /\ AnswerInv'
      /\ \A s \in Ranks : /\ Running(s)' <=> Running(s)
                          /\ Skips(s)' = Skips(s) /\ run'[s] = run[s]
                          /\ s # 0 => at'[s] = at[s] /\ step'[s] = step[s]
      /\ at'[0] = "app" /\ step'[0] = step[0] + 1 /\ step[0] \in Nat \ {0}
      /\ \A s \in Ranks : s # 0 =>
           /\ Key(s)' = Key(s) /\ Op(s)' = Op(s)
           /\ \A b : (Stored(s, b)' <=> Stored(s, b)) /\ Current(s, b)' = Current(s, b)
  BY <1>1, <1>5, PutsKeepsCounts, RankFacts
<1>7. QueueInv'
  <2> SUFFICES ASSUME NEW w \in Workers
               PROVE  RunByRun(chan'[0][w], Unfinished(w)', Ended', run'[0])
    BY DEF QueueInv
  <2>1. Unfinished(w)' = Unfinished(w) /\ Unfinished(w) \in Nat
    <3>1. run[w] \in Nat
      BY RankFacts, LifecycleAssumption DEF TypeOK
    <3> QED
      BY <1>6, <3>1, RankFacts DEF Unfinished
  <2>2. Ended' = run[0] - 1 /\ Ended = run[0] - 1 /\ run'[0] = run[0]
    BY <1>1, <1>6, RankFacts DEF Ended
  <2>3. RunByRun(chan[0][w], Unfinished(w), run[0] - 1, run[0])
    BY <2>2 DEF QueueInv
  <2>4. CASE w = to
    <3>1. run[0] \in Nat /\ m.tag # "FINISH"
      BY <1>2, <1>3, LifecycleAssumption
    <3>2. RunByRun(Append(chan[0][w], m), Unfinished(w), run[0] - 1, run[0])
      BY <1>3, <1>4, <2>1, <2>3, <3>1, SentRunByRun
    <3> QED
      BY <1>1, <2>1, <2>2, <2>4, <3>2
  <2>5. CASE w # to
    BY <1>1, <2>1, <2>2, <2>3, <2>5
  <2> QED
    BY <2>4, <2>5
<1>8. RequestInv'
  <2>1. ASSUME NEW w \in Workers, NEW i \in DOMAIN chan'[0][w]
        PROVE  \/ i \in DOMAIN chan[0][w] /\ chan'[0][w][i] = chan[0][w][i]
               \/ chan'[0][w][i] = m
    <3>1. CASE w = to
      <4>1. i \in DOMAIN Append(chan[0][w], m) /\ chan'[0][w] = Append(chan[0][w], m)
        BY <1>1, <3>1
      <4> QED
        BY <1>3, <1>4, <4>1, EntryOfAppended
    <3>2. CASE w # to
      BY <1>1, <3>2
    <3> QED
      BY <3>1, <3>2
  <2>2. ASSUME NEW w \in Workers, NEW i \in DOMAIN chan[0][w], chan[0][w][i].tag = "STORE_BLOCK"
        PROVE  /\ chan[0][w][i].key \in Keys /\ chan[0][w][i].data \in Contents
               /\ chan[0][w][i].key[1] = chan[0][w][i].run - 1
    BY <2>2 DEF RequestInv
  <2>3. ASSUME NEW w \in Workers, NEW i \in DOMAIN chan'[0][w]
        PROVE  LET x == chan'[0][w][i] IN
               /\ x.tag = "STORE_BLOCK" => x.key \in Keys /\ x.data \in Contents /\ x.key[1] = x.run - 1
               /\ x.tag # "GET_BLOCK"
    BY <1>1, <1>3, <2>1, <2>2
  <2>4. chan'[0][0] = <<>>
    BY <1>1 DEF RequestInv
  <2> QED
    BY <2>3, <2>4 DEF RequestInv
<1>9. CoherentInv'
  <2> SUFFICES ASSUME NEW s \in Ranks, Running(s)', ~Skips(s)', NEW b \in Blocks, Stored(s, b)'
               PROVE  FindsIn(s, <<run[s] - 1, b>>, Current(s, b))'
    BY DEF CoherentInv
  <2> DEFINE k == <<run[s] - 1, b>>
  <2>1. run'[s] = run[s] /\ Running(s) /\ ~Skips(s)
    BY <1>6
  <2>2. k \in Keys
    BY <2>1, ScriptFacts, KeysOfRuns DEF PlaceInv, Running
  <2>3. CASE s = 0
    <3>1. CASE b = Op(0).block
      BY <1>1, <1>2, <1>5, <2>3, <3>1, PutsFinds, RankFacts
    <3>2. CASE b # Op(0).block
      <4>1. Current(0, b)' = Current(0, b) /\ FindsIn(0, k, Current(0, b))
        BY <1>1, <2>3, <3>2, PutsFinds, RankFacts
      <4>2. cache'[0][k] = IF k = v THEN None ELSE cache[0][k]
        BY <1>2, <1>5, <2>2, <2>3, <3>2
      <4>3. run[0] > 0 /\ storage' = storage
        BY <1>1, <1>2
      <4> DEFINE d == Current(0, b)
      <4>4. ASSUME NEW e, FindsIn(0, k, e)
            PROVE  FindsIn(0, <<run[0] - 1, b>>, e)'
        <5>1. k = <<run[0] - 1, b>> /\ run'[0] = run[0]
          BY <2>1, <2>3
        <5>2. ASSUME NEW j \in Keys, FindsIn(0, j, e), cache'[0][j] = IF j = v THEN None ELSE cache[0][j]
              PROVE  FindsIn(0, j, e)'
          BY <1>1, <4>3, <5>2, EvictionKeeps DEF m, to
        <5>3. \A j \in {k} : FindsIn(0, j, e)'
          BY <2>2, <4>2, <4>4, <5>2
        <5> QED
          BY <5>1, <5>3
      <4> QED
        BY <2>3, <4>1, <4>4
    <3> QED
      BY <3>1, <3>2
  <2>4. CASE s # 0
    <3>1. FindsIn(s, k, Current(s, b)) /\ Current(s, b)' = Current(s, b)
      BY <1>6, <2>1, <2>4 DEF CoherentInv
    <3> QED
      BY <1>5, <2>1, <2>4, <3>1 DEF FindsIn
  <2> QED
    BY <2>3, <2>4
<1> QED
  BY <1>6, <1>7, <1>8, <1>9

\* What a get returns is what the script stored last.
LEMMA GotKeepsReads ==
  ASSUME TypeOK, EveryRankReadsItsWrites, NEW r \in Ranks, NEW c \in Contents,
         c = Current(r, Op(r).block), run[r] > 0, Got(r, c), UNCHANGED program
  PROVE  /\ EveryRankReadsItsWrites'
         /\ read' \in [Ranks -> {None} \cup ((1 .. Runs) \X Nat \X (Contents \cup {None}))]
<1>1. run[r] \in 1 .. Runs /\ step[r] \in Nat
  BY ScriptFacts DEF TypeOK
<1>2. /\ read'[r] = <<run[r], step[r], c>> /\ \A s \in Ranks : s # r => read'[s] = read[s]
      /\ read' \in [Ranks -> {None} \cup ((1 .. Runs) \X Nat \X (Contents \cup {None}))]
  BY <1>1 DEF TypeOK, Got
<1>3. c = Latest(run[r], step[r], program[run[r]][step[r]].block)
  BY DEF Current, Op, Script
<1>4. EveryRankReadsItsWrites'
  BY <1>2, <1>3, LatestFrozen DEF EveryRankReadsItsWrites
<1> QED
  BY <1>2, <1>4

\* A store of a data structure, on the manager or on a worker's own manager object.
LEMMA StoreKeepsIInv ==
  ASSUME IInv, NEW r \in Ranks, Store(r)
  PROVE  IInv'
<1> USE DEF IInv, Store, main, Advance
<1>1. /\ at[r] = "app" /\ Running(r) /\ ~Skips(r) /\ run[r] \in 1 .. Runs
      /\ step[r] \in 1 .. Len(Script(r)) /\ Op(r).do = "store"
  BY DoesFacts
<1> DEFINE c == Now(r)
           k == Key(r)
<1>2. /\ Op(r) = [do |-> "store", block |-> Op(r).block]
      /\ k \in Keys /\ c \in Contents
  BY <1>1, OpFacts
<1>3. /\ UNCHANGED <<program, everywhere, at, run, dsCount, storage, read>>
      /\ step' = [step EXCEPT ![r] = @ + 1]
  OBVIOUS
<1>4. \A b \in {Op(r).block} : c = Current(r, b)'
  <2>1. step'[r] = step[r] + 1 /\ step[r] \in Nat \ {0}
    BY <1>1, <1>3 DEF TypeOK
  <2> QED
    BY <1>2, <1>3, <2>1, Advancing
<1>5. EveryRankReadsItsWrites'
      /\ read' \in [Ranks -> {None} \cup ((1 .. Runs) \X Nat \X (Contents \cup {None}))]
  BY <1>3, LatestFrozen DEF EveryRankReadsItsWrites, TypeOK
<1>6. at' = [at EXCEPT ![r] = "app"]
  BY <1>1, <1>3 DEF TypeOK
<1> HIDE DEF c, k
<1>7. ASSUME NEW q, chan' = q,
             q \in [Ranks -> [Ranks -> Seq(Message)]], \A s \in Ranks : s # 0 => q[s] = chan[s], q[0][0] = chan[0][0]
      PROVE  Puts(r, c)
  <2>1. r = 0 => /\ \A w \in Workers, s \in Ranks : chan[w][s] = <<>>
                 /\ \A w \in Workers : \A i \in DOMAIN chan[0][w] : chan[0][w][i].tag # "GET_BLOCK"
    BY <1>1, NobodyAsks
  <2>2. \A w \in Workers, s \in Ranks : chan'[w][s] = IF r = 0 THEN <<>> ELSE chan[w][s]
    BY <1>7, <2>1, RankFacts
  <2>3. chan' \in [Ranks -> [Ranks -> Seq(Message)]] /\ chan'[0][0] = chan[0][0]
    BY <1>7
  <2>4. c \in Contents /\ \A b \in {Op(r).block} : c = Current(r, b)'
    BY <1>2, <1>4
  <2> HIDE DEF Store
  <2> QED
    BY <1>1, <1>3, <1>6, <2>1, <2>2, <2>3, <2>4 DEF Puts
<1>8. CASE cache' = [cache EXCEPT ![r][k] = c] /\ UNCHANGED chan
  <2>1. Puts(r, c)
    BY <1>7, <1>8 DEF TypeOK
  <2> QED
    BY <1>5, <1>8, <2>1, PutsInPlaceKeepsIInv DEF PutsInPlace, k
<1>9. CASE /\ r = 0 /\ cache[0][k] = None
           /\ \E v \in {x \in Keys : cache[0][x] # None} :
                /\ cache' = [cache EXCEPT ![0][v] = None, ![0][k] = c]
                /\ Send(0, StoredRank(v), Msg(0, "STORE_BLOCK", v, cache[0][v]))
  <2>1. PICK v \in Keys : /\ cache[0][v] # None
                          /\ cache' = [cache EXCEPT ![0][v] = None, ![0][k] = c]
                          /\ Send(0, StoredRank(v), Msg(0, "STORE_BLOCK", v, cache[0][v]))
    BY <1>9
  <2> DEFINE m == Msg(0, "STORE_BLOCK", v, cache[0][v])
             to == StoredRank(v)
  <2>2. m \in Message /\ to \in Workers /\ to \in Ranks /\ to # 0
    <3>1. cache[0][v] \in Contents /\ run[0] > 0
      BY <1>1, <1>9, <2>1, RankFacts DEF TypeOK
    <3> QED
      BY <3>1, MessageTypes, KeyFacts, RankFacts
  <2>3. /\ chan' \in [Ranks -> [Ranks -> Seq(Message)]]
        /\ chan'[0][to] = Append(chan[0][to], m)
        /\ \A u, w \in Ranks : u # 0 \/ w # to => chan'[u][w] = chan[u][w]
    <3> HIDE DEF m, to
    <3>1. Send(0, to, m)
      BY <2>1 DEF m, to
    <3> QED
      BY <2>2, <3>1, SendEffect, RankFacts
  <2>4. \A s \in Ranks : s # 0 => chan'[s] = chan[s]
    BY <2>1 DEF Send, TypeOK
  <2>5. Puts(0, c)
    <3>1. chan'[0][0] = chan[0][0]
      BY <2>2, <2>3, RankFacts
    <3> QED
      BY <1>7, <1>9, <2>3, <2>4, <3>1
  <2>6. \A w \in Workers : w # to => chan'[0][w] = chan[0][w]
    BY <2>3, RankFacts
  <2>7. PutsEvicting(v, c)
    BY <1>9, <2>1, <2>3, <2>5, <2>6 DEF PutsEvicting, k
  <2> QED
    BY <1>5, <2>7, PutsEvictingKeepsIInv
<1> QED
  BY <1>8, <1>9 DEF Add, c, k

\* A get of a resident block.
LEMMA HitKeepsIInv ==
  ASSUME IInv, NEW r \in Ranks, Hit(r)
  PROVE  IInv'
<1> USE DEF IInv, Hit, main
<1>1. /\ at[r] = "app" /\ Running(r) /\ ~Skips(r) /\ run[r] \in 1 .. Runs
      /\ step[r] \in 1 .. Len(Script(r)) /\ Op(r).do = "get"
  BY DoesFacts
<1> DEFINE c == cache[r][Key(r)]
<1>2. /\ Op(r) = [do |-> "get", block |-> Op(r).block] /\ Op(r).block \in Blocks
      /\ Key(r) \in Keys /\ Key(r) = <<run[r] - 1, Op(r).block>>
  BY <1>1, OpFacts
<1>3. c \in Contents
  BY <1>2 DEF TypeOK
<1>4. c = Current(r, Op(r).block)
  <2>1. FindsIn(r, Key(r), Current(r, Op(r).block))
    BY <1>1, <1>2, GetsStored DEF CoherentInv
  <2> QED
    BY <2>1 DEF FindsIn
<1>5. /\ UNCHANGED <<program, everywhere, at, run, dsCount, cache, storage, chan>>
      /\ step' = [step EXCEPT ![r] = @ + 1]
  BY DEF Got, Advance
<1>6. EveryRankReadsItsWrites'
      /\ read' \in [Ranks -> {None} \cup ((1 .. Runs) \X Nat \X (Contents \cup {None}))]
  BY <1>1, <1>3, <1>4, <1>5, GotKeepsReads
<1>7. \A b \in {Op(r).block} : c = Current(r, b)'
  <2>1. step'[r] = step[r] + 1 /\ step[r] \in Nat \ {0}
    BY <1>1, <1>5 DEF TypeOK
  <2>2. \A b : Op(r) # [do |-> "store", block |-> b]
    BY <1>2
  <2> QED
    BY <1>4, <1>5, <2>1, <2>2, Advancing
<1>8. Puts(r, c)
  <2>1. r = 0 => /\ \A w \in Workers, s \in Ranks : chan[w][s] = <<>>
                 /\ \A w \in Workers : \A i \in DOMAIN chan[0][w] : chan[0][w][i].tag # "GET_BLOCK"
    BY <1>1, NobodyAsks
  <2>2. at' = [at EXCEPT ![r] = "app"] /\ chan' \in [Ranks -> [Ranks -> Seq(Message)]]
    BY <1>1, <1>5 DEF TypeOK
  <2> HIDE DEF c
  <2> QED
    BY <1>1, <1>3, <1>5, <1>7, <2>1, <2>2 DEF Puts
<1>9. cache' = [cache EXCEPT ![r][Key(r)] = c]
  BY <1>2, <1>5 DEF TypeOK
<1>10. PutsInPlace(r, c)
  BY <1>5, <1>8, <1>9 DEF PutsInPlace
<1> QED
  BY <1>6, <1>10, PutsInPlaceKeepsIInv

\* A fetch is begun by the manager alone: a worker has all it stored in its cache.
LEMMA MissKeepsIInv ==
  ASSUME IInv, NEW r \in Ranks, Miss(r)
  PROVE  IInv'
<1> USE DEF IInv, Miss, main
<1>1. /\ at[r] = "app" /\ Running(r) /\ ~Skips(r) /\ run[r] \in 1 .. Runs
      /\ step[r] \in 1 .. Len(Script(r)) /\ Op(r).do = "get"
  BY DoesFacts
<1>2. /\ Op(r).block \in Blocks /\ Key(r) \in Keys /\ Key(r) = <<run[r] - 1, Op(r).block>>
  BY <1>1, OpFacts
<1>3. r = 0
  <2>1. FindsIn(r, Key(r), Current(r, Op(r).block))
    BY <1>1, <1>2, GetsStored DEF CoherentInv
  <2>2. cache[r][Key(r)] = None
    OBVIOUS
  <2> QED
    BY <2>1, <2>2 DEF FindsIn
<1> DEFINE m == Msg(0, "GET_BLOCK", Key(0), None)
           to == StoredRank(Key(0))
<1>4. m \in Message /\ m.tag = "GET_BLOCK" /\ m.key = Key(0) /\ m.run = run[0]
  BY <1>1, <1>2, <1>3, MessageTypes
<1>5. to \in Workers /\ to \in Ranks /\ to # 0
  BY <1>2, <1>3, KeyFacts, RankFacts
<1>6. /\ UNCHANGED <<program, everywhere, run, step, dsCount, cache, storage, read>>
      /\ at'[0] = "waiting" /\ \A s \in Ranks : s # 0 => at'[s] = at[s]
      /\ at' \in [Ranks -> Places]
      /\ Send(0, to, m)
  BY <1>3 DEF TypeOK, Places
<1> HIDE DEF m, to, Miss
<1>7. /\ chan' \in [Ranks -> [Ranks -> Seq(Message)]]
      /\ chan'[0][to] = Append(chan[0][to], m)
      /\ \A u, w \in Ranks : u # 0 \/ w # to => chan'[u][w] = chan[u][w]
  BY <1>4, <1>5, <1>6, SendEffect, RankFacts
<1>8. /\ \A w \in Workers, s \in Ranks : chan'[w][s] = <<>>
      /\ \A w \in Workers : \A i \in DOMAIN chan[0][w] : chan[0][w][i].tag # "GET_BLOCK"
      /\ \A w \in Workers : chan[0][w] \in Seq(Message) /\ w \in Ranks /\ w # 0
      /\ chan'[0][0] = <<>>
  <2>1. /\ \A w \in Workers, s \in Ranks : chan[w][s] = <<>>
        /\ \A w \in Workers : \A i \in DOMAIN chan[0][w] : chan[0][w][i].tag # "GET_BLOCK"
    BY <1>1, <1>3, NobodyAsks
  <2>2. \A w \in Workers : chan[0][w] \in Seq(Message) /\ w \in Ranks /\ w # 0
    BY RankFacts DEF TypeOK
  <2>3. \A w \in Workers, s \in Ranks : chan'[w][s] = <<>>
    BY <1>7, <2>1, <2>2
  <2>4. chan'[0][0] = <<>>
    BY <1>5, <1>7, RankFacts DEF RequestInv
  <2> QED
    BY <2>1, <2>2, <2>3, <2>4
<1>9. /\ Key(0)' = Key(0) /\ Op(0)' = Op(0) /\ Script(0)' = Script(0)
      /\ \A s \in Ranks : (Running(s)' <=> Running(s)) /\ Skips(s)' = Skips(s)
      /\ \A s \in Ranks : \A b : (Stored(s, b)' <=> Stored(s, b)) /\ Current(s, b)' = Current(s, b)
  <2>1. \A s \in Ranks : (Running(s)' <=> Running(s)) /\ Skips(s)' = Skips(s)
    BY <1>1, <1>3, <1>6 DEF Running, Skips
  <2>2. \A s \in Ranks : \A b : (Stored(s, b)' <=> Stored(s, b)) /\ Current(s, b)' = Current(s, b)
    BY <1>6, Resting
  <2> QED
    BY <1>6, <2>1, <2>2 DEF Key, Op, Script
<1>10. TypeOK'
  BY <1>6, <1>7 DEF TypeOK
<1>11. PlaceInv'
  <2>1. cache[0][Key(0)] = None
    BY <1>3 DEF Miss
  <2> QED
    BY <1>1, <1>3, <1>6, <1>9, <2>1, RankFacts DEF PlaceInv
<1>12. CountInv'
  <2>1. step[0] # 0
    BY <1>1, <1>3
  <2>2. dsCount[0] = run[0]
    BY <1>1, <1>3, <2>1 DEF CountInv
  <2> QED
    BY <1>1, <1>3, <1>6, <1>9, <2>1, <2>2 DEF CountInv
<1>13. QueueInv'
  <2> SUFFICES ASSUME NEW w \in Workers
               PROVE  RunByRun(chan'[0][w], Unfinished(w)', Ended', run'[0])
    BY DEF QueueInv
  <2>1. Unfinished(w)' = Unfinished(w) /\ Unfinished(w) \in Nat
    <3>1. run[w] \in Nat
      BY RankFacts, LifecycleAssumption DEF TypeOK
    <3> QED
      BY <1>6, <3>1, RankFacts DEF Unfinished
  <2>2. Ended' = run[0] - 1 /\ Ended = run[0] - 1 /\ run'[0] = run[0]
    BY <1>1, <1>3, <1>6 DEF Ended, Running
  <2>3. RunByRun(chan[0][w], Unfinished(w), run[0] - 1, run[0])
    BY <2>2 DEF QueueInv
  <2>4. CASE w = to
    <3>1. run[0] \in Nat /\ m.tag # "FINISH"
      BY <1>1, <1>3, <1>4, LifecycleAssumption
    <3>2. RunByRun(Append(chan[0][w], m), Unfinished(w), run[0] - 1, run[0])
      BY <1>4, <1>8, <2>1, <2>3, <3>1, SentRunByRun
    <3> QED
      BY <1>7, <2>1, <2>2, <2>4, <3>2
  <2>5. CASE w # to
    BY <1>7, <1>8, <2>1, <2>2, <2>3, <2>5, RankFacts
  <2> QED
    BY <2>4, <2>5
<1>14. RequestInv'
  <2> SUFFICES ASSUME NEW w \in Workers, NEW i \in DOMAIN chan'[0][w]
               PROVE  LET x == chan'[0][w][i] IN
                      /\ x.tag = "STORE_BLOCK" => x.key \in Keys /\ x.data \in Contents /\ x.key[1] = x.run - 1
                      /\ x.tag = "GET_BLOCK" =>
                           i = Len(chan'[0][w]) /\ w = StoredRank(Key(0)) /\ x.key = Key(0)
    BY <1>6, <1>8, <1>9, RankFacts DEF RequestInv, StoredRank
  <2>1. ASSUME NEW j \in DOMAIN chan[0][w]
        PROVE  LET x == chan[0][w][j] IN
               /\ x.tag = "STORE_BLOCK" => x.key \in Keys /\ x.data \in Contents /\ x.key[1] = x.run - 1
               /\ x.tag # "GET_BLOCK"
    BY <1>8 DEF RequestInv
  <2>2. CASE w = to
    <3>1. \/ i \in DOMAIN chan[0][w] /\ chan'[0][w][i] = chan[0][w][i]
          \/ i = Len(chan'[0][w]) /\ chan'[0][w][i] = m
      <4>1. i \in DOMAIN Append(chan[0][w], m) /\ chan'[0][w] = Append(chan[0][w], m)
        BY <1>7, <2>2
      <4> QED
        BY <1>4, <1>8, <4>1, EntryOfAppended
    <3> QED
      BY <1>4, <2>1, <2>2, <3>1 DEF to
  <2>3. CASE w # to
    BY <1>7, <1>8, <2>1, <2>3, RankFacts
  <2> QED
    BY <2>2, <2>3
<1>15. AnswerInv'
  BY <1>8, RankFacts DEF AnswerInv
<1>16. CoherentInv'
  <2> SUFFICES ASSUME NEW s \in Ranks, Running(s)', ~Skips(s)', NEW b \in Blocks, Stored(s, b)'
               PROVE  FindsIn(s, <<run[s] - 1, b>>, Current(s, b))'
    BY DEF CoherentInv
  <2> DEFINE k == <<run[s] - 1, b>>
             d == Current(s, b)
             w == StoredRank(k)
  <2>1. FindsIn(s, k, d) /\ d' = d /\ run'[s] = run[s]
    BY <1>6, <1>9 DEF CoherentInv
  <2>2. k \in Keys /\ w \in Workers
    BY <1>9, ScriptFacts, KeysOfRuns, KeyFacts DEF PlaceInv, Running
  <2>3. CASE s = 0 /\ cache[0][k] = None
    <3>1. WillHold(chan[0][w], storage[w][k], k, d)
      BY <2>1, <2>3 DEF FindsIn
    <3>2. WillHold(chan'[0][w], storage[w][k], k, d)
      <4>1. CASE w = to
        <5>1. ~StoreFor(m, k)
          BY <1>4 DEF StoreFor
        <5>2. WillHold(Append(chan[0][w], m), storage[w][k], k, d)
          BY <1>4, <1>8, <2>2, <3>1, <5>1, SentOtherHolds
        <5> QED
          BY <1>7, <4>1, <5>2
      <4>2. CASE w # to
        BY <1>7, <1>8, <2>2, <3>1, <4>2, RankFacts
      <4> QED
        BY <4>1, <4>2
    <3> QED
      BY <1>6, <2>1, <2>3, <3>2 DEF FindsIn, StoredRank
  <2>4. CASE s # 0 \/ cache[s][k] # None
    BY <1>6, <2>1, <2>4 DEF FindsIn
  <2> QED
    BY <2>3, <2>4
<1>17. EveryRankReadsItsWrites'
  BY <1>6, LatestFrozen DEF EveryRankReadsItsWrites
<1> QED
  BY <1>10, <1>11, <1>12, <1>13, <1>14, <1>15, <1>16, <1>17

\* The fetch ends with the answer, which is what the script stored last.
LEMMA ReceiveKeepsIInv ==
  ASSUME IInv, NEW r \in Ranks, Receive(r)
  PROVE  IInv'
<1> USE DEF IInv, main
<1>1. r = 0
  BY RankFacts DEF Receive, PlaceInv
<1> DEFINE s == StoredRank(Key(0))
           m == Head(chan[s][0])
           c == m.data
<1>2. /\ at[0] = "waiting" /\ Running(0) /\ ~Skips(0) /\ run[0] \in 1 .. Runs
      /\ step[0] \in 1 .. Len(Script(0)) /\ Op(0).do = "get" /\ cache[0][Key(0)] = None
  BY <1>1, ScriptFacts DEF Receive, PlaceInv, Running, Skips
<1>3. /\ Op(0) = [do |-> "get", block |-> Op(0).block] /\ Key(0) \in Keys
      /\ s \in Workers /\ s \in Ranks /\ s # 0
  BY <1>2, OpFacts, KeyFacts, RankFacts
<1>4. /\ chan[s][0] # <<>>
      /\ Got(0, c)
      /\ at' = [at EXCEPT ![0] = "app"]
      /\ UNCHANGED <<program, everywhere, run, dsCount, storage>>
      /\ \/ /\ cache' = [cache EXCEPT ![0][m.key] = c] /\ Taken(s, 0)
         \/ \E v \in {x \in Keys : cache[0][x] # None} :
              /\ cache' = [cache EXCEPT ![0][v] = None, ![0][m.key] = c]
              /\ chan' = [chan EXCEPT ![s][0] = Tail(@), ![0][StoredRank(v)] =
                            Append(@, Msg(0, "STORE_BLOCK", v, cache[0][v]))]
  <2> DEFINE Takes(x) ==
               IF Full(0)
                 THEN \E v \in {y \in Keys : cache[0][y] # None} :
                        /\ cache' = [cache EXCEPT ![0][v] = None, ![0][x.key] = x.data]
                        /\ chan' = [chan EXCEPT ![s][0] = Tail(@), ![0][StoredRank(v)] =
                                      Append(@, Msg(0, "STORE_BLOCK", v, cache[0][v]))]
                 ELSE cache' = [cache EXCEPT ![0][x.key] = x.data] /\ Taken(s, 0)
  <2>1. \E x \in MPI_PROBE(s, 0) : Takes(x) /\ Got(0, x.data)
    <3>1. Receive(0) /\ (0 = 0 /\ Full(0) <=> Full(0))
      BY <1>1
    <3> QED
      BY <3>1, Zenon DEF Receive
  <2>2. PICK x : x \in MPI_PROBE(s, 0) /\ Takes(x) /\ Got(0, x.data)
    BY <2>1
  <2>3. chan[s][0] # <<>> /\ x = m
    BY <2>2 DEF MPI_PROBE
  <2>4. at' = [at EXCEPT ![0] = "app"] /\ UNCHANGED <<program, everywhere, run, dsCount, storage>>
    BY <1>1 DEF Receive
  <2> QED
    BY <2>2, <2>3, <2>4
<1> HIDE DEF m
<1>5. /\ chan[s][0] \in Seq(Message) /\ Len(chan[s][0]) = 1 /\ m = chan[s][0][1]
      /\ m.key = Key(0) /\ c \in Contents /\ c = Current(0, Op(0).block)
      /\ Tail(chan[s][0]) = <<>> /\ Tail(chan[s][0]) \in Seq(Message)
  <2>1. chan[s][0] \in Seq(Message)
    BY <1>3, RankFacts DEF TypeOK
  <2>2. m = chan[s][0][1]
    BY <1>4, <2>1 DEF m
  <2>3. /\ Len(chan[s][0]) = 1 /\ m.key = Key(0) /\ c \in Contents /\ c = Current(0, Op(0).block)
    BY <1>3, <1>4, <2>2 DEF AnswerInv
  <2>4. Tail(chan[s][0]) \in Seq(Message) /\ Len(Tail(chan[s][0])) = 0
    BY <1>4, <2>1, <2>3, Consumed
  <2>5. Tail(chan[s][0]) = <<>>
    BY <2>4, EmptySeq
  <2> QED
    BY <2>1, <2>2, <2>3, <2>4, <2>5
<1> HIDE DEF c, s
<1>6. EveryRankReadsItsWrites'
      /\ read' \in [Ranks -> {None} \cup ((1 .. Runs) \X Nat \X (Contents \cup {None}))]
  BY <1>2, <1>4, <1>5, GotKeepsReads, RankFacts
<1>7. step' = [step EXCEPT ![0] = @ + 1] /\ \A b \in {Op(0).block} : c = Current(0, b)'
  <2>1. step' = [step EXCEPT ![0] = @ + 1]
    BY <1>4 DEF Got, Advance
  <2>2. step'[0] = step[0] + 1 /\ step[0] \in Nat \ {0}
    BY <1>2, <2>1, RankFacts DEF TypeOK
  <2>3. \A b : Op(0) # [do |-> "store", block |-> b]
    BY <1>3
  <2> QED
    BY <1>4, <1>5, <2>1, <2>2, <2>3, Advancing, RankFacts
<1>8. /\ \A w \in Workers : \A i \in DOMAIN chan[0][w] : chan[0][w][i].tag # "GET_BLOCK"
      /\ \A w \in Workers, x \in Ranks : w # s \/ x # 0 => chan[w][x] = <<>>
  BY <1>4, RankFacts DEF RequestInv, AnswerInv, s
<1>9. ASSUME NEW q, chan' = q, q \in [Ranks -> [Ranks -> Seq(Message)]], q[s][0] = <<>>,
             \A u, x \in Ranks : u # 0 /\ (u # s \/ x # 0) => q[u][x] = chan[u][x],
             q[0][0] = chan[0][0]
      PROVE  Puts(0, c)
  <2>1. \A w \in Workers, x \in Ranks : chan'[w][x] = <<>>
    <3>1. ASSUME NEW w \in Workers, NEW x \in Ranks
          PROVE  q[w][x] = <<>>
      <4>1. w \in Ranks /\ w # 0
        BY RankFacts
      <4>2. CASE w # s \/ x # 0
        BY <1>8, <1>9, <4>1, <4>2
      <4> QED
        BY <1>9, <4>2
    <3> QED
      BY <1>9, <3>1
  <2>2. chan' \in [Ranks -> [Ranks -> Seq(Message)]] /\ chan'[0][0] = chan[0][0]
    BY <1>9
  <2> QED
    BY <1>2, <1>4, <1>5, <1>7, <1>8, <2>1, <2>2 DEF Puts
<1>10. CASE cache' = [cache EXCEPT ![0][m.key] = c] /\ Taken(s, 0)
  <2>1. /\ chan' \in [Ranks -> [Ranks -> Seq(Message)]]
        /\ chan'[s][0] = <<>>
        /\ \A u, v \in Ranks : u # s \/ v # 0 => chan'[u][v] = chan[u][v]
    <3>1. 0 \in Ranks /\ TypeOK /\ chan[s][0] # <<>> /\ Taken(s, 0)
      BY <1>4, <1>10, RankFacts
    <3> QED
      <4>1. s \in Ranks /\ Tail(chan[s][0]) = <<>>
        BY <1>3, <1>5
      <4> HIDE DEF IInv
      <4>2. ASSUME NEW u \in Ranks, u = s
            PROVE  /\ chan' \in [Ranks -> [Ranks -> Seq(Message)]]
                   /\ chan'[u][0] = Tail(chan[u][0])
                   /\ \A x, v \in Ranks : x # u \/ v # 0 => chan'[x][v] = chan[x][v]
        <5>1. chan[u][0] # <<>> /\ Taken(u, 0)
          BY <3>1, <4>2
        <5> QED
          BY <3>1, <5>1, TakenEffect
      <4> QED
        BY <4>1, <4>2
  <2>2. Puts(0, c)
    BY <1>3, <1>9, <2>1, RankFacts
  <2>3. PutsInPlace(0, c)
    BY <1>3, <1>5, <1>10, <2>1, <2>2, RankFacts DEF PutsInPlace
  <2> QED
    BY <1>6, <2>3, PutsInPlaceKeepsIInv, RankFacts
<1>11. ASSUME NEW v \in Keys, cache[0][v] # None,
              cache' = [cache EXCEPT ![0][v] = None, ![0][m.key] = c],
              chan' = [chan EXCEPT ![s][0] = Tail(@), ![0][StoredRank(v)] =
                            Append(@, Msg(0, "STORE_BLOCK", v, cache[0][v]))]
       PROVE  IInv'
  <2> DEFINE e == Msg(0, "STORE_BLOCK", v, cache[0][v])
             to == StoredRank(v)
  <2>1. e \in Message /\ to \in Workers /\ to \in Ranks /\ to # 0
    <3>1. cache[0][v] \in Contents
      BY <1>11, RankFacts DEF TypeOK
    <3> QED
      BY <1>2, <3>1, MessageTypes, KeyFacts, RankFacts
  <2>2. /\ chan' \in [Ranks -> [Ranks -> Seq(Message)]]
        /\ chan'[s][0] = <<>> /\ chan'[0][to] = Append(chan[0][to], e)
        /\ \A u, x \in Ranks : (u # s \/ x # 0) /\ (u # 0 \/ x # to) => chan'[u][x] = chan[u][x]
    <3>1. chan[0][to] \in Seq(Message) /\ Append(chan[0][to], e) \in Seq(Message)
      BY <2>1, RankFacts, AppendedLast DEF TypeOK
    <3>2. chan' = [chan EXCEPT ![s][0] = <<>>, ![0][to] = Append(@, e)]
      BY <1>5, <1>11
    <3> HIDE DEF e, to
    <3>3. <<>> \in Seq(Message)
      OBVIOUS
    <3>4. chan \in [Ranks -> [Ranks -> Seq(Message)]] /\ 0 \in Ranks
      BY RankFacts DEF TypeOK
    <3> QED
      BY <1>3, <2>1, <3>1, <3>2, <3>3, <3>4
  <2> HIDE DEF e, to
  <2>3. Puts(0, c)
    <3>1. chan'[0][0] = chan[0][0]
      BY <1>3, <2>1, <2>2, RankFacts
    <3>2. \A u, x \in Ranks : u # 0 /\ (u # s \/ x # 0) => chan'[u][x] = chan[u][x]
      BY <2>2
    <3> QED
      BY <1>9, <2>2, <3>1, <3>2
  <2>4. PutsEvicting(v, c)
    BY <1>2, <1>3, <1>5, <1>11, <2>1, <2>2, <2>3, RankFacts DEF PutsEvicting, e, to
  <2> QED
    BY <1>6, <2>4, PutsEvictingKeepsIInv
<1> QED
  BY <1>4, <1>10, <1>11

\* What a worker has before it when it serves: the manager's messages of its run.
LEMMA ServeFacts ==
  ASSUME IInv, NEW w \in Ranks, NEW s \in Ranks, NEW tag, Serve(w, s, tag)
  PROVE  /\ s = 0 /\ w \in Workers /\ w # 0 /\ at[w] = "serving"
         /\ chan[0][w] \in Seq(Message) /\ chan[0][w] # <<>>
         /\ Head(chan[0][w]).tag = tag /\ Head(chan[0][w]).run = run[w]
         /\ Unfinished(w) = run[w] /\ run[w] \in Nat /\ run[0] \in Nat
         /\ Ended \in {run[0] - 1, run[0]}
         /\ RunByRun(chan[0][w], run[w], Ended, run[0])
<1> USE DEF IInv
<1>1. at[w] = "serving" /\ chan[s][w] # <<>> /\ Head(chan[s][w]).tag = tag
  BY DEF Serve, MPI_PROBE
<1>2. w # 0 /\ w \in Workers
  BY <1>1, RankFacts DEF PlaceInv
<1>3. s = 0
  BY <1>1, <1>2, RankFacts DEF AnswerInv
<1>4. chan[0][w] \in Seq(Message) /\ run[w] \in Nat /\ run[0] \in Nat
  BY RankFacts, LifecycleAssumption DEF TypeOK
<1>5. Unfinished(w) = run[w] /\ Ended \in {run[0] - 1, run[0]}
  BY <1>1 DEF Unfinished, Ended
<1>6. RunByRun(chan[0][w], run[w], Ended, run[0])
  BY <1>2, <1>5 DEF QueueInv
<1>7. Head(chan[0][w]).run = run[w]
  BY <1>1, <1>3, <1>4, <1>5, <1>6, HeadRunByRun
<1> QED
  BY <1>1, <1>2, <1>3, <1>4, <1>5, <1>6, <1>7

\* What the three ways to serve have in common: the first message is taken, and its
\* block, if it brings one, is what the worker now holds.
Handles(w, tag) ==
  /\ Serve(w, 0, tag)
  /\ UNCHANGED <<program, everywhere, run, step, dsCount, cache, read>>
  /\ at' = [at EXCEPT ![w] = IF tag = "FINISH" THEN "app" ELSE "serving"]
  /\ storage' \in [Ranks -> [Keys -> Contents \cup {None}]]
  /\ \A r \in Ranks : r # w => storage'[r] = storage[r]
  /\ \A k \in Keys : storage'[w][k] =
       IF StoreFor(Head(chan[0][w]), k) THEN Head(chan[0][w]).data ELSE storage[w][k]
  /\ chan' \in [Ranks -> [Ranks -> Seq(Message)]] /\ chan'[0][w] = Tail(chan[0][w])
  /\ \A s, r \in Ranks :
       (s # 0 \/ r # w) /\ (s # w \/ r # 0 \/ tag # "GET_BLOCK") => chan'[s][r] = chan[s][r]

LEMMA HandlesKeepsIInv ==
  ASSUME IInv, NEW w \in Ranks, NEW tag, Handles(w, tag),
         tag = "GET_BLOCK" => AnswerInv'
  PROVE  IInv'
<1> USE DEF IInv
<1> DEFINE q == chan[0][w]
<1>1. /\ w \in Workers /\ w # 0 /\ at[w] = "serving" /\ 0 \in Ranks
      /\ q \in Seq(Message) /\ q # <<>> /\ Head(q).tag = tag /\ Head(q).run = run[w]
      /\ Unfinished(w) = run[w] /\ run[w] \in Nat /\ run[0] \in Nat
      /\ Ended \in {run[0] - 1, run[0]}
      /\ RunByRun(q, run[w], Ended, run[0])
  BY RankFacts, ServeFacts DEF Handles
<1>2. /\ UNCHANGED <<program, everywhere, run, step, dsCount, cache, read>>
      /\ at'[w] = (IF tag = "FINISH" THEN "app" ELSE "serving")
      /\ \A r \in Ranks : r # w => at'[r] = at[r]
      /\ at' \in [Ranks -> Places]
  BY DEF Handles, TypeOK, Places
<1>3. /\ storage' \in [Ranks -> [Keys -> Contents \cup {None}]]
      /\ \A r \in Ranks : r # w => storage'[r] = storage[r]
      /\ \A k \in Keys : storage'[w][k] = IF StoreFor(Head(q), k) THEN Head(q).data ELSE storage[w][k]
  BY DEF Handles
<1>4. /\ chan' \in [Ranks -> [Ranks -> Seq(Message)]] /\ chan'[0][w] = Tail(q)
      /\ \A s, r \in Ranks :
           (s # 0 \/ r # w) /\ (s # w \/ r # 0 \/ tag # "GET_BLOCK") => chan'[s][r] = chan[s][r]
  BY DEF Handles
<1>5. /\ at'[0] = at[0] /\ \A r \in Ranks : Skips(r)' = Skips(r)
      /\ \A r \in Ranks : r # w => (Running(r)' <=> Running(r))
      /\ Key(0)' = Key(0) /\ Op(0)' = Op(0) /\ Script(0)' = Script(0)
      /\ \A r \in Ranks : \A b : (Stored(r, b)' <=> Stored(r, b)) /\ Current(r, b)' = Current(r, b)
  <2>1. \A r \in Ranks : \A b : (Stored(r, b)' <=> Stored(r, b)) /\ Current(r, b)' = Current(r, b)
    BY <1>2, Resting
  <2>2. at'[0] = at[0] /\ Key(0)' = Key(0) /\ Op(0)' = Op(0) /\ Script(0)' = Script(0)
    BY <1>1, <1>2 DEF Key, Op, Script
  <2>3. /\ \A r \in Ranks : Skips(r)' = Skips(r)
        /\ \A r \in Ranks : r # w => (Running(r)' <=> Running(r))
    BY <1>2 DEF Skips, Running
  <2> QED
    BY <2>1, <2>2, <2>3
<1>6. /\ 1 \in DOMAIN q /\ q[1] = Head(q) /\ Len(q) \in Nat
      /\ \A i \in DOMAIN Tail(q) : i + 1 \in DOMAIN q /\ Tail(q)[i] = q[i + 1]
                                   /\ (i + 1 = Len(q) <=> i = Len(Tail(q)))
  <2>1. 1 \in DOMAIN q /\ q[1] = Head(q) /\ Len(q) \in Nat
    BY <1>1, Consumed
  <2>2. \A i \in DOMAIN Tail(q) : i + 1 \in DOMAIN q /\ Tail(q)[i] = q[i + 1]
                                  /\ (i + 1 = Len(q) <=> i = Len(Tail(q)))
    BY <1>1, EntryOfTail
  <2> QED
    BY <2>1, <2>2
<1>7. \A k \in Keys : StoreFor(Head(q), k) => k[1] = run[w] - 1
  BY <1>1, <1>6 DEF RequestInv, StoreFor
<1>8. TypeOK'
  BY <1>2, <1>3, <1>4 DEF TypeOK
<1>9. PlaceInv'
  BY <1>1, <1>2, <1>5, RankFacts DEF PlaceInv
<1>10. CountInv'
  <2> SUFFICES ASSUME NEW r \in Ranks
               PROVE  /\ dsCount'[r] = IF Skips(r)' THEN 0
                        ELSE IF at'[r] = "serving" \/ (at'[r] = "app" /\ step'[r] = 0)
                          THEN run'[r] - 1 ELSE run'[r]
                      /\ \A k \in Keys : cache'[r][k] # None => k[1] = run'[r] - 1
                      /\ \A k \in Keys : storage'[r][k] # None => r # 0 /\ k[1] = run'[r] - 1
    BY DEF CountInv
  <2>1. at[w] = "serving" /\ step[w] = 0
    BY <1>1 DEF PlaceInv
  <2>2. dsCount'[r] = IF Skips(r)' THEN 0
                        ELSE IF at'[r] = "serving" \/ (at'[r] = "app" /\ step'[r] = 0)
                          THEN run'[r] - 1 ELSE run'[r]
    BY <1>2, <1>5, <2>1 DEF CountInv
  <2>3. \A k \in Keys : cache'[r][k] # None => k[1] = run'[r] - 1
    BY <1>2 DEF CountInv
  <2>4. \A k \in Keys : storage'[r][k] # None => r # 0 /\ k[1] = run'[r] - 1
    BY <1>1, <1>2, <1>3, <1>7 DEF CountInv
  <2> QED
    BY <2>2, <2>3, <2>4
<1>11. QueueInv'
  <2> SUFFICES ASSUME NEW u \in Workers
               PROVE  RunByRun(chan'[0][u], Unfinished(u)', Ended', run'[0])
    BY DEF QueueInv
  <2>1. Ended' = Ended /\ run'[0] = run[0]
    BY <1>1, <1>2, <1>5 DEF Ended
  <2>2. CASE u = w
    <3>1. Unfinished(w)' = IF tag = "FINISH" THEN run[w] + 1 ELSE run[w]
      BY <1>2 DEF Unfinished
    <3>2. /\ tag # "FINISH" => RunByRun(Tail(q), run[w], Ended, run[0])
          /\ tag = "FINISH" => RunByRun(Tail(q), run[w] + 1, Ended, run[0])
      BY <1>1, HandledRunByRun
    <3> QED
      BY <1>4, <2>1, <2>2, <3>1, <3>2
  <2>3. CASE u # w
    <3>1. u \in Ranks /\ Unfinished(u)' = Unfinished(u)
      BY <1>2, <2>3, RankFacts DEF Unfinished
    <3>2. chan'[0][u] = chan[0][u]
      BY <1>1, <1>4, <2>3, <3>1
    <3> QED
      BY <2>1, <3>1, <3>2 DEF QueueInv
  <2> QED
    BY <2>2, <2>3
<1>12. RequestInv'
  <2>1. chan'[0][0] = <<>>
    BY <1>1, <1>4 DEF RequestInv
  <2>2. ASSUME NEW u \in Workers, NEW i \in DOMAIN chan'[0][u]
        PROVE  LET m == chan'[0][u][i] IN
               /\ m.tag = "STORE_BLOCK" => m.key \in Keys /\ m.data \in Contents /\ m.key[1] = m.run - 1
               /\ m.tag = "GET_BLOCK" =>
                    /\ i = Len(chan'[0][u])
                    /\ at[0] = "waiting" /\ u = StoredRank(Key(0)) /\ m.key = Key(0)
                    /\ chan'[u][0] = <<>>
    <3>1. u \in Ranks /\ u # 0
      BY RankFacts
    <3>2. PICK j \in DOMAIN chan[0][u] : /\ chan'[0][u][i] = chan[0][u][j]
                                         /\ j = Len(chan[0][u]) => i = Len(chan'[0][u])
                                         /\ u = w => j # 1
      <4>1. CASE u = w
        <5>1. chan'[0][u] = Tail(q) /\ chan[0][u] = q
          BY <1>4, <4>1
        <5>2. i \in DOMAIN Tail(q)
          BY <5>1
        <5>3. DOMAIN Tail(q) = 1..(Len(q) - 1)
          BY <1>1, Consumed
        <5>4. i \in Nat \ {0} /\ i + 1 # 1
          BY <1>6, <5>2, <5>3
        <5>5. i + 1 \in DOMAIN q /\ Tail(q)[i] = q[i + 1] /\ (i + 1 = Len(q) <=> i = Len(Tail(q)))
          BY <1>6, <5>2
        <5> HIDE DEF q
        <5> QED
          BY <5>1, <5>4, <5>5
      <4>2. CASE u # w
        BY <1>1, <1>4, <3>1, <4>2
      <4> QED
        BY <4>1, <4>2
    <3> DEFINE m == chan[0][u][j]
    <3>3. /\ m.tag = "STORE_BLOCK" => m.key \in Keys /\ m.data \in Contents /\ m.key[1] = m.run - 1
          /\ m.tag = "GET_BLOCK" =>
               /\ j = Len(chan[0][u])
               /\ at[0] = "waiting" /\ u = StoredRank(Key(0)) /\ m.key = Key(0)
               /\ chan[u][0] = <<>>
      BY DEF RequestInv
    <3>4. m.tag = "GET_BLOCK" => tag # "GET_BLOCK"
      <4>1. tag = "GET_BLOCK" => 1 = Len(q) /\ w = StoredRank(Key(0))
        BY <1>1, <1>6 DEF RequestInv
      <4> QED
        BY <3>2, <3>3, <4>1
    <3>5. m.tag = "GET_BLOCK" => chan'[u][0] = <<>>
      BY <1>1, <1>4, <3>1, <3>3, <3>4
    <3> QED
      BY <3>2, <3>3, <3>5
  <2> QED
    BY <1>5, <2>1, <2>2 DEF RequestInv, StoredRank
<1>13. AnswerInv'
  <2>1. CASE tag # "GET_BLOCK"
    <3>1. \A u \in Workers, r \in Ranks : chan'[u][r] = chan[u][r]
      BY <1>1, <1>4, <2>1, RankFacts
    <3> QED
      BY <1>5, <3>1, RankFacts DEF AnswerInv, StoredRank
  <2> QED
    BY <2>1
<1>14. CoherentInv'
  <2> SUFFICES ASSUME NEW r \in Ranks, Running(r)', ~Skips(r)', NEW b \in Blocks, Stored(r, b)'
               PROVE  FindsIn(r, <<run[r] - 1, b>>, Current(r, b))'
    BY DEF CoherentInv
  <2> DEFINE k == <<run[r] - 1, b>>
             d == Current(r, b)
             u == StoredRank(k)
  <2>1. r # w
    <3>1. Stored(w, b) => step[w] > 0
      BY DEF Stored, TypeOK
    <3>2. step[w] = 0
      BY <1>1 DEF PlaceInv
    <3> QED
      BY <1>5, <3>1, <3>2
  <2>2. FindsIn(r, k, d) /\ d' = d /\ run'[r] = run[r] /\ Running(r)
    BY <1>2, <1>5, <2>1 DEF CoherentInv
  <2>3. k \in Keys /\ u \in Workers /\ u \in Ranks /\ u # 0
    BY <2>2, ScriptFacts, KeysOfRuns, KeyFacts, RankFacts DEF PlaceInv, Running
  <2>4. CASE r = 0 /\ cache[0][k] = None
    <3>1. WillHold(chan[0][u], storage[u][k], k, d)
      BY <2>2, <2>4 DEF FindsIn
    <3>2. WillHold(chan'[0][u], storage'[u][k], k, d)
      <4>1. CASE u # w
        BY <1>1, <1>3, <1>4, <2>3, <3>1, <4>1
      <4>2. CASE u = w /\ StoreFor(Head(q), k)
        <5>1. WillHold(Tail(q), Head(q).data, k, d)
          BY <1>1, <3>1, <4>2, HandledStoreHolds
        <5> QED
          BY <1>3, <1>4, <2>3, <4>2, <5>1
      <4>3. CASE u = w /\ ~StoreFor(Head(q), k)
        <5>1. WillHold(Tail(q), storage[w][k], k, d)
          BY <1>1, <3>1, <4>3, HandledOtherHolds
        <5> QED
          BY <1>3, <1>4, <2>3, <4>3, <5>1
      <4> QED
        BY <4>1, <4>2, <4>3
    <3> QED
      BY <1>2, <2>2, <2>4, <3>2 DEF FindsIn, StoredRank
  <2>5. CASE r # 0 \/ cache[r][k] # None
    BY <1>2, <2>2, <2>5 DEF FindsIn
  <2> QED
    BY <2>4, <2>5
<1>15. EveryRankReadsItsWrites'
  BY <1>2, LatestFrozen DEF EveryRankReadsItsWrites
<1> QED
  BY <1>8, <1>9, <1>10, <1>11, <1>12, <1>13, <1>14, <1>15

\* The worker stores the block the message brings.
LEMMA WorkerStoreKeepsIInv ==
  ASSUME IInv, NEW w \in Ranks, NEW s \in Ranks, WorkerStore(w, s)
  PROVE  IInv'
<1> USE DEF IInv
<1> DEFINE q == chan[0][w]
           m == Head(q)
<1>1. /\ s = 0 /\ Serve(w, 0, "STORE_BLOCK") /\ w \in Workers /\ w # 0 /\ at[w] = "serving"
      /\ q \in Seq(Message) /\ q # <<>> /\ m.tag = "STORE_BLOCK"
  BY ServeFacts DEF WorkerStore
<1>2. /\ UNCHANGED <<program, everywhere, at, run, step, dsCount, cache, read>>
      /\ storage' = [storage EXCEPT ![w][m.key] = m.data]
      /\ Taken(0, w)
  BY <1>1 DEF WorkerStore, main
<1>3. m.key \in Keys /\ m.data \in Contents
  <2>1. 1 \in DOMAIN q /\ q[1] = m
    BY <1>1, Consumed
  <2> QED
    BY <1>1, <2>1 DEF RequestInv
<1>4. /\ chan' \in [Ranks -> [Ranks -> Seq(Message)]]
      /\ chan'[0][w] = Tail(q)
      /\ \A u, r \in Ranks : u # 0 \/ r # w => chan'[u][r] = chan[u][r]
  BY <1>1, <1>2, TakenEffect, RankFacts
<1>5. at' = [at EXCEPT ![w] = "serving"]
  BY <1>1, <1>2 DEF TypeOK
<1> HIDE DEF m
<1>6. /\ storage' \in [Ranks -> [Keys -> Contents \cup {None}]]
      /\ \A r \in Ranks : r # w => storage'[r] = storage[r]
      /\ \A k \in Keys : storage'[w][k] = IF m.key = k THEN m.data ELSE storage[w][k]
  BY <1>2, <1>3 DEF TypeOK
<1>7. Handles(w, "STORE_BLOCK")
  <2>1. \A k \in Keys : StoreFor(Head(q), k) <=> m.key = k
    BY <1>1 DEF StoreFor, m
  <2>2. \A k \in Keys : storage'[w][k] = IF StoreFor(Head(q), k) THEN Head(q).data ELSE storage[w][k]
    BY <1>6, <2>1 DEF m
  <2>3. \A u, r \in Ranks :
          (u # 0 \/ r # w) /\ (u # w \/ r # 0 \/ "STORE_BLOCK" # "GET_BLOCK") => chan'[u][r] = chan[u][r]
    BY <1>4
  <2>4. at' = [at EXCEPT ![w] = IF "STORE_BLOCK" = "FINISH" THEN "app" ELSE "serving"]
    BY <1>5
  <2> HIDE DEF IInv, m
  <2> QED
    BY <1>1, <1>2, <1>4, <1>6, <2>2, <2>3, <2>4 DEF Handles
<1> QED
  BY <1>7, HandlesKeepsIInv

\* The worker goes on to its own code, behind all messages of the run.
LEMMA WorkerFinishKeepsIInv ==
  ASSUME IInv, NEW w \in Ranks, NEW s \in Ranks, WorkerFinish(w, s)
  PROVE  IInv'
<1> USE DEF IInv
<1> DEFINE q == chan[0][w]
<1>1. /\ s = 0 /\ Serve(w, 0, "FINISH") /\ w \in Workers /\ w # 0 /\ at[w] = "serving"
      /\ q \in Seq(Message) /\ q # <<>> /\ Head(q).tag = "FINISH"
  BY ServeFacts DEF WorkerFinish
<1>2. /\ UNCHANGED <<program, everywhere, run, step, dsCount, cache, storage, read>>
      /\ at' = [at EXCEPT ![w] = "app"]
      /\ Taken(0, w)
  BY <1>1 DEF WorkerFinish, main
<1>3. /\ chan' \in [Ranks -> [Ranks -> Seq(Message)]]
      /\ chan'[0][w] = Tail(q)
      /\ \A u, r \in Ranks : u # 0 \/ r # w => chan'[u][r] = chan[u][r]
  BY <1>1, <1>2, TakenEffect, RankFacts
<1>4. Handles(w, "FINISH")
  BY <1>1, <1>2, <1>3 DEF Handles, StoreFor, TypeOK
<1> QED
  BY <1>4, HandlesKeepsIInv

\* The worker answers: the request is behind every block the manager sent it, so that
\* what it holds is what the manager evicted last.
LEMMA WorkerGetKeepsIInv ==
  ASSUME IInv, NEW w \in Ranks, NEW s \in Ranks, WorkerGet(w, s)
  PROVE  IInv'
<1> USE DEF IInv
<1> DEFINE q == chan[0][w]
           k == Key(0)
           d == Current(0, Op(0).block)
<1>1. /\ s = 0 /\ Serve(w, 0, "GET_BLOCK") /\ w \in Workers /\ w # 0 /\ at[w] = "serving"
      /\ q \in Seq(Message) /\ q # <<>> /\ Head(q).tag = "GET_BLOCK" /\ 0 \in Ranks
      /\ run[w] > 0
  BY ServeFacts, RankFacts DEF WorkerGet, PlaceInv
<1>2. 1 \in DOMAIN q /\ q[1] = Head(q) /\ DOMAIN q = 1..Len(q)
  BY <1>1, Consumed
<1>3. /\ 1 = Len(q) /\ at[0] = "waiting" /\ w = StoredRank(k) /\ Head(q).key = k
      /\ chan[w][0] = <<>>
  BY <1>1, <1>2 DEF RequestInv
<1>4. /\ Running(0) /\ ~Skips(0) /\ run[0] \in 1 .. Runs
      /\ step[0] \in 1 .. Len(Script(0)) /\ Op(0).do = "get" /\ cache[0][k] = None
  BY <1>1, <1>3, ScriptFacts DEF PlaceInv, Running, Skips
<1>5. k \in Keys /\ k = <<run[0] - 1, Op(0).block>> /\ Op(0).block \in Blocks
  BY <1>1, <1>4, OpFacts
<1>6. storage[w][k] = d /\ d \in Contents
  <2>1. FindsIn(0, k, d)
    BY <1>1, <1>4, <1>5, GetsStored DEF CoherentInv
  <2>2. WillHold(q, storage[w][k], k, d)
    BY <1>3, <1>4, <2>1 DEF FindsIn
  <2>3. storage[w][k] = d
    BY <1>1, <1>2, <1>3, <2>2 DEF WillHold, StoreFor
  <2>4. storage[w][k] \in Contents \cup {None}
    BY <1>1, <1>5 DEF TypeOK
  <2> QED
    BY <2>1, <2>3, <2>4 DEF FindsIn
<1> DEFINE m == Msg(w, "STORE_BLOCK", k, storage[w][k])
<1>7. m \in Message /\ m.key = k /\ m.data = d
  <2>1. storage[w][k] \in Contents \cup {None} /\ k \in Keys \cup {None}
    BY <1>5, <1>6
  <2> HIDE DEF k, d
  <2>2. ASSUME NEW c \in Contents \cup {None}, NEW j \in Keys \cup {None}
        PROVE  /\ Msg(w, "STORE_BLOCK", j, c) \in Message
               /\ Msg(w, "STORE_BLOCK", j, c).key = j /\ Msg(w, "STORE_BLOCK", j, c).data = c
    <3>1. Msg(w, "STORE_BLOCK", j, c) \in Message
      <4>1. TypeOK /\ "STORE_BLOCK" \in {"STORE_BLOCK", "GET_BLOCK", "FINISH"}
        OBVIOUS
      <4> HIDE DEF IInv
      <4> QED
        BY <1>1, <4>1, MessageTypes
    <3> QED
      BY <3>1 DEF Msg
  <2> QED
    BY <1>6, <2>1, <2>2
<1>8. /\ UNCHANGED <<program, everywhere, at, run, step, dsCount, cache, storage, read>>
      /\ chan' = [chan EXCEPT ![0][w] = Tail(@), ![w][0] = Append(@, m)]
  <2>1. storage[w][k] # None
    BY <1>6, NoneIsNoContent
  <2> QED
    BY <1>1, <1>3, <2>1 DEF WorkerGet, main
<1> HIDE DEF m, d, k
<1>9. Tail(q) \in Seq(Message) /\ chan[w][0] \in Seq(Message) /\ Append(chan[w][0], m) \in Seq(Message)
  BY <1>1, <1>7, Consumed, AppendedLast DEF TypeOK
<1>10. /\ chan' \in [Ranks -> [Ranks -> Seq(Message)]]
       /\ chan'[0][w] = Tail(q) /\ chan'[w][0] = Append(<<>>, m)
       /\ \A u, r \in Ranks : (u # 0 \/ r # w) /\ (u # w \/ r # 0) => chan'[u][r] = chan[u][r]
  BY <1>1, <1>3, <1>8, <1>9 DEF TypeOK
<1>11. Handles(w, "GET_BLOCK")
  <2>1. \A j \in Keys : ~StoreFor(Head(q), j)
    BY <1>1 DEF StoreFor
  <2>2. at' = [at EXCEPT ![w] = "serving"] /\ storage' \in [Ranks -> [Keys -> Contents \cup {None}]]
    BY <1>1, <1>8 DEF TypeOK
  <2> QED
    BY <1>1, <1>8, <1>10, <2>1, <2>2 DEF Handles
<1>12. AnswerInv'
  <2>1. k' = k /\ Op(0)' = Op(0) /\ d' = d /\ at'[0] = "waiting" /\ StoredRank(k)' = StoredRank(k)
    <3>1. Op(0)' = Op(0) /\ Key(0)' = Key(0) /\ \A b : Current(0, b)' = Current(0, b)
      BY <1>1, <1>8, Resting DEF Op, Script, Key
    <3>2. \A b \in {Op(0).block} : Current(0, b)' = Current(0, b)
      BY <3>1
    <3> QED
      BY <1>3, <1>8, <3>1, <3>2 DEF k, d, StoredRank, Current
  <2>2. Len(chan'[w][0]) = 1 /\ chan'[w][0][1] = m
    BY <1>7, <1>10
  <2>3. ASSUME NEW u \in Workers
        PROVE  /\ \A r \in Ranks : chan'[u][r] # <<>> => r = 0
               /\ chan'[u][0] # <<>> => u = w
    <3>1. u \in Ranks /\ u # 0
      BY RankFacts
    <3>2. CASE u = w
      <4>1. \A r \in Ranks : r # 0 => chan'[w][r] = chan[w][r]
        BY <1>10, <3>1, <3>2
      <4>2. \A r \in Ranks : chan[w][r] # <<>> => r = 0
        BY <3>2 DEF AnswerInv
      <4> QED
        BY <3>2, <4>1, <4>2
    <3>3. CASE u # w
      <4>1. \A r \in Ranks : chan'[u][r] = chan[u][r]
        BY <1>10, <3>1, <3>3
      <4> QED
        BY <1>1, <1>3, <3>3, <4>1 DEF AnswerInv, k
    <3> QED
      BY <3>2, <3>3
  <2> QED
    BY <1>3, <1>6, <1>7, <2>1, <2>2, <2>3 DEF AnswerInv, k, d
<1> QED
  BY <1>11, <1>12, HandlesKeepsIInv

\* Nothing changes once every rank is over.
LEMMA StutterKeepsIInv == IInv /\ UNCHANGED vars => IInv'
<1> SUFFICES ASSUME IInv, UNCHANGED vars
             PROVE  IInv'
  OBVIOUS
<1> USE DEF IInv, vars
<1>1. TypeOK' /\ PlaceInv' /\ CountInv'
  BY DEF TypeOK, PlaceInv, CountInv, Skips, Script, Op, Key
<1>2. QueueInv' /\ RequestInv'
  BY DEF QueueInv, Unfinished, Ended, Running, RequestInv, Key, Op, Script, StoredRank
<1>3. \A r \in Ranks : \A b : (Stored(r, b)' <=> Stored(r, b)) /\ Current(r, b)' = Current(r, b)
  BY Resting
<1>4. AnswerInv'
  <2>1. \A b \in {Op(0).block} : Current(0, b)' = Current(0, b)
    BY <1>3, RankFacts
  <2>2. Op(0)' = Op(0) /\ Key(0)' = Key(0)
    BY DEF Op, Script, Key
  <2> QED
    BY <2>1, <2>2 DEF AnswerInv, StoredRank, Current
<1>5. CoherentInv'
  BY <1>3 DEF CoherentInv, Running, Skips, FindsIn, StoredRank
<1>6. EveryRankReadsItsWrites'
  BY LatestFrozen DEF EveryRankReadsItsWrites
<1> QED
  BY <1>1, <1>2, <1>4, <1>5, <1>6

LEMMA StepKeepsIInv == IInv /\ [Next]_vars => IInv'
<1> SUFFICES ASSUME IInv, [Next]_vars
             PROVE  IInv'
  OBVIOUS
<1>1. ASSUME NEW r \in Ranks, Initialize(r) \/ WorkerStop(r) \/ Finalize(r)
      PROVE  IInv'
  BY <1>1, InitializeKeepsIInv
<1>2. ASSUME NEW r \in Ranks, Start(r)
      PROVE  IInv'
  BY <1>2, StartKeepsIInv
<1>3. ASSUME NEW r \in Ranks, Create(r)
      PROVE  IInv'
  BY <1>3, CreateKeepsIInv
<1>4. ASSUME NEW r \in Ranks, Store(r)
      PROVE  IInv'
  BY <1>4, StoreKeepsIInv
<1>5. ASSUME NEW r \in Ranks, Hit(r)
      PROVE  IInv'
  BY <1>5, HitKeepsIInv
<1>6. ASSUME NEW r \in Ranks, Miss(r)
      PROVE  IInv'
  BY <1>6, MissKeepsIInv
<1>7. ASSUME NEW r \in Ranks, Receive(r)
      PROVE  IInv'
  BY <1>7, ReceiveKeepsIInv
<1>8. ASSUME NEW w \in Ranks, NEW s \in Ranks, WorkerStore(w, s)
      PROVE  IInv'
  BY <1>8, WorkerStoreKeepsIInv
<1>9. ASSUME NEW w \in Ranks, NEW s \in Ranks, WorkerGet(w, s)
      PROVE  IInv'
  BY <1>9, WorkerGetKeepsIInv
<1>10. ASSUME NEW w \in Ranks, NEW s \in Ranks, WorkerFinish(w, s)
       PROVE  IInv'
  BY <1>10, WorkerFinishKeepsIInv
<1>11. CASE Stop
  BY <1>11, StopKeepsIInv
<1>12. CASE Done \/ UNCHANGED vars
  BY <1>12, StutterKeepsIInv DEF Done
<1> QED
  BY <1>1, <1>2, <1>3, <1>4, <1>5, <1>6, <1>7, <1>8, <1>9, <1>10, <1>11, <1>12 DEF Next, Rank
-------------------------------------------------------------------------------
(* What the checked properties say, for every program and any number of workers. *)

LEMMA Inductive == Spec => []IInv
  BY InitIInv, StepKeepsIInv, PTL DEF Spec

\* Every variable keeps its type: every send names a rank, a block of the run under
\* way or no block, and every rank creates at most one data structure a run.
THEOREM TypeCorrect == Spec => []TypeOK
<1>1. IInv => TypeOK
  BY DEF IInv
<1> QED
  BY <1>1, Inductive, PTL

\* A worker that waits in CacheWorker::run for its next message finds none of
\* an earlier or a later run of the manager, although it may be any number of runs behind.
THEOREM RunsDoNotMix == Spec => []RunsStayApart
<1>1. IInv => RunsStayApart
  <2> SUFFICES ASSUME IInv, NEW s \in Ranks, NEW w \in Workers,
                      at[w] = "serving", chan[s][w] # <<>>
               PROVE  Head(chan[s][w]).run = run[w]
    BY DEF RunsStayApart
  <2>1. w \in Ranks /\ Serve(w, s, Head(chan[s][w]).tag)
    BY RankFacts DEF Serve, MPI_PROBE
  <2> QED
    BY <2>1, ServeFacts
<1> QED
  BY <1>1, Inductive, PTL

\* finalize() leaves no message behind: the FINISH of the last run is the last message
\* to a worker, and the manager has taken the answer to all it asked.
THEOREM NothingStaysUnread == Spec => []NothingUnread
<1>1. IInv => NothingUnread
  <2> SUFFICES ASSUME IInv, NEW s \in Ranks, NEW r \in Ranks, at[r] \in {"finalizing", "over"}
               PROVE  chan[s][r] = <<>>
    BY DEF NothingUnread
  <2> USE DEF IInv
  <2>1. CASE s # 0
    <3>1. chan[s][r] # <<>> => r = 0 /\ at[0] = "waiting"
      BY <2>1, RankFacts DEF AnswerInv
    <3> QED
      BY <3>1
  <2>2. CASE s = 0 /\ r = 0
    BY <2>2 DEF RequestInv
  <2>3. CASE s = 0 /\ r # 0
    <3>1. r \in Workers /\ chan[0][r] \in Seq(Message)
      BY <2>3, RankFacts DEF TypeOK
    <3>2. Unfinished(r) = Runs + 1 /\ run[0] \in 0 .. Runs /\ Runs \in Nat
      BY RankFacts, LifecycleAssumption DEF TypeOK, PlaceInv, Unfinished
    <3>3. RunByRun(chan[0][r], Runs + 1, Ended, run[0])
      BY <3>1, <3>2 DEF QueueInv
    <3>4. \A i \in DOMAIN chan[0][r] : FALSE
      BY <3>2, <3>3 DEF RunByRun
    <3>5. CASE chan[0][r] # <<>>
      <4>1. Len(chan[0][r]) \in Nat \ {0} /\ DOMAIN chan[0][r] = 1..Len(chan[0][r])
        BY <3>1, <3>5, Consumed
      <4>2. 1 \in DOMAIN chan[0][r]
        BY <4>1
      <4> QED
        BY <3>4, <4>2
    <3> QED
      BY <2>3, <3>5
  <2> QED
    BY <2>1, <2>2, <2>3
<1> QED
  BY <1>1, Inductive, PTL

\* getBlock returns what the same code stored last in the block, on the manager
\* through eviction and the workers, and on a worker without them; no data structure of an
\* earlier run and no rank's own copy can be mistaken for it.
THEOREM ReadsReturnWrites == Spec => []EveryRankReadsItsWrites
<1>1. IInv => EveryRankReadsItsWrites
  BY DEF IInv
<1> QED
  BY <1>1, Inductive, PTL

\* The code between start() and stop() sends nothing when it runs on a worker, so that
\* the source 0 in every request is right.
THEOREM OnlyWorkersAnswer == Spec => []WorkersOnlyAnswer
<1>1. IInv => WorkersOnlyAnswer
  BY RankFacts DEF IInv, AnswerInv, WorkersOnlyAnswer
<1> QED
  BY <1>1, Inductive, PTL
===============================================================================
