------------------------------ MODULE BlockStore ------------------------------
(***************************************************************************)
(* What the distributed block cache promises to the data structures that   *)
(* use it: one memory of blocks.  A store replaces the block's value, a    *)
(* load answers with the value of the last store, and neither eviction nor *)
(* the worker processes are visible.  A load of a block that is not at     *)
(* hand takes two steps, because the caller waits for a worker.            *)
(***************************************************************************)
EXTENDS Naturals

CONSTANTS Keys,   \* block identities
          Data,   \* block contents
          None    \* neither a key nor a content

VARIABLES mem,      \* mem[k]: what the last store of block k wrote
          loading,  \* the block a pending load waits for, or None
          got       \* <<k, d>>: the answer to the last load, or None

vars == <<mem, loading, got>>

Init == /\ mem = [k \in Keys |-> None]
        /\ loading = None
        /\ got = None

Store(k, d) == /\ loading = None
               /\ mem' = [mem EXCEPT ![k] = d]
               /\ UNCHANGED <<loading, got>>

\* A load answered at once.
Load(k) == /\ loading = None
           /\ got' = <<k, mem[k]>>
           /\ UNCHANGED <<mem, loading>>

\* A load that has to be fetched ...
StartLoad(k) == /\ loading = None
                /\ loading' = k
                /\ UNCHANGED <<mem, got>>

\* ... and its answer.
FinishLoad == /\ loading # None
              /\ got' = <<loading, mem[loading]>>
              /\ loading' = None
              /\ UNCHANGED mem

Next == \/ \E k \in Keys, d \in Data : Store(k, d)
        \/ \E k \in Keys : Load(k) \/ StartLoad(k)
        \/ FinishLoad

Spec == Init /\ [][Next]_vars
===============================================================================
