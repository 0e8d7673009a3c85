----------------------------- MODULE MessageBuffers -----------------------------
(***************************************************************************)
(* Who owns the memory of a message.  A message made by Message::create()  *)
(* lies in a buffer of its own and is deleted with its last pointer.  One  *)
(* returned by Worker::recv() lies in recvBuf, which the next recv()       *)
(* overwrites and, if it is too small, replaces.  The deleter tells the    *)
(* two apart by reading ownBuf from the message it is to delete.           *)
(*                                                                         *)
(* One process, a worker or the manager, on its own: what it receives and  *)
(* what it evicts is any message it may get and any block it holds.        *)
(***************************************************************************)
EXTENDS Integers, Functions, LibraryConstants

VARIABLES
  role,     \* "worker": CacheWorker::run(); "manager": the program and its fetches
  pc,       \* "app", "recv", "assign", "handle", "return", "over"
  heap,     \* heap[a]: the message in the buffer at a, or Free
  buf, cap, \* recvBuf.data() and the capacity; Null and 0: empty
  msg,      \* msg of run(), ret of getBlockFallbackRemote()
  next,     \* the temporary that recv() returned
  blocks,   \* blocks[k]: the message the cache holds, or Null
  held,     \* prevMsg of the manager's vector
  last,     \* history: what was last stored in block k
  undefined \* freed memory was deleted

vars == <<role, pc, heap, buf, cap, msg, next, blocks, held, last, undefined>>

\* Message::create(dataSize, tag, ...)
Create(tag, k, d) == [tag |-> tag, key |-> k, data |-> d, ownBuf |-> TRUE]

\* Message::create(buffer)
InBuffer(m) == [m EXCEPT !.ownBuf = FALSE]

\* Slip: the flag is copied with the rest.
CloneExactly(m) == m

\* Message::create(const Message &)
Clone(m) == Create(m.tag, m.key, m.data)

\* getSize()
SizeOf(m) == IF m.tag = "STORE_BLOCK" THEN Size[m.key] ELSE 1

Init ==
  /\ role \in {"worker", "manager"}
  /\ pc = IF role = "worker" THEN "recv" ELSE "app"
  /\ heap = [a \in Addr |-> Free]
  /\ buf = Null /\ cap = 0 /\ msg = Null /\ next = Null /\ held = Null
  /\ blocks = [k \in BlockKeys |-> Null] /\ last = [k \in BlockKeys |-> Null]
  /\ undefined = FALSE

Unused == {a \in Addr : heap[a] = Free}

\* MessageDeleter, for every message whose last pointer is gone.
Deleted(h, pointers) ==
  [a \in Addr |-> IF h[a] # Free /\ a \notin pointers /\ h[a].ownBuf THEN Free ELSE h[a]]

Pointers == Range(blocks) \cup {held, msg}
-------------------------------------------------------------------------------
(* recv(), and the assignment of what it returns. *)

\* What may arrive: on a worker anything, on the manager the block it asked for.
Incoming ==
  IF role = "worker"
    THEN {Create("STORE_BLOCK", k, d) : k \in BlockKeys, d \in Data}
         \cup {Create("GET_BLOCK", k, Null) : k \in BlockKeys} \cup {Create("FINISH", Null, Null)}
    ELSE {Create("STORE_BLOCK", heap[msg].key, d) : d \in Data}

\* The count in the status of MPI_PROBE: send() sent getSize() characters.
MPI_GET_COUNT(m) == SizeOf(m)

\* resize(): a larger buffer at another address, and the old one freed.
Grow(m) ==
  \E a \in Unused, c \in MPI_GET_COUNT(m) .. MaxCap :
    /\ buf' = a /\ cap' = c
    /\ heap' = [x \in Addr |-> IF x = a THEN InBuffer(m) ELSE IF x = buf THEN Free ELSE heap[x]]

Recv ==
  /\ pc = "recv"
  /\ \E m \in Incoming :
       IF MPI_GET_COUNT(m) > cap
         THEN Grow(m)
         ELSE heap' = [heap EXCEPT ![buf] = InBuffer(m)] /\ UNCHANGED <<buf, cap>>
  /\ next' = buf' /\ pc' = "assign"
  /\ UNCHANGED <<role, msg, blocks, held, last, undefined>>

\* msg = recv(): the old message is deleted, if its ownBuf says so; reading that
\* from a buffer resize() has freed may give anything.
Assign ==
  /\ pc = "assign"
  /\ msg' = next /\ next' = Null
  /\ heap' = Deleted(heap, Range(blocks) \cup {held, next})
  /\ undefined' \in IF msg # Null /\ heap[msg] = Free THEN BOOLEAN ELSE {FALSE}
  /\ pc' = IF undefined' THEN "over" ELSE "handle"
  /\ UNCHANGED <<role, buf, cap, blocks, held, last>>
-------------------------------------------------------------------------------
(* The handlers. *)

Handles(tag) == pc = "handle" /\ heap[msg].tag = tag

\* Slip: the message is kept where it is.
KeptInPlace == {<<msg, heap>>}

\* The message storeCacheBlock() puts into the cache: itself, or a clone.
Kept == IF heap[msg].ownBuf THEN {<<msg, heap>>}
        ELSE {<<a, [heap EXCEPT ![a] = Clone(heap[msg])]>> : a \in Unused}

StoreCacheBlock ==
  /\ Handles("STORE_BLOCK")
  /\ \E keep \in Kept :
       /\ blocks' = [blocks EXCEPT ![heap[msg].key] = keep[1]]
       /\ heap' = Deleted(keep[2], Range(blocks') \cup {held, msg})
  /\ last' = [last EXCEPT ![heap[msg].key] = heap[msg].data]
  /\ pc' = IF role = "worker" THEN "recv" ELSE "return"
  /\ UNCHANGED <<role, buf, cap, msg, next, held, undefined>>

\* sendCacheBlock() sends the cached message, if any, and keeps it.
SendCacheBlock ==
  /\ Handles("GET_BLOCK")
  /\ pc' = "recv"
  /\ UNCHANGED <<role, heap, buf, cap, msg, next, blocks, held, last, undefined>>

\* The loop ends and its message with it.
Finish ==
  /\ Handles("FINISH")
  /\ pc' = "over" /\ msg' = Null
  /\ heap' = Deleted(heap, Range(blocks) \cup {held})
  /\ UNCHANGED <<role, buf, cap, next, blocks, held, last, undefined>>
-------------------------------------------------------------------------------
(* The manager's program. *)

\* A new message, stored as it is and kept as prevMsg.
StoreFresh(k, d) ==
  /\ pc = "app"
  /\ \E a \in Unused :
       /\ blocks' = [blocks EXCEPT ![k] = a] /\ held' = a
       /\ heap' = Deleted([heap EXCEPT ![a] = Create("STORE_BLOCK", k, d)], Range(blocks') \cup {a})
  /\ last' = [last EXCEPT ![k] = d]
  /\ UNCHANGED <<role, pc, buf, cap, msg, next, undefined>>

\* A get of a block that is there.
Hold(k) ==
  /\ pc = "app" /\ blocks[k] # Null
  /\ held' = blocks[k]
  /\ heap' = Deleted(heap, Range(blocks) \cup {blocks[k]})
  /\ UNCHANGED <<role, pc, buf, cap, msg, next, blocks, last, undefined>>

\* refer() sends the victim and drops it from the cache.
Evict(k) ==
  /\ pc = "app" /\ blocks[k] # Null
  /\ blocks' = [blocks EXCEPT ![k] = Null]
  /\ heap' = Deleted(heap, Range(blocks') \cup {held})
  /\ UNCHANGED <<role, pc, buf, cap, msg, next, held, last, undefined>>

\* A get of a block that is not there: the request, in ret.
Ask(k) ==
  /\ pc = "app" /\ blocks[k] = Null /\ last[k] # Null
  /\ \E a \in Unused : msg' = a /\ heap' = [heap EXCEPT ![a] = Create("GET_BLOCK", k, Null)]
  /\ pc' = "recv"
  /\ UNCHANGED <<role, buf, cap, next, blocks, held, last, undefined>>

\* getBlockFallbackRemote() returns the cached clone and ret goes.
Return ==
  /\ pc = "return"
  /\ held' = blocks[heap[msg].key] /\ msg' = Null
  /\ heap' = Deleted(heap, Range(blocks) \cup {held'})
  /\ pc' = "app"
  /\ UNCHANGED <<role, buf, cap, next, blocks, last, undefined>>

Program ==
  /\ role = "manager"
  /\ \/ \E k \in BlockKeys : Hold(k) \/ Evict(k) \/ Ask(k)
     \/ \E k \in BlockKeys, d \in Data : StoreFresh(k, d)
     \/ Return

Over == pc = "over" /\ UNCHANGED vars

Next == Over \/ Recv \/ Assign \/ StoreCacheBlock \/ SendCacheBlock \/ Finish \/ Program

Spec == Init /\ [][Next]_vars
-------------------------------------------------------------------------------
TypeOK ==
  /\ role \in {"worker", "manager"}
  /\ pc \in {"app", "recv", "assign", "handle", "return", "over"}
  /\ heap \in [Addr -> Message \cup {Free}]
  /\ cap \in 0 .. MaxCap /\ undefined \in BOOLEAN
  /\ {buf, msg, next, held} \subseteq Addr \cup {Null}
  /\ blocks \in [BlockKeys -> Addr \cup {Null}]
  /\ last \in [BlockKeys -> Data \cup {Null}]

\* The cache never points into recvBuf: a cached block has a buffer of its own and
\* holds what was last stored in it, whatever is received after it.
CacheOwnsItsBlocks ==
  \A k \in BlockKeys : blocks[k] # Null =>
    LET m == heap[blocks[k]] IN
    m # Free /\ m = Create("STORE_BLOCK", k, last[k])

\* Every buffer is freed when its last pointer goes, and none before: no buffer is
\* left over, and none that recvBuf, the cache or prevMsg uses is free.
BuffersHaveOwners ==
  LET owners == (Range(blocks) \cup {buf, held}) \ {Null}
      used   == {a \in Addr : heap[a] # Free}
  IN  owners \subseteq used /\ used \subseteq owners \cup {msg, next}

\* "The lifetime of the supplied buffer should exceed the lifetime of the Message
\* object returned by this method" (Message.h:216-217).
BufferOutlivesMessage == msg # Null => heap[msg] # Free
===============================================================================
