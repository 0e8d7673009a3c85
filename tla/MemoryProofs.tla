------------------------------ MODULE MemoryProofs ------------------------------
(***************************************************************************)
(* The memory of blocks.  The cache owns its blocks and no buffer is lost, *)
(* for any number of buffers, blocks and contents: only the message in     *)
(* recvBuf has no buffer of its own, and neither the cache nor prevMsg     *)
(* points to it.  In a block elements keep their bytes, for every block    *)
(* size, type size and number of elements: where an element lies follows   *)
(* from division with remainder, and two places are apart if their keys or *)
(* their offsets are.                                                      *)
(***************************************************************************)
EXTENDS MessageBuffers, BlockIndex, TLAPS
-------------------------------------------------------------------------------
(* Messages and their buffers. *)


\* What heap h is like while recvBuf is b, the cache bl, prevMsg hd.
Sound(h, b, bl, hd, la) ==
  /\ h \in [Addr -> Message \cup {Free}]
  /\ \A a \in Addr : h[a] # Free /\ h[a].tag = "STORE_BLOCK" =>
       h[a].key \in BlockKeys /\ h[a].data \in Data
  /\ \A a \in Addr : h[a] # Free => h[a].ownBuf = TRUE \/ a = b
  /\ b # Null => b \in Addr /\ h[b] # Free /\ h[b].ownBuf = FALSE
  /\ \A k \in BlockKeys : bl[k] # Null =>
       bl[k] \in Addr /\ h[bl[k]] # Free /\ h[bl[k]] = Create("STORE_BLOCK", k, la[k])
  /\ hd # Null => hd \in Addr /\ h[hd] # Free /\ h[hd].ownBuf = TRUE

\* Every buffer in use has a pointer to it.
Used == \A a \in Addr : heap[a] # Free => a \in Range(blocks) \cup {buf, held, msg, next}

\* What the local variables are at each place.
Places ==
  /\ pc \in {"app", "return"} => role = "manager"
  /\ (buf = Null) <=> (cap = 0)
  /\ pc # "assign" => next = Null
  /\ pc = "assign" => next = buf /\ buf # Null
  /\ pc \in {"handle", "return"} => msg = buf /\ buf # Null
  /\ pc = "app" => msg = Null
  /\ pc = "return" => heap[msg].key \in BlockKeys /\ blocks[heap[msg].key] # Null
  /\ role = "manager" /\ pc \in {"recv", "assign"} =>
       msg \in Addr /\ heap[msg] # Free /\ heap[msg].ownBuf = TRUE /\ heap[msg].key \in BlockKeys
  /\ role = "manager" /\ pc = "assign" => heap[next].tag = "STORE_BLOCK"
  /\ role = "manager" /\ pc = "handle" => heap[msg].tag = "STORE_BLOCK"

IInv == TypeOK /\ Sound(heap, buf, blocks, held, last) /\ Used /\ Places

\* MessageDeleter frees what it owns and nothing points to.
LEMMA DeletedOf ==
  ASSUME NEW h \in [Addr -> Message \cup {Free}], NEW p
  PROVE  /\ Deleted(h, p) \in [Addr -> Message \cup {Free}]
         /\ \A a \in Addr : Deleted(h, p)[a] # Free =>
              Deleted(h, p)[a] = h[a] /\ h[a] # Free /\ (a \in p \/ ~h[a].ownBuf)
         /\ \A a \in Addr : h[a] # Free /\ (a \in p \/ ~h[a].ownBuf) => Deleted(h, p)[a] = h[a]
BY DEF Deleted

\* After a deletion the heap is still sound, and only what is pointed to is left.
LEMMA DeletedIsSound ==
  ASSUME NEW h, NEW b, NEW bl \in [BlockKeys -> Addr \cup {Null}], NEW hd, NEW la, NEW p,
         Sound(h, b, bl, hd, la), Range(bl) \cup {hd} \subseteq p
  PROVE  /\ Sound(Deleted(h, p), b, bl, hd, la)
         /\ \A a \in Addr : Deleted(h, p)[a] # Free => a \in p \cup {b}
<1> DEFINE d == Deleted(h, p)
<1>1. h \in [Addr -> Message \cup {Free}]
  BY DEF Sound
<1>2. /\ d \in [Addr -> Message \cup {Free}]
      /\ \A a \in Addr : d[a] # Free => d[a] = h[a] /\ h[a] # Free /\ (a \in p \/ ~h[a].ownBuf)
      /\ \A a \in Addr : h[a] # Free /\ (a \in p \/ ~h[a].ownBuf) => d[a] = h[a]
  BY <1>1, DeletedOf
<1> HIDE DEF d
<1>3. \A k \in BlockKeys : bl[k] # Null =>
        bl[k] \in Addr /\ d[bl[k]] # Free /\ d[bl[k]] = Create("STORE_BLOCK", k, la[k])
  <2> SUFFICES ASSUME NEW k \in BlockKeys, bl[k] # Null
               PROVE  bl[k] \in Addr /\ d[bl[k]] # Free /\ d[bl[k]] = Create("STORE_BLOCK", k, la[k])
    OBVIOUS
  <2>1. bl[k] \in Addr /\ h[bl[k]] # Free /\ h[bl[k]] = Create("STORE_BLOCK", k, la[k])
    BY DEF Sound
  <2>2. bl[k] \in p
    BY DEF Range
  <2> QED
    BY <1>2, <2>1, <2>2
<1>4. hd # Null => hd \in Addr /\ d[hd] # Free /\ d[hd].ownBuf = TRUE
  BY <1>2 DEF Sound
<1>5. b # Null => b \in Addr /\ d[b] # Free /\ d[b].ownBuf = FALSE
  BY <1>2 DEF Sound
<1>6. \A a \in Addr : d[a] # Free => a \in p \cup {b}
  BY <1>2 DEF Sound
<1> QED
  BY <1>2, <1>3, <1>4, <1>5, <1>6 DEF Sound, d
-------------------------------------------------------------------------------
(* One lemma per action. *)

LEMMA InitIsSound == Init => IInv
<1> SUFFICES ASSUME Init PROVE IInv
  OBVIOUS
<1>1. TypeOK
  <2>1. blocks \in [BlockKeys -> Addr \cup {Null}]
    BY DEF Init
  <2>2. {buf, msg, next, held} \subseteq Addr \cup {Null}
    BY DEF Init
  <2>3. cap \in 0 .. MaxCap
    BY MessageBuffersAssumption DEF Init
  <2>4. heap \in [Addr -> Message \cup {Free}] /\ last \in [BlockKeys -> Data \cup {Null}]
    BY DEF Init
  <2>5. /\ role \in {"worker", "manager"} /\ undefined \in BOOLEAN
        /\ pc \in {"app", "recv", "assign", "handle", "return", "over"}
    BY DEF Init
  <2> QED
    BY <2>1, <2>2, <2>3, <2>4, <2>5 DEF TypeOK
<1>2. Sound(heap, buf, blocks, held, last) /\ Used /\ Places
  BY DEF Init, Sound, Used, Places
<1> QED
  BY <1>1, <1>2 DEF IInv

\* What a process may receive is a message.
LEMMA IncomingType ==
  ASSUME IInv, pc = "recv", NEW m \in Incoming
  PROVE  /\ m \in Message /\ SizeOf(m) \in 1 .. MaxCap
         /\ role = "manager" => m.tag = "STORE_BLOCK"
         /\ m.tag = "STORE_BLOCK" => m.key \in BlockKeys /\ m.data \in Data
         /\ InBuffer(m) \in Message /\ InBuffer(m) # Free
         /\ InBuffer(m).tag = m.tag /\ InBuffer(m).key = m.key /\ InBuffer(m).data = m.data
         /\ InBuffer(m).ownBuf = FALSE
<1>1. /\ m \in Message /\ (role = "manager" => m.tag = "STORE_BLOCK")
      /\ m.tag = "STORE_BLOCK" => m.key \in BlockKeys /\ m.data \in Data
  <2>1. CASE role = "worker"
    <3>1. \/ \E k \in BlockKeys, d \in Data : m = Create("STORE_BLOCK", k, d)
          \/ \E k \in BlockKeys : m = Create("GET_BLOCK", k, Null)
          \/ m = Create("FINISH", Null, Null)
      BY <2>1 DEF Incoming
    <3>2. CASE \E k \in BlockKeys, d \in Data : m = Create("STORE_BLOCK", k, d)
      <4>1. PICK k \in BlockKeys, d \in Data : m = Create("STORE_BLOCK", k, d)
        BY <3>2
      <4> QED
        BY <2>1, <4>1 DEF Create, Message
    <3>3. CASE \E k \in BlockKeys : m = Create("GET_BLOCK", k, Null)
      <4>1. PICK k \in BlockKeys : m = Create("GET_BLOCK", k, Null)
        BY <3>3
      <4> QED
        BY <2>1, <4>1 DEF Create, Message
    <3>4. CASE m = Create("FINISH", Null, Null)
      BY <2>1, <3>4 DEF Create, Message
    <3> QED
      BY <3>1, <3>2, <3>3, <3>4
  <2>2. CASE role = "manager"
    <3>1. heap[msg].key \in BlockKeys
      BY <2>2 DEF IInv, Places
    <3>2. PICK d \in Data : m = Create("STORE_BLOCK", heap[msg].key, d)
      BY <2>2 DEF Incoming
    <3> QED
      BY <3>1, <3>2 DEF Create, Message
  <2> QED
    BY <2>1, <2>2 DEF IInv, TypeOK
<1>2. InBuffer(m) \in Message
  BY <1>1 DEF InBuffer, Message
<1>3. InBuffer(m) # Free
  BY <1>2, MessageBuffersAssumption
<1>4. /\ InBuffer(m).tag = m.tag /\ InBuffer(m).key = m.key /\ InBuffer(m).data = m.data
      /\ InBuffer(m).ownBuf = FALSE
  BY <1>1 DEF InBuffer, Message
<1>5. SizeOf(m) \in 1 .. MaxCap
  BY <1>1, MessageBuffersAssumption DEF SizeOf
<1> QED
  BY <1>1, <1>2, <1>3, <1>4, <1>5

\* The message is put into recvBuf at b: the old one or a new one.
LEMMA RecvKeeps == ASSUME IInv, Recv PROVE IInv'
<1>1. PICK m \in Incoming :
        IF SizeOf(m) > cap
          THEN Grow(m)
          ELSE heap' = [heap EXCEPT ![buf] = InBuffer(m)] /\ UNCHANGED <<buf, cap>>
  BY DEF Recv, MPI_GET_COUNT
<1>2. /\ pc = "recv" /\ next' = buf' /\ pc' = "assign"
      /\ UNCHANGED <<role, msg, blocks, held, last, undefined>>
  BY DEF Recv
<1>3. /\ m \in Message /\ SizeOf(m) \in 1 .. MaxCap
      /\ role = "manager" => m.tag = "STORE_BLOCK"
      /\ m.tag = "STORE_BLOCK" => m.key \in BlockKeys /\ m.data \in Data
      /\ InBuffer(m) \in Message /\ InBuffer(m) # Free
      /\ InBuffer(m).tag = m.tag /\ InBuffer(m).key = m.key /\ InBuffer(m).data = m.data
      /\ InBuffer(m).ownBuf = FALSE
  BY <1>2, IncomingType
<1> DEFINE r == InBuffer(m)
<1>4. /\ buf' \in Addr /\ cap' \in 1 .. MaxCap
      /\ heap' = [x \in Addr |-> IF x = buf' THEN r ELSE IF x = buf THEN Free ELSE heap[x]]
      /\ buf' = buf \/ heap[buf'] = Free
  <2>1. CASE SizeOf(m) > cap
    BY <1>1, <1>3, <2>1 DEF Grow, MPI_GET_COUNT, Unused, IInv, TypeOK
  <2>2. CASE ~(SizeOf(m) > cap)
    <3>1. cap # 0 /\ buf # Null /\ buf \in Addr
      BY <1>3, <2>2 DEF IInv, TypeOK, Places
    <3> QED
      BY <1>1, <1>3, <2>2, <3>1 DEF IInv, TypeOK, Sound
  <2> QED
    BY <2>1, <2>2
<1> HIDE DEF r
<1>5. /\ r \in Message /\ r # Free /\ r.ownBuf = FALSE
      /\ role = "manager" => r.tag = "STORE_BLOCK"
      /\ r.tag = "STORE_BLOCK" => r.key \in BlockKeys /\ r.data \in Data
  BY <1>3 DEF r
<1>6. TypeOK'
  BY <1>2, <1>4, <1>5, MessageBuffersAssumption DEF IInv, TypeOK
<1>7. Sound(heap, buf, blocks, held, last)
  BY DEF IInv
<1>11. \A a \in Addr : heap[a] # Free /\ heap[a].ownBuf = TRUE => heap'[a] = heap[a]
  BY <1>4, <1>7, MessageBuffersAssumption DEF Sound
<1>8. Sound(heap', buf', blocks', held', last')
  <2>1. heap' \in [Addr -> Message \cup {Free}]
    BY <1>6 DEF TypeOK
  <2>2. \A a \in Addr : heap'[a] # Free /\ heap'[a].tag = "STORE_BLOCK" =>
          heap'[a].key \in BlockKeys /\ heap'[a].data \in Data
    BY <1>4, <1>5, <1>7 DEF Sound
  <2>3. \A a \in Addr : heap'[a] # Free => heap'[a].ownBuf = TRUE \/ a = buf'
    BY <1>4, <1>7 DEF Sound
  <2>4. heap'[buf'] # Free /\ heap'[buf'].ownBuf = FALSE
    BY <1>4, <1>5
  <2>6. \A k \in BlockKeys : blocks'[k] # Null =>
          /\ blocks'[k] \in Addr /\ heap'[blocks'[k]] # Free
          /\ heap'[blocks'[k]] = Create("STORE_BLOCK", k, last'[k])
    <3> SUFFICES ASSUME NEW k \in BlockKeys, blocks[k] # Null
                 PROVE  /\ blocks[k] \in Addr /\ heap'[blocks[k]] # Free
                        /\ heap'[blocks[k]] = Create("STORE_BLOCK", k, last[k])
      BY <1>2
    <3>1. /\ blocks[k] \in Addr /\ heap[blocks[k]] # Free
          /\ heap[blocks[k]] = Create("STORE_BLOCK", k, last[k])
      BY <1>7 DEF Sound
    <3>2. heap[blocks[k]].ownBuf = TRUE
      BY <3>1 DEF Create
    <3> QED
      BY <1>11, <3>1, <3>2
  <2>7. held' # Null => held' \in Addr /\ heap'[held'] # Free /\ heap'[held'].ownBuf = TRUE
    BY <1>2, <1>7, <1>11 DEF Sound
  <2> QED
    BY <1>4, <2>1, <2>2, <2>3, <2>4, <2>6, <2>7 DEF Sound
<1>9. Used'
  <2>1. next = Null
    BY <1>2 DEF IInv, Places
  <2>2. \A a \in Addr : heap'[a] # Free => a = buf' \/ (a # buf /\ heap[a] # Free)
    BY <1>4
  <2> QED
    BY <1>2, <2>1, <2>2, MessageBuffersAssumption DEF IInv, Used
<1>10. Places'
  <2>1. buf' # Null /\ cap' # 0
    BY <1>4, MessageBuffersAssumption
  <2>2. role = "manager" => heap'[msg] = heap[msg]
    BY <1>2, <1>11 DEF IInv, Places
  <2>3. role = "manager" => heap'[next'].tag = "STORE_BLOCK"
    BY <1>2, <1>4, <1>5
  <2> QED
    BY <1>2, <2>1, <2>2, <2>3 DEF IInv, Places
<1> QED
  BY <1>6, <1>8, <1>9, <1>10 DEF IInv

\* What msg = recv() deletes is not what the caller goes on with.
LEMMA AssignKeeps == ASSUME IInv, Assign PROVE IInv'
<1>1. /\ pc = "assign" /\ msg' = next /\ next' = Null /\ pc' \in {"over", "handle"}
      /\ heap' = Deleted(heap, Range(blocks) \cup {held, next})
      /\ UNCHANGED <<role, buf, cap, blocks, held, last>>
  BY DEF Assign
<1>2. undefined' \in BOOLEAN
  BY DEF Assign
<1>3. next = buf /\ buf # Null
  BY <1>1 DEF IInv, Places
<1>4. blocks \in [BlockKeys -> Addr \cup {Null}] /\ Sound(heap, buf, blocks, held, last)
  BY DEF IInv, TypeOK
<1>5. /\ Sound(heap', buf', blocks', held', last')
      /\ \A a \in Addr : heap'[a] # Free => a \in Range(blocks') \cup {held', msg', buf'}
  BY <1>1, <1>4, DeletedIsSound
<1>6. TypeOK'
  BY <1>1, <1>2, <1>5 DEF IInv, TypeOK, Sound
<1>7. Used'
  BY <1>5 DEF Used
<1>8. Places'
  <2>1. heap'[next] = heap[next]
    BY <1>1, <1>3, <1>4, DeletedOf DEF Sound
  <2> QED
    BY <1>1, <1>3, <2>1 DEF IInv, Places, TypeOK
<1> QED
  BY <1>5, <1>6, <1>7, <1>8 DEF IInv

\* A message put into a buffer nobody uses, to be cached, held or sent: the heap
\* stays sound.
LEMMA NewIsSound ==
  ASSUME NEW h, NEW b, NEW bl, NEW hd, NEW la, NEW a \in Addr, NEW m \in Message,
         Sound(h, b, bl, hd, la), h[a] = Free,
         m.tag = "STORE_BLOCK" => m.key \in BlockKeys /\ m.data \in Data,
         m.ownBuf = TRUE
  PROVE  /\ Sound([h EXCEPT ![a] = m], b, bl, hd, la)
         /\ [h EXCEPT ![a] = m][a] = m /\ m # Free
         /\ \A x \in Addr : h[x] # Free => [h EXCEPT ![a] = m][x] = h[x]
<1> DEFINE g == [h EXCEPT ![a] = m]
<1>1. h \in [Addr -> Message \cup {Free}] /\ m # Free
  BY MessageBuffersAssumption DEF Sound
<1>2. /\ g \in [Addr -> Message \cup {Free}] /\ g[a] = m
      /\ \A x \in Addr : x # a => g[x] = h[x]
  BY <1>1
<1> HIDE DEF g
<1>3. \A x \in Addr : h[x] # Free => g[x] = h[x]
  BY <1>2
<1>4. Sound(g, b, bl, hd, la)
  BY <1>1, <1>2, <1>3 DEF Sound
<1> QED
  BY <1>1, <1>2, <1>3, <1>4 DEF g

LEMMA StoreType ==
  ASSUME NEW k \in BlockKeys, NEW d \in Data
  PROVE  LET m == Create("STORE_BLOCK", k, d) IN
         m \in Message /\ m.tag = "STORE_BLOCK" /\ m.key = k /\ m.data = d /\ m.ownBuf = TRUE
BY DEF Create, Message

\* Another block in the cache: at an address whose message is the one stored.
LEMMA CacheIsSound ==
  ASSUME NEW h, NEW b, NEW bl \in [BlockKeys -> Addr \cup {Null}], NEW hd,
         NEW la \in [BlockKeys -> Data \cup {Null}],
         NEW a \in Addr, NEW k \in BlockKeys, NEW d \in Data,
         Sound(h, b, bl, hd, la), h[a] # Free, h[a] = Create("STORE_BLOCK", k, d)
  PROVE  /\ Sound(h, b, [bl EXCEPT ![k] = a], hd, [la EXCEPT ![k] = d])
         /\ [bl EXCEPT ![k] = a] \in [BlockKeys -> Addr \cup {Null}]
         /\ [la EXCEPT ![k] = d] \in [BlockKeys -> Data \cup {Null}]
<1> DEFINE c == [bl EXCEPT ![k] = a]
           l == [la EXCEPT ![k] = d]
<1>1. /\ c \in [BlockKeys -> Addr \cup {Null}] /\ c[k] = a
      /\ l \in [BlockKeys -> Data \cup {Null}] /\ l[k] = d
      /\ \A x \in BlockKeys : x # k => c[x] = bl[x] /\ l[x] = la[x]
  OBVIOUS
<1> HIDE DEF c, l
<1>2. \A x \in BlockKeys : c[x] # Null =>
        c[x] \in Addr /\ h[c[x]] # Free /\ h[c[x]] = Create("STORE_BLOCK", x, l[x])
  <2> SUFFICES ASSUME NEW x \in BlockKeys, c[x] # Null
               PROVE  c[x] \in Addr /\ h[c[x]] # Free /\ h[c[x]] = Create("STORE_BLOCK", x, l[x])
    OBVIOUS
  <2>1. CASE x = k
    BY <1>1, <2>1
  <2>2. CASE x # k
    BY <1>1, <2>2 DEF Sound
  <2> QED
    BY <2>1, <2>2
<1>3. Sound(h, b, c, hd, l)
  BY <1>2 DEF Sound
<1> QED
  BY <1>1, <1>3 DEF c, l

\* What is received is cloned before it is cached.
LEMMA StoreCacheBlockKeeps == ASSUME IInv, StoreCacheBlock PROVE IInv'
<1> DEFINE k == heap[msg].key
           d == heap[msg].data
<1>1. /\ pc = "handle" /\ heap[msg].tag = "STORE_BLOCK"
      /\ last' = [last EXCEPT ![k] = d]
      /\ pc' = IF role = "worker" THEN "recv" ELSE "return"
      /\ UNCHANGED <<role, buf, cap, msg, next, held, undefined>>
  BY DEF StoreCacheBlock, Handles
<1>2. msg = buf /\ buf # Null /\ next = Null
  BY <1>1 DEF IInv, Places
<1>3. Sound(heap, buf, blocks, held, last) /\ TypeOK
  BY DEF IInv
<1>4. msg \in Addr /\ heap[msg] # Free /\ heap[msg].ownBuf = FALSE
  BY <1>2, <1>3 DEF Sound
<1>5. k \in BlockKeys /\ d \in Data
  BY <1>1, <1>3, <1>4 DEF Sound
<1> DEFINE m == Clone(heap[msg])
<1>6. PICK a \in Unused :
        /\ blocks' = [blocks EXCEPT ![k] = a]
        /\ heap' = Deleted([heap EXCEPT ![a] = m], Range(blocks') \cup {held, msg})
  <2>1. PICK keep \in Kept :
          /\ blocks' = [blocks EXCEPT ![k] = keep[1]]
          /\ heap' = Deleted(keep[2], Range(blocks') \cup {held, msg})
    BY DEF StoreCacheBlock
  <2>2. PICK a \in Unused : keep = <<a, [heap EXCEPT ![a] = m]>>
    BY <1>4 DEF Kept
  <2> QED
    BY <2>1, <2>2
<1> DEFINE h == [heap EXCEPT ![a] = m]
<1>7. m = Create("STORE_BLOCK", k, d)
  BY <1>1 DEF Clone
<1> HIDE DEF m, k, d
<1>8. a \in Addr /\ heap[a] = Free
  BY DEF Unused
<1>9. m \in Message /\ m.tag = "STORE_BLOCK" /\ m.key = k /\ m.data = d /\ m.ownBuf = TRUE
  BY <1>5, <1>7, StoreType
<1>10. /\ Sound(h, buf, blocks, held, last) /\ h[a] = m /\ m # Free
       /\ \A x \in Addr : heap[x] # Free => h[x] = heap[x]
  <2>1. Sound(heap, buf, blocks, held, last)
    BY <1>3
  <2>2. m.tag = "STORE_BLOCK" => m.key \in BlockKeys /\ m.data \in Data
    BY <1>5, <1>9
  <2> HIDE DEF h
  <2>3. a \in Addr /\ heap[a] = Free /\ m \in Message /\ m.ownBuf = TRUE
    BY <1>8, <1>9
  <2>4. /\ Sound([heap EXCEPT ![a] = m], buf, blocks, held, last)
        /\ [heap EXCEPT ![a] = m][a] = m /\ m # Free
        /\ \A x \in Addr : heap[x] # Free => [heap EXCEPT ![a] = m][x] = heap[x]
    BY <2>1, <2>2, <2>3, NewIsSound
  <2> QED
    BY <2>4 DEF h
<1> HIDE DEF h
<1>11. /\ Sound(h, buf, blocks', held, last')
       /\ blocks' \in [BlockKeys -> Addr \cup {Null}] /\ last' \in [BlockKeys -> Data \cup {Null}]
  BY <1>1, <1>3, <1>5, <1>6, <1>7, <1>8, <1>10, CacheIsSound DEF TypeOK
<1>12. heap' = Deleted(h, Range(blocks') \cup {held, msg})
  BY <1>6 DEF h
<1>13. /\ Sound(heap', buf, blocks', held, last')
       /\ \A x \in Addr : heap'[x] # Free => x \in Range(blocks') \cup {held, msg, buf}
  <2> DEFINE p == Range(blocks') \cup {held, msg}
  <2>1. Range(blocks') \cup {held} \subseteq p
    OBVIOUS
  <2>2. heap' = Deleted(h, p)
    BY <1>12
  <2> HIDE DEF p
  <2>3. /\ Sound(Deleted(h, p), buf, blocks', held, last')
        /\ \A x \in Addr : Deleted(h, p)[x] # Free => x \in p \cup {buf}
    BY <1>11, <2>1, DeletedIsSound
  <2> QED
    BY <2>2, <2>3 DEF p
<1>14. TypeOK'
  BY <1>1, <1>3, <1>11, <1>13 DEF TypeOK, Sound
<1>15. Used'
  BY <1>1, <1>13 DEF Used
<1>16. Places'
  <2>1. heap'[msg] = heap[msg]
    BY <1>4, <1>10, <1>11, <1>12, DeletedOf DEF Sound
  <2>2. blocks'[k] # Null
    BY <1>3, <1>5, <1>6, <1>8, MessageBuffersAssumption DEF TypeOK
  <2>3. role = "manager" => pc' = "return"
    BY <1>1
  <2> QED
    BY <1>1, <1>2, <1>3, <1>5, <2>1, <2>2, <2>3 DEF IInv, Places, TypeOK, k
<1> QED
  BY <1>1, <1>13, <1>14, <1>15, <1>16 DEF IInv

LEMMA FinishKeeps == ASSUME IInv, Finish \/ SendCacheBlock PROVE IInv'
<1>1. CASE SendCacheBlock
  <2>1. /\ pc = "handle" /\ pc' = "recv" /\ heap[msg].tag = "GET_BLOCK"
        /\ UNCHANGED <<role, heap, buf, cap, msg, next, blocks, held, last, undefined>>
    BY <1>1 DEF SendCacheBlock, Handles
  <2> QED
    BY <2>1 DEF IInv, TypeOK, Used, Places
<1>2. CASE Finish
  <2>1. /\ pc = "handle" /\ pc' = "over" /\ msg' = Null
        /\ heap' = Deleted(heap, Range(blocks) \cup {held})
        /\ UNCHANGED <<role, buf, cap, next, blocks, held, last, undefined>>
    BY <1>2 DEF Finish, Handles
  <2>2. blocks \in [BlockKeys -> Addr \cup {Null}] /\ Sound(heap, buf, blocks, held, last)
    BY DEF IInv, TypeOK
  <2> DEFINE p == Range(blocks) \cup {held}
  <2>6. /\ Sound(Deleted(heap, p), buf, blocks, held, last)
        /\ \A a \in Addr : Deleted(heap, p)[a] # Free => a \in p \cup {buf}
    <3>1. Range(blocks) \cup {held} \subseteq p
      OBVIOUS
    <3> HIDE DEF p
    <3> QED
      BY <2>2, <3>1, DeletedIsSound
  <2>3. /\ Sound(heap', buf', blocks', held', last')
        /\ \A a \in Addr : heap'[a] # Free => a \in Range(blocks) \cup {held, buf}
    BY <2>1, <2>6
  <2>4. TypeOK'
    BY <2>1, <2>3 DEF IInv, TypeOK, Sound
  <2>5. Used' /\ Places'
    BY <2>1, <2>3 DEF Used, Places, IInv
  <2> QED
    BY <2>3, <2>4, <2>5 DEF IInv
<1> QED
  BY <1>1, <1>2

\* Any cached block may become prevMsg.
LEMMA CachedIsOwn ==
  ASSUME NEW h, NEW b, NEW bl, NEW hd, NEW la, NEW k \in BlockKeys,
         Sound(h, b, bl, hd, la), bl[k] # Null
  PROVE  /\ bl[k] \in Addr /\ h[bl[k]] # Free /\ h[bl[k]].ownBuf = TRUE
         /\ Sound(h, b, bl, bl[k], la)
<1>1. bl[k] \in Addr /\ h[bl[k]] # Free /\ h[bl[k]] = Create("STORE_BLOCK", k, la[k])
  BY DEF Sound
<1>2. h[bl[k]].ownBuf = TRUE
  BY <1>1 DEF Create
<1> QED
  BY <1>1, <1>2 DEF Sound

\* The manager's program: StoreFresh(), whose old block and old prevMsg may go.
LEMMA StoreFreshKeeps ==
  ASSUME IInv, role = "manager", NEW k \in BlockKeys, NEW d \in Data, StoreFresh(k, d)
  PROVE  IInv'
<1> DEFINE m == Create("STORE_BLOCK", k, d)
<1>1. PICK a \in Unused :
        /\ blocks' = [blocks EXCEPT ![k] = a] /\ held' = a
        /\ heap' = Deleted([heap EXCEPT ![a] = m], Range(blocks') \cup {a})
  BY DEF StoreFresh
<1>2. /\ pc = "app" /\ last' = [last EXCEPT ![k] = d]
      /\ UNCHANGED <<role, pc, buf, cap, msg, next, undefined>>
  BY DEF StoreFresh
<1>3. /\ Sound(heap, buf, blocks, held, last) /\ a \in Addr /\ heap[a] = Free
      /\ blocks \in [BlockKeys -> Addr \cup {Null}] /\ last \in [BlockKeys -> Data \cup {Null}]
  BY DEF IInv, TypeOK, Unused
<1>4. m \in Message /\ m.tag = "STORE_BLOCK" /\ m.key = k /\ m.data = d /\ m.ownBuf = TRUE
  BY StoreType
<1>14. m = Create("STORE_BLOCK", k, d)
  OBVIOUS
<1> HIDE DEF m
<1> DEFINE h == [heap EXCEPT ![a] = m]
           p == Range(blocks') \cup {a}
<1>5. Sound(h, buf, blocks, held, last) /\ h[a] = m /\ m # Free
  <2> HIDE DEF h
  <2>1. m.tag = "STORE_BLOCK" => m.key \in BlockKeys /\ m.data \in Data
    BY <1>4
  <2>2. a \in Addr /\ heap[a] = Free /\ m \in Message /\ m.ownBuf = TRUE
    BY <1>3, <1>4
  <2>3. Sound(heap, buf, blocks, held, last)
    BY <1>3
  <2>4. /\ Sound([heap EXCEPT ![a] = m], buf, blocks, held, last)
        /\ [heap EXCEPT ![a] = m][a] = m /\ m # Free
    BY <2>1, <2>2, <2>3, NewIsSound
  <2> QED
    BY <2>4 DEF h
<1>6. heap' = Deleted(h, p)
  BY <1>1 DEF h, p
<1> HIDE DEF h, p
<1>7. /\ Sound(h, buf, blocks', held, last')
      /\ blocks' \in [BlockKeys -> Addr \cup {Null}] /\ last' \in [BlockKeys -> Data \cup {Null}]
  BY <1>1, <1>2, <1>3, <1>5, <1>14, CacheIsSound
<1>8. Sound(h, buf, blocks', held', last')
  BY <1>1, <1>3, <1>4, <1>5, <1>7 DEF Sound
<1>9. Range(blocks') \cup {held'} \subseteq p
  BY <1>1 DEF p
<1>10. /\ Sound(heap', buf', blocks', held', last')
       /\ \A x \in Addr : heap'[x] # Free => x \in p \cup {buf}
  <2>1. blocks' \in [BlockKeys -> Addr \cup {Null}]
    BY <1>7
  <2>2. /\ Sound(Deleted(h, p), buf, blocks', held', last')
        /\ \A x \in Addr : Deleted(h, p)[x] # Free => x \in p \cup {buf}
    BY <1>8, <1>9, <2>1, DeletedIsSound
  <2> QED
    BY <1>2, <1>6, <2>2
<1>11. TypeOK'
  <2>1. heap' \in [Addr -> Message \cup {Free}]
    BY <1>10 DEF Sound
  <2>2. held' = a /\ a \in Addr
    BY <1>1, <1>3
  <2> QED
    BY <1>2, <1>7, <2>1, <2>2 DEF IInv, TypeOK
<1>12. Used'
  BY <1>1, <1>2, <1>10 DEF Used, p
<1>13. Places'
  BY <1>2 DEF IInv, Places
<1> QED
  BY <1>10, <1>11, <1>12, <1>13 DEF IInv

\* prevMsg of a block that is there, and the block an eviction drops.
LEMMA HoldKeeps ==
  ASSUME IInv, role = "manager", NEW k \in BlockKeys, Hold(k)
  PROVE  IInv'
<1> DEFINE p == Range(blocks) \cup {blocks[k]}
<1>1. /\ pc = "app" /\ blocks[k] # Null /\ held' = blocks[k] /\ heap' = Deleted(heap, p)
      /\ UNCHANGED <<role, pc, buf, cap, msg, next, blocks, last, undefined>>
  BY DEF Hold
<1>2. Sound(heap, buf, blocks, held, last) /\ blocks \in [BlockKeys -> Addr \cup {Null}]
  BY DEF IInv, TypeOK
<1>3. Sound(heap, buf, blocks, blocks[k], last)
  BY <1>1, <1>2, CachedIsOwn
<1>4. Range(blocks) \cup {blocks[k]} \subseteq p
  OBVIOUS
<1> HIDE DEF p
<1>5. /\ Sound(Deleted(heap, p), buf, blocks, blocks[k], last)
      /\ \A x \in Addr : Deleted(heap, p)[x] # Free => x \in p \cup {buf}
  BY <1>2, <1>3, <1>4, DeletedIsSound
<1>6. /\ Sound(heap', buf', blocks', held', last')
      /\ \A x \in Addr : heap'[x] # Free => x \in p \cup {buf}
  BY <1>1, <1>5
<1>7. TypeOK'
  BY <1>1, <1>2, <1>6 DEF IInv, TypeOK, Sound
<1>8. Used'
  BY <1>1, <1>6 DEF Used, p
<1>9. Places'
  BY <1>1 DEF IInv, Places
<1> QED
  BY <1>6, <1>7, <1>8, <1>9 DEF IInv

LEMMA EvictKeeps ==
  ASSUME IInv, role = "manager", NEW k \in BlockKeys, Evict(k)
  PROVE  IInv'
<1> DEFINE c == [blocks EXCEPT ![k] = Null]
           p == Range(c) \cup {held}
<1>1. /\ pc = "app" /\ blocks' = c /\ heap' = Deleted(heap, p)
      /\ UNCHANGED <<role, pc, buf, cap, msg, next, held, last, undefined>>
  BY DEF Evict
<1>2. Sound(heap, buf, blocks, held, last) /\ blocks \in [BlockKeys -> Addr \cup {Null}]
  BY DEF IInv, TypeOK
<1>3. /\ c \in [BlockKeys -> Addr \cup {Null}]
      /\ \A x \in BlockKeys : c[x] # Null => c[x] = blocks[x]
  BY <1>2
<1>4. Range(c) \cup {held} \subseteq p
  OBVIOUS
<1> HIDE DEF c, p
<1>5. Sound(heap, buf, c, held, last)
  BY <1>2, <1>3 DEF Sound
<1>6. /\ Sound(Deleted(heap, p), buf, c, held, last)
      /\ \A x \in Addr : Deleted(heap, p)[x] # Free => x \in p \cup {buf}
  BY <1>3, <1>4, <1>5, DeletedIsSound
<1>7. /\ Sound(heap', buf', blocks', held', last')
      /\ \A x \in Addr : heap'[x] # Free => x \in p \cup {buf}
  BY <1>1, <1>6
<1>8. TypeOK'
  BY <1>1, <1>3, <1>7 DEF IInv, TypeOK, Sound
<1>9. Used'
  BY <1>1, <1>7 DEF Used, p
<1>10. Places'
  BY <1>1 DEF IInv, Places
<1> QED
  BY <1>7, <1>8, <1>9, <1>10 DEF IInv

\* The request lies in a buffer of its own, which only ret points to.
LEMMA AskKeeps ==
  ASSUME IInv, role = "manager", NEW k \in BlockKeys, Ask(k)
  PROVE  IInv'
<1> DEFINE m == Create("GET_BLOCK", k, Null)
<1>1. PICK a \in Unused : msg' = a /\ heap' = [heap EXCEPT ![a] = m]
  BY DEF Ask
<1>2. /\ pc = "app" /\ pc' = "recv"
      /\ UNCHANGED <<role, buf, cap, next, blocks, held, last, undefined>>
  BY DEF Ask
<1>3. Sound(heap, buf, blocks, held, last) /\ a \in Addr /\ heap[a] = Free
  BY DEF IInv, Unused
<1>4. m \in Message /\ m.tag = "GET_BLOCK" /\ m.key = k /\ m.ownBuf = TRUE
  BY DEF Create, Message
<1> HIDE DEF m
<1>5. /\ Sound(heap', buf, blocks, held, last) /\ heap'[a] = m /\ m # Free
      /\ \A x \in Addr : heap[x] # Free => heap'[x] = heap[x]
  <2>1. m.tag = "STORE_BLOCK" => m.key \in BlockKeys /\ m.data \in Data
    BY <1>4
  <2>2. /\ Sound([heap EXCEPT ![a] = m], buf, blocks, held, last)
        /\ [heap EXCEPT ![a] = m][a] = m /\ m # Free
        /\ \A x \in Addr : heap[x] # Free => [heap EXCEPT ![a] = m][x] = heap[x]
    BY <1>3, <1>4, <2>1, NewIsSound
  <2> QED
    BY <1>1, <2>2
<1>6. Sound(heap', buf', blocks', held', last')
  BY <1>2, <1>5
<1>7. TypeOK'
  BY <1>1, <1>2, <1>3, <1>6 DEF IInv, TypeOK, Sound
<1>8. Used'
  <2>1. msg = Null
    BY <1>2 DEF IInv, Places
  <2>2. \A x \in Addr : heap'[x] # Free => x = a \/ heap[x] # Free
    BY <1>1, <1>3 DEF Sound
  <2> QED
    BY <1>1, <1>2, <2>1, <2>2, MessageBuffersAssumption DEF IInv, Used
<1>9. Places'
  BY <1>1, <1>2, <1>3, <1>4, <1>5 DEF IInv, Places
<1> QED
  BY <1>6, <1>7, <1>8, <1>9 DEF IInv

\* prevMsg is what the cache holds, not what was received.
LEMMA ReturnKeeps == ASSUME IInv, role = "manager", Return PROVE IInv'
<1> DEFINE k == heap[msg].key
           p == Range(blocks) \cup {blocks[k]}
<1>1. /\ pc = "return" /\ pc' = "app" /\ held' = blocks[k] /\ msg' = Null
      /\ heap' = Deleted(heap, p)
      /\ UNCHANGED <<role, buf, cap, next, blocks, last, undefined>>
  BY DEF Return
<1>2. Sound(heap, buf, blocks, held, last) /\ blocks \in [BlockKeys -> Addr \cup {Null}]
  BY DEF IInv, TypeOK
<1>3. k \in BlockKeys /\ blocks[k] # Null /\ next = Null
  BY <1>1 DEF IInv, Places
<1> HIDE DEF k
<1>4. Sound(heap, buf, blocks, blocks[k], last)
  BY <1>2, <1>3, CachedIsOwn
<1>5. Range(blocks) \cup {blocks[k]} \subseteq p
  OBVIOUS
<1> HIDE DEF p
<1>6. /\ Sound(Deleted(heap, p), buf, blocks, blocks[k], last)
      /\ \A x \in Addr : Deleted(heap, p)[x] # Free => x \in p \cup {buf}
  BY <1>2, <1>4, <1>5, DeletedIsSound
<1>7. /\ Sound(heap', buf', blocks', held', last')
      /\ \A x \in Addr : heap'[x] # Free => x \in p \cup {buf}
  BY <1>1, <1>6
<1>8. TypeOK'
  BY <1>1, <1>2, <1>3, <1>7 DEF IInv, TypeOK, Sound
<1>9. Used'
  BY <1>1, <1>7 DEF Used, p
<1>10. Places'
  BY <1>1, <1>3 DEF IInv, Places
<1> QED
  BY <1>7, <1>8, <1>9, <1>10 DEF IInv
-------------------------------------------------------------------------------
LEMMA NextKeeps == IInv /\ [Next]_vars => IInv'
<1> SUFFICES ASSUME IInv, [Next]_vars PROVE IInv'
  OBVIOUS
<1>1. CASE UNCHANGED vars
  BY <1>1 DEF vars, IInv, TypeOK, Used, Places
<1>2. CASE Recv
  BY <1>2, RecvKeeps
<1>3. CASE Assign
  BY <1>3, AssignKeeps
<1>4. CASE StoreCacheBlock
  BY <1>4, StoreCacheBlockKeeps
<1>5. CASE SendCacheBlock \/ Finish
  BY <1>5, FinishKeeps
<1>6. CASE Program
  BY <1>6, HoldKeeps, EvictKeeps, AskKeeps, StoreFreshKeeps, ReturnKeeps DEF Program
<1> QED
  BY <1>1, <1>2, <1>3, <1>4, <1>5, <1>6 DEF Next, Over

LEMMA BuffersInductive == Spec => []IInv
BY InitIsSound, NextKeeps, PTL DEF Spec

\* Every variable has its type whatever is received and evicted: the capacity of
\* recvBuf in particular stays within its bound and no pointer leaves the heap.
THEOREM BuffersTyped == Spec => []TypeOK
BY BuffersInductive, PTL DEF IInv

\* A block in the cache (storeCacheBlock(), CacheWorker.cpp) keeps the contents it was
\* stored with and a buffer of its own, whatever recv() puts into recvBuf afterwards.
THEOREM CacheOwnership == Spec => []CacheOwnsItsBlocks
<1>1. IInv => CacheOwnsItsBlocks
  BY DEF IInv, Sound, CacheOwnsItsBlocks
<1> QED
  BY <1>1, BuffersInductive, PTL

\* MessageDeleter (Message.h) frees no buffer in use and leaves none behind.
THEOREM OwnersAndBuffers == Spec => []BuffersHaveOwners
<1>1. ASSUME IInv PROVE BuffersHaveOwners
  <2> DEFINE owners == (Range(blocks) \cup {buf, held}) \ {Null}
             used   == {a \in Addr : heap[a] # Free}
  <2>1. owners \subseteq used
    <3> SUFFICES ASSUME NEW a \in owners PROVE a \in used
      OBVIOUS
    <3>1. CASE a \in {buf, held}
      BY <1>1, <3>1 DEF IInv, Sound
    <3>2. CASE a \in Range(blocks)
      <4>1. PICK k \in BlockKeys : a = blocks[k]
        BY <1>1, <3>2 DEF IInv, TypeOK, Range
      <4> QED
        BY <1>1, <4>1 DEF IInv, Sound
    <3> QED
      BY <3>1, <3>2
  <2>2. used \subseteq owners \cup {msg, next}
    BY <1>1, MessageBuffersAssumption DEF IInv, Used
  <2> QED
    BY <2>1, <2>2 DEF BuffersHaveOwners
<1> QED
  BY <1>1, BuffersInductive, PTL
-------------------------------------------------------------------------------
(* The bytes of elements. *)


\* Division with remainder, as indexCalculation uses it.
LEMMA Division ==
  ASSUME NEW n \in Nat, NEW d \in Nat \ {0}
  PROVE  /\ n \div d \in Nat /\ n % d \in 0 .. d - 1
         /\ n = (n \div d) * d + (n % d)
  OBVIOUS

\* A product grows with its first factor.
LEMMA ProductMonotone ==
  ASSUME NEW a \in Nat, NEW b \in Nat, NEW c \in Nat, a < b
  PROVE  a * c + c <= b * c
<1>1. PICK d \in Nat : b = a + 1 + d
  <2> b - a - 1 \in Nat /\ b = a + 1 + (b - a - 1)
    OBVIOUS
  <2> QED
    OBVIOUS
<1>2. b * c = a * c + c + d * c
  BY <1>1
<1>3. d * c \in Nat /\ a * c \in Nat
  BY <1>1
<1> QED
  BY <1>2, <1>3

\* getKey gives two blocks one key only if they are the same, as long as the tags
\* have 32 bits.
LEMMA KeysApart ==
  ASSUME NEW d1 \in 0 .. Half - 1, NEW d2 \in 0 .. Half - 1,
         NEW t1 \in 0 .. Half - 1, NEW t2 \in 0 .. Half - 1,
         Key(d1, t1) = Key(d2, t2)
  PROVE  d1 = d2 /\ t1 = t2
<1>1. Half \in Nat \ {0}
  BY BlockIndexAssumption
<1>2. /\ d1 % Half = d1 /\ d2 % Half = d2
      /\ t1 % Half = t1 /\ t2 % Half = t2
  BY <1>1
<1>3. d1 * Half + t1 = d2 * Half + t2
  BY <1>2 DEF Key
<1>4. ~(d1 < d2)
  BY <1>1, <1>3, ProductMonotone
<1>5. ~(d2 < d1)
  BY <1>1, <1>3, ProductMonotone
<1> QED
  BY <1>1, <1>3, <1>4, <1>5

\* Every tag has its key among KeyNumbers.
LEMMA KeyType ==
  ASSUME NEW d \in Nat, NEW t \in Nat
  PROVE  Key(d, t) \in KeyNumbers
<1>1. Half \in Nat \ {0}
  BY BlockIndexAssumption
<1>2. d % Half \in 0 .. Half - 1 /\ t % Half \in 0 .. Half - 1
  BY <1>1
<1> DEFINE a == d % Half
           b == t % Half
<1>3. a * Half + Half <= Half * Half
  BY <1>1, <1>2, ProductMonotone
<1>4. a * Half \in Nat
  BY <1>1, <1>2
<1> QED
  BY <1>1, <1>2, <1>3, <1>4 DEF Key, KeyNumbers
-------------------------------------------------------------------------------
\* What the variables are: the parts of the invariant that the proof needs.
Sized == /\ BlockSize \in Nat \ {0} /\ typeSize \in Nat \ {0}
         /\ Indices \subseteq Nat /\ DsTags \subseteq 0 .. Half - 1

LEMMA SizesAreSized ==
  ASSUME userSize \in UserBlockSizes, typeSize \in TypeSizes
  PROVE  Sized
BY BlockIndexAssumption DEF Sized, BlockSize, Indices

\* An element begins in its block, at its offset.
LEMMA Splits ==
  ASSUME Sized, NEW i \in Nat
  PROVE  /\ Offset(i) \in Nat /\ Tag(i) \in Nat /\ ByteOf(i) \in 0 .. BlockSize - 1
         /\ Offset(i) = Tag(i) * BlockSize + ByteOf(i)
<1>1. Offset(i) \in Nat
  BY DEF Offset, Sized
<1>2. BlockSize \in Nat \ {0}
  BY DEF Sized
<1> QED
  BY <1>1, <1>2, Division DEF Tag, ByteOf

\* It ends there too, if its size divides that of the block.
LEMMA EndsInside ==
  ASSUME Sized, NEW i \in Nat, BlockSize % typeSize = 0
  PROVE  ByteOf(i) + typeSize <= BlockSize
<1> DEFINE q == BlockSize \div typeSize
           t == Tag(i)
           r == ByteOf(i)
<1>1. BlockSize \in Nat \ {0} /\ typeSize \in Nat \ {0}
  BY DEF Sized
<1>2. q \in Nat /\ BlockSize = q * typeSize
  BY <1>1, Division
<1>3. /\ t \in Nat /\ r \in 0 .. BlockSize - 1
      /\ i * typeSize = t * BlockSize + r
  BY Splits DEF Offset
<1> HIDE DEF q, t, r
<1>4. i * typeSize = (t * q) * typeSize + r
  BY <1>1, <1>2, <1>3
<1>5. t * q \in Nat
  BY <1>2, <1>3
<1>6. PICK p \in Nat : p = t * q
  BY <1>5
<1>7. i * typeSize = p * typeSize + r
  BY <1>4, <1>6
<1>8. p <= i
  <2> SUFFICES ASSUME i < p PROVE FALSE
    BY <1>6
  <2>1. i * typeSize + typeSize <= p * typeSize
    BY <1>1, <1>6, ProductMonotone
  <2> QED
    BY <2>1, <1>1, <1>3, <1>6, <1>7
<1>9. PICK e \in Nat : i = p + e
  <2> i - p \in Nat /\ i = p + (i - p)
    BY <1>6, <1>8
  <2> QED
    OBVIOUS
<1>10. r = e * typeSize
  <2>1. i * typeSize = p * typeSize + e * typeSize
    BY <1>1, <1>6, <1>9
  <2> QED
    BY <2>1, <1>1, <1>3, <1>6, <1>7, <1>9
<1>11. e < q
  <2> SUFFICES ASSUME q <= e PROVE FALSE
    BY <1>2, <1>9
  <2>1. q * typeSize <= e * typeSize
    <3>1. CASE q = e
      BY <3>1, <1>1, <1>2
    <3>2. CASE q < e
      <4>1. q * typeSize + typeSize <= e * typeSize
        BY <3>2, <1>1, <1>2, <1>9, ProductMonotone
      <4> QED
        BY <4>1, <1>1, <1>2, <1>9
    <3> QED
      BY <3>1, <3>2, <1>2, <1>9
  <2> QED
    BY <2>1, <1>1, <1>2, <1>3, <1>10
<1>12. e * typeSize + typeSize <= q * typeSize
  BY <1>1, <1>2, <1>9, <1>11, ProductMonotone
<1> QED
  BY <1>2, <1>10, <1>12, <1>1, <1>3 DEF r

\* Two elements of a block do not share a byte.
LEMMA PlacesApart ==
  ASSUME Sized, NEW i \in Nat, NEW j \in Nat, i < j, Tag(i) = Tag(j)
  PROVE  ByteOf(i) + typeSize <= ByteOf(j)
<1>1. typeSize \in Nat \ {0} /\ BlockSize \in Nat \ {0}
  BY DEF Sized
<1>2. i * typeSize + typeSize <= j * typeSize
  BY <1>1, ProductMonotone
<1>3. /\ i * typeSize = Tag(i) * BlockSize + ByteOf(i)
      /\ j * typeSize = Tag(i) * BlockSize + ByteOf(j)
      /\ Tag(i) \in Nat /\ ByteOf(i) \in Nat /\ ByteOf(j) \in Nat
  BY Splits, <1>1 DEF Offset
<1> DEFINE x == i * typeSize
           y == j * typeSize
           z == Tag(i) * BlockSize
<1>4. x \in Nat /\ y \in Nat /\ z \in Nat
  BY <1>1, <1>3
<1>5. x + typeSize <= y /\ x = z + ByteOf(i) /\ y = z + ByteOf(j)
  BY <1>2, <1>3
<1> HIDE DEF x, y, z
<1> QED
  BY <1>1, <1>3, <1>4, <1>5
-------------------------------------------------------------------------------
(* The invariant. *)

\* What a write leaves: every byte named.
ElementKept(e) == \A b \in 0 .. typeSize - 1 :
             mem[Key(e[1], Tag(e[2]))][ByteOf(e[2]) + b] = <<e[1], e[2], b>>

\* Types hold: a payload has the bytes of its block and no others, however often
\* elements are written behind its end.
THEOREM BytesTyped == BytesSpec => []BytesTypeOK
<1>1. BytesInit => BytesTypeOK
  BY DEF BytesInit, BytesTypeOK
<1>2. BytesTypeOK /\ [BytesNext]_bytesVars => BytesTypeOK'
  <2> SUFFICES ASSUME BytesTypeOK, [BytesNext]_bytesVars PROVE BytesTypeOK'
    OBVIOUS
  <2>1. ASSUME NEW ds \in DsTags, NEW i \in Indices, Write(ds, i)
        PROVE  BytesTypeOK'
    <3> DEFINE k == Key(ds, Tag(i))
    <3>1. Sized
      BY SizesAreSized DEF BytesTypeOK
    <3>2. k \in KeyNumbers
      BY <3>1, Splits, KeyType DEF Sized
    <3>3. UNCHANGED <<userSize, typeSize, Bytes, KeyNumbers>>
      BY <2>1 DEF Write, Bytes, BlockSize, KeyNumbers
    <3>4. [b \in Bytes |-> IF ByteOf(i) <= b /\ b < ByteOf(i) + typeSize
                             THEN <<ds, i, b - ByteOf(i)>> ELSE mem[k][b]]
             \in [Bytes -> DsTags \X Indices \X Nat \cup {Null}]
      <4> SUFFICES ASSUME NEW b \in Bytes
                   PROVE  (IF ByteOf(i) <= b /\ b < ByteOf(i) + typeSize
                             THEN <<ds, i, b - ByteOf(i)>> ELSE mem[k][b])
                          \in DsTags \X Indices \X Nat \cup {Null}
        OBVIOUS
      <4>1. ByteOf(i) \in Nat /\ b \in Nat
        BY <3>1, Splits DEF Sized, Bytes
      <4>2. mem[k][b] \in DsTags \X Indices \X Nat \cup {Null}
        BY <3>2 DEF BytesTypeOK
      <4> QED
        BY <4>1, <4>2
    <3>5. mem' \in [KeyNumbers -> [Bytes -> DsTags \X Indices \X Nat \cup {Null}]]
      BY <2>1, <3>2, <3>4 DEF Write, BytesTypeOK
    <3>6. written' \subseteq DsTags \X Indices /\ outside' \in BOOLEAN
      BY <2>1 DEF Write, BytesTypeOK
    <3> QED
      BY <3>3, <3>5, <3>6 DEF BytesTypeOK
  <2>2. CASE UNCHANGED bytesVars
    BY <2>2 DEF bytesVars, BytesTypeOK, Bytes, BlockSize
  <2> QED
    BY <2>1, <2>2 DEF BytesNext
<1> QED
  BY <1>1, <1>2, PTL DEF BytesSpec

\* A byte of an element that is not the one written is left alone.
LEMMA WriteSparesOthers ==
  ASSUME Sized, NEW ds \in DsTags, NEW i \in Indices, NEW d \in DsTags, NEW j \in Indices,
         <<d, j>> # <<ds, i>>, Tag(i) < Half, Tag(j) < Half,
         Key(d, Tag(j)) = Key(ds, Tag(i)), NEW b \in 0 .. typeSize - 1
  PROVE  ~(ByteOf(i) <= ByteOf(j) + b /\ ByteOf(j) + b < ByteOf(i) + typeSize)
<1>1. i \in Nat /\ j \in Nat /\ typeSize \in Nat \ {0}
  BY DEF Sized
<1>2. /\ Tag(i) \in Nat /\ ByteOf(i) \in Nat
      /\ Tag(j) \in Nat /\ ByteOf(j) \in Nat
  BY <1>1, Splits DEF Sized
<1>3. Half \in Nat \ {0}
  BY BlockIndexAssumption
<1>4. Tag(i) \in 0 .. Half - 1 /\ Tag(j) \in 0 .. Half - 1
  BY <1>2, <1>3
<1>5. d \in 0 .. Half - 1 /\ ds \in 0 .. Half - 1
  BY DEF Sized
<1>6. d = ds /\ Tag(j) = Tag(i)
  BY <1>4, <1>5, KeysApart
<1>7. i # j
  BY <1>6
<1>8. CASE i < j
  BY <1>1, <1>2, <1>6, <1>8, PlacesApart
<1>9. CASE j < i
  BY <1>1, <1>2, <1>6, <1>9, PlacesApart
<1> QED
  BY <1>1, <1>7, <1>8, <1>9

\* A write keeps elements apart.
LEMMA WriteKeepsApart ==
  ASSUME BytesTypeOK, ElementsApart, NEW ds \in DsTags, NEW i \in Indices, Write(ds, i)
  PROVE  ElementsApart'
<1> DEFINE k == Key(ds, Tag(i))
<1>1. Sized
  BY SizesAreSized DEF BytesTypeOK
<1>2. /\ userSize' = userSize /\ typeSize' = typeSize
      /\ written' = written \cup {<<ds, i>>}
      /\ outside' = (outside \/ ByteOf(i) + typeSize > BlockSize)
  BY DEF Write
<1>3. /\ BlockSize' = BlockSize
      /\ \A j : Tag(j)' = Tag(j) /\ ByteOf(j)' = ByteOf(j)
  BY <1>2 DEF BlockSize, Tag, ByteOf, Offset
<1>4. \A d, t : Key(d, t)' = Key(d, t)
  BY DEF Key
<1> SUFFICES ASSUME Fits'
             PROVE  ~outside' /\ \A e \in written' : ElementKept(e)'
  BY DEF ElementsApart, ElementKept
<1>5. BlockSize % typeSize = 0 /\ Tag(i) < Half /\ \A e \in written : Tag(e[2]) < Half
  <2>1. BlockSize' % typeSize' = 0 /\ \A e \in written' : Tag(e[2])' < Half
    BY DEF Fits
  <2>2. BlockSize % typeSize = 0
    BY <1>2, <1>3, <2>1
  <2>3. \A e \in written' : Tag(e[2]) < Half
    BY <1>3, <2>1
  <2>4. <<ds, i>> \in written' /\ <<ds, i>>[2] = i
    BY <1>2
  <2>5. Tag(i) < Half
    BY <2>3, <2>4
  <2> QED
    BY <1>2, <2>2, <2>3, <2>5
<1>6. ~outside /\ \A e \in written : ElementKept(e)
  BY <1>5 DEF ElementsApart, Fits, ElementKept
<1>7. ~outside'
  <2>1. i \in Nat
    BY <1>1 DEF Sized
  <2>2. ByteOf(i) \in Nat /\ BlockSize \in Nat /\ typeSize \in Nat
    BY <1>1, <2>1, Splits DEF Sized
  <2>3. ByteOf(i) + typeSize <= BlockSize
    BY <1>1, <1>5, <2>1, EndsInside
  <2>4. ~(ByteOf(i) + typeSize > BlockSize)
    BY <2>2, <2>3
  <2> QED
    BY <1>2, <1>6, <2>4
<1>8. ASSUME NEW e \in written', NEW b \in 0 .. typeSize - 1
      PROVE  mem'[Key(e[1], Tag(e[2]))][ByteOf(e[2]) + b] = <<e[1], e[2], b>>
  <2>1. PICK d \in DsTags, j \in Indices : e = <<d, j>>
    BY <1>2 DEF BytesTypeOK
  <2>2. i \in Nat /\ j \in Nat /\ typeSize \in Nat \ {0} /\ BlockSize \in Nat \ {0}
    BY <1>1 DEF Sized
  <2>3. /\ Tag(i) \in Nat /\ ByteOf(i) \in Nat
        /\ Tag(j) \in Nat /\ ByteOf(j) \in Nat
    BY <1>1, <2>2, Splits DEF Sized
  <2>4. k \in KeyNumbers /\ Key(d, Tag(j)) \in KeyNumbers
    BY <1>1, <2>3, KeyType DEF Sized
  <2>5. Tag(j) < Half
    BY <1>2, <1>5, <2>1
  <2>6. ByteOf(j) + b \in Bytes
    <3>1. ByteOf(j) + typeSize <= BlockSize
      BY <1>1, <1>5, <2>2, EndsInside
    <3> QED
      BY <2>2, <2>3, <3>1 DEF Bytes
  <2>7. mem' = [mem EXCEPT ![k] = [x \in Bytes |->
                  IF ByteOf(i) <= x /\ x < ByteOf(i) + typeSize
                    THEN <<ds, i, x - ByteOf(i)>> ELSE mem[k][x]]]
    BY DEF Write
  <2> DEFINE y == ByteOf(j) + b
             after(x) == IF ByteOf(i) <= x /\ x < ByteOf(i) + typeSize
                           THEN <<ds, i, x - ByteOf(i)>> ELSE mem[k][x]
  <2>8. mem'[k][y] = after(y)
    <3>1. mem'[k] = [x \in Bytes |-> after(x)]
      BY <2>4, <2>7 DEF BytesTypeOK
    <3>2. y \in Bytes
      BY <2>6
    <3> HIDE DEF y, after
    <3> QED
      BY <3>1, <3>2
  <2>9. CASE e = <<ds, i>>
    <3>1. d = ds /\ j = i
      BY <2>1, <2>9
    <3>2. mem'[k][ByteOf(i) + b] = <<ds, i, ByteOf(i) + b - ByteOf(i)>>
      BY <2>2, <2>3, <2>8, <3>1
    <3>3. ByteOf(i) + b - ByteOf(i) = b
      BY <2>2, <2>3
    <3> QED
      BY <2>1, <3>1, <3>2, <3>3
  <2>10. CASE e # <<ds, i>>
    <3>1. mem[Key(d, Tag(j))][ByteOf(j) + b] = <<d, j, b>>
      BY <1>2, <1>6, <2>1, <2>10 DEF ElementKept
    <3>2. CASE Key(d, Tag(j)) # k
      BY <2>1, <2>4, <2>7, <3>1, <3>2 DEF BytesTypeOK
    <3>3. CASE Key(d, Tag(j)) = k
      <4>1. ~(ByteOf(i) <= ByteOf(j) + b /\ ByteOf(j) + b < ByteOf(i) + typeSize)
        BY <1>1, <1>5, <2>1, <2>5, <2>10, <3>3, WriteSparesOthers
      <4> QED
        BY <2>1, <2>8, <3>1, <3>3, <4>1
    <3> QED
      BY <3>2, <3>3
  <2> QED
    BY <2>9, <2>10
<1> QED
  BY <1>2, <1>3, <1>4, <1>7, <1>8 DEF ElementKept

\* Elements whose size divides that of the block have their bytes to themselves in
\* every vector, as long as the block tags have 32 bits.
THEOREM ElementsStayApart == BytesSpec => []ElementsApart
<1>1. BytesInit => ElementsApart
  BY DEF BytesInit, ElementsApart
<1>2. BytesTypeOK /\ ElementsApart /\ [BytesNext]_bytesVars => ElementsApart'
  <2> SUFFICES ASSUME BytesTypeOK, ElementsApart, [BytesNext]_bytesVars PROVE ElementsApart'
    OBVIOUS
  <2>1. CASE BytesNext
    BY <2>1, WriteKeepsApart DEF BytesNext
  <2>2. CASE UNCHANGED bytesVars
    BY <2>2 DEF bytesVars, ElementsApart, Fits, Tag, ByteOf, Offset, BlockSize, Key
  <2> QED
    BY <2>1, <2>2
<1> QED
  BY <1>1, <1>2, BytesTyped, PTL DEF BytesSpec

\* Otherwise the element that begins last in the first block ends behind it: writing
\* it writes memory that is not the payload's.
THEOREM OthersStraddle ==
  ASSUME Sized, typeSize <= BlockSize, BlockSize % typeSize # 0
  PROVE  \E i \in Nat : Tag(i) = 0 /\ ByteOf(i) + typeSize > BlockSize
<1> DEFINE q == BlockSize \div typeSize
           r == BlockSize % typeSize
<1>1. BlockSize \in Nat \ {0} /\ typeSize \in Nat \ {0}
  BY DEF Sized
<1>2. q \in Nat /\ r \in 1 .. typeSize - 1 /\ BlockSize = q * typeSize + r
  <2>1. q \in Nat /\ r \in 0 .. typeSize - 1 /\ BlockSize = q * typeSize + r
    BY <1>1, Division
  <2>2. r # 0
    OBVIOUS
  <2> HIDE DEF q, r
  <2> QED
    BY <1>1, <2>1, <2>2
<1> HIDE DEF q, r
<1> DEFINE x == q * typeSize
<1>3. x \in Nat /\ BlockSize = x + r
  BY <1>1, <1>2
<1> HIDE DEF x
<1>4. x \div BlockSize = 0 /\ x % BlockSize = x
  BY <1>1, <1>2, <1>3
<1>5. Offset(q) = x
  BY DEF Offset, x
<1>6. Tag(q) = 0 /\ ByteOf(q) = x
  BY <1>4, <1>5 DEF Tag, ByteOf
<1>7. ByteOf(q) + typeSize > BlockSize
  BY <1>1, <1>2, <1>3, <1>6
<1> QED
  BY <1>2, <1>6, <1>7
===============================================================================
