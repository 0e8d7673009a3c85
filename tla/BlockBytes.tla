------------------------------ MODULE BlockBytes ------------------------------
(* The properties of BlockCache that add up the bytes of blocks. *)
EXTENDS BlockCache, FiniteSetsExt

BytesOf(S) == MapThenSumSet(SizeOf, S)

\* The blocks rank r holds.
HeldBy(r) == {k \in Keys : cache[r][k] # None}

\* The byte counter of every rank is the size of the blocks it holds, modulo the
\* width of unsigned int: no store, refetch or eviction counts a block twice.
BytesExact == \A r \in Ranks : currentBytes[r] = BytesOf(HeldBy(r)) % Word

\* cacheSize is the "Maximum cache size in bytes" (CacheWorker.h:79).
WithinCapacity == BytesOf(Resident) <= CacheSize
-------------------------------------------------------------------------------
(* The invariants behind these. *)

BytesInv == BytesExact /\ \A r \in Ranks : IsFiniteSet(HeldBy(r))

\* One eviction makes room for one block, and no counter comes near its width.
Uniform == /\ \A a, b \in DsTags : MsgSize[a] = MsgSize[b]
           /\ \A ds \in DsTags : CacheSize + MsgSize[ds] < Word

\* The room that an eviction made is for the block that is coming.
RoomInv == /\ WithinCapacity
           /\ phase = "evicting" => BytesOf(Resident) + SizeOf(incoming.key) <= CacheSize
===============================================================================
