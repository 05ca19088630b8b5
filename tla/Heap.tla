--------------------------------- MODULE Heap ----------------------------------
(***************************************************************************)
(* The kernel heap of core/src/kheap.c, which lib/libc/src/malloc.c        *)
(* repeats for each process.  The heap is cut into chunks, each headed by  *)
(* its links in the list of all chunks, in address order, and a flag; the  *)
(* free chunks are also in one of the lists of free_chunk, by the binary   *)
(* logarithm of their size.  kmalloc and kfree are critical sections, one  *)
(* step each.  The circular lists are sequences here; arithmetic is that   *)
(* of unsigned integers of Width bits.                                     *)
(***************************************************************************)
EXTENDS Integers, FiniteSets, Sequences, SequencesExt, FiniteSetsExt

CONSTANTS
    Width,     \* bits of size_t and uint32_t, 32 in the code; also NUM_SIZES
    HeapSize,  \* bytes given to kheap_init
    Requests   \* the sizes clients ask for

ALIGN == 4
HEADER_SIZE == 12
CHUNK_SIZE == 20   \* sizeof(mem_chunk_t)
MIN_SIZE == 8

ASSUME HeapAssumption ==
    /\ Width \in Nat \ {0}
    /\ HeapSize \in 2 * CHUNK_SIZE + HEADER_SIZE + MIN_SIZE .. 2 ^ Width - 1
    /\ HeapSize % ALIGN = 0
    /\ Requests \subseteq 1 .. 2 ^ Width - 1

\* What ^ means, for the provers.
ASSUME PowersAssumption == \A n \in 0 .. Width - 1 : 2 ^ (n + 1) = 2 * 2 ^ n

Wrap(n) == n % 2 ^ Width
Slots == 0 .. Width - 1
Addr == {a \in 0 .. HeapSize - 1 : a % ALIGN = 0}
FirstChunk == 0
LastChunk == HeapSize - CHUNK_SIZE

VARIABLES
    all,      \* the list of all chunks, from first_chunk to last_chunk
    used,     \* the chunks whose flag is set
    free,     \* free_chunk: the free chunks by slot
    memFree,  \* mem_free
    memMeta,  \* mem_meta
    asked     \* what clients hold: address given to them -> size asked for

heapVars == <<all, used, free, memFree, memMeta, asked>>

--------------------------------------------------------------------------------
(***************************************************************************)
(* The lists.                                                              *)
(***************************************************************************)
Pos(l, c) == CHOOSE i \in 1 .. Len(l) : l[i] = c
NextChunk(l, c) == l[Pos(l, c) + 1]
PrevChunk(l, c) == l[Pos(l, c) - 1]
ChunkSize(l, c) == NextChunk(l, c) - c - HEADER_SIZE
\* remove: the chunk is taken out of a list that holds it.
Unchain(l, c) == RemoveAt(l, Pos(l, c))

Slot(size) ==
    IF size = 0 THEN -1 ELSE CHOOSE n \in Slots : 2 ^ n <= size /\ size < 2 ^ (n + 1)

\* Mutant: only the head of the list is taken out.
RemoveFree_Head(f, l, c) == [f EXCEPT ![Slot(ChunkSize(l, c))] = Tail(@)]

RemoveFree(f, l, c) == [f EXCEPT ![Slot(ChunkSize(l, c))] = Unchain(@, c)]
PushFree(f, l, c) == [f EXCEPT ![Slot(ChunkSize(l, c))] = <<c>> \o @]

\* kheap_init
HeapInit ==
    /\ all = <<FirstChunk, FirstChunk + CHUNK_SIZE, LastChunk>>
    /\ used = {FirstChunk, LastChunk}
    /\ free = PushFree([n \in Slots |-> <<>>], all, FirstChunk + CHUNK_SIZE)
    /\ memFree = ChunkSize(all, FirstChunk + CHUNK_SIZE)
    /\ memMeta = 2 * CHUNK_SIZE + HEADER_SIZE
    /\ asked = [p \in {} |-> 0]

--------------------------------------------------------------------------------
(***************************************************************************)
(* kmalloc.  A request that no free list can serve returns NULL and        *)
(* changes nothing.                                                        *)
(***************************************************************************)

\* Mutant: the request is not aligned.
Granted_Unaligned(s) == Max({Wrap(s), MIN_SIZE})

\* The size of the block: the request rounded up, which may wrap.
Granted(s) == Max({(Wrap(s + ALIGN - 1) \div ALIGN) * ALIGN, MIN_SIZE})

\* Mutant: the list of the chunks among which some are too small.
FirstSlot_Floor(size) == Slot(size)

\* The first list whose chunks are all large enough.
FirstSlot(size) == Slot(size - 1) + 1

\* Mutant: no room is left for the links of a free chunk.
Splits_Header(size, len) == size + HEADER_SIZE < len

\* The rest of the chunk is worth a chunk of its own.
Splits(size, len) == size + CHUNK_SIZE <= len

\* The block handed out starts behind the header: data shares its place with the
\* link of the chunk that the pop left pointing at itself.
Data(c) == c + HEADER_SIZE
ChunkOf(p) == p - HEADER_SIZE

Kmalloc(s) ==
    LET size  == Granted(s)
        lists == {n \in FirstSlot(size) .. Width - 1 : free[n] # <<>>}
        n     == Min(lists)
        c     == Head(free[n])
        len   == ChunkSize(all, c)
        rest  == c + HEADER_SIZE + size
        split == Splits(size, len)
        cut   == IF split THEN InsertAt(all, Pos(all, c) + 1, rest) ELSE all
        left  == [free EXCEPT ![n] = Tail(@)]
    IN  /\ lists # {}
        /\ all' = cut
        /\ free' = IF split THEN PushFree(left, cut, rest) ELSE left
        /\ used' = used \cup {c}
        /\ memMeta' = IF split THEN Wrap(memMeta + HEADER_SIZE) ELSE memMeta
        /\ memFree' = Wrap(memFree - len + IF split THEN ChunkSize(cut, rest) ELSE 0)
        /\ asked' = [p \in DOMAIN asked \cup {Data(c)} |->
                        IF p = Data(c) THEN s ELSE asked[p]]

--------------------------------------------------------------------------------
(***************************************************************************)
(* kfree, of a block a client holds.                                       *)
(***************************************************************************)

\* Mutant: the chunk before is not looked at.
Merges_NextOnly(c) == {NextChunk(all, c)} \ used

\* The free neighbours the chunk is merged with.
Merges(c) == {NextChunk(all, c), PrevChunk(all, c)} \ used

\* Mutant: the header of one merged chunk at most is given back.
Headers_One(m) == IF m = {} THEN 0 ELSE HEADER_SIZE

\* The headers that disappear, added to the free memory and to the merged sizes.
Headers(m) == Cardinality(m) * HEADER_SIZE

Kfree(p) ==
    LET c     == ChunkOf(p)
        next  == NextChunk(all, c)
        prev  == PrevChunk(all, c)
        m     == Merges(c)
        \* the chunk after is merged first
        l1    == IF next \in m THEN Unchain(all, next) ELSE all
        f1    == IF next \in m THEN RemoveFree(free, all, next) ELSE free
        \* then the chunk is merged into the one before, or freed itself
        home  == IF prev \in m THEN prev ELSE c
        l2    == IF prev \in m THEN Unchain(l1, c) ELSE l1
        f2    == IF prev \in m THEN RemoveFree(f1, l1, prev) ELSE f1
        taken == (IF next \in m THEN ChunkSize(all, next) ELSE 0)
                     + (IF prev \in m THEN ChunkSize(l1, prev) ELSE 0)
    IN  /\ p \in DOMAIN asked
        /\ all' = l2
        /\ free' = PushFree(f2, l2, home)
        /\ used' = used \ {c}
        /\ memMeta' = Wrap(memMeta - Headers(m))
        /\ memFree' = Wrap(memFree - taken + Headers(m) + ChunkSize(l2, home))
        /\ asked' = [q \in DOMAIN asked \ {p} |-> asked[q]]

HeapNext == (\E s \in Requests : Kmalloc(s)) \/ (\E p \in Addr : Kfree(p))

HeapSpec == HeapInit /\ [][HeapNext]_heapVars

--------------------------------------------------------------------------------
(***************************************************************************)
(* Properties.                                                             *)
(***************************************************************************)
Chunks == ToSet(all) \ {FirstChunk, LastChunk}
FreeChunks == Chunks \ used

HeapTypeOK ==
    /\ all \in Seq(Addr) /\ used \subseteq Addr
    /\ free \in [Slots -> Seq(Addr)]
    /\ memFree \in 0 .. 2 ^ Width - 1 /\ memMeta \in 0 .. 2 ^ Width - 1
    /\ DOMAIN asked \subseteq Addr /\ \A p \in DOMAIN asked : asked[p] \in Requests

\* The chunks tile the heap, and each has room for the links of a free chunk: no
\* sequence of cuts and merges writes a header into a block.
ChunksTile ==
    /\ all[1] = FirstChunk /\ all[Len(all)] = LastChunk /\ {FirstChunk, LastChunk} \subseteq used
    /\ ChunkSize(all, FirstChunk) = CHUNK_SIZE - HEADER_SIZE
    /\ \A i \in 2 .. Len(all) - 1 : ChunkSize(all, all[i]) >= MIN_SIZE

\* A chunk is free exactly when it is linked in a list of free chunks, once, in
\* the list of its present size: a merge looks for its neighbours there.
FreeListsExact ==
    /\ \A n \in Slots : \A i \in 1 .. Len(free[n]) :
          free[n][i] \in FreeChunks /\ Slot(ChunkSize(all, free[n][i])) = n
    /\ \A n \in Slots : IsInjective(free[n])
    /\ \A c \in FreeChunks : Contains(free[Slot(ChunkSize(all, c))], c)

\* Free memory is not left in pieces: no two neighbours are free, so that the
\* heap is whole again once every block was freed.
NoFreeNeighbours ==
    \A i \in 1 .. Len(all) - 1 : all[i] \in used \/ all[i + 1] \in used

\* mem_meta is what the headers take.
MetaExact == memMeta = 2 * CHUNK_SIZE + HEADER_SIZE * (Len(all) - 2)

\* The lists are sound after every sequence of requests and releases (above).
HeapSound == HeapTypeOK /\ ChunksTile /\ FreeListsExact /\ NoFreeNeighbours /\ MetaExact

\* What clients hold is disjoint, large enough, and untouched by what others do.
Blocks == [p \in DOMAIN asked |->
              [asked |-> asked[p], len |-> ChunkSize(all, ChunkOf(p))]]
Promise == INSTANCE Allocator WITH Space <- 0 .. HeapSize - 1, blocks <- Blocks
ImplementsAllocator == Promise!Spec
================================================================================
