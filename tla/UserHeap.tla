-------------------------------- MODULE UserHeap --------------------------------
(***************************************************************************)
(* The heap of a process, lib/libc/src/malloc.c.  It is the heap of        *)
(* Heap.tla in pages of the process, set up by the first call of malloc,   *)
(* and its mutex takes the place of the critical section: what a thread    *)
(* does between mutex_lock and mutex_unlock is one step (see Mutex).  What *)
(* comes before, the test of init and the set-up, other threads interleave *)
(* with.                                                                   *)
(***************************************************************************)
EXTENDS Integers, FiniteSets

CONSTANTS
    Thread,                     \* the threads of the process
    Width, HeapSize, Requests   \* as in Heap, PROCESS_HEAP_SIZE

VARIABLES
    all, used, free, memFree, memMeta, asked,   \* as in Heap
    init,     \* init
    pc,       \* where a thread is in malloc
    failed,   \* MALLOC_ASSERT: there were no pages, and so no lock
    raced     \* two threads have set up the heap

Lists == INSTANCE Heap
heapVars == <<all, used, free, memFree, memMeta, asked>>
userHeapVars == <<heapVars, init, pc, failed, raced>>

Init ==
    /\ all = <<>> /\ used = {} /\ free = [n \in Lists!Slots |-> <<>>]
    /\ memFree = 0 /\ memMeta = 0 /\ asked = [p \in {} |-> 0]
    /\ init = FALSE /\ pc = [t \in Thread |-> "out"]
    /\ failed = FALSE /\ raced = FALSE

\* The call of malloc finds out whether the heap is set up.
CallMalloc(t) ==
    /\ pc[t] = "out"
    /\ pc' = [pc EXCEPT ![t] = IF init THEN "lock" ELSE "set up"]
    /\ UNCHANGED <<heapVars, init, failed, raced>>

\* The lists of a new heap: the chunks at both ends, and a free one between them.
SetUp ==
    LET second == Lists!FirstChunk + Lists!CHUNK_SIZE
        chunks == <<Lists!FirstChunk, second, Lists!LastChunk>>
    IN  /\ all' = chunks
        /\ used' = {Lists!FirstChunk, Lists!LastChunk}
        /\ free' = Lists!PushFree([n \in Lists!Slots |-> <<>>], chunks, second)
        /\ memFree' = Lists!ChunkSize(chunks, second)
        /\ memMeta' = 2 * Lists!CHUNK_SIZE + Lists!HEADER_SIZE
        /\ asked' = [p \in {} |-> 0]

\* Mutant: init is not set, and every call sets up a new heap.
InitHeap_Again(t) ==
    /\ pc[t] = "set up" /\ pc' = [pc EXCEPT ![t] = "lock"]
    /\ SetUp
    /\ UNCHANGED <<init, failed, raced>>

\* user_heap_init, with the pages of SYSCALL_PAGE_ALLOC.  When another thread has
\* set up the heap since the test of init, the lists and the lock start again
\* under the blocks that were handed out: the model ends there.
InitHeap(t) ==
    /\ pc[t] = "set up" /\ pc' = [pc EXCEPT ![t] = "lock"]
    /\ IF init THEN raced' = TRUE /\ UNCHANGED <<heapVars, init>>
       ELSE SetUp /\ init' = TRUE /\ UNCHANGED raced
    /\ UNCHANGED failed

\* Without pages the lock stays unset, and the assertion on mutex_lock fails.
NoPages(t) ==
    /\ pc[t] = "set up" /\ ~init
    /\ failed' = TRUE
    /\ UNCHANGED <<heapVars, init, pc, raced>>

\* malloc with the lock: a chunk, or NULL for a request that no list can serve
Malloc(t, s) ==
    /\ pc[t] = "lock" /\ pc' = [pc EXCEPT ![t] = "out"]
    /\ Lists!Kmalloc(s)
    /\ UNCHANGED <<init, failed, raced>>

MallocNull(t) ==
    /\ pc[t] = "lock" /\ pc' = [pc EXCEPT ![t] = "out"]
    /\ UNCHANGED <<heapVars, init, failed, raced>>

\* free, of a block that malloc has returned
Free(t, p) ==
    /\ pc[t] = "out" /\ init
    /\ Lists!Kfree(p)
    /\ UNCHANGED <<init, pc, failed, raced>>

Next ==
    /\ ~failed /\ ~raced
    /\ \E t \in Thread :
        \/ CallMalloc(t) \/ InitHeap(t) \/ NoPages(t) \/ MallocNull(t)
        \/ \E s \in Requests : Malloc(t, s)
        \/ \E p \in Lists!Addr : Free(t, p)

Spec == Init /\ [][Next]_userHeapVars

--------------------------------------------------------------------------------
\* Until two threads race in their first call, the blocks that the threads hold
\* are disjoint, as large as they asked for, and there until they free them.
BlocksKept == Lists!ImplementsAllocator
================================================================================
