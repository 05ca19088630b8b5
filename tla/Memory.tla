--------------------------------- MODULE Memory --------------------------------
(***************************************************************************)
(* The memory manager of arch/cpu/i386/src/memmgt.c: the free frames and   *)
(* their reference counts, the page directory, page tables and free pages  *)
(* of each process, the copy of an address space by a fork, and copy on    *)
(* write.                                                                  *)
(*                                                                         *)
(* Every operation runs in a critical section or in an interrupt gate and  *)
(* is one step.  Addresses are counted in frames.  A page of process space *)
(* is counted from PROCESS_START_VIRT_SPACE; TableSize pages share a page  *)
(* table.  The kernel's half of the address space is the same for all and  *)
(* left out; the kernel pages at which page tables are mapped for a while  *)
(* are given back in the same step, what remains of them is the reference  *)
(* that the mapping takes and the unmapping drops (MapTemp, UnmapTemp).    *)
(***************************************************************************)
EXTENDS Ranges

CONSTANTS
    Proc, Main,     \* processes, and main_kprocess, which exists from boot
    MemMap,         \* the memory map given by the boot loader
    MemStart,       \* KERNEL_MEM_START
    KernelEnd,      \* the first frame behind the kernel image
    FrameLimit,     \* frames that fit in 32-bit addresses
    HwRegions,      \* the areas of device memory that drivers declare
    NbTables, TableSize,
    KStackPages, StackPages,
    Requests,       \* page counts of the page allocation system call
    Value,          \* contents of a page, 0 for what was never written
    MaxTid,         \* bound on the threads created or copied in all
    MaxWritten,     \* bound on the frames that hold something else than 0
    None            \* no frame, no mapping

Frame == 0 .. FrameLimit - 1
Table == 0 .. NbTables - 1
Page  == 0 .. NbTables * TableSize - 1

Entry == [frame : Frame, mode : {"regular", "cow", "private"}]

ASSUME MemoryAssumption ==
    /\ IsFiniteSet(Proc) /\ Main \in Proc
    /\ 0 \in Value
    /\ None \notin Frame \cup Page \cup Value \cup Entry
    /\ {MemStart, KernelEnd} \subseteq Frame
    /\ Requests \subseteq Nat \ {0}
    /\ {NbTables, TableSize, KStackPages, StackPages} \subseteq Nat \ {0}
    /\ {FrameLimit, MaxTid, MaxWritten} \subseteq Nat

VARIABLES
    mem,        \* free_memory_map, available_memory, frame_ref_dir; fail names
                \* the assertion that stopped the kernel
    space,      \* directory, page tables and free_page_table of each process
    threads,    \* the stacks of the threads of each process
    status,     \* "none", "alive", or "dead": exited and not yet waited for
    parent,     \* parent_process
    data,       \* the contents of the frames
    lastTid     \* last_given_tid, counted from the threads of the start-up

vars == <<mem, space, threads, status, parent, data, lastTid>>

NoSpace == [dir |-> None, table |-> [t \in Table |-> None],
            pte |-> [a \in Page |-> None], pages |-> <<>>]

TableOf(a) == a \div TableSize

\* A loop over n consecutive frames or pages, or over all the tables.
UpTo(n) == [i \in 1 .. n |-> i - 1]

--------------------------------------------------------------------------------
(***************************************************************************)
(* Start-up: detect_memory, setup_mem_table, init_frame_ref_table.         *)
(***************************************************************************)

\* Regions below 4 GB that are available and do not start below the kernel.
DetectMemory(map) ==
    FoldLeft(LAMBDA q, e : IF e.available /\ MemStart <= e.base /\ e.base < FrameLimit
                           THEN InsertRange(q, e.base, e.limit) ELSE q,
             <<>>, map)

\* The head of the list begins behind the kernel from now on.
SetupMemTable(q) == [q EXCEPT ![1].base = KernelEnd]

\* The assertions of setup_mem_table: the lowest region holds the end of the
\* kernel.
KernelInFirstRegion(q) ==
    /\ q # <<>>
    /\ Last(q).base <= KernelEnd /\ KernelEnd <= Last(q).limit
    /\ KernelEnd <= Head(q).limit

Absent == [there |-> FALSE, hw |-> FALSE, count |-> 0]

\* Frames up to MemStart belong to the hardware, the frames of the kernel are
\* referenced once, and so is the first frame behind it: the end of the kernel
\* is rounded up by a whole frame although it is aligned.
InitFrameRefs(map) ==
    LET managed == UNION {map[i].base .. map[i].limit - 1 :
                            i \in {j \in DOMAIN map : map[j].available}}
    IN  [f \in Frame |->
            IF f \notin managed THEN Absent
            ELSE [there |-> TRUE, hw |-> f <= MemStart,
                  count |-> IF MemStart < f /\ f < KernelEnd + 1 THEN 1 ELSE 0]]

\* setup_mem_table cuts off the kernel at the head of the list and asserts that the
\* kernel ends in its last range: it works when there is one region, from the
\* kernel up, above which the map lists no memory.
ASSUME MemMapAssumption ==
    \E limit \in KernelEnd + 1 .. FrameLimit :
        /\ MemStart < KernelEnd
        /\ DetectMemory(MemMap) = <<Range3(MemStart, limit, MemStart)>>
        /\ \A f \in MemStart + 1 .. FrameLimit - 1 :
                InitFrameRefs(MemMap)[f].there <=> f < limit

Available(q) == FoldLeft(LAMBDA n, r : n + r.limit - r.base, 0, q)

\* memory_create_free_page_table
CreateFreePageTable == <<Range3(0, NbTables * TableSize, 0)>>

\* KernelEnd - 1 stands for the frame of the static kernel_pgdir.
Init ==
    LET detected == DetectMemory(MemMap)
    IN  /\ KernelInFirstRegion(detected)
        /\ mem = [free  |-> SetupMemTable(detected),
                  avail |-> Available(detected) - (KernelEnd - MemStart),
                  ref   |-> InitFrameRefs(MemMap),
                  fail  |-> "none"]
        /\ space = [p \in Proc |->
                        IF p = Main THEN [NoSpace EXCEPT !.dir = KernelEnd - 1,
                                                         !.pages = CreateFreePageTable]
                        ELSE NoSpace]
        /\ threads = [p \in Proc |-> {}]
        /\ status = [p \in Proc |-> IF p = Main THEN "alive" ELSE "none"]
        /\ parent = [p \in Proc |-> Main]
        /\ data = [f \in Frame |-> 0]
        /\ lastTid = 0

--------------------------------------------------------------------------------
(***************************************************************************)
(* Frames and references, as operators on a record with the fields of mem. *)
(* An assertion that fails stops the kernel: the first one is kept.        *)
(***************************************************************************)

Fail(m, cause) == IF m.fail = "none" THEN [m EXCEPT !.fail = cause] ELSE m

\* memory_alloc_frames: the references of the frames are left alone.
AllocFrames(m, n) ==
    IF ~HasBlock(m.free, n) THEN Fail(m, "no_memory")
    ELSE [m EXCEPT !.free = GetBlock(@, n, "BEGINING"), !.avail = @ - n]

FrameAddress(m, n) ==
    IF HasBlock(m.free, n) THEN BlockAddress(m.free, n, "BEGINING") ELSE 0

\* memory_free_frames: the loop that clears the counts never leaves the first
\* frame.
FreeFrames(m, f, n) ==
    IF FreedTwice(m.free, f, n) THEN Fail(m, "freed_twice")
    ELSE [m EXCEPT !.free = AddBlock(@, f, n), !.avail = @ + n, !.ref[f].count = 0]

AcquireRef(m, f) ==
    IF ~m.ref[f].there THEN Fail(m, "no_reference")
    ELSE [m EXCEPT !.ref[f].count = @ + 1]

\* Mutant: a frame is not given back when its last reference goes.
ReleaseRef_Leak(m, f) ==
    IF m.ref[f].count = 0 THEN Fail(m, "released_free")
    ELSE [m EXCEPT !.ref[f].count = @ - 1]

\* memory_release_ref
ReleaseRef(m, f) ==
    LET dropped == [m EXCEPT !.ref[f].count = @ - 1]
    IN  IF ~m.ref[f].there THEN Fail(m, "no_reference")
        ELSE IF m.ref[f].count = 0 THEN Fail(m, "released_free")
        ELSE IF m.ref[f].count = 1 /\ ~m.ref[f].hw THEN FreeFrames(dropped, f, 1)
        ELSE dropped

\* memory_mmap_direct of a directory, table or data frame at a kernel page, and
\* the memory_munmap of that page.
MapTemp(m, f) == AcquireRef(m, f)
UnmapTemp(m, f) == ReleaseRef(m, f)

--------------------------------------------------------------------------------
(***************************************************************************)
(* Mappings of one process, as operators on w = [mem, sp]: mem and the     *)
(* address space of that process.                                          *)
(***************************************************************************)

World(p) == [mem |-> mem, sp |-> space[p]]

\* The kernel stops at an assertion that fails: nothing else is seen of the step.
Commit(m, others) ==
    IF m.fail = "none" THEN mem' = m /\ others
    ELSE /\ mem' = [mem EXCEPT !.fail = m.fail]
         /\ UNCHANGED <<space, threads, status, parent, data, lastTid>>

Running == mem.fail = "none"

\* memory_alloc_pages_from and memory_free_pages_to
AllocPages(w, n, start) ==
    IF ~HasBlock(w.sp.pages, n) THEN [w EXCEPT !.mem = Fail(@, "no_memory")]
    ELSE [w EXCEPT !.sp.pages = GetBlock(@, n, start)]

PageAddress(w, n, start) ==
    IF HasBlock(w.sp.pages, n) THEN BlockAddress(w.sp.pages, n, start) ELSE 0

FreePages(w, a, n) ==
    IF FreedTwice(w.sp.pages, a, n) THEN [w EXCEPT !.mem = Fail(@, "freed_twice")]
    ELSE [w EXCEPT !.sp.pages = AddBlock(@, a, n)]

IsMapped(w, a, n) == \E b \in a .. a + n - 1 : w.sp.pte[b] # None

\* The table of page a is created when it is missing, without a reference.
NeedTable(w, a) ==
    IF w.sp.table[TableOf(a)] # None THEN w
    ELSE [w EXCEPT !.mem = AllocFrames(@, 1),
                   !.sp.table[TableOf(a)] = FrameAddress(w.mem, 1)]

\* Mutant: mapping a frame does not count.
MapPage_NoRef(w, a, f, mode) ==
    LET t == NeedTable(w, a)
    IN  [t EXCEPT !.sp.pte[a] = [frame |-> f, mode |-> mode]]

MapPage(w, a, f, mode) ==
    LET t == NeedTable(w, a)
    IN  [t EXCEPT !.sp.pte[a] = [frame |-> f, mode |-> mode],
                  !.mem = AcquireRef(@, f)]

\* kernel_mmap_internal; its callers assert that the pages were free.
MapPages(w, a, f, n, mode) ==
    IF IsMapped(w, a, n) THEN [w EXCEPT !.mem = Fail(@, "remapped")]
    ELSE FoldLeft(LAMBDA v, i : MapPage(v, a + i, f + i, mode), w, UpTo(n))

\* One turn of memory_munmap: a table that holds nothing more is freed.
UnmapPage(w, a) ==
    LET t  == w.sp.table[TableOf(a)]
        u  == IF t = None \/ w.sp.pte[a] = None THEN w
              ELSE [w EXCEPT !.mem = ReleaseRef(@, w.sp.pte[a].frame), !.sp.pte[a] = None]
    IN  IF t # None /\ \A b \in Page : TableOf(b) = TableOf(a) => u.sp.pte[b] = None
        THEN [u EXCEPT !.mem = FreeFrames(@, t, 1), !.sp.table[TableOf(a)] = None]
        ELSE u

\* memory_munmap
UnmapPages(w, a, n) == FoldLeft(LAMBDA v, i : UnmapPage(v, a + i), w, UpTo(n))

\* Frames that nothing refers to hold nothing a process can count on.
Forget(m, d) == [f \in Frame |-> IF f \in FreeCells(m.free) THEN 0 ELSE d[f]]

\* Frames, then pages at one end of the free pages, then the mapping: the common
\* part of memory_alloc_page and memory_alloc_stack.
AllocMapped(w, n, start, mode) ==
    LET f == FrameAddress(w.mem, n)
        a == PageAddress(w, n, start)
        v == AllocPages([w EXCEPT !.mem = AllocFrames(@, n)], n, start)
    IN  IF v.mem.fail # "none" THEN v ELSE MapPages(v, a, f, n, mode)

--------------------------------------------------------------------------------
(***************************************************************************)
(* The operations.                                                         *)
(***************************************************************************)

\* A process whose program runs: some thread has both its stacks.
Runs(p) == Running /\ status[p] = "alive" /\ \E t \in threads[p] : t.stack # None

\* The page allocation system call.
AllocPage(p, n) ==
    LET w == AllocMapped(World(p), n, "BEGINING", "regular")
    IN  /\ Runs(p)
        /\ Commit(w.mem, /\ space' = [space EXCEPT ![p] = w.sp]
                         /\ UNCHANGED <<threads, status, parent, data, lastTid>>)

\* sched_create_kernel_thread allocates the kernel stack, then the stack, in two
\* critical sections.
AllocKStack(p) ==
    LET w == AllocMapped(World(p), KStackPages, "END", "private")
        a == PageAddress(World(p), KStackPages, "END")
    IN  /\ Running /\ status[p] = "alive"
        /\ \A t \in threads[p] : t.stack # None
        /\ lastTid < MaxTid
        /\ Commit(w.mem, /\ space' = [space EXCEPT ![p] = w.sp]
                         /\ threads' = [threads EXCEPT ![p] = @ \cup {[kstack |-> a, stack |-> None]}]
                         /\ lastTid' = lastTid + 1
                         /\ UNCHANGED <<status, parent, data>>)

AllocStack(p, t) ==
    LET w == AllocMapped(World(p), StackPages, "END", "regular")
        a == PageAddress(World(p), StackPages, "END")
    IN  /\ Running /\ status[p] = "alive"
        /\ t \in threads[p] /\ t.stack = None
        /\ Commit(w.mem, /\ space' = [space EXCEPT ![p] = w.sp]
                         /\ threads' = [threads EXCEPT ![p] = (@ \ {t}) \cup {[t EXCEPT !.stack = a]}]
                         /\ UNCHANGED <<status, parent, data, lastTid>>)

\* memory_free_stack of both stacks of t, when a thread of the same process
\* joins it.
FreeStacks(p, t) ==
    LET v == FreePages(UnmapPages(World(p), t.stack, StackPages), t.stack, StackPages)
        w == FreePages(UnmapPages(v, t.kstack, KStackPages), t.kstack, KStackPages)
    IN  /\ Running /\ status[p] = "alive"
        /\ t \in threads[p] /\ t.stack # None
        /\ \E u \in threads[p] \ {t} : u.stack # None
        /\ Commit(w.mem, /\ space' = [space EXCEPT ![p] = w.sp]
                         /\ threads' = [threads EXCEPT ![p] = @ \ {t}]
                         /\ data' = Forget(w.mem, data)
                         /\ UNCHANGED <<status, parent, lastTid>>)

--------------------------------------------------------------------------------
\* memory_copy_self_mapping, on w = [mem, sp, child, data]

\* Mutant: the directory is mapped and unmapped without a reference of its own.
NewDirectory_NoRef(w) ==
    LET f == FrameAddress(w.mem, 1)
    IN  [w EXCEPT !.mem = AllocFrames(@, 1), !.child.dir = f]

\* memory_create_new_pagedir, once the directory is unmapped again.
NewDirectory(w) ==
    LET f == FrameAddress(w.mem, 1)
    IN  [w EXCEPT !.mem = UnmapTemp(MapTemp(AcquireRef(AllocFrames(@, 1), f), f), f),
                  !.child.dir = f]

\* Mutant: the parent keeps write access to what it shares.
CopyEntry_ParentWrites(w, a) ==
    LET e == w.sp.pte[a]
    IN  IF e = None \/ e.mode = "private" THEN w
        ELSE [w EXCEPT !.child.pte[a] = [e EXCEPT !.mode = "cow"],
                       !.mem = AcquireRef(@, e.frame)]

\* An entry of the parent: read-only on both sides unless it is private.
CopyEntry(w, a) ==
    LET e == w.sp.pte[a]
    IN  IF e = None \/ e.mode = "private" THEN w
        ELSE [w EXCEPT !.sp.pte[a].mode = "cow",
                       !.child.pte[a] = [e EXCEPT !.mode = "cow"],
                       !.mem = AcquireRef(@, e.frame)]

\* memory_copy_self_pgtable for one table of the parent.
CopyTable(w, t) ==
    LET f == FrameAddress(w.mem, 1)
        v == [w EXCEPT !.mem = UnmapTemp(AcquireRef(MapTemp(AllocFrames(@, 1), f), f), f),
                       !.child.table[t] = f]
    IN  IF w.sp.table[t] = None THEN w
        ELSE FoldLeft(LAMBDA x, i : CopyEntry(x, t * TableSize + i), v, UpTo(TableSize))

\* memory_copy_self_stack for one page of the kernel stack.
CopyStackPage(w, a) ==
    LET table == w.child.table[TableOf(a)]
        f     == FrameAddress(w.mem, 1)
        m     == AcquireRef(AllocFrames(MapTemp(w.mem, table), 1), f)
    IN  [w EXCEPT !.mem = UnmapTemp(UnmapTemp(MapTemp(m, f), f), table),
                  !.data[f] = w.data[w.sp.pte[a].frame],
                  !.child.pte[a] = [frame |-> f, mode |-> "private"]]

CopySelfMapping(p, t) ==
    LET w == NewDirectory([mem |-> mem, sp |-> space[p], child |-> NoSpace, data |-> data])
        v == FoldLeft(CopyTable, w, UpTo(NbTables))
        u == FoldLeft(LAMBDA x, i : CopyStackPage(x, t.kstack + i), v, UpTo(KStackPages))
    IN  [u EXCEPT !.child.pages = CopyRanges(w.sp.pages)]

\* sched_fork_process called by the thread t of p: t is the only thread of q.
Fork(p, q, t) ==
    LET w == CopySelfMapping(p, t)
    IN  /\ Running /\ status[p] = "alive" /\ status[q] = "none"
        /\ t \in threads[p] /\ t.stack # None
        /\ lastTid < MaxTid
        /\ Commit(w.mem, /\ space' = [space EXCEPT ![p] = w.sp, ![q] = w.child]
                         /\ threads' = [threads EXCEPT ![q] = {t}]
                         /\ status' = [status EXCEPT ![q] = "alive"]
                         /\ parent' = [parent EXCEPT ![q] = p]
                         /\ data' = w.data
                         /\ lastTid' = lastTid + 1)

--------------------------------------------------------------------------------
\* memory_invocate_cow.  A frame that others share is not copied: the error
\* variable still holds OS_ERR_MEMORY_NOT_MAPPED when it is tested after the
\* allocations, and the page fault handler asserts that there was no error.
InvocateCow(w, a) ==
    IF w.mem.ref[w.sp.pte[a].frame].count > 1
    THEN [w EXCEPT !.mem = Fail(AllocFrames(@, 1), "page_fault")]
    ELSE [w EXCEPT !.sp.pte[a].mode = "regular"]

\* A thread of p writes to a page.
Write(p, a, v) ==
    LET w == IF space[p].pte[a].mode = "cow" THEN InvocateCow(World(p), a) ELSE World(p)
    IN  /\ Runs(p)
        /\ space[p].pte[a] # None
        /\ Cardinality({f \in Frame : data[f] # 0}) < MaxWritten
        /\ Commit(w.mem, /\ space' = [space EXCEPT ![p] = w.sp]
                         /\ data' = [data EXCEPT ![w.sp.pte[a].frame] = v]
                         /\ UNCHANGED <<threads, status, parent, lastTid>>)

--------------------------------------------------------------------------------
\* The release of a process

\* One page of memory_free_process_data.
FreeProcessPage(w, a) ==
    LET t == w.sp.table[TableOf(a)]
        e == w.sp.pte[a]
        m == ReleaseRef(MapTemp(w.mem, t), e.frame)
        v == FreePages([w EXCEPT !.mem = m, !.sp.pte[a] = None], a, 1)
    IN  IF t = None \/ e = None THEN [w EXCEPT !.mem = Fail(@, "unmapped")]
        ELSE [v EXCEPT !.mem = UnmapTemp(@, t)]

\* memory_free_process_data
FreeProcessData(w, a, n) ==
    LET v == FoldLeft(LAMBDA x, i : FreeProcessPage(x, a + i),
                      [w EXCEPT !.mem = MapTemp(@, w.sp.dir)], UpTo(n))
    IN  [v EXCEPT !.mem = UnmapTemp(@, w.sp.dir)]

\* The stacks of one thread: sched_clean_thread called by another process.  A
\* thread under construction is not in the list of the process yet.
FreeThread(w, t) ==
    IF t.stack = None THEN w
    ELSE FreeProcessData(FreeProcessData(w, t.stack, StackPages), t.kstack, KStackPages)

\* One table in memory_clean_process_memory: its pages, then the table.
CleanTable(m, sp, t) ==
    LET pages == FoldLeft(LAMBDA n, i : LET e == sp.pte[t * TableSize + i]
                                        IN  IF e = None THEN n ELSE ReleaseRef(n, e.frame),
                          MapTemp(m, sp.table[t]), UpTo(TableSize))
    IN  IF sp.table[t] = None THEN m
        ELSE ReleaseRef(UnmapTemp(pages, sp.table[t]), sp.table[t])

\* memory_clean_process_memory
CleanProcessMemory(m, sp) ==
    LET n == FoldLeft(LAMBDA x, t : CleanTable(x, sp, t), MapTemp(m, sp.dir), UpTo(NbTables))
    IN  ReleaseRef(UnmapTemp(n, sp.dir), sp.dir)

\* sched_exit_process: the address space is left as it is.
Exit(p) ==
    /\ Runs(p) /\ p # Main
    /\ status' = [status EXCEPT ![p] = "dead"]
    /\ UNCHANGED <<mem, space, threads, parent, data, lastTid>>

\* sched_wait_process_pid of q, which has exited, by its parent p.
WaitPid(p, q) ==
    LET w == FoldLeft(FreeThread, [mem |-> mem, sp |-> space[q]], SetToSeq(threads[q]))
        m == CleanProcessMemory(w.mem, w.sp)
    IN  /\ Running /\ status[p] = "alive" /\ status[q] = "dead" /\ parent[q] = p
        /\ Commit(m, /\ space' = [space EXCEPT ![q] = NoSpace]
                     /\ threads' = [threads EXCEPT ![q] = {}]
                     /\ status' = [status EXCEPT ![q] = "none"]
                     /\ parent' = [r \in Proc |-> IF parent[r] = q THEN Main ELSE parent[r]]
                     /\ data' = Forget(m, data)
                     /\ UNCHANGED lastTid)

\* memory_declare_hw: all the frames of the region become hardware frames, or
\* none of them when one is known already.  Drivers call it during start-up.
DeclareHw(region) ==
    LET cells == region.base .. region.base + region.size - 1
    IN  /\ Running /\ threads[Main] = {}
        /\ \A f \in cells : ~mem.ref[f].there
        /\ mem' = [mem EXCEPT !.ref = [f \in Frame |->
                        IF f \in cells THEN [there |-> TRUE, hw |-> TRUE, count |-> 0] ELSE @[f]]]
        /\ UNCHANGED <<space, threads, status, parent, data, lastTid>>

Next ==
    \/ \E p \in Proc :
        \/ \E n \in Requests : AllocPage(p, n)
        \/ AllocKStack(p)
        \/ \E t \in threads[p] : AllocStack(p, t) \/ FreeStacks(p, t)
        \/ \E q \in Proc, t \in threads[p] : Fork(p, q, t)
        \/ \E a \in Page, v \in Value \ {0} : Write(p, a, v)
        \/ Exit(p)
        \/ \E q \in Proc : WaitPid(p, q)
    \/ \E r \in HwRegions : DeclareHw(r)

Spec == Init /\ [][Next]_vars

--------------------------------------------------------------------------------
(***************************************************************************)
(* Properties.                                                             *)
(***************************************************************************)

\* The variables have the shapes of the C structures.
TypeOK ==
    /\ mem.ref \in [Frame -> [there : BOOLEAN, hw : BOOLEAN, count : Nat]]
    /\ mem.avail \in 0 .. FrameLimit
    /\ mem.fail \in {"none", "no_memory", "page_fault", "released_free", "freed_twice",
                     "no_reference", "remapped", "unmapped"}
    /\ \A p \in Proc :
        /\ space[p].dir \in Frame \cup {None}
        /\ space[p].table \in [Table -> Frame \cup {None}]
        /\ \A a \in Page : space[p].pte[a] # None =>
                space[p].pte[a] \in Entry
        /\ \A t \in threads[p] : t.kstack \in Page /\ t.stack \in Page \cup {None}
    /\ status \in [Proc -> {"none", "alive", "dead"}]
    /\ parent \in [Proc -> Proc]
    /\ data \in [Frame -> Value]
    /\ lastTid \in 0 .. MaxTid

FrameAt(p, a) == IF space[p].pte[a] = None THEN None ELSE space[p].pte[a].frame

Mappings(f) == {x \in Proc \X Page : FrameAt(x[1], x[2]) = f}
Tables(f)   == {x \in Proc \X Table : space[x[1]].table[x[2]] = f}
Dirs(f)     == {p \in Proc : space[p].dir = f}

\* Frames that the manager hands out.
Managed == {f \in Frame : mem.ref[f].there /\ ~mem.ref[f].hw /\ KernelEnd <= f}

\* The count of a frame is the number of pages mapped to it, whatever forks,
\* exits and unmappings came before.  A directory, and a table that a fork made,
\* count once, a table made by a mapping does not count, and the first frame
\* behind the kernel counts one too many for ever (init_frame_ref_table).
RefsExact ==
    \A f \in Managed :
        LET extra == IF f = KernelEnd THEN 1 ELSE 0
            n     == Cardinality(Mappings(f))
        IN  IF Tables(f) \cup Dirs(f) = {} THEN mem.ref[f].count = n + extra
            ELSE /\ n = 0
                 /\ Cardinality(Tables(f)) + Cardinality(Dirs(f)) = 1
                 /\ mem.ref[f].count \in extra .. extra + 1

\* No frame is lost and none is handed out twice: the list holds exactly the
\* frames that nothing uses, available_memory counts them, and ranges that touch
\* are merged.  Only the first frame behind the kernel never comes back, because
\* its count never drops to 0.
FramesAccounted ==
    /\ RangesDisjoint(mem.free) /\ RangesMerged(mem.free)
    /\ mem.avail = Cardinality(FreeCells(mem.free))
    /\ \A f \in Managed :
        LET used == Mappings(f) # {} \/ Tables(f) # {} \/ Dirs(f) # {}
        IN  /\ used => f \notin FreeCells(mem.free)
            /\ ~used /\ f # KernelEnd => f \in FreeCells(mem.free)

\* The free pages of a process are ranges apart from each other and from what is
\* mapped, and so are its stacks: an allocation never meets a mapping.  The
\* reversed copy of the list that a child gets keeps this.
FreePagesUnmapped ==
    \A p \in Proc :
        LET free == FreeCells(space[p].pages)
        IN  /\ RangesDisjoint(space[p].pages)
            /\ \A a \in free : space[p].pte[a] = None
            /\ \A t \in threads[p] :
                /\ \A i \in 0 .. KStackPages - 1 :
                    t.kstack + i \notin free /\ space[p].pte[t.kstack + i].mode = "private"
                /\ t.stack # None => \A i \in 0 .. StackPages - 1 : t.stack + i \notin free

\* The free lists of frames and of pages say what is free (above).
FreeListsSound == TypeOK /\ FramesAccounted /\ FreePagesUnmapped

\* Which assertions can stop the kernel: the frames run out, a shared page is
\* written (InvocateCow), or a process is released that has a page table which was
\* made without a reference (NeedTable).  The other assertions never fail.
KnownPanics ==
    /\ mem.fail \notin {"no_reference", "remapped", "unmapped"}
    /\ mem.fail \in {"released_free", "freed_twice"} =>
        \E q \in Proc, t \in Table :
            /\ status[q] = "dead" /\ space[q].table[t] # None
            /\ mem.ref[space[q].table[t]].count = 0

\* Processes have address spaces of their own.
Spaces == INSTANCE AddressSpaces
    WITH content <- [p \in Proc |-> [a \in Page |->
                        IF space[p].pte[a] = None THEN None ELSE data[space[p].pte[a].frame]]]

\* The mappings, the sharing of frames after a fork and copy on write implement
\* separate address spaces: no process sees what another one writes.
ImplementsAddressSpaces == Spaces!Spec

\* memmgt.h, process.h and scheduler.h promise that a page shared by a fork is
\* copied when it is written: the page fault is resolved.
PageFaultsResolved == mem.fail # "page_fault"
================================================================================
