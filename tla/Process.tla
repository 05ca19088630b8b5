-------------------------------- MODULE Process --------------------------------
(***************************************************************************)
(* The processes of core/src/scheduler.c: fork, exit and waitpid, the      *)
(* lists of children alive and dead, and the release of a process with its *)
(* threads and what these hold, the entries in the wait queues of futexes. *)
(*                                                                         *)
(* The system calls run with interrupts disabled: one is one step, and     *)
(* waitpid is two when it has to wait.  Which ready thread runs is the     *)
(* business of module Scheduler, here any may.  The memory of a process is *)
(* the business of module Memory.  A futex word belongs to one process.    *)
(***************************************************************************)
EXTENDS KQueueSeq

CONSTANTS
    Proc, Main,         \* processes and main_kprocess
    Thread, First,      \* threads and the main thread of Main
    MaxProcess,         \* KERNEL_MAX_PROCESS
    Null,               \* the NULL pointer
    Freed               \* a pointer to memory that was given back

ASSUME ProcessAssumption ==
    /\ Main \in Proc /\ First \in Thread
    /\ {Null, Freed} \cap (Thread \cup Proc) = {} /\ Null # Freed
    /\ MaxProcess \in Nat /\ IsFiniteSet(Proc)

VARIABLES
    pstat,          \* "none": no structure; "alive"; "exited": waits for waitpid
    parent,         \* parent_process
    children,       \* children
    deadChildren,   \* dead_children
    main,           \* main_thread
    processCount,   \* process_count
    st,             \* the state of a thread; ready and running are one
    owner,          \* process of a thread
    joining,        \* joining_thread
    waitsFor,       \* the child in the call of waitpid that a thread is in
    waitq,          \* wait queue of the futex word of each process, head first
    fail            \* the assertion that failed, or the use of freed memory

vars == <<pstat, parent, children, deadChildren, main, processCount, st, owner,
          joining, waitsFor, waitq, fail>>

States == {"NONE", "READY", "SLEEPING", "JOINING", "WAITING", "ZOMBIE"}

ThreadsOf(p) == {t \in Thread : st[t] # "NONE" /\ owner[t] = p}

Init ==
    /\ pstat = [p \in Proc |-> IF p = Main THEN "alive" ELSE "none"]
    /\ parent = [p \in Proc |-> Null]
    /\ children = [p \in Proc |-> {}]
    /\ deadChildren = [p \in Proc |-> {}]
    /\ main = [p \in Proc |-> IF p = Main THEN First ELSE Null]
    /\ processCount = 1
    /\ st = [t \in Thread |-> IF t = First THEN "READY" ELSE "NONE"]
    /\ owner = [t \in Thread |-> IF t = First THEN Main ELSE Null]
    /\ joining = [t \in Thread |-> Null]
    /\ waitsFor = [t \in Thread |-> Null]
    /\ waitq = [p \in Proc |-> <<>>]
    /\ fail = "none"

\* The thread t executes code of its process and may call the kernel.
Calls(t) == fail = "none" /\ st[t] = "READY" /\ waitsFor[t] = Null

\* A panic, or a use of freed memory: the model ends here.
Stop(cause) ==
    /\ fail' = cause
    /\ UNCHANGED <<pstat, parent, children, deadChildren, main, processCount, st,
                   owner, joining, waitsFor, waitq>>

--------------------------------------------------------------------------------
\* sched_create_kernel_thread
CreateThread(t, u) ==
    /\ Calls(t) /\ st[u] = "NONE"
    /\ st' = [st EXCEPT ![u] = "READY"]
    /\ owner' = [owner EXCEPT ![u] = owner[t]]
    /\ UNCHANGED <<pstat, parent, children, deadChildren, main, processCount,
                   joining, waitsFor, waitq, fail>>

\* sched_sleep, and the wake-up in select_thread.
Sleep(t) ==
    /\ Calls(t)
    /\ st' = [st EXCEPT ![t] = "SLEEPING"]
    /\ UNCHANGED <<pstat, parent, children, deadChildren, main, processCount,
                   owner, joining, waitsFor, waitq, fail>>

WakeUp(t) ==
    /\ fail = "none" /\ st[t] = "SLEEPING"
    /\ st' = [st EXCEPT ![t] = "READY"]
    /\ UNCHANGED <<pstat, parent, children, deadChildren, main, processCount,
                   owner, joining, waitsFor, waitq, fail>>

\* futex_wait: the entry in the queue is a resource of the thread.
FutexWait(t) ==
    /\ Calls(t)
    /\ st' = [st EXCEPT ![t] = "WAITING"]
    /\ waitq' = [waitq EXCEPT ![owner[t]] = Push(@, t)]
    /\ UNCHANGED <<pstat, parent, children, deadChildren, main, processCount,
                   owner, joining, waitsFor, fail>>

\* futex_wake of one thread: the resource goes with the entry.
FutexWake(t) ==
    LET q == waitq[owner[t]]
    IN  /\ Calls(t) /\ q # <<>>
        /\ st' = [st EXCEPT ![Head(q)] = "READY"]
        /\ waitq' = [waitq EXCEPT ![owner[t]] = Tail(q)]
        /\ UNCHANGED <<pstat, parent, children, deadChildren, main, processCount,
                       owner, joining, waitsFor, fail>>

\* Mutant: an exit wakes nobody.
Woken_None(u, s) == {}

\* The thread that an exit wakes: the joining thread, if it still waits.
Woken(u, s) == {j \in Thread : joining[u] = j /\ s[j] = "JOINING"}

Wake(s, J) == [t \in Thread |-> IF t \in J THEN "READY" ELSE s[t]]

\* thread_exit; the first thread panics rather than return.
ThreadExit(t) ==
    /\ Calls(t) /\ t # First
    /\ IF joining[t] = Freed THEN Stop("freed_joiner")
       ELSE /\ st' = Wake([st EXCEPT ![t] = "ZOMBIE"], Woken(t, st))
            /\ UNCHANGED <<pstat, parent, children, deadChildren, main, processCount,
                           owner, joining, waitsFor, waitq, fail>>

--------------------------------------------------------------------------------
\* sched_fork_process: the caller is copied, without its joining thread and
\* without its resources, and is the main thread of q.
Fork(t, q, u) ==
    LET p == owner[t]
    IN  /\ Calls(t)
        /\ pstat[q] = "none" /\ st[u] = "NONE"
        /\ processCount < MaxProcess
        /\ pstat' = [pstat EXCEPT ![q] = "alive"]
        /\ parent' = [parent EXCEPT ![q] = p]
        /\ children' = [children EXCEPT ![p] = @ \cup {q}]
        /\ main' = [main EXCEPT ![q] = u]
        /\ processCount' = processCount + 1
        /\ st' = [st EXCEPT ![u] = "READY"]
        /\ owner' = [owner EXCEPT ![u] = q]
        /\ UNCHANGED <<deadChildren, joining, waitsFor, waitq, fail>>

\* Mutant: only the calling thread dies.
Killed_Caller(t) == {t}

\* All the threads of the process die wherever they are.
Killed(t) == ThreadsOf(owner[t])

\* sched_exit_process: the process moves to the dead children of its parent.
\* Threads that wait on a futex stay in its queue, those that wait for a child
\* stay its joining thread.
Exit(t) ==
    LET p  == owner[t]
        st1 == [u \in Thread |-> IF u \in Killed(t) THEN "ZOMBIE" ELSE st[u]]
    IN  /\ Calls(t) /\ p # Main
        /\ IF joining[main[p]] = Freed THEN Stop("freed_joiner")
           ELSE /\ st' = Wake(st1, Woken(main[p], st1))
                /\ pstat' = [pstat EXCEPT ![p] = "exited"]
                /\ children' = [children EXCEPT ![parent[p]] = @ \ {p}]
                /\ deadChildren' = [deadChildren EXCEPT ![parent[p]] = @ \cup {p}]
                /\ UNCHANGED <<parent, main, processCount, owner, joining, waitsFor,
                               waitq, fail>>

--------------------------------------------------------------------------------
(***************************************************************************)
(* sched_wait_process_pid by the thread t for the child q.                 *)
(***************************************************************************)

\* Mutant: the children of a released process keep their parent.
NewParent_Kept(q) == parent

\* sched_clean_process gives the children that live to main_kprocess.
NewParent(q) == [p \in Proc |-> IF p \in children[q] THEN Main
                                ELSE IF p = q THEN Null ELSE parent[p]]

\* Mutant: the futex entries of a released process stay in their queue.
CleanQueue_Kept(q) == waitq

\* sched_clean_thread_resources of all the threads of q: futex_cleanup.
CleanQueue(q) == [waitq EXCEPT ![q] = Keep(@, Thread \ ThreadsOf(q))]

\* sched_join_thread cleans the main thread, sched_clean_process the others and
\* the structure, then q leaves the dead children of the caller.  Pointers to q
\* and to its threads that are left behind dangle.  The dead children of q are
\* forgotten with it.
Release(t, q) ==
    LET gone == ThreadsOf(q)
    IN  /\ st' = [u \in Thread |-> IF u \in gone THEN "NONE" ELSE st[u]]
        /\ owner' = [u \in Thread |-> IF u \in gone THEN Null ELSE owner[u]]
        /\ waitq' = CleanQueue(q)
        /\ joining' = [u \in Thread |-> IF u \in gone THEN Null
                                        ELSE IF joining[u] \in gone THEN Freed ELSE joining[u]]
        /\ waitsFor' = [u \in Thread |-> IF u = t \/ u \in gone THEN Null
                                         ELSE IF waitsFor[u] = q THEN Freed ELSE waitsFor[u]]
        /\ pstat' = [pstat EXCEPT ![q] = "none"]
        /\ parent' = NewParent(q)
        /\ children' = [children EXCEPT ![q] = {}, ![Main] = @ \cup children[q]]
        /\ deadChildren' = [deadChildren EXCEPT ![q] = {}, ![owner[t]] = @ \ {q}]
        /\ main' = [main EXCEPT ![q] = Null]
        /\ processCount' = processCount - 1
        /\ UNCHANGED fail

\* Mutant: the child is released although it is not among the dead children.
CleanChild_Unchecked(t, q) == Release(t, q)

\* The assertions on the way: a sleeping thread is looked up in the table of the
\* ready threads, and q must be among the dead children.
CleanChild(t, q) ==
    IF \E u \in ThreadsOf(q) : st[u] = "SLEEPING" THEN Stop("asleep")
    ELSE IF q \notin deadChildren[owner[t]] THEN Stop("not_dead")
    ELSE Release(t, q)

\* The main thread of the child is dead already, or somebody else has joined it:
\* the error of the join does not keep the child from being released.
WaitPidNow(t, q) ==
    /\ Calls(t)
    /\ q \in children[owner[t]] \cup deadChildren[owner[t]]
    /\ st[main[q]] = "ZOMBIE" \/ joining[main[q]] # Null
    /\ CleanChild(t, q)

\* The caller waits for the main thread of the child.
WaitPid(t, q) ==
    /\ Calls(t)
    /\ q \in children[owner[t]] \cup deadChildren[owner[t]]
    /\ st[main[q]] # "ZOMBIE" /\ joining[main[q]] = Null
    /\ st' = [st EXCEPT ![t] = "JOINING"]
    /\ joining' = [joining EXCEPT ![main[q]] = t]
    /\ waitsFor' = [waitsFor EXCEPT ![t] = q]
    /\ UNCHANGED <<pstat, parent, children, deadChildren, main, processCount,
                   owner, waitq, fail>>

\* The join is over: the child is released.
WaitPidReturn(t) ==
    /\ fail = "none" /\ st[t] = "READY" /\ waitsFor[t] # Null
    /\ IF waitsFor[t] = Freed THEN Stop("freed_child") ELSE CleanChild(t, waitsFor[t])

Next ==
    \E t \in Thread :
        \/ Sleep(t) \/ WakeUp(t) \/ FutexWait(t) \/ FutexWake(t)
        \/ ThreadExit(t) \/ Exit(t) \/ WaitPidReturn(t)
        \/ \E u \in Thread : CreateThread(t, u) \/ \E q \in Proc : Fork(t, q, u)
        \/ \E q \in Proc : WaitPid(t, q) \/ WaitPidNow(t, q)

Spec == Init /\ [][Next]_vars

--------------------------------------------------------------------------------
(***************************************************************************)
(* Properties.                                                             *)
(***************************************************************************)

\* The variables have the shapes of the C structures.
TypeOK ==
    /\ pstat \in [Proc -> {"none", "alive", "exited"}]
    /\ parent \in [Proc -> Proc \cup {Null}]
    /\ children \in [Proc -> SUBSET Proc] /\ deadChildren \in [Proc -> SUBSET Proc]
    /\ main \in [Proc -> Thread \cup {Null}]
    /\ processCount \in Int
    /\ st \in [Thread -> States]
    /\ owner \in [Thread -> Proc \cup {Null}]
    /\ joining \in [Thread -> Thread \cup {Null, Freed}]
    /\ waitsFor \in [Thread -> Proc \cup {Null, Freed}]
    /\ waitq \in [Proc -> Seq(Thread)]
    /\ fail \in {"none", "asleep", "not_dead", "freed_joiner", "freed_child"}

\* The family tree survives every order of forks, exits and releases: a living
\* process hangs in the children of a parent that exists, an exited one in the
\* dead children of its parent unless that parent is gone, and process_count
\* counts those that are not released.
ProcessTree ==
    /\ processCount = Cardinality({p \in Proc : pstat[p] # "none"})
    /\ \A p, q \in Proc : q \in children[p] <=> q # Main /\ pstat[q] = "alive" /\ parent[q] = p
    /\ \A p, q \in Proc : q \in children[p] \cup deadChildren[p] => pstat[p] # "none"
    /\ \A p, q \in Proc : q \in deadChildren[p] => pstat[q] = "exited" /\ parent[q] = p
    /\ \A q \in Proc : pstat[q] = "alive" /\ q # Main => pstat[parent[q]] # "none"

\* The wait queue of a futex holds no thread twice and no thread that is gone,
\* though exits kill threads that wait in it; a thread sleeps in futex_wait only
\* if a wake can find it.  An exited process has no thread left that could run.
FutexQueuesLive ==
    \A p \in Proc :
        /\ IsInjective(waitq[p])
        /\ \A t \in Thread :
            /\ Contains(waitq[p], t) => owner[t] = p /\ st[t] \in {"WAITING", "ZOMBIE"}
            /\ st[t] = "WAITING" /\ owner[t] = p => Contains(waitq[p], t)
        /\ pstat[p] = "none" => ThreadsOf(p) = {} /\ waitq[p] = <<>>
        /\ pstat[p] = "exited" => \A t \in ThreadsOf(p) : st[t] = "ZOMBIE"

\* Nobody waits for ever: a thread that sleeps in waitpid is the joining thread of
\* a main thread that still lives, whose exit will wake it.
WaitersServed ==
    \A t \in Thread : waitsFor[t] \in Proc /\ st[t] = "JOINING" =>
        /\ joining[main[waitsFor[t]]] = t
        /\ pstat[waitsFor[t]] = "alive" /\ st[main[waitsFor[t]]] # "ZOMBIE"

\* Threads that wait can be woken, and by nobody who is gone (above).
WaitersSound == TypeOK /\ FutexQueuesLive /\ WaitersServed

\* What leads to a failure: a main thread that ends without exit or a child
\* that two threads wait for (release of a process that lives, or of one that a
\* thread still waits for), and a thread that was killed while it waited for a
\* child and is released before that child, an orphan then, ends.
KnownFailures ==
    /\ fail \in {"asleep", "not_dead"} =>
        \E q \in Proc : /\ pstat[q] = "alive"
                        /\ st[main[q]] = "ZOMBIE" \/ joining[main[q]] # Null
    /\ fail = "freed_joiner" =>
        \E q \in Proc : pstat[q] = "alive" /\ parent[q] = Main /\ joining[main[q]] = Freed
    /\ fail = "freed_child" => \E t \in Thread : waitsFor[t] = Freed

\* A process is released only after it has called exit, and its parent's call of
\* waitpid is what releases it.
ReleasedAfterExit ==
    [][\A q \in Proc : pstat[q] # "none" /\ pstat'[q] = "none" =>
          /\ pstat[q] = "exited"
          /\ q \in deadChildren[parent[q]]
          /\ \A t \in ThreadsOf(q) : st[t] = "ZOMBIE"]_vars
================================================================================
