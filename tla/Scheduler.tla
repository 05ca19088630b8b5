------------------------------- MODULE Scheduler -------------------------------
(***************************************************************************)
(* The thread scheduler of core/src/scheduler.c on its one CPU: election   *)
(* (select_thread), the timer preemption that may strike between any two   *)
(* instructions run with interrupts enabled, sleeping, joining, thread     *)
(* exit and clean up, thread creation, the block and unblock services used *)
(* by the futexes, and the priority system call.                           *)
(*                                                                         *)
(* What runs inside ENTER_CRITICAL / EXIT_CRITICAL or inside an interrupt  *)
(* gate is one step.  sched_sleep, sched_join_thread and the beginning of  *)
(* thread_exit run with interrupts enabled: each of their accesses to      *)
(* shared state is a step of its own and pc says which one comes next.     *)
(***************************************************************************)
EXTENDS KQueueSeq

CONSTANTS
    User,          \* structures kmalloc can give to the threads a client creates
    Idle, Init,    \* the threads sched_init creates
    LowestPrio,    \* KERNEL_LOWEST_PRIORITY (0 is the highest priority)
    MaxSleep,      \* bound on the length of a sleep, in timer ticks
    KeyMod,        \* ticks after which a 32-bit nanosecond count wraps
    MaxCreate,     \* bound on the number of threads created
    SharedJoin,    \* may two threads join the same thread at the same time?
    Null           \* the NULL pointer

Thread == User \cup {Idle, Init}
Prio == 0 .. LowestPrio

ASSUME ConstantsAssumption ==
    /\ Idle # Init /\ Idle \notin User /\ Init \notin User
    /\ Null \notin Thread
    /\ LowestPrio \in Nat /\ MaxSleep \in Nat /\ MaxCreate \in Nat
    /\ KeyMod \in Nat \ {0}
    /\ SharedJoin \in BOOLEAN

VARIABLES
    state,        \* kernel_thread_t.state, "NONE" for memory not in use
    prio,         \* kernel_thread_t.priority
    joining,      \* kernel_thread_t.joining_thread, as the thread of the node
    retval,       \* has kernel_thread_t.ret_val been stored?
    left,         \* wakeup_time - uptime in ticks, -1 once it is in the past
    wkey,         \* wakeup_time truncated to the uintptr_t of a node priority
    clock,        \* the uptime in ticks, modulo KeyMod
    runq,         \* active_threads_table: see below
    sleepq,       \* sleeping_threads_table
    active,       \* active_thread
    activeNode,   \* active_thread_node, as the thread of the node
    threadCount,  \* thread_count
    pc,           \* where each thread stands in the scheduler's code
    target        \* the thread argument of the sched_join_thread in progress

\* The array active_threads_table holds one FIFO queue for each priority.  runq
\* is their merge, the last thread pushed first: the queue of priority p is the
\* sub-sequence of the threads of priority p (a queued thread keeps its
\* priority: only the running thread can change its own).

vars == <<state, prio, joining, retval, left, wkey, clock, runq, sleepq,
          active, activeNode, threadCount, pc, target>>

States == {"NONE", "READY", "RUNNING", "SLEEPING", "ZOMBIE", "JOINING", "WAITING"}

PC == {"run",
       "sleep_state", "sleep_sched", "sleep_ret",
       "join_check", "join_state", "join_link", "join_sched", "join_ret",
       "exit_critical", "exit_sched"}

TypeOK ==
    /\ state \in [Thread -> States]
    /\ prio \in [Thread -> Prio]
    /\ joining \in [Thread -> Thread \cup {Null}]
    /\ retval \in [Thread -> BOOLEAN]
    /\ left \in [Thread -> -1 .. MaxSleep]
    /\ wkey \in [Thread -> 0 .. KeyMod - 1]
    /\ clock \in 0 .. KeyMod - 1
    /\ runq \in Seq(Thread)
    /\ sleepq \in Seq(Thread)
    /\ active \in Thread
    /\ activeNode \in Thread \cup {Null}
    /\ threadCount \in 2 .. MaxCreate + 2
    /\ pc \in [Thread -> PC]
    /\ target \in [Thread -> Thread \cup {Null}]

\* sched_init: INIT waits in the queue of the highest priority; the idle thread
\* runs, and is still in its queue in the state READY.
InitState ==
    /\ state = [t \in Thread |-> IF t \in {Idle, Init} THEN "READY" ELSE "NONE"]
    /\ prio = [t \in Thread |-> IF t = Init THEN 0 ELSE LowestPrio]
    /\ joining = [t \in Thread |-> Null]
    /\ retval = [t \in Thread |-> FALSE]
    /\ left = [t \in Thread |-> -1]
    /\ wkey = [t \in Thread |-> 0]
    /\ clock = 0
    /\ runq = <<Init, Idle>>
    /\ sleepq = <<>>
    /\ active = Idle
    /\ activeNode = Idle
    /\ threadCount = 2
    /\ pc = [t \in Thread |-> "run"]
    /\ target = [t \in Thread |-> Null]

--------------------------------------------------------------------------------
(***************************************************************************)
(* Election: select_thread.                                                *)
(***************************************************************************)

\* The thread popped next: of the threads with the best priority, the one
\* nearest to the tail.
Elect(q) ==
    CHOOSE i \in 1 .. Len(q) :
        \A j \in 1 .. Len(q) :
            /\ prio[q[i]] <= prio[q[j]]
            /\ prio[q[i]] = prio[q[j]] => j <= i

\* Mutant: a sleeper whose time is just reached is woken.
NbExpired_Early(q, lft) ==
    Cardinality({i \in 1 .. Len(q) : \A j \in i .. Len(q) : lft[q[j]] <= 0})

\* The wake up loop pops from the tail as long as the tail's time is over.
NbExpired(q, lft) ==
    Cardinality({i \in 1 .. Len(q) : \A j \in i .. Len(q) : lft[q[j]] < 0})

\* Mutant: the sleeper popped last is forgotten.
PutBack_Dropped(q) == IF q = <<>> THEN q ELSE Front(q)

\* The sleeper at which the loop stops was popped too and is inserted again.
PutBack(q) == IF q = <<>> THEN q ELSE PushPrio(Front(q), Last(q), wkey)

\* The election as it starts from the thread states st, the ready threads rq
\* and the remaining sleeping times lft.  With nobody to elect the kernel panics:
\* there is no step.
SelectThread(st, rq, lft) ==
    LET running == st[active] = "RUNNING"
        ready   == IF running THEN Push(rq, active) ELSE rq
        asleep  == IF st[active] = "SLEEPING"
                   THEN PushPrio(sleepq, active, wkey) ELSE sleepq
        n       == Len(asleep) - NbExpired(asleep, lft)
        woken   == SubSeq(asleep, n + 1, Len(asleep))
        queue   == woken \o ready
        next    == queue[Elect(queue)]
    IN  /\ queue # <<>>
        /\ runq' = RemoveAt(queue, Elect(queue))
        /\ sleepq' = PutBack(SubSeq(asleep, 1, n))
        /\ state' = [t \in Thread |->
                        IF t = next THEN "RUNNING"
                        ELSE IF t \in ToSet(woken) \/ (running /\ t = active)
                        THEN "READY" ELSE st[t]]
        /\ active' = next
        /\ activeNode' = next

\* The main timer interrupt (time_main_timer_handler): one tick more, then
\* schedule_int.  It preempts the active thread wherever that thread stands.
Timer ==
    /\ clock' = (clock + 1) % KeyMod
    /\ left' = [t \in Thread |-> IF left[t] < 0 THEN -1 ELSE left[t] - 1]
    /\ SelectThread(state, runq, left')
    /\ UNCHANGED <<prio, joining, retval, wkey, threadCount, pc, target>>

--------------------------------------------------------------------------------
\* Mutant: the idle thread is allowed to block.
Calls_Idle(t) == active = t /\ pc[t] = "run"

\* The active thread executes client code and calls the scheduler.  The idle
\* thread does not: sched_sleep and sched_lock_thread refuse it.
Calls(t) == active = t /\ t # Idle /\ pc[t] = "run"

\* The active thread is about to execute the step l of a scheduler service.
At(t, l) == active = t /\ pc[t] = l

Goto(t, l) == pc' = [pc EXCEPT ![t] = l]

\* sched_schedule, the software scheduling interrupt, from client code.
Yield(t) ==
    /\ Calls(t)
    /\ SelectThread(state, runq, left)
    /\ UNCHANGED <<prio, joining, retval, left, wkey, clock, threadCount, pc, target>>

\* Mutant: the requested priority is compared with the size of the table.
SetPriority_OffByOne(t, p) ==
    /\ Calls(t)
    /\ p <= LowestPrio + 1
    /\ prio' = [prio EXCEPT ![t] = p]
    /\ UNCHANGED <<state, joining, retval, left, wkey, clock, runq, sleepq,
                   active, activeNode, threadCount, pc, target>>

\* sched_set_thread_params; a request out of range is refused.
SetPriority(t, p) ==
    /\ Calls(t)
    /\ p <= LowestPrio
    /\ prio' = [prio EXCEPT ![t] = p]
    /\ UNCHANGED <<state, joining, retval, left, wkey, clock, runq, sleepq,
                   active, activeNode, threadCount, pc, target>>

--------------------------------------------------------------------------------
(***************************************************************************)
(* sched_sleep.  The wake up time is stored, the state is changed and the  *)
(* scheduling interrupt is raised in three separate steps.                 *)
(***************************************************************************)
SleepTime(t, d) ==
    /\ Calls(t)
    /\ left' = [left EXCEPT ![t] = d]
    /\ wkey' = [wkey EXCEPT ![t] = (clock + d) % KeyMod]
    /\ Goto(t, "sleep_state")
    /\ UNCHANGED <<state, prio, joining, retval, clock, runq, sleepq, active,
                   activeNode, threadCount, target>>

SleepState(t) ==
    /\ At(t, "sleep_state")
    /\ state' = [state EXCEPT ![t] = "SLEEPING"]
    /\ Goto(t, "sleep_sched")
    /\ UNCHANGED <<prio, joining, retval, left, wkey, clock, runq, sleepq,
                   active, activeNode, threadCount, target>>

SleepSchedule(t) ==
    /\ At(t, "sleep_sched")
    /\ SelectThread(state, runq, left)
    /\ Goto(t, "sleep_ret")
    /\ UNCHANGED <<prio, joining, retval, left, wkey, clock, threadCount, target>>

\* From here on wakeup_time is not read before the next sleep writes it.
SleepReturn(t) ==
    /\ At(t, "sleep_ret")
    /\ wkey' = [wkey EXCEPT ![t] = 0]
    /\ Goto(t, "run")
    /\ UNCHANGED <<state, prio, joining, retval, left, clock, runq, sleepq,
                   active, activeNode, threadCount, target>>

--------------------------------------------------------------------------------
(***************************************************************************)
(* sched_create_kernel_thread, from the critical section that publishes    *)
(* the thread (what comes before touches private memory only).  Refused    *)
(* priorities and failed allocations leave no trace.  The structure is     *)
(* cleared by a memset; here memory not in use is always clear.            *)
(***************************************************************************)
Create(t, u, p) ==
    /\ Calls(t)
    /\ u \in User /\ state[u] = "NONE"
    /\ threadCount < MaxCreate + 2
    /\ state' = [state EXCEPT ![u] = "READY"]
    /\ prio' = [prio EXCEPT ![u] = p]
    /\ runq' = Push(runq, u)
    /\ threadCount' = threadCount + 1
    /\ UNCHANGED <<joining, retval, left, wkey, clock, sleepq, active, activeNode,
                   pc, target>>

--------------------------------------------------------------------------------
(***************************************************************************)
(* thread_exit, reached when the routine of a thread returns               *)
(* (thread_wrapper) or through sched_thread_terminate_self.  The INIT      *)
(* routine panics rather than return.                                      *)
(***************************************************************************)
ExitZombie(t) ==
    /\ Calls(t) /\ t # Init
    /\ state' = [state EXCEPT ![t] = "ZOMBIE"]
    /\ Goto(t, "exit_critical")
    /\ UNCHANGED <<prio, joining, retval, left, wkey, clock, runq, sleepq,
                   active, activeNode, threadCount, target>>

\* The threads the critical section of thread_exit wakes: the joining thread,
\* if it is still in the state JOINING.
Woken(t) == {j \in Thread : joining[t] = j /\ state[j] = "JOINING"}

ExitCritical(t) ==
    /\ At(t, "exit_critical")
    /\ state' = [j \in Thread |-> IF j \in Woken(t) THEN "READY" ELSE state[j]]
    /\ runq' = IF Woken(t) = {} THEN runq ELSE Push(runq, joining[t])
    /\ activeNode' = Null
    /\ retval' = [retval EXCEPT ![t] = TRUE]
    /\ Goto(t, "exit_sched")
    /\ UNCHANGED <<prio, joining, left, wkey, clock, sleepq, active,
                   threadCount, target>>

ExitSchedule(t) ==
    /\ At(t, "exit_sched")
    /\ SelectThread(state, runq, left)
    /\ UNCHANGED <<prio, joining, retval, left, wkey, clock, threadCount, pc, target>>

--------------------------------------------------------------------------------
(***************************************************************************)
(* sched_join_thread.  The refusal of a thread that is already joined and  *)
(* the refusal of a NULL handle change nothing and are not steps.  A       *)
(* client does not join itself nor a structure it knows to be released.    *)
(***************************************************************************)
InJoin(t) == pc[t] \in {"join_check", "join_state", "join_link", "join_sched", "join_ret"}

JoinCall(t, u) ==
    /\ Calls(t)
    /\ u \in Thread \ {t, Idle} /\ state[u] # "NONE"
    /\ SharedJoin \/ \A j \in Thread : InJoin(j) => target[j] # u
    /\ joining[u] = Null
    /\ target' = [target EXCEPT ![t] = u]
    /\ Goto(t, "join_check")
    /\ UNCHANGED <<state, prio, joining, retval, left, wkey, clock, runq, sleepq,
                   active, activeNode, threadCount>>

\* sched_clean_thread: off the ready queue if it is there, then released.  What
\* the structure held is dead.
CleanThread(u) ==
    /\ runq' = Unlink(runq, u)
    /\ state' = [state EXCEPT ![u] = "NONE"]
    /\ prio' = [prio EXCEPT ![u] = LowestPrio]
    /\ joining' = [joining EXCEPT ![u] = Null]
    /\ retval' = [retval EXCEPT ![u] = FALSE]

\* The caller t gets the value of the thread it joined, and cleans that thread.
Collect(t) ==
    /\ CleanThread(target[t])
    /\ pc' = [pc EXCEPT ![t] = "run", ![target[t]] = "run"]
    /\ target' = [target EXCEPT ![t] = Null]
    /\ UNCHANGED <<left, wkey, clock, sleepq, active, activeNode, threadCount>>

\* Mutant: the state of the joined thread is not looked at.
JoinZombie_Unchecked(t) == At(t, "join_check") /\ Collect(t)

\* The joined thread is already a zombie.
JoinZombie(t) ==
    /\ At(t, "join_check") /\ state[target[t]] = "ZOMBIE"
    /\ Collect(t)

JoinAlive(t) ==
    /\ At(t, "join_check") /\ state[target[t]] # "ZOMBIE"
    /\ Goto(t, "join_state")
    /\ UNCHANGED <<state, prio, joining, retval, left, wkey, clock, runq, sleepq,
                   active, activeNode, threadCount, target>>

JoinState(t) ==
    /\ At(t, "join_state")
    /\ state' = [state EXCEPT ![t] = "JOINING"]
    /\ Goto(t, "join_link")
    /\ UNCHANGED <<prio, joining, retval, left, wkey, clock, runq, sleepq,
                   active, activeNode, threadCount, target>>

JoinLink(t) ==
    /\ At(t, "join_link")
    /\ joining' = [joining EXCEPT ![target[t]] = activeNode]
    /\ Goto(t, "join_sched")
    /\ UNCHANGED <<state, prio, retval, left, wkey, clock, runq, sleepq, active,
                   activeNode, threadCount, target>>

JoinSchedule(t) ==
    /\ At(t, "join_sched")
    /\ SelectThread(state, runq, left)
    /\ Goto(t, "join_ret")
    /\ UNCHANGED <<prio, joining, retval, left, wkey, clock, threadCount, target>>

JoinReturn(t) == At(t, "join_ret") /\ Collect(t)

--------------------------------------------------------------------------------
(***************************************************************************)
(* sched_lock_thread and sched_unlock_thread.  Their callers (futex_wait   *)
(* and futex_wake) run in critical sections, and futex_wait raises the     *)
(* scheduling interrupt in the same one.  Any thread may wake any waiting  *)
(* thread here; which one it is, is the business of the Futex module.  An  *)
(* unlock of a thread that does not wait is refused and changes nothing.   *)
(***************************************************************************)
\* Mutant: the waiting thread does not raise the scheduling interrupt.
Block_NoSchedule(t) ==
    /\ Calls(t)
    /\ state' = [state EXCEPT ![t] = "WAITING"]
    /\ UNCHANGED <<prio, joining, retval, left, wkey, clock, runq, sleepq, active,
                   activeNode, threadCount, pc, target>>

Block(t) ==
    /\ Calls(t)
    /\ SelectThread([state EXCEPT ![t] = "WAITING"], runq, left)
    /\ UNCHANGED <<prio, joining, retval, left, wkey, clock, threadCount, pc, target>>

\* Mutant: the thread is made ready whatever its state.
Unlock_Unchecked(t, u) ==
    /\ Calls(t)
    /\ state[u] # "NONE"
    /\ state' = [state EXCEPT ![u] = "READY"]
    /\ runq' = Push(runq, u)
    /\ UNCHANGED <<prio, joining, retval, left, wkey, clock, sleepq, active,
                   activeNode, threadCount, pc, target>>

Unlock(t, u) ==
    /\ Calls(t)
    /\ state[u] = "WAITING"
    /\ state' = [state EXCEPT ![u] = "READY"]
    /\ runq' = Push(runq, u)
    /\ UNCHANGED <<prio, joining, retval, left, wkey, clock, sleepq, active,
                   activeNode, threadCount, pc, target>>

\* The same with do_schedule = TRUE.
UnlockAndSchedule(t, u) ==
    /\ Calls(t)
    /\ state[u] = "WAITING"
    /\ SelectThread([state EXCEPT ![u] = "READY"], Push(runq, u), left)
    /\ UNCHANGED <<prio, joining, retval, left, wkey, clock, threadCount, pc, target>>

--------------------------------------------------------------------------------
Next ==
    \/ Timer
    \/ \E t \in Thread :
        \/ Yield(t) \/ Block(t)
        \/ SleepState(t) \/ SleepSchedule(t) \/ SleepReturn(t)
        \/ ExitZombie(t) \/ ExitCritical(t) \/ ExitSchedule(t)
        \/ JoinZombie(t) \/ JoinAlive(t) \/ JoinState(t) \/ JoinLink(t)
        \/ JoinSchedule(t) \/ JoinReturn(t)
        \/ \E p \in 0 .. LowestPrio + 1 : SetPriority(t, p)
        \/ \E d \in 0 .. MaxSleep : SleepTime(t, d)
        \/ \E u \in Thread :
            \/ JoinCall(t, u) \/ Unlock(t, u) \/ UnlockAndSchedule(t, u)
            \/ \E p \in Prio : Create(t, u, p)

Spec == InitState /\ [][Next]_vars

\* The main timer is periodic and is never disabled: it interrupts for ever.
FairSpec == Spec /\ WF_vars(Timer)

--------------------------------------------------------------------------------
(***************************************************************************)
(* Properties.                                                             *)
(***************************************************************************)
\* The node of a thread is linked at most once, and the state of a thread tells
\* in which table its node is: kqueue_push has no check of its own, a node
\* linked twice would corrupt both lists (kqueue.h warns about it).
QueuesMatchStates ==
    /\ IsInjective(runq) /\ IsInjective(sleepq)
    /\ \A t \in Thread :
        /\ Contains(runq, t) <=> state[t] = "READY"
        /\ Contains(sleepq, t) <=> state[t] = "SLEEPING" /\ t # active
        /\ state[t] = "RUNNING" => t = active

\* The assertion "Could not dequeue valid next thread" of select_thread cannot
\* fail: the idle thread is always there to be elected.
IdleAvailable == active = Idle \/ Contains(runq, Idle)

\* The thread that executes keeps its node until thread_exit deletes it, so that
\* select_thread, sched_lock_thread and sched_join_thread never use a NULL node.
ActiveNodeValid ==
    /\ activeNode = IF pc[active] = "exit_sched" THEN Null ELSE active
    /\ \/ state[active] \in {"RUNNING", "SLEEPING", "JOINING", "ZOMBIE"}
       \/ active = Idle /\ state[Idle] = "READY"

\* sched_sleep returns to its caller only when the requested time is over,
\* wherever the timer interrupted it and whoever else was woken meanwhile.
SleepsLongEnough ==
    \A t \in Thread : pc[t] = "sleep_ret" /\ state[t] \in {"READY", "RUNNING"} => left[t] < 0

\* A thread that comes back from the wait of sched_join_thread, and is about to
\* release the joined thread, was woken by the exit of that thread.
JoinReturnsAfterExit ==
    \A t \in Thread :
        pc[t] = "join_ret" /\ state[t] \in {"READY", "RUNNING"} =>
            state[target[t]] = "ZOMBIE" /\ retval[target[t]]

\* The memory of a thread is released only when the thread is dead, does not
\* execute and is in no table: nothing refers to the structure any more.
ReleasedOnlyWhenDead ==
    [][\A t \in Thread : state[t] # "NONE" /\ state'[t] = "NONE" =>
          /\ state[t] = "ZOMBIE" /\ t # active
          /\ ~Contains(runq, t) /\ ~Contains(sleepq, t)
          /\ \A j \in Thread : InJoin(j) /\ j # active => target[j] # t]_vars

\* A sleeping thread is made ready again, also when truncated keys have put it
\* behind threads that sleep longer.
SleepersWake == \A t \in Thread : state[t] = "SLEEPING" ~> state[t] # "SLEEPING"

\* Round robin: a ready thread of the highest priority gets the CPU, whatever
\* the other threads do.
HighestPriorityRuns == \A t \in Thread : state[t] = "READY" /\ prio[t] = 0 ~> t = active

--------------------------------------------------------------------------------
(***************************************************************************)
(* The inductive invariant behind these properties, for clients that do    *)
(* not join one thread twice at the same time.                             *)
(***************************************************************************)

\* The tables agree with the states st when the ready threads are rq.
Tables(st, rq) ==
    /\ IsInjective(rq) /\ IsInjective(sleepq)
    /\ \A t \in Thread :
        /\ Contains(rq, t) <=> st[t] = "READY"
        /\ Contains(sleepq, t) <=> st[t] = "SLEEPING" /\ t # active
        /\ st[t] = "RUNNING" => t = active
    /\ IF active = Idle THEN st[Idle] \in {"RUNNING", "READY"} ELSE Contains(rq, Idle)

\* What the state of a thread says of the place it stands at.
Positions ==
    /\ pc[Idle] = "run"
    /\ \A t \in Thread :
        /\ state[t] = "ZOMBIE" <=> pc[t] \in {"exit_critical", "exit_sched"}
        /\ state[t] \in {"NONE", "WAITING"} => pc[t] = "run"
        /\ state[t] = "SLEEPING" => pc[t] \in {"sleep_sched", "sleep_ret"}
        /\ state[t] = "JOINING" => pc[t] \in {"join_link", "join_sched", "join_ret"}
        /\ pc[t] = "join_link" => state[t] = "JOINING"
    /\ state[active] = "SLEEPING" => pc[active] = "sleep_sched"
    /\ state[active] = "JOINING" => pc[active] # "join_ret"
    /\ active # Idle => state[active] \in {"RUNNING", "SLEEPING", "JOINING", "ZOMBIE"}
    /\ activeNode = IF pc[active] = "exit_sched" THEN Null ELSE active

\* A thread that left the table of sleepers has slept long enough.
Sleeps ==
    \A t \in Thread :
        pc[t] \in {"sleep_sched", "sleep_ret"} /\ state[t] # "SLEEPING" => left[t] < 0

\* A thread is joined by one thread, and its link leads to that thread only.
Joins ==
    /\ \A t \in Thread :
        /\ InJoin(t) => target[t] \in Thread \ {t, Idle} /\ state[target[t]] # "NONE"
        /\ pc[t] \in {"join_sched", "join_ret"} /\ state[t] # "JOINING" =>
               state[target[t]] = "ZOMBIE" /\ retval[target[t]]
    /\ \A t, u \in Thread :
        /\ InJoin(t) /\ InJoin(u) /\ target[t] = target[u] => t = u
        /\ joining[u] = t => pc[t] \in {"join_sched", "join_ret"} /\ target[t] = u

SchedInv == TypeOK /\ Tables(state, runq) /\ Positions /\ Sleeps /\ Joins

--------------------------------------------------------------------------------
\* A documented behaviour the code does not have.

\* scheduler.h, sched_join_thread: ret_val is "The buffer to store the value
\* returned by the thread's routine": a joined thread has stored its value.
JoinGetsValue ==
    [][\A t \in Thread : state[t] = "ZOMBIE" /\ state'[t] = "NONE" => retval[t]]_vars
================================================================================
