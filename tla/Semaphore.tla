------------------------------- MODULE Semaphore -------------------------------
(***************************************************************************)
(* The semaphore of lib/libapi/src/semaphore.c: a level and a count of     *)
(* waiters under a spinlock, and a futex on the level.  Threads are        *)
(* interleaved between the test of init, the spinlock, the body it         *)
(* protects and the system calls; a body under the spinlock is one step up *)
(* to its system call, as nobody else writes what it reads.                *)
(***************************************************************************)
EXTENDS Callers

CONSTANTS
    InitLevel,   \* the level given to sem_init
    MaxCalls     \* bound on the calls of a thread

ASSUME SemAssumption == InitLevel \in Int /\ MaxCalls \in Nat /\ IsFiniteSet(Thread)

VARIABLES
    level,     \* semaphore_t.level
    waiters,   \* semaphore_t.waiters
    lock,      \* semaphore_t.lock: the thread that holds the spinlock, or Nobody
    init,      \* semaphore_t.init
    expected,  \* the local variable futex.val of each thread in sem_pend
    calls      \* how many services the thread has called

semFields == <<level, waiters, lock, init, expected, calls, err, pc>>
semVars == <<semFields, futexVars>>

Services == {"pend_check", "trypend_check", "post_check", "destroy_check"}

SemPC == {"run", "pend_check", "pend_lock", "pend_test", "pend_wait", "pend_relock", "pend_back",
       "trypend_check", "trypend_lock", "trypend_test",
       "post_check", "post_lock", "post_add", "post_wake",
       "destroy_check", "destroy_lock", "destroy_set", "destroy_wake"}

SemTypeOK ==
    /\ level \in Int /\ waiters \in 0 .. Cardinality(Thread)
    /\ lock \in Thread \cup {Nobody} /\ init \in BOOLEAN
    /\ expected \in [Thread -> Int] /\ calls \in [Thread -> 0 .. MaxCalls]
    /\ err \in [Thread -> {"NO_ERR", "NOT_INITIALIZED", "NO_SUCH_ID", "UNAUTHORIZED"}]
    /\ pc \in [Thread -> SemPC]
    /\ waitq \in Seq(Thread) /\ known \in BOOLEAN

\* sem_init; no other thread uses the semaphore before it is over.
SemInit ==
    /\ FutexInit
    /\ level = InitLevel
    /\ waiters = 0
    /\ lock = Nobody
    /\ init = TRUE
    /\ expected = [t \in Thread |-> 0]
    /\ calls = [t \in Thread |-> 0]
    /\ err = [t \in Thread |-> "NO_ERR"]
    /\ pc = [t \in Thread |-> "run"]

--------------------------------------------------------------------------------
Unlock == lock' = Nobody

SemCall(t, s) ==
    /\ At(t, "run") /\ calls[t] < MaxCalls
    /\ s = "destroy_check" => t \in Destroyers
    /\ calls' = [calls EXCEPT ![t] = @ + 1]
    /\ Goto(t, s)
    /\ UNCHANGED <<level, waiters, lock, init, expected, err, futexVars>>

\* The entry of every service reads init before it takes the spinlock.
SemCheck(t, from, to) ==
    /\ At(t, from)
    /\ IF init THEN Goto(t, to) /\ UNCHANGED err
       ELSE Return(t, "NOT_INITIALIZED")
    /\ UNCHANGED <<level, waiters, lock, init, expected, calls, futexVars>>

PendCheck(t) == SemCheck(t, "pend_check", "pend_lock")
TrypendCheck(t) == SemCheck(t, "trypend_check", "trypend_lock")
PostCheck(t) == SemCheck(t, "post_check", "post_lock")
SemDestroyCheck(t) == SemCheck(t, "destroy_check", "destroy_lock")

Lock(t, from, to) ==
    /\ At(t, from) /\ lock = Nobody
    /\ lock' = t
    /\ Goto(t, to)
    /\ UNCHANGED <<level, waiters, init, expected, calls, err, futexVars>>

PendLock(t) == Lock(t, "pend_lock", "pend_test")
PendRelock(t) == ~Waiting(t) /\ Lock(t, "pend_relock", "pend_back")
TrypendLock(t) == Lock(t, "trypend_lock", "trypend_test")
PostLock(t) == Lock(t, "post_lock", "post_add")
DestroyLock(t) == Lock(t, "destroy_lock", "destroy_set")

--------------------------------------------------------------------------------
(***************************************************************************)
(* sem_pend and sem_trypend.                                               *)
(***************************************************************************)
Take(t) ==
    /\ level > 0
    /\ level' = level - 1
    /\ Unlock /\ Return(t, "NO_ERR")
    /\ UNCHANGED <<waiters, expected>>

PendTest(t) ==
    /\ At(t, "pend_test")
    /\ \/ Take(t)
       \/ /\ level <= 0
          /\ waiters' = waiters + 1
          /\ expected' = [expected EXCEPT ![t] = level]
          /\ Unlock /\ Goto(t, "pend_wait")
          /\ UNCHANGED <<level, err>>
    /\ UNCHANGED <<init, calls, futexVars>>

PendWait(t) ==
    /\ At(t, "pend_wait")
    /\ FutexWait(t, expected[t], level)
    /\ Goto(t, "pend_relock")
    /\ UNCHANGED <<level, waiters, lock, init, expected, calls, err>>

\* Mutant: a thread that was woken does not test the level again.
PendBack_NoLoop(t) ==
    /\ At(t, "pend_back")
    /\ waiters' = waiters - 1
    /\ level' = level - 1
    /\ Unlock /\ Return(t, "NO_ERR")
    /\ UNCHANGED <<init, expected, calls, futexVars>>

\* Mutant: a thread that was woken stays counted.
PendBack_Counted(t) ==
    /\ At(t, "pend_back")
    /\ IF init THEN Goto(t, "pend_test") /\ UNCHANGED <<lock, err>>
       ELSE Unlock /\ Return(t, "NOT_INITIALIZED")
    /\ UNCHANGED <<level, waiters, init, expected, calls, futexVars>>

\* Back in the loop: the thread tests the level again, unless the semaphore is gone.
PendBack(t) ==
    /\ At(t, "pend_back")
    /\ waiters' = waiters - 1
    /\ IF init THEN Goto(t, "pend_test") /\ UNCHANGED <<lock, err>>
       ELSE Unlock /\ Return(t, "NOT_INITIALIZED")
    /\ UNCHANGED <<level, init, expected, calls, futexVars>>

TrypendTest(t) ==
    /\ At(t, "trypend_test")
    /\ \/ Take(t)
       \/ /\ level <= 0
          /\ Unlock /\ Return(t, "UNAUTHORIZED")
          /\ UNCHANGED <<level, waiters, expected>>
    /\ UNCHANGED <<init, calls, futexVars>>

--------------------------------------------------------------------------------
(***************************************************************************)
(* sem_post and sem_destroy.                                               *)
(***************************************************************************)

\* Mutant: a post wakes a thread only when it opens the semaphore.
PostAdd_Edge(t) ==
    /\ At(t, "post_add")
    /\ level' = level + 1
    /\ IF level' = 1 /\ waiters > 0 THEN Goto(t, "post_wake") /\ UNCHANGED <<lock, err>>
       ELSE Unlock /\ Return(t, "NO_ERR")
    /\ UNCHANGED <<waiters, init, expected, calls, futexVars>>

PostAdd(t) ==
    /\ At(t, "post_add")
    /\ level' = level + 1
    /\ IF level' > 0 /\ waiters > 0 THEN Goto(t, "post_wake") /\ UNCHANGED <<lock, err>>
       ELSE Unlock /\ Return(t, "NO_ERR")
    /\ UNCHANGED <<waiters, init, expected, calls, futexVars>>

PostWake(t) ==
    /\ At(t, "post_wake")
    /\ FutexWake(1, level)
    /\ Unlock /\ Return(t, WakeError)
    /\ UNCHANGED <<level, waiters, init, expected, calls>>

\* futex.val, the number of threads to wake, is kept in expected.
DestroySet(t) ==
    /\ At(t, "destroy_set")
    /\ init' = FALSE /\ Unlock
    /\ IF waiters > 0
       THEN /\ level' = waiters
            /\ expected' = [expected EXCEPT ![t] = waiters]
            /\ Goto(t, "destroy_wake")
            /\ UNCHANGED err
       ELSE Return(t, "NO_ERR") /\ UNCHANGED <<level, expected>>
    /\ UNCHANGED <<waiters, calls, futexVars>>

SemDestroyWake(t) ==
    /\ At(t, "destroy_wake")
    /\ FutexWake(expected[t], level)
    /\ Return(t, WakeError)
    /\ UNCHANGED <<level, waiters, lock, init, expected, calls>>

--------------------------------------------------------------------------------
\* The steps a thread takes once it has called a service.
SemStep(t) ==
    \/ PendCheck(t) \/ TrypendCheck(t) \/ PostCheck(t) \/ SemDestroyCheck(t)
    \/ PendLock(t) \/ PendTest(t) \/ PendWait(t) \/ PendRelock(t) \/ PendBack(t)
    \/ TrypendLock(t) \/ TrypendTest(t)
    \/ PostLock(t) \/ PostAdd(t) \/ PostWake(t)
    \/ DestroyLock(t) \/ DestroySet(t) \/ SemDestroyWake(t)

SemNext == \E t \in Thread : (\E s \in Services : SemCall(t, s)) \/ SemStep(t)

SemSpec == SemInit /\ [][SemNext]_semVars

\* Threads of one priority take turns (HighestPriorityRuns of the scheduler).
SemFairSpec == SemSpec /\ \A t \in Thread : WF_semVars(SemStep(t))

--------------------------------------------------------------------------------
(***************************************************************************)
(* Properties.                                                             *)
(***************************************************************************)

\* Nobody passes the semaphore without a post that lets him: the level stays at
\* zero or above, or at the negative level it was initialised to.
NoOverdraw == level >= IF InitLevel < 0 THEN InitLevel ELSE 0

\* waiters counts the threads that sleep, are about to, or have not yet taken the
\* spinlock again. While threads sleep, each unit of the level has a thread on its way
\* to it: a poster that has yet to wake somebody, or a thread that was woken.
Counted == {t \in Thread : pc[t] \in {"pend_wait", "pend_relock", "pend_back"}}

OnTheWay == {t \in Thread : \/ pc[t] \in {"post_wake", "pend_back", "pend_test"}
                            \/ pc[t] = "pend_relock" /\ ~Waiting(t)}

WaitersReached ==
    /\ SemTypeOK
    /\ waiters = Cardinality(Counted)
    /\ waitq # <<>> /\ init => level <= Cardinality(OnTheWay)

\* The thread is between SPINLOCK_LOCK and SPINLOCK_UNLOCK.
Locked(t) == pc[t] \in {"pend_test", "pend_back", "trypend_test", "post_add", "post_wake",
                       "destroy_set"}

\* What the two properties rest on: the spinlock excludes, a thread sleeps in its call
\* of futex_wait on a level that was not positive, and a poster that wakes opened
\* the semaphore.
SemInv ==
    /\ WaitersReached /\ NoOverdraw
    /\ wait \in [Thread -> Int]
    /\ \A t \in Thread : Locked(t) => lock = t
    /\ \A t \in Thread : Waiting(t) => pc[t] = "pend_relock" /\ wait[t] <= 0
    /\ \A t \in Thread : pc[t] = "pend_wait" => expected[t] <= 0
    /\ \A t \in Thread : pc[t] = "post_wake" => level > 0

\* No thread sleeps for ever on a semaphore that is open.
OpenWakes == \A t \in Thread : Waiting(t) /\ level > 0 ~> ~Waiting(t) \/ level <= 0
================================================================================
