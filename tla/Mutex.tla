--------------------------------- MODULE Mutex ---------------------------------
(***************************************************************************)
(* The mutex of lib/libapi/src/mutex.c over a futex.  The code runs with   *)
(* interrupts enabled: each access to the mutex and each system call is a  *)
(* step, interleaved with those of the other threads in any order the      *)
(* preemption may give.                                                    *)
(***************************************************************************)
EXTENDS Callers

CONSTANTS
    BasePrio,    \* the priority of each thread outside the mutex
    NoElevation, \* MUTEX_PRIORITY_ELEVATION_NONE
    Flavours,    \* the flags and priorities mutex_init may be given
    MaxLocks     \* bound on the lock and trylock calls of a thread

ASSUME MutexAssumption ==
    /\ BasePrio \in [Thread -> Nat]
    /\ Flavours \subseteq [recursive : BOOLEAN, prio : Nat \cup {NoElevation}]
    /\ MaxLocks \in Nat

UNLOCKED == 0
LOCKED == 1
LOCKED_WAIT == 2
DESTROYED == 4

Usable == {UNLOCKED, LOCKED, LOCKED_WAIT}

VARIABLES
    flags,     \* mutex_t.flags: recursive or not, and the priority to elevate to
    mstate,    \* mutex_t.state
    locker,    \* mutex_t.locker_tid, Nobody when it names no thread
    acquired,  \* mutex_t.acquired_thread_priority
    prio,      \* the priority of each thread
    old,       \* the local variable mutex_state of each thread
    holds,     \* whether the thread has the mutex: locked and not unlocked since
    locks      \* how many lock and trylock calls the thread has made

mutexVars == <<flags, mstate, locker, acquired, prio, old, holds, locks, err, pc>>
vars == <<mutexVars, futexVars>>

PC == {"run", "lock_check", "lock_owner", "lock_cas", "lock_mark", "lock_wait",
       "lock_retry", "set_locker", "elevate",
       "try_check", "try_owner", "try_cas",
       "unlock_check", "unlock_prio", "unlock_locker", "unlock_add",
       "unlock_store", "unlock_wake",
       "destroy_check", "destroy_store", "destroy_wake"}

FieldsOK ==
    /\ flags \in Flavours
    /\ mstate \in 0 .. 4
    /\ locker \in Thread \cup {Nobody}
    /\ acquired \in Nat
    /\ prio \in [Thread -> Nat]
    /\ old \in [Thread -> 0 .. 4]
    /\ holds \in [Thread -> BOOLEAN]
    /\ locks \in [Thread -> 0 .. MaxLocks]
    /\ err \in [Thread -> {"NO_ERR", "NOT_INITIALIZED", "NO_SUCH_ID", "UNAUTHORIZED"}]
    /\ pc \in [Thread -> PC]

TypeOK == FieldsOK /\ waitq \in Seq(Thread) /\ known \in BOOLEAN

\* mutex_init; no other thread uses the mutex before it is over.
Init ==
    /\ FutexInit
    /\ flags \in Flavours
    /\ mstate = UNLOCKED
    /\ locker = Nobody
    /\ acquired = 0
    /\ prio = BasePrio
    /\ old = [t \in Thread |-> UNLOCKED]
    /\ holds = [t \in Thread |-> FALSE]
    /\ locks = [t \in Thread |-> 0]
    /\ err = [t \in Thread |-> "NO_ERR"]
    /\ pc = [t \in Thread |-> "run"]

--------------------------------------------------------------------------------
\* The entry of every service: a state that is none of the usable ones is refused.
Check(t, from, to) ==
    /\ At(t, from)
    /\ IF mstate \in Usable THEN Goto(t, to) /\ UNCHANGED err
       ELSE Return(t, "NOT_INITIALIZED")
    /\ UNCHANGED <<flags, mstate, locker, acquired, prio, old, holds, locks, futexVars>>

--------------------------------------------------------------------------------
(***************************************************************************)
(* mutex_lock and mutex_trylock.  A thread locks a mutex it holds only if  *)
(* the mutex is recursive; the lock it gets then is not counted, its first *)
(* unlock releases the mutex.                                              *)
(***************************************************************************)
Call(t, l) ==
    /\ At(t, "run") /\ locks[t] < MaxLocks
    /\ holds[t] => flags.recursive
    /\ locks' = [locks EXCEPT ![t] = @ + 1]
    /\ Goto(t, l)
    /\ UNCHANGED <<flags, mstate, locker, acquired, prio, old, holds, err, futexVars>>

LockCall(t) == Call(t, "lock_check")
TryCall(t) == Call(t, "try_check")

LockCheck(t) == Check(t, "lock_check", IF flags.recursive THEN "lock_owner" ELSE "lock_cas")
TryCheck(t) == Check(t, "try_check", IF flags.recursive THEN "try_owner" ELSE "try_cas")

\* A recursive mutex is held already when its locker is the caller.
OwnerTest(t, from, to) ==
    /\ At(t, from)
    /\ IF locker = t
       THEN Return(t, "NO_ERR")
       ELSE Goto(t, to) /\ UNCHANGED err
    /\ UNCHANGED <<flags, holds, mstate, locker, acquired, prio, old, locks, futexVars>>

LockOwner(t) == OwnerTest(t, "lock_owner", "lock_cas")
TryOwner(t) == OwnerTest(t, "try_owner", "try_cas")

AfterAcquire ==
    IF flags.recursive THEN "set_locker"
    ELSE IF flags.prio # NoElevation THEN "elevate" ELSE "run"

\* Mutant: the state is tested and set in two accesses.
Acquire_Blind(t, new) ==
    /\ mstate' = new
    /\ holds' = [holds EXCEPT ![t] = TRUE]
    /\ IF AfterAcquire = "run" THEN Return(t, "NO_ERR") ELSE Goto(t, AfterAcquire) /\ UNCHANGED err
    /\ UNCHANGED <<flags, locker, acquired, prio, locks, futexVars>>

\* The compare and swap from UNLOCKED to new succeeded.
Acquire(t, new) ==
    /\ mstate = UNLOCKED
    /\ mstate' = new
    /\ holds' = [holds EXCEPT ![t] = TRUE]
    /\ IF AfterAcquire = "run" THEN Return(t, "NO_ERR") ELSE Goto(t, AfterAcquire) /\ UNCHANGED err
    /\ UNCHANGED <<flags, locker, acquired, prio, locks, futexVars>>

LockCas(t) ==
    /\ At(t, "lock_cas")
    /\ \/ Acquire(t, LOCKED) /\ UNCHANGED old
       \/ /\ mstate # UNLOCKED
          /\ old' = [old EXCEPT ![t] = mstate]
          /\ Goto(t, "lock_mark")
          /\ UNCHANGED <<flags, mstate, locker, acquired, prio, holds, locks, err, futexVars>>

TryCas(t) ==
    /\ At(t, "try_cas")
    /\ \/ Acquire(t, LOCKED)
       \/ /\ mstate # UNLOCKED
          /\ Return(t, "UNAUTHORIZED")
          /\ UNCHANGED <<flags, mstate, locker, acquired, prio, holds, locks, futexVars>>
    /\ UNCHANGED old

\* The mutex is marked as waited for, unless the thread saw the mark already; a
\* thread that finds the mutex unlocked meanwhile does not wait.
LockMark(t) ==
    /\ At(t, "lock_mark")
    /\ IF old[t] = LOCKED_WAIT
       THEN Goto(t, "lock_wait") /\ UNCHANGED mstate
       ELSE /\ Goto(t, IF mstate = UNLOCKED THEN "lock_retry" ELSE "lock_wait")
            /\ mstate' = IF mstate = LOCKED THEN LOCKED_WAIT ELSE mstate
    /\ UNCHANGED <<flags, locker, acquired, prio, old, holds, locks, err, futexVars>>

LockWait(t) ==
    /\ At(t, "lock_wait")
    /\ FutexWait(t, LOCKED_WAIT, mstate)
    /\ Goto(t, "lock_retry")
    /\ UNCHANGED <<flags, mstate, locker, acquired, prio, old, holds, locks, err>>

\* Mutant: a thread that was woken marks the mutex as locked without waiters.
LockRetry_NoMark(t) ==
    /\ At(t, "lock_retry") /\ ~Waiting(t)
    /\ \/ Acquire(t, LOCKED) /\ UNCHANGED old
       \/ /\ mstate \in {LOCKED, LOCKED_WAIT}
          /\ old' = [old EXCEPT ![t] = mstate]
          /\ Goto(t, "lock_mark")
          /\ UNCHANGED <<flags, mstate, locker, acquired, prio, holds, locks, err, futexVars>>

LockRetry(t) ==
    /\ At(t, "lock_retry") /\ ~Waiting(t)
    /\ \/ Acquire(t, LOCKED_WAIT) /\ UNCHANGED old
       \/ /\ mstate \in {LOCKED, LOCKED_WAIT}
          /\ old' = [old EXCEPT ![t] = mstate]
          /\ Goto(t, "lock_mark")
          /\ UNCHANGED <<flags, mstate, locker, acquired, prio, holds, locks, err, futexVars>>
       \/ /\ mstate \notin Usable
          /\ Return(t, "NOT_INITIALIZED")
          /\ UNCHANGED <<flags, mstate, locker, acquired, prio, old, holds, locks, futexVars>>

SetLocker(t) ==
    /\ At(t, "set_locker")
    /\ locker' = t
    /\ IF flags.prio # NoElevation THEN Goto(t, "elevate") /\ UNCHANGED err
       ELSE Return(t, "NO_ERR")
    /\ UNCHANGED <<flags, mstate, acquired, prio, old, holds, locks, futexVars>>

\* The priority of the mutex is taken out of the flags and shifted a second time.
Elevate(t) ==
    /\ At(t, "elevate")
    /\ acquired' = prio[t]
    /\ prio' = [prio EXCEPT ![t] = flags.prio \div 256]
    /\ Return(t, "NO_ERR")
    /\ UNCHANGED <<flags, mstate, locker, old, holds, locks, futexVars>>

--------------------------------------------------------------------------------
(***************************************************************************)
(* mutex_unlock, by a thread that has the mutex.                           *)
(***************************************************************************)
UnlockCall(t) ==
    /\ At(t, "run") /\ holds[t]
    /\ Goto(t, "unlock_check")
    /\ UNCHANGED <<flags, mstate, locker, acquired, prio, old, holds, locks, err, futexVars>>

\* The unlock of a mutex that is gone leaves nothing to unlock again.
UnlockCheck(t) ==
    /\ At(t, "unlock_check")
    /\ IF mstate \in Usable
       THEN /\ Goto(t, IF flags.prio # NoElevation THEN "unlock_prio" ELSE "unlock_locker")
            /\ UNCHANGED <<holds, err>>
       ELSE Return(t, "NOT_INITIALIZED") /\ holds' = [holds EXCEPT ![t] = FALSE]
    /\ UNCHANGED <<flags, mstate, locker, acquired, prio, old, locks, futexVars>>

\* Mutant: the thread keeps the elevated priority.
UnlockPrio_Kept(t) ==
    /\ At(t, "unlock_prio")
    /\ Goto(t, "unlock_locker")
    /\ UNCHANGED <<flags, mstate, locker, acquired, prio, old, holds, locks, err, futexVars>>

\* Mutant: the wrong field of the mutex is restored.
UnlockPrio_Locker(t) ==
    /\ At(t, "unlock_prio")
    /\ prio' = [prio EXCEPT ![t] = locker]
    /\ Goto(t, "unlock_locker")
    /\ UNCHANGED <<flags, mstate, locker, acquired, old, holds, locks, err, futexVars>>

UnlockPrio(t) ==
    /\ At(t, "unlock_prio")
    /\ prio' = [prio EXCEPT ![t] = acquired]
    /\ Goto(t, "unlock_locker")
    /\ UNCHANGED <<flags, mstate, locker, acquired, old, holds, locks, err, futexVars>>

UnlockLocker(t) ==
    /\ At(t, "unlock_locker")
    /\ locker' = Nobody
    /\ Goto(t, "unlock_add")
    /\ UNCHANGED <<flags, mstate, acquired, prio, old, holds, locks, err, futexVars>>

\* Atomic fetch and add of -1: with no waiter marked, the mutex is unlocked.  A
\* mutex that was not locked holds no valid state until the store that follows.
UnlockAdd(t) ==
    /\ At(t, "unlock_add")
    /\ mstate' = mstate - 1
    /\ holds' = [holds EXCEPT ![t] = FALSE]
    /\ IF mstate = LOCKED THEN Return(t, "NO_ERR") ELSE Goto(t, "unlock_store") /\ UNCHANGED err
    /\ UNCHANGED <<flags, locker, acquired, prio, old, locks, futexVars>>

UnlockStore(t) ==
    /\ At(t, "unlock_store")
    /\ mstate' = UNLOCKED
    /\ Goto(t, "unlock_wake")
    /\ UNCHANGED <<flags, locker, acquired, prio, old, holds, locks, err, futexVars>>

UnlockWake(t) ==
    /\ At(t, "unlock_wake")
    /\ FutexWake(1, mstate)
    /\ Return(t, WakeError)
    /\ UNCHANGED <<flags, mstate, locker, acquired, prio, old, holds, locks>>

--------------------------------------------------------------------------------
(***************************************************************************)
(* mutex_destroy.                                                          *)
(***************************************************************************)
DestroyCall(t) ==
    /\ At(t, "run") /\ t \in Destroyers /\ mstate # DESTROYED
    /\ Goto(t, "destroy_check")
    /\ UNCHANGED <<flags, mstate, locker, acquired, prio, old, holds, locks, err, futexVars>>

DestroyCheck(t) == Check(t, "destroy_check", "destroy_store")

DestroyStore(t) ==
    /\ At(t, "destroy_store")
    /\ mstate' = DESTROYED
    /\ Goto(t, "destroy_wake")
    /\ UNCHANGED <<flags, locker, acquired, prio, old, holds, locks, err, futexVars>>

DestroyWake(t) ==
    /\ At(t, "destroy_wake")
    /\ FutexWake(Cardinality(Thread), mstate)
    /\ Return(t, WakeError)
    /\ UNCHANGED <<flags, mstate, locker, acquired, prio, old, holds, locks>>

--------------------------------------------------------------------------------
\* The steps a thread takes once it has called a service.
Step(t) ==
    \/ LockCheck(t) \/ LockOwner(t) \/ LockCas(t) \/ LockMark(t) \/ LockWait(t)
    \/ LockRetry(t) \/ SetLocker(t) \/ Elevate(t)
    \/ TryCheck(t) \/ TryOwner(t) \/ TryCas(t)
    \/ UnlockCheck(t) \/ UnlockPrio(t) \/ UnlockLocker(t) \/ UnlockAdd(t)
    \/ UnlockStore(t) \/ UnlockWake(t)
    \/ DestroyCheck(t) \/ DestroyStore(t) \/ DestroyWake(t)

Next ==
    \E t \in Thread :
        \/ LockCall(t) \/ TryCall(t) \/ UnlockCall(t) \/ DestroyCall(t)
        \/ Step(t)

Spec == Init /\ [][Next]_vars

\* Threads of one priority take turns (HighestPriorityRuns of the scheduler), and
\* a thread that locked the mutex unlocks it again.
FairSpec == Spec /\ \A t \in Thread : WF_vars(Step(t)) /\ WF_vars(UnlockCall(t))

--------------------------------------------------------------------------------
(***************************************************************************)
(* Properties.                                                             *)
(***************************************************************************)
\* No two threads are between their lock and their unlock.
MutualExclusion == \A t, u \in Thread : holds[t] /\ holds[u] => t = u

\* Who owns the state word: the holder, and the one that still has to store
\* UNLOCKED after it gave up the mutex.  While there is one the word is not UNLOCKED, and
\* only a mutex with a priority is elevated.
Owner(t) == holds[t] \/ pc[t] = "unlock_store"

Ownership ==
    /\ \A t, u \in Thread : Owner(t) /\ Owner(u) => t = u
    /\ \A t \in Thread : Owner(t) => mstate # UNLOCKED
    /\ \A t \in Thread :
          pc[t] \in {"set_locker", "elevate", "unlock_check", "unlock_prio",
                     "unlock_locker", "unlock_add"} => holds[t]
    /\ \A t \in Thread : pc[t] = "unlock_store" => ~holds[t]
    /\ \A t \in Thread : pc[t] \in {"elevate", "unlock_prio"} => flags.prio # NoElevation

\* Where the priority of a thread is: its own before it is elevated and after it is
\* restored, and kept in the mutex in between.
Priorities ==
    \A t \in Thread :
        /\ (~holds[t] \/ flags.prio = NoElevation
              \/ pc[t] \in {"set_locker", "elevate", "unlock_locker", "unlock_add"})
                => prio[t] = BasePrio[t]
        /\ holds[t] /\ flags.prio # NoElevation
              /\ pc[t] \notin {"set_locker", "elevate", "unlock_locker", "unlock_add"}
                => acquired = BasePrio[t]

\* Nobody has destroyed the mutex, or is about to.
Intact ==
    /\ mstate \in Usable
    /\ \A t \in Thread : pc[t] \notin {"destroy_check", "destroy_store", "destroy_wake"}

\* The inductive invariant behind MutualExclusion and PriorityRestored.  A mutex that
\* is destroyed while it is held leaves its holder the elevated priority.
MutexInv == FieldsOK /\ Ownership /\ (Destroyers = {} => Intact /\ Priorities)

\* While a thread waits, the one that has to wake it is on its way: the holder
\* sees the mark when it unlocks, or an unlock has not yet woken anybody, or a
\* thread that was woken, or will not wait, is about to try and leave the mark.
WaitersCovered ==
    waitq # <<>> =>
        \/ mstate = LOCKED_WAIT /\ \E t \in Thread : holds[t]
        \/ \E t \in Thread : pc[t] \in {"unlock_store", "unlock_wake", "destroy_wake"}
        \/ \E t \in Thread : pc[t] \in {"lock_retry", "lock_mark"} /\ ~Waiting(t)

\* A thread that has released the mutex has its own priority back, whoever took
\* the mutex, and stored a priority in it, since.
PriorityRestored ==
    \A t \in Thread : ~holds[t] => prio[t] = BasePrio[t]

\* No wake-up is lost: a thread that called mutex_lock returns, with the mutex or
\* with an error, when the others lock it a bounded number of times and one of
\* them may destroy it while threads wait, are about to wait, or unlock it.
LockReturns == \A t \in Thread : pc[t] = "lock_check" ~> pc[t] = "run"

================================================================================
