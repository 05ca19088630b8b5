------------------------------- MODULE SyncProofs -------------------------------
(***************************************************************************)
(* The mutex and the semaphore, for every number of threads.               *)
(*                                                                         *)
(* First the mutex, of every kind: mutual exclusion and the return of      *)
(* priorities.  The wait queue plays no part in them: a thread may be      *)
(* woken, or not, at any time.  It does in the theorem MutexCovered, that  *)
(* waiting threads have somebody on the way to wake them.                  *)
(*                                                                         *)
(* Then the semaphore, for every number of calls and every initial level:  *)
(* nobody passes without a post, and a unit of the level that waiting      *)
(* threads could take has a thread on its way to it.  The invariant is     *)
(* SemInv; its parts are proved one by one.                                *)
(***************************************************************************)
EXTENDS Mutex, Semaphore, KQueueSeqProofs

USE DEF UNLOCKED, LOCKED, LOCKED_WAIT, DESTROYED, Usable, PC, At, Goto, Return

\* What a compare and swap that succeeds does, whatever the flavour of the mutex.
LEMMA AcquireEffect ==
    ASSUME FieldsOK, NEW t \in Thread, NEW new, Acquire(t, new)
    PROVE  /\ mstate = UNLOCKED /\ mstate' = new
           /\ holds' = [holds EXCEPT ![t] = TRUE]
           /\ \E l \in {"run", "set_locker", "elevate"} :
                /\ pc' = [pc EXCEPT ![t] = l]
                /\ l = "elevate" => flags.prio # NoElevation
                /\ l = "run" => flags.prio = NoElevation
           /\ err' \in {err, [err EXCEPT ![t] = "NO_ERR"]}
           /\ UNCHANGED <<flags, locker, acquired, prio, locks>>
<1>1. CASE AfterAcquire = "run"
  BY <1>1 DEF Acquire, AfterAcquire
<1>2. CASE AfterAcquire # "run"
  BY <1>2 DEF Acquire, AfterAcquire
<1> QED BY <1>1, <1>2

\* A compare and swap that succeeds keeps the fields their types.
LEMMA AcquireFields ==
    ASSUME FieldsOK, NEW t \in Thread, NEW new \in 0 .. 4, Acquire(t, new), UNCHANGED old
    PROVE  FieldsOK'
<1>1. PICK l \in {"run", "set_locker", "elevate"} : pc' = [pc EXCEPT ![t] = l]
  BY AcquireEffect
<1>2. pc' \in [Thread -> PC] BY <1>1 DEF FieldsOK
<1>3. holds' \in [Thread -> BOOLEAN] BY AcquireEffect DEF FieldsOK
<1>4. err' \in [Thread -> {"NO_ERR", "NOT_INITIALIZED", "NO_SUCH_ID", "UNAUTHORIZED"}]
  BY AcquireEffect DEF FieldsOK
<1>5. mstate' = new /\ UNCHANGED <<flags, locker, acquired, prio, locks>>
  BY AcquireEffect
<1> QED BY <1>2, <1>3, <1>4, <1>5 DEF FieldsOK

\* mutex_init leaves an unlocked mutex that nobody owns.
LEMMA InitInv == Init => MutexInv
BY MutexAssumption, CallersAssumption DEF Init, MutexInv, FieldsOK, Ownership, Owner, Intact, Priorities

\* The fields keep their types: the state word never leaves 0 .. 4.
LEMMA StepFields == ASSUME FieldsOK, Ownership, Next PROVE FieldsOK'
<1> SUFFICES ASSUME NEW t \in Thread,
                    \/ LockCall(t) \/ TryCall(t) \/ UnlockCall(t) \/ DestroyCall(t)
                    \/ Step(t)
             PROVE  FieldsOK'
  BY DEF Next
<1> USE DEF FieldsOK
<1>1. CASE LockCall(t) \/ TryCall(t) BY <1>1, MutexAssumption DEF LockCall, TryCall, Call
<1>2. CASE UnlockCall(t) \/ DestroyCall(t) BY <1>2 DEF UnlockCall, DestroyCall
<1>3. CASE LockCheck(t) \/ TryCheck(t) \/ DestroyCheck(t)
  BY <1>3 DEF LockCheck, TryCheck, DestroyCheck, Check
<1>4. CASE LockOwner(t) \/ TryOwner(t) BY <1>4 DEF LockOwner, TryOwner, OwnerTest
<1>5. CASE LockCas(t)
  <2>1. CASE Acquire(t, LOCKED) /\ UNCHANGED old BY <2>1, AcquireFields
  <2>2. CASE ~Acquire(t, LOCKED) BY <1>5, <2>2 DEF LockCas
  <2> QED BY <1>5, <2>1, <2>2 DEF LockCas
<1>6. CASE TryCas(t)
  <2>1. CASE Acquire(t, LOCKED) BY <1>6, <2>1, AcquireFields DEF TryCas
  <2>2. CASE ~Acquire(t, LOCKED) BY <1>6, <2>2 DEF TryCas
  <2> QED BY <2>1, <2>2
<1>7. CASE LockMark(t) BY <1>7 DEF LockMark
<1>8. CASE LockWait(t) BY <1>8 DEF LockWait
<1>9. CASE LockRetry(t)
  <2>1. CASE Acquire(t, LOCKED_WAIT) /\ UNCHANGED old BY <2>1, AcquireFields
  <2>2. CASE ~Acquire(t, LOCKED_WAIT) BY <1>9, <2>2 DEF LockRetry
  <2> QED BY <1>9, <2>1, <2>2 DEF LockRetry
<1>10. CASE SetLocker(t) BY <1>10 DEF SetLocker
<1>11. CASE Elevate(t)
  <2>1. flags.prio \in Nat
    BY <1>11, MutexAssumption DEF Elevate, Ownership
  <2>2. flags.prio \div 256 \in Nat
    BY <2>1
  <2> QED BY <1>11, <2>2 DEF Elevate
<1>12. CASE UnlockCheck(t) BY <1>12 DEF UnlockCheck
<1>13. CASE UnlockPrio(t) BY <1>13 DEF UnlockPrio
<1>14. CASE UnlockLocker(t) BY <1>14 DEF UnlockLocker
<1>15. CASE UnlockAdd(t) BY <1>15 DEF UnlockAdd, Ownership, Owner
<1>16. CASE UnlockStore(t) BY <1>16 DEF UnlockStore
<1>17. CASE UnlockWake(t) BY <1>17 DEF UnlockWake, WakeError
<1>18. CASE DestroyStore(t) BY <1>18 DEF DestroyStore
<1>19. CASE DestroyWake(t) BY <1>19 DEF DestroyWake, WakeError
<1> QED
  BY <1>1, <1>2, <1>3, <1>4, <1>5, <1>6, <1>7, <1>8, <1>9, <1>10, <1>11, <1>12,
     <1>13, <1>14, <1>15, <1>16, <1>17, <1>18, <1>19 DEF Step

\* One owner of the state word at most, and no owner while it says UNLOCKED: a
\* compare and swap that succeeds finds nobody.
LEMMA StepOwnership == ASSUME FieldsOK, Ownership, Next PROVE Ownership'
<1> SUFFICES ASSUME NEW t \in Thread,
                    \/ LockCall(t) \/ TryCall(t) \/ UnlockCall(t) \/ DestroyCall(t)
                    \/ Step(t)
             PROVE  Ownership'
  BY DEF Next
<1> USE DEF FieldsOK, Ownership, Owner
<1>1. CASE LockCall(t) \/ TryCall(t) BY <1>1 DEF LockCall, TryCall, Call
<1>2. CASE UnlockCall(t) \/ DestroyCall(t) BY <1>2 DEF UnlockCall, DestroyCall
<1>3. CASE LockCheck(t) \/ TryCheck(t) \/ DestroyCheck(t)
  BY <1>3 DEF LockCheck, TryCheck, DestroyCheck, Check
<1>4. CASE LockOwner(t) \/ TryOwner(t) BY <1>4 DEF LockOwner, TryOwner, OwnerTest
<1>5. CASE LockCas(t)
  <2>1. CASE Acquire(t, LOCKED) /\ UNCHANGED old BY <2>1, AcquireEffect
  <2>2. CASE ~Acquire(t, LOCKED) BY <1>5, <2>2 DEF LockCas
  <2> QED BY <1>5, <2>1, <2>2 DEF LockCas
<1>6. CASE TryCas(t)
  <2>1. CASE Acquire(t, LOCKED) BY <1>6, <2>1, AcquireEffect DEF TryCas
  <2>2. CASE ~Acquire(t, LOCKED) BY <1>6, <2>2 DEF TryCas
  <2> QED BY <2>1, <2>2
<1>7. CASE LockMark(t) BY <1>7 DEF LockMark
<1>8. CASE LockWait(t) BY <1>8 DEF LockWait
<1>9. CASE LockRetry(t)
  <2>1. CASE Acquire(t, LOCKED_WAIT) /\ UNCHANGED old BY <2>1, AcquireEffect
  <2>2. CASE ~Acquire(t, LOCKED_WAIT) BY <1>9, <2>2 DEF LockRetry
  <2> QED BY <1>9, <2>1, <2>2 DEF LockRetry
<1>10. CASE SetLocker(t) BY <1>10 DEF SetLocker
<1>11. CASE Elevate(t) BY <1>11 DEF Elevate
<1>12. CASE UnlockCheck(t) BY <1>12 DEF UnlockCheck
<1>13. CASE UnlockPrio(t) BY <1>13 DEF UnlockPrio
<1>14. CASE UnlockLocker(t) BY <1>14 DEF UnlockLocker
<1>15. CASE UnlockAdd(t) BY <1>15 DEF UnlockAdd
<1>16. CASE UnlockStore(t) BY <1>16 DEF UnlockStore
<1>17. CASE UnlockWake(t) BY <1>17 DEF UnlockWake, WakeError
<1>18. CASE DestroyStore(t) BY <1>18 DEF DestroyStore
<1>19. CASE DestroyWake(t) BY <1>19 DEF DestroyWake, WakeError
<1> QED
  BY <1>1, <1>2, <1>3, <1>4, <1>5, <1>6, <1>7, <1>8, <1>9, <1>10, <1>11, <1>12,
     <1>13, <1>14, <1>15, <1>16, <1>17, <1>18, <1>19 DEF Step

\* Without a thread that may destroy it, the mutex stays one that can be used: the
\* unlock of a holder finds the word LOCKED or LOCKED_WAIT.
LEMMA StepIntact ==
    ASSUME FieldsOK, Ownership, Intact, Destroyers = {}, Next PROVE Intact'
<1> SUFFICES ASSUME NEW t \in Thread,
                    \/ LockCall(t) \/ TryCall(t) \/ UnlockCall(t) \/ DestroyCall(t)
                    \/ Step(t)
             PROVE  Intact'
  BY DEF Next
<1> USE DEF FieldsOK, Ownership, Owner, Intact
<1>1. CASE LockCall(t) \/ TryCall(t) BY <1>1 DEF LockCall, TryCall, Call
<1>2. CASE UnlockCall(t) \/ DestroyCall(t) BY <1>2 DEF UnlockCall, DestroyCall
<1>3. CASE LockCheck(t) \/ TryCheck(t) \/ DestroyCheck(t)
  BY <1>3 DEF LockCheck, TryCheck, DestroyCheck, Check
<1>4. CASE LockOwner(t) \/ TryOwner(t) BY <1>4 DEF LockOwner, TryOwner, OwnerTest
<1>5. CASE LockCas(t)
  <2>1. CASE Acquire(t, LOCKED) /\ UNCHANGED old BY <2>1, AcquireEffect
  <2>2. CASE ~Acquire(t, LOCKED) BY <1>5, <2>2 DEF LockCas
  <2> QED BY <1>5, <2>1, <2>2 DEF LockCas
<1>6. CASE TryCas(t)
  <2>1. CASE Acquire(t, LOCKED) BY <1>6, <2>1, AcquireEffect DEF TryCas
  <2>2. CASE ~Acquire(t, LOCKED) BY <1>6, <2>2 DEF TryCas
  <2> QED BY <2>1, <2>2
<1>7. CASE LockMark(t) BY <1>7 DEF LockMark
<1>8. CASE LockWait(t) BY <1>8 DEF LockWait
<1>9. CASE LockRetry(t)
  <2>1. CASE Acquire(t, LOCKED_WAIT) /\ UNCHANGED old BY <2>1, AcquireEffect
  <2>2. CASE ~Acquire(t, LOCKED_WAIT) BY <1>9, <2>2 DEF LockRetry
  <2> QED BY <1>9, <2>1, <2>2 DEF LockRetry
<1>10. CASE SetLocker(t) BY <1>10 DEF SetLocker
<1>11. CASE Elevate(t) BY <1>11 DEF Elevate
<1>12. CASE UnlockCheck(t) BY <1>12 DEF UnlockCheck
<1>13. CASE UnlockPrio(t) BY <1>13 DEF UnlockPrio
<1>14. CASE UnlockLocker(t) BY <1>14 DEF UnlockLocker
<1>15. CASE UnlockAdd(t) BY <1>15 DEF UnlockAdd
<1>16. CASE UnlockStore(t) BY <1>16 DEF UnlockStore
<1>17. CASE UnlockWake(t) BY <1>17 DEF UnlockWake, WakeError
<1>18. CASE DestroyStore(t) BY <1>18 DEF DestroyStore
<1>19. CASE DestroyWake(t) BY <1>19 DEF DestroyWake, WakeError
<1> QED
  BY <1>1, <1>2, <1>3, <1>4, <1>5, <1>6, <1>7, <1>8, <1>9, <1>10, <1>11, <1>12,
     <1>13, <1>14, <1>15, <1>16, <1>17, <1>18, <1>19 DEF Step

\* Only the holder writes the field the priority is kept in, so each thread finds
\* there the priority it left.
LEMMA StepPriorities ==
    ASSUME FieldsOK, Ownership, Intact, Priorities, Next PROVE Priorities'
<1> SUFFICES ASSUME NEW t \in Thread,
                    \/ LockCall(t) \/ TryCall(t) \/ UnlockCall(t) \/ DestroyCall(t)
                    \/ Step(t)
             PROVE  Priorities'
  BY DEF Next
<1> USE DEF FieldsOK, Ownership, Owner, Intact, Priorities
<1>1. CASE LockCall(t) \/ TryCall(t) BY <1>1 DEF LockCall, TryCall, Call
<1>2. CASE UnlockCall(t) \/ DestroyCall(t) BY <1>2 DEF UnlockCall, DestroyCall
<1>3. CASE LockCheck(t) \/ TryCheck(t) \/ DestroyCheck(t)
  BY <1>3 DEF LockCheck, TryCheck, DestroyCheck, Check
<1>4. CASE LockOwner(t) \/ TryOwner(t) BY <1>4 DEF LockOwner, TryOwner, OwnerTest
<1>5. CASE LockCas(t)
  <2>1. CASE Acquire(t, LOCKED) /\ UNCHANGED old BY <2>1, AcquireEffect
  <2>2. CASE ~Acquire(t, LOCKED) BY <1>5, <2>2 DEF LockCas
  <2> QED BY <1>5, <2>1, <2>2 DEF LockCas
<1>6. CASE TryCas(t)
  <2>1. CASE Acquire(t, LOCKED) BY <1>6, <2>1, AcquireEffect DEF TryCas
  <2>2. CASE ~Acquire(t, LOCKED) BY <1>6, <2>2 DEF TryCas
  <2> QED BY <2>1, <2>2
<1>7. CASE LockMark(t) BY <1>7 DEF LockMark
<1>8. CASE LockWait(t) BY <1>8 DEF LockWait
<1>9. CASE LockRetry(t)
  <2>1. CASE Acquire(t, LOCKED_WAIT) /\ UNCHANGED old BY <2>1, AcquireEffect
  <2>2. CASE ~Acquire(t, LOCKED_WAIT) BY <1>9, <2>2 DEF LockRetry
  <2> QED BY <1>9, <2>1, <2>2 DEF LockRetry
<1>10. CASE SetLocker(t) BY <1>10 DEF SetLocker
<1>11. CASE Elevate(t) BY <1>11 DEF Elevate
<1>12. CASE UnlockCheck(t) BY <1>12 DEF UnlockCheck
<1>13. CASE UnlockPrio(t) BY <1>13 DEF UnlockPrio
<1>14. CASE UnlockLocker(t) BY <1>14 DEF UnlockLocker
<1>15. CASE UnlockAdd(t) BY <1>15 DEF UnlockAdd
<1>16. CASE UnlockStore(t) BY <1>16 DEF UnlockStore
<1>17. CASE UnlockWake(t) BY <1>17 DEF UnlockWake, WakeError
<1>18. CASE DestroyStore(t) BY <1>18 DEF DestroyStore
<1>19. CASE DestroyWake(t) BY <1>19 DEF DestroyWake, WakeError
<1> QED
  BY <1>1, <1>2, <1>3, <1>4, <1>5, <1>6, <1>7, <1>8, <1>9, <1>10, <1>11, <1>12,
     <1>13, <1>14, <1>15, <1>16, <1>17, <1>18, <1>19 DEF Step

\* A step that changes nothing keeps the invariant.
LEMMA Stutter == ASSUME MutexInv, UNCHANGED vars PROVE MutexInv'
BY DEF MutexInv, FieldsOK, Ownership, Owner, Intact, Priorities, vars, mutexVars

\* The invariant behind the two theorems that follow: no owner while the word says
\* UNLOCKED, one owner otherwise, and its priority in the mutex while it is elevated.
THEOREM MutexInvariant == Spec => []MutexInv
<1>1. Init => MutexInv BY InitInv
<1>2. MutexInv /\ [Next]_vars => MutexInv'
  <2> SUFFICES ASSUME MutexInv, [Next]_vars PROVE MutexInv' OBVIOUS
  <2>1. CASE UNCHANGED vars BY <2>1, Stutter
  <2>2. CASE Next
    <3>1. FieldsOK' BY <2>2, StepFields DEF MutexInv
    <3>2. Ownership' BY <2>2, StepOwnership DEF MutexInv
    <3>3. (Destroyers = {} => Intact /\ Priorities)'
      BY <2>2, StepIntact, StepPriorities DEF MutexInv
    <3> QED BY <3>1, <3>2, <3>3 DEF MutexInv
  <2> QED BY <2>1, <2>2
<1> QED BY <1>1, <1>2, PTL DEF Spec

\* No two threads are between mutex_lock and mutex_unlock, for any number of threads,
\* also when some of them destroy the mutex while it is used.
THEOREM MutexExclusion == Spec => []MutualExclusion
<1>1. MutexInv => MutualExclusion
  BY DEF MutexInv, Ownership, Owner, MutualExclusion
<1> QED BY <1>1, MutexInvariant, PTL

\* A thread that has unlocked an elevating mutex has the priority it had before it
\* locked it, as long as nobody destroys the mutex.
THEOREM MutexPriorities ==
    ASSUME Destroyers = {} PROVE Spec => []PriorityRestored
<1>1. MutexInv => PriorityRestored
  BY DEF MutexInv, Priorities, PriorityRestored
<1> QED BY <1>1, MutexInvariant, PTL

--------------------------------------------------------------------------------
(***************************************************************************)
(* Threads that wait are covered, while nobody destroys the mutex.         *)
(***************************************************************************)

\* A thread waits in its call of futex_wait, and for the marked word to change.
Sleepers ==
    /\ waitq \in Seq(Thread) /\ wait \in [Thread -> 0 .. 4]
    /\ \A t \in Thread : Waiting(t) => pc[t] = "lock_retry" /\ wait[t] = LOCKED_WAIT

\* A word that is not UNLOCKED is somebody's.
WordOwned == mstate # UNLOCKED => \E t \in Thread : Owner(t)

\* A thread that saw the mark covers nobody: whoever made it is in charge.
Candidate(t) ==
    \/ pc[t] = "lock_retry" /\ ~Waiting(t)
    \/ pc[t] = "lock_mark" /\ ~Waiting(t) /\ old[t] # LOCKED_WAIT
Waker(t) == pc[t] \in {"unlock_store", "unlock_wake"}

Covered ==
    waitq # <<>> => \/ mstate = LOCKED_WAIT
                    \/ \E t \in Thread : Waker(t) \/ Candidate(t)

CoverInv == Sleepers /\ WordOwned /\ Covered

\* A step that leaves the word and the queue alone, of a thread that neither waits,
\* owns the word, covers nor wakes before it, or still covers afterwards.
LEMMA QuietStep ==
    ASSUME FieldsOK, CoverInv, NEW t \in Thread, NEW l \in PC,
           pc' = [pc EXCEPT ![t] = l], ~Waiting(t), UNCHANGED <<mstate, waitq, wait>>,
           \A u \in Thread \ {t} : old'[u] = old[u] /\ holds'[u] = holds[u],
           Owner(t) => Owner(t)', Waker(t) => Waker(t)',
           Candidate(t) => \/ pc'[t] = "lock_retry"
                           \/ pc'[t] = "lock_mark" /\ old'[t] # LOCKED_WAIT
                           \/ mstate = LOCKED_WAIT
    PROVE  CoverInv'
<1> USE DEF FieldsOK, CoverInv
<1>1. Sleepers' BY DEF Sleepers, Waiting
<1>2. WordOwned' BY DEF WordOwned, Owner
<1>3. Covered' BY DEF Covered, Waker, Candidate, Waiting
<1> QED BY <1>1, <1>2, <1>3

\* The holder that gives up a marked word goes on to wake.
LEMMA CoverUnlock ==
    ASSUME FieldsOK, Ownership, Intact, CoverInv, NEW t \in Thread,
           UnlockAdd(t) \/ UnlockStore(t)
    PROVE  CoverInv'
<1> USE DEF FieldsOK, CoverInv, futexVars
<1>1. ~Waiting(t) BY DEF Sleepers, UnlockAdd, UnlockStore
<1>2. \A u \in Thread : Owner(u) => u = t
  BY DEF Ownership, Owner, UnlockAdd, UnlockStore
<1>3. Sleepers' BY <1>1 DEF Sleepers, Waiting, UnlockAdd, UnlockStore
<1>4. CASE UnlockStore(t) BY <1>1, <1>3, <1>4 DEF UnlockStore, WordOwned, Covered, Waker
<1>5. CASE UnlockAdd(t)
  <2>1. mstate # UNLOCKED BY <1>5 DEF UnlockAdd, Ownership, Owner
  <2>2. CASE mstate = LOCKED
    BY <1>1, <1>3, <1>5, <2>2 DEF UnlockAdd, WordOwned, Covered, Waker, Candidate, Waiting
  <2>3. CASE mstate = LOCKED_WAIT
    BY <1>1, <1>3, <1>5, <2>3 DEF UnlockAdd, WordOwned, Covered, Waker, Owner
  <2> QED BY <2>1, <2>2, <2>3 DEF Intact
<1> QED BY <1>4, <1>5

\* The thread that an unlock wakes covers the others.
LEMMA CoverWake ==
    ASSUME FieldsOK, CoverInv, NEW t \in Thread, UnlockWake(t)
    PROVE  CoverInv'
<1> USE DEF FieldsOK, CoverInv
<1>1. ~Waiting(t) BY DEF Sleepers, UnlockWake
<1>2. waitq' \in Seq(Thread)
      /\ \A x : Contains(waitq', x) <=> (Contains(waitq, x) /\ x \in Thread \ Woken(1, mstate))
  BY KeepProperties DEF UnlockWake, FutexWake, Sleepers
<1>3. \A u \in Thread : Waiting(u)' => Waiting(u) /\ u # t /\ pc'[u] = pc[u] /\ wait'[u] = wait[u]
  BY <1>1, <1>2 DEF UnlockWake, FutexWake, Waiting
<1>4. Sleepers'
  <2>1. wait' \in [Thread -> 0 .. 4] BY DEF UnlockWake, FutexWake, Sleepers
  <2> QED BY <1>2, <1>3, <2>1 DEF Sleepers
<1>5. WordOwned' BY DEF WordOwned, Owner, UnlockWake
<1>6. Covered'
  <2>1. CASE mstate = LOCKED_WAIT BY <2>1 DEF Covered, UnlockWake
  <2>2. CASE waitq = <<>>
    <3>1. \A x \in Thread : ~Contains(waitq, x) BY <2>2, EmptyQueue DEF Sleepers
    <3>2. \A x \in Thread : ~Contains(waitq', x) BY <1>2, <3>1
    <3>3. waitq' = <<>> BY <1>2, <3>2, EmptyQueue
    <3> QED BY <3>3 DEF Covered
  <2>3. CASE mstate # LOCKED_WAIT /\ waitq # <<>>
    <3>1. PICK y \in Thread : Contains(waitq, y) BY <2>3, EmptyQueue DEF Sleepers
    <3>2. wait[y] # mstate BY <2>3, <3>1 DEF Sleepers, Waiting
    <3>3. PICK u \in Thread : Contains(waitq, u) /\ Woken(1, mstate) = {u}
      <4>1. PICK T : T = {x \in Thread : wait[x] # mstate} OBVIOUS
      <4>2. PICK kept : kept = Keep(waitq, T) OBVIOUS
      <4>3. waitq \in Seq(Thread) /\ y \in T BY <3>2, <4>1 DEF Sleepers
      <4>4. \E u \in Thread : Contains(waitq, u) /\ FirstOf(kept) = {u}
        BY ONLY <3>1, <4>2, <4>3, FirstKept
      <4>5. Woken(1, mstate) = FirstOf(kept) BY ONLY <4>1, <4>2 DEF Woken, FirstOf
      <4> QED BY ONLY <4>4, <4>5
    <3>4. pc[u] = "lock_retry" BY <3>3 DEF Sleepers, Waiting
    <3>5. pc'[u] = "lock_retry" /\ ~Waiting(u)'
      BY <1>1, <1>2, <3>3, <3>4 DEF UnlockWake, Waiting
    <3> QED BY <3>5 DEF Covered, Candidate
  <2> QED BY <2>1, <2>2, <2>3
<1> QED BY <1>4, <1>5, <1>6

\* A thread that waits found the word marked, and with it an owner.
LEMMA CoverWait ==
    ASSUME FieldsOK, CoverInv, NEW t \in Thread, LockWait(t)
    PROVE  CoverInv'
<1> USE DEF FieldsOK, CoverInv
<1>1. ~Waiting(t) /\ ~Waker(t) /\ ~Candidate(t) BY DEF Sleepers, LockWait, Waker, Candidate
<1>2. CASE mstate # LOCKED_WAIT
  <2>1. UNCHANGED <<waitq, wait>> BY <1>2 DEF LockWait, FutexWait, futexVars
  <2> QED BY <1>1, <2>1, QuietStep DEF LockWait, Owner
<1>3. CASE mstate = LOCKED_WAIT
  <2>1. waitq \in Seq(Thread) BY DEF Sleepers
  <2>2. /\ waitq' \in Seq(Thread) /\ wait' = [wait EXCEPT ![t] = LOCKED_WAIT]
        /\ \A x : Contains(waitq', x) <=> (x = t \/ Contains(waitq, x))
    <3>1. waitq' = Push(waitq, t) /\ wait' = [wait EXCEPT ![t] = LOCKED_WAIT]
      BY <1>3 DEF LockWait, FutexWait, Enqueue
    <3> QED BY <2>1, <3>1, PushProperties, ZenonT(40)
  <2>3. Sleepers' BY <2>2 DEF Sleepers, Waiting, LockWait
  <2> QED BY <1>3, <2>3 DEF WordOwned, Owner, Covered, LockWait
<1> QED BY <1>2, <1>3

\* A compare and swap that succeeds: the new holder owns the word it writes, and a
\* thread that was woken marks it, for those that still wait.
LEMMA CoverAcquire ==
    ASSUME FieldsOK, CoverInv, NEW t \in Thread, ~Waiting(t), ~Waker(t),
           NEW new, new = LOCKED_WAIT \/ (new = LOCKED /\ ~Candidate(t)),
           Acquire(t, new), UNCHANGED old
    PROVE  CoverInv'
<1> USE DEF FieldsOK, CoverInv
<1>1. PICK l \in {"run", "set_locker", "elevate"} : pc' = [pc EXCEPT ![t] = l]
  BY AcquireEffect
<1>2. /\ mstate = UNLOCKED /\ mstate' = new /\ holds' = [holds EXCEPT ![t] = TRUE]
      /\ UNCHANGED <<waitq, wait>>
  BY AcquireEffect DEF Acquire, futexVars
<1>3. Sleepers' BY <1>1, <1>2 DEF Sleepers, Waiting
<1>4. WordOwned' BY <1>2 DEF WordOwned, Owner
<1>5. \A u \in Thread : (Waker(u) => Waker(u)') /\ (u # t /\ Candidate(u) => Candidate(u)')
  BY <1>1, <1>2 DEF Waker, Candidate, Waiting
<1>6. Covered' BY <1>2, <1>5 DEF Covered
<1> QED BY <1>3, <1>4, <1>6

\* The step that marks the word: it covers the threads that wait, and a thread that
\* found the word unlocked goes to try again, and covers them too.
LEMMA CoverMark ==
    ASSUME FieldsOK, Intact, CoverInv, NEW t \in Thread, LockMark(t)
    PROVE  CoverInv'
<1> USE DEF FieldsOK, CoverInv
<1>1. /\ ~Waiting(t) /\ ~Waker(t) /\ UNCHANGED <<waitq, wait, holds, old>>
  BY DEF Sleepers, Waker, LockMark, futexVars
<1>2. PICK l \in {"lock_retry", "lock_wait"} : pc' = [pc EXCEPT ![t] = l] BY DEF LockMark
<1>3. Sleepers' BY <1>1, <1>2 DEF Sleepers, Waiting
<1>4. WordOwned' BY <1>1, <1>2 DEF WordOwned, Owner, LockMark
<1>5. \A u \in Thread \ {t} : (Waker(u) => Waker(u)') /\ (Candidate(u) => Candidate(u)')
  BY <1>1, <1>2 DEF Waker, Candidate, Waiting
<1>6. Covered'
  <2>1. CASE old[t] = LOCKED_WAIT
    BY <1>1, <1>5, <2>1 DEF Covered, Candidate, LockMark
  <2>2. CASE old[t] # LOCKED_WAIT /\ mstate = UNLOCKED
    BY <1>1, <2>2 DEF Covered, Candidate, Waiting, LockMark
  <2>3. CASE old[t] # LOCKED_WAIT /\ mstate # UNLOCKED
    BY <2>3 DEF Covered, Intact, LockMark
  <2> QED BY <2>1, <2>2, <2>3
<1> QED BY <1>3, <1>4, <1>6

\* Every step of a mutex nobody destroys keeps waiting threads covered.
LEMMA StepCover ==
    ASSUME FieldsOK, Ownership, Intact, CoverInv, Destroyers = {}, Next PROVE CoverInv'
<1> SUFFICES ASSUME NEW t \in Thread,
                    \/ LockCall(t) \/ TryCall(t) \/ UnlockCall(t) \/ DestroyCall(t)
                    \/ Step(t)
             PROVE  CoverInv'
  BY DEF Next
<1> DEFINE Quiet(l) ==
        /\ pc' = [pc EXCEPT ![t] = l]
        /\ UNCHANGED <<mstate, waitq, wait>>
        /\ \A u \in Thread \ {t} : old'[u] = old[u] /\ holds'[u] = holds[u]
<1>0. ASSUME NEW l \in PC, Quiet(l), ~Waiting(t), Owner(t) => Owner(t)', ~Waker(t),
             Candidate(t) => \/ mstate = LOCKED_WAIT
                             \/ pc'[t] = "lock_mark" /\ old'[t] # LOCKED_WAIT
      PROVE  CoverInv'
  BY <1>0, QuietStep
<1> USE DEF FieldsOK, futexVars
<1>1. CASE LockCall(t) \/ TryCall(t)
  <2>1. ~Waiting(t) /\ ~Waker(t) /\ ~Candidate(t)
    BY <1>1 DEF LockCall, TryCall, Call, CoverInv, Sleepers, Waker, Candidate
  <2>2. \E l \in PC : Quiet(l) BY <1>1 DEF LockCall, TryCall, Call
  <2>3. Owner(t) => Owner(t)' BY <1>1 DEF LockCall, TryCall, Call, Owner
  <2> QED BY <1>0, <2>1, <2>2, <2>3
<1>2. CASE UnlockCall(t)
  <2>1. ~Waiting(t) /\ ~Waker(t) /\ ~Candidate(t)
    BY <1>2 DEF UnlockCall, CoverInv, Sleepers, Waker, Candidate
  <2>2. Quiet("unlock_check") BY <1>2 DEF UnlockCall
  <2>3. Owner(t) => Owner(t)' BY <1>2 DEF UnlockCall, Owner
  <2> QED BY <1>0, <2>1, <2>2, <2>3
<1>3. CASE LockCheck(t) \/ TryCheck(t)
  <2>1. ~Waiting(t) /\ ~Waker(t) /\ ~Candidate(t)
    BY <1>3 DEF LockCheck, TryCheck, Check, CoverInv, Sleepers, Waker, Candidate
  <2>2. \E l \in PC : Quiet(l) BY <1>3 DEF LockCheck, TryCheck, Check
  <2>3. Owner(t) => Owner(t)' BY <1>3 DEF LockCheck, TryCheck, Check, Owner
  <2> QED BY <1>0, <2>1, <2>2, <2>3
<1>4. CASE LockOwner(t) \/ TryOwner(t)
  <2>1. ~Waiting(t) /\ ~Waker(t) /\ ~Candidate(t)
    BY <1>4 DEF LockOwner, TryOwner, OwnerTest, CoverInv, Sleepers, Waker, Candidate
  <2>2. \E l \in PC : Quiet(l) BY <1>4 DEF LockOwner, TryOwner, OwnerTest
  <2>3. Owner(t) => Owner(t)' BY <1>4 DEF LockOwner, TryOwner, OwnerTest, Owner
  <2> QED BY <1>0, <2>1, <2>2, <2>3
<1>5. CASE LockCas(t)
  <2>1. ~Waiting(t) /\ ~Waker(t) /\ ~Candidate(t)
    BY <1>5 DEF LockCas, CoverInv, Sleepers, Waker, Candidate
  <2>2. CASE Acquire(t, LOCKED) /\ UNCHANGED old BY <2>1, <2>2, CoverAcquire
  <2>3. CASE ~Acquire(t, LOCKED)
    <3>1. \E l \in PC : Quiet(l) BY <1>5, <2>3 DEF LockCas
    <3>2. Owner(t) => Owner(t)' BY <1>5, <2>3 DEF LockCas, Owner
    <3> QED BY <1>0, <2>1, <3>1, <3>2
  <2> QED BY <1>5, <2>2, <2>3 DEF LockCas, Acquire
<1>6. CASE TryCas(t)
  <2>1. ~Waiting(t) /\ ~Waker(t) /\ ~Candidate(t)
    BY <1>6 DEF TryCas, CoverInv, Sleepers, Waker, Candidate
  <2>2. CASE Acquire(t, LOCKED) BY <1>6, <2>1, <2>2, CoverAcquire DEF TryCas
  <2>3. CASE ~Acquire(t, LOCKED)
    <3>1. Quiet("run") /\ UNCHANGED holds BY <1>6, <2>3 DEF TryCas
    <3>2. Owner(t) => Owner(t)' BY <1>6, <3>1 DEF TryCas, Owner
    <3> QED BY <1>0, <2>1, <3>1, <3>2
  <2> QED BY <2>2, <2>3
<1>7. CASE LockMark(t) BY <1>7, CoverMark
<1>8. CASE LockWait(t) BY <1>8, CoverWait
<1>9. CASE LockRetry(t)
  <2>1. ~Waiting(t) /\ ~Waker(t) BY <1>9 DEF LockRetry, Waker
  <2>2. CASE Acquire(t, LOCKED_WAIT) /\ UNCHANGED old BY <2>1, <2>2, CoverAcquire
  <2>3. CASE ~Acquire(t, LOCKED_WAIT)
    <3>1. \E l \in PC : Quiet(l) BY <1>9, <2>3 DEF LockRetry, Intact
    <3>2. Owner(t) => Owner(t)' BY <1>9, <2>3 DEF LockRetry, Owner
    <3>3. mstate = LOCKED_WAIT \/ (pc'[t] = "lock_mark" /\ old'[t] # LOCKED_WAIT)
      BY <1>9, <2>3 DEF LockRetry, Intact
    <3> QED BY <1>0, <2>1, <3>1, <3>2, <3>3
  <2> QED BY <1>9, <2>2, <2>3 DEF LockRetry, Acquire
<1>10. CASE SetLocker(t) \/ Elevate(t)
  <2>1. ~Waiting(t) /\ ~Waker(t) /\ ~Candidate(t)
    BY <1>10 DEF SetLocker, Elevate, CoverInv, Sleepers, Waker, Candidate
  <2>2. \E l \in PC : Quiet(l) BY <1>10 DEF SetLocker, Elevate
  <2>3. Owner(t) => Owner(t)' BY <1>10 DEF SetLocker, Elevate, Owner
  <2> QED BY <1>0, <2>1, <2>2, <2>3
<1>11. CASE UnlockCheck(t) \/ UnlockPrio(t) \/ UnlockLocker(t)
  <2>1. ~Waiting(t) /\ ~Waker(t) /\ ~Candidate(t)
    BY <1>11 DEF UnlockCheck, UnlockPrio, UnlockLocker, CoverInv, Sleepers, Waker, Candidate
  <2>2. \E l \in PC : Quiet(l) BY <1>11 DEF UnlockCheck, UnlockPrio, UnlockLocker, Intact
  <2>3. Owner(t) => Owner(t)'
    BY <1>11 DEF UnlockCheck, UnlockPrio, UnlockLocker, Owner, Intact
  <2> QED BY <1>0, <2>1, <2>2, <2>3
<1>12. CASE UnlockAdd(t) \/ UnlockStore(t) BY <1>12, CoverUnlock
<1>13. CASE UnlockWake(t) BY <1>13, CoverWake
<1>14. ~(DestroyCall(t) \/ DestroyCheck(t) \/ DestroyStore(t) \/ DestroyWake(t))
  BY DEF DestroyCall, DestroyCheck, Check, DestroyStore, DestroyWake, Intact
<1> QED
  BY <1>1, <1>2, <1>3, <1>4, <1>5, <1>6, <1>7, <1>8, <1>9, <1>10, <1>11, <1>12,
     <1>13, <1>14 DEF Step

\* No wake-up is lost: as long as nobody destroys the mutex, whenever threads wait
\* the word is marked and has a holder, or an unlock is about to wake, or a thread is
\* about to try and to leave the mark, for any number of threads.
THEOREM MutexCovered ==
    ASSUME Destroyers = {} PROVE Spec => []WaitersCovered
<1>1. Init => CoverInv
  <2> SUFFICES ASSUME Init PROVE CoverInv OBVIOUS
  <2>1. waitq = <<>> /\ wait \in [Thread -> 0 .. 4] /\ mstate = UNLOCKED
    BY DEF Init, FutexInit
  <2>2. waitq \in Seq(Thread) /\ \A t \in Thread : ~Waiting(t)
    BY <2>1 DEF Waiting, Contains
  <2> QED BY <2>1, <2>2 DEF CoverInv, Sleepers, WordOwned, Covered
<1>2. MutexInv /\ CoverInv /\ [Next]_vars => CoverInv'
  <2> SUFFICES ASSUME MutexInv, CoverInv, [Next]_vars PROVE CoverInv' OBVIOUS
  <2>1. CASE UNCHANGED vars
    BY <2>1 DEF CoverInv, Sleepers, WordOwned, Covered, Owner, Waker, Candidate, Waiting,
                vars, mutexVars, futexVars
  <2>2. CASE Next BY <2>2, StepCover DEF MutexInv
  <2> QED BY <2>1, <2>2
<1>3. MutexInv /\ CoverInv => WaitersCovered
  BY DEF MutexInv, Ownership, Owner, CoverInv, WordOwned, Covered, Waker, Candidate,
         WaitersCovered
<1> QED BY <1>1, <1>2, <1>3, MutexInvariant, PTL DEF Spec

HIDE DEF UNLOCKED, LOCKED, LOCKED_WAIT, DESTROYED, Usable, PC

--------------------------------------------------------------------------------
USE DEF Unlock

\* The fields and the local variables have their types.
SemTypes ==
    /\ level \in Int /\ lock \in Thread \cup {Nobody} /\ init \in BOOLEAN
    /\ expected \in [Thread -> Int] /\ calls \in [Thread -> 0 .. MaxCalls]
    /\ err \in [Thread -> {"NO_ERR", "NOT_INITIALIZED", "NO_SUCH_ID", "UNAUTHORIZED"}]
    /\ pc \in [Thread -> SemPC]
    /\ known \in BOOLEAN /\ wait \in [Thread -> Int]

\* What the spinlock and the two system calls leave: who runs under the lock, who
\* sleeps and on which level, and what a poster that wakes has seen.
Protected ==
    /\ waitq \in Seq(Thread)
    /\ \A t \in Thread : Locked(t) => lock = t
    /\ \A t \in Thread : Waiting(t) => pc[t] = "pend_relock" /\ wait[t] <= 0
    /\ \A t \in Thread : pc[t] = "pend_wait" => expected[t] <= 0
    /\ \A t \in Thread : pc[t] = "post_wake" => level > 0

CountExact == waiters = Cardinality(Counted)

UnitsReached == waitq # <<>> /\ init => level <= Cardinality(OnTheWay)

SemParts == SemTypes /\ Protected /\ CountExact /\ UnitsReached /\ NoOverdraw

--------------------------------------------------------------------------------
\* How the cardinality of a finite set follows the elements that join and leave it.
LEMMA CountSteps ==
    ASSUME NEW A, IsFiniteSet(A), NEW B, IsFiniteSet(B), NEW x
    PROVE  /\ Cardinality(A) \in Nat /\ Cardinality(B) \in Nat
           /\ A \subseteq B => Cardinality(A) <= Cardinality(B)
           /\ A \ {x} \subseteq B => Cardinality(A) - 1 <= Cardinality(B)
           /\ x \notin A /\ B = A \cup {x} => Cardinality(B) = Cardinality(A) + 1
           /\ x \in A /\ B = A \ {x} => Cardinality(B) = Cardinality(A) - 1
<1>1. Cardinality(A) \in Nat /\ Cardinality(B) \in Nat BY FS_CardinalityType
<1>2. A \subseteq B => Cardinality(A) <= Cardinality(B) BY FS_Subset
<1>3. /\ IsFiniteSet(A \ {x})
      /\ Cardinality(A \ {x}) = IF x \in A THEN Cardinality(A) - 1 ELSE Cardinality(A)
  BY FS_RemoveElement
<1>4. A \ {x} \subseteq B => Cardinality(A \ {x}) <= Cardinality(B) BY FS_Subset
<1>5. x \notin A /\ B = A \cup {x} => Cardinality(B) = Cardinality(A) + 1
  BY FS_AddElement
<1> QED BY <1>1, <1>2, <1>3, <1>4, <1>5

\* The two sets of threads the properties count are finite.
LEMMA SetsFinite ==
    /\ IsFiniteSet(Counted) /\ Cardinality(Counted) \in 0 .. Cardinality(Thread)
    /\ IsFiniteSet(OnTheWay) /\ Cardinality(OnTheWay) \in Nat
<1>1. Counted \in SUBSET Thread /\ OnTheWay \in SUBSET Thread BY DEF Counted, OnTheWay
<1>2. IsFiniteSet(Thread) BY SemAssumption
<1>3. IsFiniteSet(Counted) /\ Cardinality(Counted) <= Cardinality(Thread)
  BY <1>1, <1>2, FS_Subset
<1>4. IsFiniteSet(OnTheWay) BY <1>1, <1>2, FS_Subset
<1> QED BY <1>2, <1>3, <1>4, FS_CardinalityType

\* They stay so: the same of the next state.
LEMMA SetsFiniteNext == IsFiniteSet(Counted') /\ IsFiniteSet(OnTheWay')
<1>1. Counted' \in SUBSET Thread /\ OnTheWay' \in SUBSET Thread BY DEF Counted, OnTheWay
<1>2. IsFiniteSet(Thread) BY SemAssumption
<1> QED BY <1>1, <1>2, FS_Subset

--------------------------------------------------------------------------------
\* Each field keeps its type.
LEMMA StepTypes == ASSUME SemTypes, CountExact, SemNext PROVE SemTypes'
<1> SUFFICES ASSUME NEW t \in Thread, (\E s \in Services : SemCall(t, s)) \/ SemStep(t)
             PROVE  SemTypes'
  BY DEF SemNext
<1> USE DEF SemTypes, SemPC, futexVars
<1>1. CASE \E s \in Services : SemCall(t, s) BY <1>1, SemAssumption DEF SemCall, Services
<1>2. CASE PendCheck(t) \/ TrypendCheck(t) \/ PostCheck(t) \/ SemDestroyCheck(t)
  BY <1>2 DEF PendCheck, TrypendCheck, PostCheck, SemDestroyCheck, SemCheck
<1>3. CASE PendLock(t) \/ PendRelock(t) \/ TrypendLock(t) \/ PostLock(t) \/ DestroyLock(t)
  BY <1>3 DEF PendLock, PendRelock, TrypendLock, PostLock, DestroyLock, Lock
<1>4. CASE PendTest(t) BY <1>4 DEF PendTest, Take
<1>5. CASE PendWait(t) BY <1>5 DEF PendWait, FutexWait
<1>6. CASE PendBack(t) BY <1>6 DEF PendBack
<1>7. CASE TrypendTest(t) BY <1>7 DEF TrypendTest, Take
<1>8. CASE PostAdd(t) BY <1>8 DEF PostAdd
<1>9. CASE PostWake(t) \/ SemDestroyWake(t)
  BY <1>9 DEF PostWake, SemDestroyWake, FutexWake, WakeError
<1>10. CASE DestroySet(t)
  <2>1. waiters \in Int BY SetsFinite DEF CountExact
  <2> QED BY <1>10, <2>1 DEF DestroySet
<1> QED BY <1>1, <1>2, <1>3, <1>4, <1>5, <1>6, <1>7, <1>8, <1>9, <1>10 DEF SemStep

\* The spinlock excludes, and the system calls put to sleep and wake whom they should.
LEMMA StepProtected == ASSUME SemTypes, Protected, SemNext PROVE Protected'
<1> SUFFICES ASSUME NEW t \in Thread, (\E s \in Services : SemCall(t, s)) \/ SemStep(t)
             PROVE  Protected'
  BY DEF SemNext
<1> USE DEF SemTypes, Protected, Locked, Waiting, futexVars
<1>0. Nobody \notin Thread BY CallersAssumption
<1>1. CASE \E s \in Services : SemCall(t, s) BY <1>1 DEF SemCall, Services
<1>2. CASE PendCheck(t) \/ TrypendCheck(t) \/ PostCheck(t) \/ SemDestroyCheck(t)
  BY <1>2 DEF PendCheck, TrypendCheck, PostCheck, SemDestroyCheck, SemCheck
<1>3. CASE PendLock(t) \/ PendRelock(t) \/ TrypendLock(t) \/ PostLock(t) \/ DestroyLock(t)
  BY <1>0, <1>3 DEF PendLock, PendRelock, TrypendLock, PostLock, DestroyLock, Lock
<1>4. CASE PendTest(t) BY <1>4, ZenonT(40) DEF PendTest, Take
<1>5. CASE PendWait(t)
  <2>1. CASE expected[t] # level BY <1>5, <2>1 DEF PendWait, FutexWait
  <2>2. CASE expected[t] = level
    <3>1. /\ waitq' \in Seq(Thread) /\ wait' = [wait EXCEPT ![t] = level] /\ level <= 0
          /\ \A x : Contains(waitq', x) <=> (x = t \/ Contains(waitq, x))
      <4>1. waitq' = Push(waitq, t) /\ wait' = [wait EXCEPT ![t] = level] /\ level <= 0
        BY <1>5, <2>2 DEF PendWait, FutexWait, Enqueue
      <4> QED BY <4>1, PushProperties
    <3> QED BY <1>5, <3>1 DEF PendWait
  <2> QED BY <2>1, <2>2
<1>6. CASE PendBack(t) BY <1>6, ZenonT(40) DEF PendBack
<1>7. CASE TrypendTest(t) BY <1>7, ZenonT(40) DEF TrypendTest, Take
<1>8. CASE PostAdd(t)
  <2>1. CASE level' > 0 /\ waiters > 0 BY <1>8, <2>1, ZenonT(40) DEF PostAdd
  <2>2. CASE ~(level' > 0 /\ waiters > 0)
    <3>1. /\ pc[t] = "post_add" /\ lock = t
          /\ \A u \in Thread \ {t} : ~Locked(u)
      BY <1>8 DEF PostAdd, At
    <3>2. /\ \A u \in Thread : pc'[u] = IF u = t THEN "run" ELSE pc[u]
          /\ waitq' = waitq /\ wait' = wait /\ expected' = expected
      BY <1>8, <2>2 DEF PostAdd, Return, Goto
    <3>3. \A u \in Thread : pc'[u] # "post_wake" /\ ~Locked(u)' BY <3>1, <3>2
    <3> QED BY <3>1, <3>2, <3>3
  <2> QED BY <2>1, <2>2
<1>9. ASSUME NEW n, FutexWake(n, level), PostWake(t) \/ SemDestroyWake(t) PROVE Protected'
  <2>1. /\ waitq' \in Seq(Thread)
        /\ \A x : Contains(waitq', x) <=> (Contains(waitq, x) /\ x \in Thread \ Woken(n, level))
    BY <1>9, KeepProperties DEF FutexWake
  <2>2. \A u \in Thread : Contains(waitq', u) => wait'[u] = wait[u]
    BY <1>9, <2>1 DEF FutexWake
  <2> QED BY <1>9, <2>1, <2>2, ZenonT(40) DEF PostWake, SemDestroyWake
<1>10. CASE PostWake(t) \/ SemDestroyWake(t) BY <1>9, <1>10 DEF PostWake, SemDestroyWake
<1>11. CASE DestroySet(t) BY <1>11, ZenonT(40) DEF DestroySet
<1> QED BY <1>1, <1>2, <1>3, <1>4, <1>5, <1>6, <1>7, <1>8, <1>10, <1>11 DEF SemStep

\* The level falls only when it is positive, or to the number of waiters.
LEMMA StepOverdraw == ASSUME SemTypes, CountExact, NoOverdraw, SemNext PROVE NoOverdraw'
<1> SUFFICES ASSUME NEW t \in Thread, (\E s \in Services : SemCall(t, s)) \/ SemStep(t)
             PROVE  NoOverdraw'
  BY DEF SemNext
<1> USE SemAssumption DEF SemTypes, NoOverdraw, futexVars
<1>1. CASE UNCHANGED level BY <1>1
<1>2. CASE PendTest(t) \/ TrypendTest(t) BY <1>2 DEF PendTest, TrypendTest, Take
<1>3. CASE PostAdd(t) BY <1>3 DEF PostAdd
<1>4. CASE DestroySet(t)
  <2>1. waiters \in Int BY SetsFinite DEF CountExact
  <2> QED BY <1>4, <2>1 DEF DestroySet
<1>5. UNCHANGED level \/ PendTest(t) \/ TrypendTest(t) \/ PostAdd(t) \/ DestroySet(t)
  BY DEF SemCall, SemStep, PendCheck, TrypendCheck, PostCheck, SemDestroyCheck, SemCheck, PendLock,
         PendRelock, TrypendLock, PostLock, DestroyLock, Lock, PendWait, PendBack,
         PostWake, SemDestroyWake
<1> QED BY <1>1, <1>2, <1>3, <1>4, <1>5

\* A thread is counted from the test that sends it to sleep to the line that takes
\* it off again.
LEMMA StepCount == ASSUME SemTypes, CountExact, SemNext PROVE CountExact'
<1> SUFFICES ASSUME NEW t \in Thread, (\E s \in Services : SemCall(t, s)) \/ SemStep(t)
             PROVE  CountExact'
  BY DEF SemNext
<1> USE DEF SemTypes, Counted, futexVars
<1> DEFINE Same == Counted' = Counted /\ UNCHANGED waiters
<1>0. Same => CountExact' BY DEF CountExact
<1>1. CASE \E s \in Services : SemCall(t, s)
  <2>1. Same BY <1>1 DEF SemCall, Services
  <2> QED BY <1>0, <2>1
<1>2. CASE PendCheck(t) \/ TrypendCheck(t) \/ PostCheck(t) \/ SemDestroyCheck(t)
  <2>1. Same BY <1>2 DEF PendCheck, TrypendCheck, PostCheck, SemDestroyCheck, SemCheck
  <2> QED BY <1>0, <2>1
<1>3. CASE PendLock(t) \/ PendRelock(t) \/ TrypendLock(t) \/ PostLock(t) \/ DestroyLock(t)
  <2>1. Same BY <1>3 DEF PendLock, PendRelock, TrypendLock, PostLock, DestroyLock, Lock
  <2> QED BY <1>0, <2>1
<1>4. CASE PendTest(t)
  <2>1. CASE level > 0
    <3>1. Same BY <1>4, <2>1 DEF PendTest, Take
    <3> QED BY <1>0, <3>1
  <2>2. CASE ~(level > 0)
    <3>1. t \notin Counted /\ Counted' = Counted \cup {t} /\ waiters' = waiters + 1
      BY <1>4, <2>2 DEF PendTest, Take
    <3> HIDE DEF Counted
    <3>2. Cardinality(Counted') = Cardinality(Counted) + 1
      BY <3>1, SetsFinite, SetsFiniteNext, CountSteps
    <3> QED BY <3>1, <3>2 DEF CountExact
  <2> QED BY <2>1, <2>2
<1>5. CASE PendWait(t)
  <2>1. Same BY <1>5 DEF PendWait
  <2> QED BY <1>0, <2>1
<1>6. CASE PendBack(t)
  <2>1. t \in Counted /\ Counted' = Counted \ {t} /\ waiters' = waiters - 1
    BY <1>6 DEF PendBack
  <2> HIDE DEF Counted
  <2>2. Cardinality(Counted') = Cardinality(Counted) - 1
    BY <2>1, SetsFinite, SetsFiniteNext, CountSteps
  <2> QED BY <2>1, <2>2 DEF CountExact
<1>7. CASE TrypendTest(t)
  <2>1. Same BY <1>7 DEF TrypendTest, Take
  <2> QED BY <1>0, <2>1
<1>8. CASE PostAdd(t)
  <2>1. Same BY <1>8 DEF PostAdd
  <2> QED BY <1>0, <2>1
<1>9. CASE PostWake(t) \/ SemDestroyWake(t)
  <2>1. Same BY <1>9 DEF PostWake, SemDestroyWake
  <2> QED BY <1>0, <2>1
<1>10. CASE DestroySet(t)
  <2>1. Same BY <1>10 DEF DestroySet
  <2> QED BY <1>0, <2>1
<1> QED BY <1>1, <1>2, <1>3, <1>4, <1>5, <1>6, <1>7, <1>8, <1>9, <1>10 DEF SemStep

--------------------------------------------------------------------------------
\* The threads on their way to the level stay so in a step of t that leaves the queue
\* and the level alone, unless t itself turns away.
LEMMA ReachQuiet ==
    ASSUME SemTypes, UnitsReached, NEW t \in Thread, NEW l, pc' = [pc EXCEPT ![t] = l],
           UNCHANGED <<level, init, waitq>>, t \in OnTheWay => t \in OnTheWay'
    PROVE  UnitsReached'
<1>1. OnTheWay \subseteq OnTheWay' BY DEF SemTypes, OnTheWay, Waiting
<1>2. Cardinality(OnTheWay) <= Cardinality(OnTheWay')
  BY <1>1, SetsFinite, SetsFiniteNext, CountSteps
<1>3. Cardinality(OnTheWay') \in Nat BY SetsFiniteNext, FS_CardinalityType
<1> QED BY <1>2, <1>3, SetsFinite DEF SemTypes, UnitsReached

\* A thread that takes a unit of the level was the one that was on its way to it, or
\* came first.
LEMMA ReachTake ==
    ASSUME SemTypes, UnitsReached, NEW t \in Thread, Take(t), UNCHANGED <<init, waitq>>
    PROVE  UnitsReached'
<1>1. OnTheWay \ {t} \subseteq OnTheWay' BY DEF SemTypes, OnTheWay, Waiting, Take
<1>2. Cardinality(OnTheWay) - 1 <= Cardinality(OnTheWay')
  BY <1>1, SetsFinite, SetsFiniteNext, CountSteps
<1>3. Cardinality(OnTheWay') \in Nat /\ level' = level - 1
  BY SetsFiniteNext, FS_CardinalityType DEF Take
<1> QED BY <1>2, <1>3, SetsFinite DEF SemTypes, UnitsReached

\* A level that is not positive needs nobody.
LEMMA ReachClosed == ASSUME SemTypes', level' <= 0 PROVE UnitsReached'
<1>1. Cardinality(OnTheWay') \in Nat BY SetsFiniteNext, FS_CardinalityType
<1> QED BY <1>1 DEF SemTypes, UnitsReached

\* A post adds one unit, and its poster is on the way; it does without when nobody is
\* counted, as nobody sleeps then.
LEMMA ReachPost ==
    ASSUME SemTypes, Protected, CountExact, UnitsReached, NEW t \in Thread, PostAdd(t), SemTypes'
    PROVE  UnitsReached'
<1>1. CASE level' <= 0 BY <1>1, ReachClosed
<1>2. CASE level' > 0 /\ waiters > 0
  <2>1. t \notin OnTheWay /\ OnTheWay' = OnTheWay \cup {t}
    BY <1>2 DEF PostAdd, SemTypes, OnTheWay, Waiting, futexVars
  <2>2. Cardinality(OnTheWay') = Cardinality(OnTheWay) + 1
    BY <2>1, SetsFinite, SetsFiniteNext, CountSteps
  <2> QED BY <2>2, SetsFinite DEF PostAdd, futexVars, SemTypes, UnitsReached
<1>3. CASE ~(waiters > 0)
  <2>1. Counted = {}
    <3>1. Cardinality(Counted) = 0 BY <1>3, SetsFinite DEF CountExact
    <3> QED BY <3>1, SetsFinite, FS_EmptySet
  <2>2. \A u \in Thread : ~Contains(waitq, u)
    BY <2>1 DEF Protected, Waiting, Counted
  <2>3. waitq = <<>> BY <2>2, EmptyQueue DEF Protected
  <2> QED BY <2>3 DEF PostAdd, futexVars, UnitsReached
<1>4. level' \in Int BY DEF SemTypes
<1> QED BY <1>1, <1>2, <1>3, <1>4

\* The poster hands its place on the way to the thread it wakes.
LEMMA ReachWake ==
    ASSUME SemTypes, Protected, UnitsReached, NEW t \in Thread, PostWake(t)
    PROVE  UnitsReached'
<1>1. /\ waitq' \in Seq(Thread)
      /\ \A x : Contains(waitq', x) <=> (Contains(waitq, x) /\ x \in Thread \ Woken(1, level))
  BY KeepProperties DEF PostWake, FutexWake, Protected
<1>2. CASE waitq = <<>>
  <2>1. \A x \in Thread : ~Contains(waitq, x) BY <1>2, EmptyQueue DEF Protected
  <2>2. \A x \in Thread : ~Contains(waitq', x) BY <1>1, <2>1
  <2>3. waitq' = <<>> BY <1>1, <2>2, EmptyQueue
  <2> QED BY <2>3 DEF UnitsReached
<1>3. CASE waitq # <<>>
  <2>1. PICK y \in Thread : Contains(waitq, y) BY <1>3, EmptyQueue DEF Protected
  <2>2. wait[y] # level BY <2>1 DEF Protected, Waiting, PostWake, SemTypes
  <2>3. PICK u \in Thread : Contains(waitq, u) /\ Woken(1, level) = {u}
    <3>1. PICK T : T = {x \in Thread : wait[x] # level} OBVIOUS
    <3>2. PICK kept : kept = Keep(waitq, T) OBVIOUS
    <3>3. waitq \in Seq(Thread) /\ y \in T BY <2>2, <3>1 DEF Protected
    <3>4. \E u \in Thread : Contains(waitq, u) /\ FirstOf(kept) = {u}
      BY ONLY <2>1, <3>2, <3>3, FirstKept
    <3>5. Woken(1, level) = FirstOf(kept) BY ONLY <3>1, <3>2 DEF Woken, FirstOf
    <3> QED BY ONLY <3>4, <3>5
  <2>4. u # t /\ u \notin OnTheWay /\ pc[u] = "pend_relock" /\ ~Waiting(u)'
    BY <1>1, <2>3 DEF Protected, Waiting, PostWake, OnTheWay
  <2>5. (OnTheWay \ {t}) \cup {u} \subseteq OnTheWay'
    BY <1>1, <2>4 DEF PostWake, SemTypes, OnTheWay, Waiting
  <2> DEFINE B == OnTheWay \cup {u}
  <2>6. IsFiniteSet(B) BY SetsFinite, FS_AddElement
  <2>7. Cardinality(B) = Cardinality(OnTheWay) + 1
    BY <2>4, SetsFinite, FS_AddElement
  <2>8. B \ {t} \subseteq OnTheWay' BY <2>5
  <2> HIDE DEF B
  <2>9. Cardinality(B) - 1 <= Cardinality(OnTheWay')
    BY <2>6, <2>8, SetsFiniteNext, CountSteps
  <2>10. Cardinality(OnTheWay') \in Nat BY SetsFiniteNext, FS_CardinalityType
  <2> QED BY <1>3, <2>7, <2>9, <2>10, SetsFinite DEF PostWake, SemTypes, UnitsReached
<1> QED BY <1>2, <1>3

\* The wake of a destroyer takes threads from the queue and nobody from the way.
LEMMA ReachDestroyed ==
    ASSUME SemTypes, Protected, UnitsReached, NEW t \in Thread, SemDestroyWake(t)
    PROVE  UnitsReached'
<1>1. /\ waitq' \in Seq(Thread)
      /\ \A x : Contains(waitq', x) => Contains(waitq, x)
  BY KeepProperties DEF SemDestroyWake, FutexWake, Protected
<1>2. waitq = <<>> => waitq' = <<>> BY <1>1, EmptyQueue DEF Protected
<1>3. OnTheWay \subseteq OnTheWay' BY <1>1 DEF SemDestroyWake, SemTypes, OnTheWay, Waiting
<1>4. Cardinality(OnTheWay) <= Cardinality(OnTheWay')
  BY <1>3, SetsFinite, SetsFiniteNext, CountSteps
<1>5. Cardinality(OnTheWay') \in Nat BY SetsFiniteNext, FS_CardinalityType
<1> QED BY <1>2, <1>4, <1>5, SetsFinite DEF SemDestroyWake, SemTypes, UnitsReached

\* Each unit of the level that sleeping threads could take has a thread on its way.
LEMMA StepReached ==
    ASSUME SemTypes, Protected, CountExact, UnitsReached, SemNext, SemTypes' PROVE UnitsReached'
<1> SUFFICES ASSUME NEW t \in Thread, (\E s \in Services : SemCall(t, s)) \/ SemStep(t)
             PROVE  UnitsReached'
  BY DEF SemNext
<1> USE DEF futexVars
<1> DEFINE Quiet(l) == pc' = [pc EXCEPT ![t] = l] /\ UNCHANGED <<level, init, waitq>>
<1>0. ASSUME NEW l, Quiet(l), t \in OnTheWay => t \in OnTheWay' PROVE UnitsReached'
  BY <1>0, ReachQuiet
<1>1. CASE \E s \in Services : SemCall(t, s)
  <2>1. \E l : Quiet(l) BY <1>1 DEF SemCall
  <2>2. t \notin OnTheWay BY <1>1 DEF SemCall, OnTheWay
  <2> QED BY <1>0, <2>1, <2>2
<1>2. CASE PendCheck(t) \/ TrypendCheck(t) \/ PostCheck(t) \/ SemDestroyCheck(t)
  <2>1. \E l : Quiet(l) BY <1>2 DEF PendCheck, TrypendCheck, PostCheck, SemDestroyCheck, SemCheck
  <2>2. t \notin OnTheWay
    BY <1>2 DEF PendCheck, TrypendCheck, PostCheck, SemDestroyCheck, SemCheck, OnTheWay
  <2> QED BY <1>0, <2>1, <2>2
<1>3. CASE PendLock(t) \/ TrypendLock(t) \/ PostLock(t) \/ DestroyLock(t)
  <2>1. \E l : Quiet(l) BY <1>3 DEF PendLock, TrypendLock, PostLock, DestroyLock, Lock
  <2>2. t \notin OnTheWay
    BY <1>3 DEF PendLock, TrypendLock, PostLock, DestroyLock, Lock, OnTheWay
  <2> QED BY <1>0, <2>1, <2>2
<1>4. CASE PendRelock(t)
  <2>1. Quiet("pend_back") BY <1>4 DEF PendRelock, Lock
  <2>2. t \in OnTheWay' BY <1>4 DEF PendRelock, Lock, OnTheWay, SemTypes
  <2> QED BY <1>0, <2>1, <2>2
<1>5. CASE PendTest(t)
  <2>1. CASE Take(t) BY <1>5, <2>1, ReachTake DEF PendTest
  <2>2. CASE ~Take(t) BY <1>5, <2>2, ReachClosed DEF PendTest
  <2> QED BY <2>1, <2>2
<1>6. CASE PendWait(t)
  <2>1. CASE expected[t] = level
    BY <1>6, <2>1, ReachClosed DEF PendWait, Protected
  <2>2. CASE expected[t] # level
    <3>1. Quiet("pend_relock") BY <1>6, <2>2 DEF PendWait, FutexWait
    <3>2. t \notin OnTheWay BY <1>6 DEF PendWait, OnTheWay
    <3> QED BY <1>0, <3>1, <3>2
  <2> QED BY <2>1, <2>2
<1>7. CASE PendBack(t)
  <2>1. CASE init
    <3>1. Quiet("pend_test") BY <1>7, <2>1 DEF PendBack
    <3>2. t \in OnTheWay' BY <1>7, <2>1 DEF PendBack, OnTheWay, SemTypes
    <3> QED BY <1>0, <3>1, <3>2
  <2>2. CASE ~init BY <1>7, <2>2 DEF PendBack, UnitsReached
  <2> QED BY <2>1, <2>2
<1>8. CASE TrypendTest(t)
  <2>1. CASE Take(t) BY <1>8, <2>1, ReachTake DEF TrypendTest
  <2>2. CASE ~Take(t) BY <1>8, <2>2, ReachClosed DEF TrypendTest
  <2> QED BY <2>1, <2>2
<1>9. CASE PostAdd(t) BY <1>9, ReachPost
<1>10. CASE PostWake(t) BY <1>10, ReachWake
<1>11. CASE DestroySet(t) BY <1>11 DEF DestroySet, UnitsReached
<1>12. CASE SemDestroyWake(t) BY <1>12, ReachDestroyed
<1> QED BY <1>1, <1>2, <1>3, <1>4, <1>5, <1>6, <1>7, <1>8, <1>9, <1>10, <1>11, <1>12 DEF SemStep

--------------------------------------------------------------------------------
\* A semaphore that was just initialised has no waiters.
LEMMA SemInitInv == ASSUME SemInit PROVE SemParts
<1>1. waitq \in Seq(Thread) /\ \A t \in Thread : ~Waiting(t)
  BY DEF SemInit, FutexInit, Waiting, Contains
<1>2. Counted = {} BY DEF SemInit, Counted
<1>3. CountExact BY <1>2, FS_EmptySet DEF SemInit, CountExact
<1>4. SemTypes
  <2>1. /\ expected \in [Thread -> Int] /\ calls \in [Thread -> 0 .. MaxCalls]
        /\ wait \in [Thread -> Int] /\ pc \in [Thread -> SemPC]
    BY SemAssumption DEF SemInit, FutexInit, SemPC
  <2>2. level \in Int /\ lock = Nobody /\ init \in BOOLEAN /\ known \in BOOLEAN
    BY SemAssumption DEF SemInit, FutexInit
  <2>3. err \in [Thread -> {"NO_ERR", "NOT_INITIALIZED", "NO_SUCH_ID", "UNAUTHORIZED"}]
    BY DEF SemInit
  <2> QED BY <2>1, <2>2, <2>3 DEF SemTypes
<1>5. Protected BY <1>1 DEF SemInit, Protected, Locked
<1>6. UnitsReached /\ NoOverdraw
  BY SemAssumption DEF SemInit, FutexInit, UnitsReached, NoOverdraw
<1> QED BY <1>3, <1>4, <1>5, <1>6 DEF SemParts

\* SemInv is its parts.
LEMMA InvParts == SemParts <=> SemInv
<1>1. CountExact => waiters \in 0 .. Cardinality(Thread) BY SetsFinite DEF CountExact
<1> QED
  BY <1>1 DEF SemParts, SemInv, SemTypes, Protected, CountExact, UnitsReached, WaitersReached, SemTypeOK

\* The invariant behind the two theorems that follow: the spinlock excludes, sleeping
\* threads saw a level that was not positive, and a poster that wakes opened the
\* semaphore, besides what the two theorems say.
THEOREM SemaphoreInvariant == SemSpec => []SemInv
<1>1. SemInit => SemParts BY SemInitInv
<1>2. SemParts /\ [SemNext]_semVars => SemParts'
  <2> SUFFICES ASSUME SemParts, [SemNext]_semVars PROVE SemParts' OBVIOUS
  <2>1. CASE UNCHANGED semVars
    BY <2>1 DEF SemParts, SemTypes, Protected, CountExact, Counted, UnitsReached, OnTheWay,
                NoOverdraw, Locked, Waiting, semVars, semFields, futexVars
  <2>2. CASE SemNext
    BY <2>2, StepTypes, StepProtected, StepCount, StepReached, StepOverdraw DEF SemParts
  <2> QED BY <2>1, <2>2
<1> QED BY <1>1, <1>2, InvParts, PTL DEF SemSpec

\* Nobody passes the semaphore without a post: the level stays at zero or above, or at
\* the negative level it started from, however threads pend, post and destroy it.
THEOREM SemaphoreNoOverdraw == SemSpec => []NoOverdraw
<1>1. SemInv => NoOverdraw BY DEF SemInv
<1> QED BY <1>1, SemaphoreInvariant, PTL

\* waiters is exact, and while threads sleep on a semaphore nobody has destroyed each
\* unit of its level has a thread on its way to it.
THEOREM SemaphoreReached == SemSpec => []WaitersReached
<1>1. SemInv => WaitersReached BY DEF SemInv
<1> QED BY <1>1, SemaphoreInvariant, PTL
================================================================================
