--------------------------------- MODULE Futex ---------------------------------
(***************************************************************************)
(* One futex of core/src/futex.c: the wait queue of one memory word, and   *)
(* the system calls futex_wait and futex_wake on it.  Each is one step: it *)
(* runs in an interrupt gate and in a critical section.  The queues of two *)
(* words share nothing.  The modules of the primitives built on futexes    *)
(* (Mutex, Semaphore) extend this one.                                     *)
(***************************************************************************)
EXTENDS KQueueSeq

CONSTANT Thread   \* the threads that use the futex

VARIABLES
    waitq,   \* the threads of the wait queue, the last to wait first
    wait,    \* futex_data_t.wait: the value each waiting thread waited on
    known    \* does futex_table hold a queue for this word?

futexVars == <<waitq, wait, known>>

FutexInit ==
    /\ waitq = <<>>
    /\ wait = [t \in Thread |-> 0]
    /\ known = FALSE

\* The thread sleeps (THREAD_STATE_WAITING) until a wake takes it from the queue.
Waiting(t) == Contains(waitq, t)

Enqueue(t) == Push(waitq, t)

\* Mutant: the value of the word is not compared again in the kernel.
FutexWait_NoCompare(t, val, word) ==
    /\ waitq' = Enqueue(t)
    /\ wait' = [wait EXCEPT ![t] = val]
    /\ known' = TRUE

\* futex_wait by t, which expects val, when the word contains word: t waits, or
\* returns at once when the word has changed.
FutexWait(t, val, word) ==
    IF word # val THEN UNCHANGED futexVars
    ELSE /\ waitq' = Enqueue(t)
         /\ wait' = [wait EXCEPT ![t] = val]
         /\ known' = TRUE

\* The threads a wake of at most n threads takes from the queue when the word
\* contains word: the first n, from the head, whose value has changed.
Woken(n, word) ==
    LET changed == Keep(waitq, {t \in Thread : wait[t] # word})
    IN  {changed[i] : i \in DOMAIN changed \cap 1 .. n}

\* futex_wake.  An empty queue stays in the table: kqueue_remove leaves size as it
\* is, the test of size in futex_wake never finds it zero (see module KQueue).
FutexWake(n, word) ==
    /\ waitq' = Keep(waitq, Thread \ Woken(n, word))
    /\ wait' = [t \in Thread |-> IF t \in Woken(n, word) THEN 0 ELSE wait[t]]
    /\ UNCHANGED known

\* The error futex_wake stores in its parameters.
WakeError == IF known THEN "NO_ERR" ELSE "NO_SUCH_ID"

================================================================================
