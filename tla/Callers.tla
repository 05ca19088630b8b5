-------------------------------- MODULE Callers --------------------------------
(***************************************************************************)
(* What the mutex and the semaphore of lib/libapi share: threads that run  *)
(* the code of a service over a futex, each at a place of its own and with *)
(* the error its last call returned.                                       *)
(***************************************************************************)
EXTENDS Futex

CONSTANTS
    Destroyers,  \* the threads that may destroy the object
    Nobody       \* the object has no thread for its owner

ASSUME CallersAssumption == Destroyers \subseteq Thread /\ Nobody \notin Thread

VARIABLES
    err,       \* the error the last call of the thread returned
    pc         \* where each thread stands in the code of the service

At(t, l) == pc[t] = l
Goto(t, l) == pc' = [pc EXCEPT ![t] = l]
Return(t, e) == Goto(t, "run") /\ err' = [err EXCEPT ![t] = e]
================================================================================
