------------------------------ MODULE MCSemaphore ------------------------------
(* Small instances of Semaphore for TLC. *)
EXTENDS Semaphore

\* A level from which the first post does not open the semaphore.
MinusOne == -1
================================================================================
