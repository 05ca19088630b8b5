-------------------------------- MODULE MCMutex --------------------------------
(* Small instances of Mutex for TLC. *)
EXTENDS Mutex

CONSTANTS t1, t2, t3

\* Each thread has a priority of its own: a swap of two of them shows.
DistinctPrio == [t \in Thread |-> CASE t = t1 -> 2 [] t = t2 -> 3 [] OTHER -> 4]

\* What mutex_init may be given: the mutex elevates to priority 1, or not at all.
Plain == {[recursive |-> FALSE, prio |-> NoElevation]}
Elevating == {[recursive |-> FALSE, prio |-> 1]}
RecursiveElevating == {[recursive |-> TRUE, prio |-> 1]}
SomeFlavours == Plain \cup Elevating \cup RecursiveElevating
================================================================================
