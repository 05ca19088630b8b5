------------------------------- MODULE MCProcess -------------------------------
(* The main process with three more, and threads for all of them. *)
EXTENDS Process

CONSTANTS p0, p1, p2, p3, t0, t1, t2, t3, t4

FreeProcs == Permutations({p1, p2, p3}) \cup Permutations({t1, t2, t3, t4})
================================================================================
