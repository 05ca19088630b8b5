------------------------------ MODULE MCScheduler ------------------------------
(* Small instances of Scheduler for TLC. *)
EXTENDS Scheduler

\* The threads a client creates are interchangeable.
UserSymmetry == Permutations(User)
================================================================================
