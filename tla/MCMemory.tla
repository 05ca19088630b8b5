------------------------------- MODULE MCMemory --------------------------------
(* A machine of a few frames for TLC: low memory, one region that begins with the
   kernel, and a device above it. *)
EXTENDS Memory

CONSTANTS p0, p1

SmallMap == << [base |-> 0, limit |-> 1, available |-> TRUE],
               [base |-> 1, limit |-> FrameLimit - 2, available |-> TRUE],
               [base |-> FrameLimit - 2, limit |-> FrameLimit - 1, available |-> FALSE] >>

Device == {[base |-> FrameLimit - 1, size |-> 1]}

OnePage == {1}
================================================================================
