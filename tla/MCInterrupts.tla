------------------------------ MODULE MCInterrupts -----------------------------
(* A small instance of Interrupts: two threads; the PIT at the input of      *)
(* request 2, as the tables of a PC say, and the RTC.                        *)
EXTENDS Interrupts

CONSTANTS t1, t2

PcRemap == [i \in {0, 2, 8} |-> IF i = 0 THEN 2 ELSE i]

================================================================================
