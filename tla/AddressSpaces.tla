----------------------------- MODULE AddressSpaces -----------------------------
(***************************************************************************)
(* What memmgt.c promises to processes: each has an address space of its   *)
(* own.  Pages appear and disappear, a write changes one page of the       *)
(* writer, and a fork gives the child a copy of pages of its parent, which *)
(* neither side's later writes change for the other.                       *)
(***************************************************************************)
EXTENDS Integers

CONSTANTS Proc, Page, Value, None

VARIABLE content    \* content[p][a]: what p reads in page a, None if unmapped

Mapped(p) == {a \in Page : content[p][a] # None}

Init == content = [p \in Proc |-> [a \in Page |-> None]]

Map(p) ==
    \E S \in SUBSET (Page \ Mapped(p)) : \E fresh \in [S -> Value] :
        content' = [content EXCEPT ![p] = [a \in Page |-> IF a \in S THEN fresh[a] ELSE @[a]]]

Unmap(p) ==
    \E S \in SUBSET Mapped(p) :
        content' = [content EXCEPT ![p] = [a \in Page |-> IF a \in S THEN None ELSE @[a]]]

Write(p) ==
    \E a \in Mapped(p), v \in Value : content' = [content EXCEPT ![p][a] = v]

Fork(p, q) ==
    /\ Mapped(q) = {}
    /\ \E S \in SUBSET Mapped(p) :
        content' = [content EXCEPT ![q] = [a \in Page |-> IF a \in S THEN content[p][a] ELSE None]]

Next ==
    \E p \in Proc : Map(p) \/ Unmap(p) \/ Write(p) \/ \E q \in Proc \ {p} : Fork(p, q)

Spec == Init /\ [][Next]_content
================================================================================
