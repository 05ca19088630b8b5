------------------------------- MODULE Allocator -------------------------------
(***************************************************************************)
(* What a heap promises its clients: each block it hands out has at least  *)
(* the size asked for, lies in the heap apart from all other blocks, and   *)
(* stays what it is until its client gives it back.                        *)
(***************************************************************************)
EXTENDS Integers

CONSTANTS
    Space,     \* the addresses of the heap
    Requests   \* the sizes clients ask for

VARIABLE blocks   \* address of each block held by a client -> its two sizes

Bytes(p, b) == p .. p + b.len - 1

Init == DOMAIN blocks = {}

\* A block that was not there is handed out.
Alloc(p) ==
    /\ p \notin DOMAIN blocks
    /\ DOMAIN blocks' = DOMAIN blocks \cup {p}
    /\ \A q \in DOMAIN blocks : blocks'[q] = blocks[q]
    /\ blocks'[p].asked \in Requests /\ blocks'[p].len >= blocks'[p].asked
    /\ Bytes(p, blocks'[p]) \subseteq Space
    /\ \A q \in DOMAIN blocks : Bytes(p, blocks'[p]) \cap Bytes(q, blocks[q]) = {}

Free(p) ==
    /\ p \in DOMAIN blocks
    /\ blocks' = [q \in DOMAIN blocks \ {p} |-> blocks[q]]

Next == \E p \in Space : Alloc(p) \/ Free(p)

Spec == Init /\ [][Next]_blocks

================================================================================
