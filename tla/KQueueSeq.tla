------------------------------- MODULE KQueueSeq -------------------------------
(***************************************************************************)
(* The kernel queue of core/src/kqueue.c seen as a sequence of nodes, with *)
(* the head of the list first: kqueue_push links at the head, kqueue_pop   *)
(* unlinks the tail, kqueue_push_prio keeps the list in descending key     *)
(* order.  Scheduler and Futex queue their threads with these operators;   *)
(* module KQueue shows that the doubly linked list computes them.          *)
(***************************************************************************)
EXTENDS SequencesExt, Integers

\* Mutant: the node becomes the tail.
Push_Tail(q, n) == Append(q, n)

\* kqueue_push: the node becomes the head.
Push(q, n) == <<n>> \o q

\* The number of leading nodes whose key is greater than k: the nodes the
\* cursor of kqueue_push_prio walks over.
NbGreater(q, key, k) ==
    Cardinality({i \in 1 .. Len(q) : \A j \in 1 .. i : key[q[j]] > k})

\* kqueue_push_prio: the node goes in front of the first node whose key is
\* not greater than its own, or behind the tail.
PushPrio(q, n, key) == InsertAt(q, NbGreater(q, key, key[n]) + 1, n)

\* The nodes of q that are in S, in their order: what a walk over the queue finds,
\* or leaves of it when it removes the others.
Keep(q, S) ==
    LET kept == {i \in 1 .. Len(q) : q[i] \in S}
        rank == [i \in kept |-> Cardinality({j \in kept : j <= i})]
    IN  [k \in 1 .. Cardinality(kept) |-> q[CHOOSE i \in kept : rank[i] = k]]

\* kqueue_remove of the node n, found by walking from the head.
Unlink(q, n) == RemoveFirst(q, n)

================================================================================
