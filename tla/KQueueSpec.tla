------------------------------ MODULE KQueueSpec ------------------------------
(***************************************************************************)
(* What the users of core/src/kqueue.c rely on: each kernel queue is a     *)
(* sequence of nodes, a node is in one queue at most, and the operations   *)
(* are those of module KQueueSeq.  Module KQueue implements it with doubly *)
(* linked lists.                                                           *)
(***************************************************************************)
EXTENDS KQueueSeq

CONSTANTS Node, Queue, MaxKey

VARIABLES
    list,  \* the nodes of each queue, head first
    key    \* kqueue_node_t.priority

vars == <<list, key>>

Free(n) == \A q \in Queue : ~Contains(list[q], n)

Init ==
    /\ list = [q \in Queue |-> <<>>]
    /\ key = [n \in Node |-> 0]

PushNode(q, n) ==
    /\ Free(n)
    /\ list' = [list EXCEPT ![q] = Push(@, n)]
    /\ UNCHANGED key

PushPrioNode(q, n, k) ==
    /\ Free(n)
    /\ key' = [key EXCEPT ![n] = k]
    /\ list' = [list EXCEPT ![q] = PushPrio(@, n, key')]

PopNode(q) ==
    /\ list[q] # <<>>
    /\ list' = [list EXCEPT ![q] = Front(@)]
    /\ UNCHANGED key

RemoveNode(q, n) ==
    /\ Contains(list[q], n)
    /\ list' = [list EXCEPT ![q] = Unlink(@, n)]
    /\ UNCHANGED key

\* kqueue_create_node clears the memory it was given for the node.
NewNode(n) == Free(n) /\ key' = [key EXCEPT ![n] = 0] /\ UNCHANGED list

Next ==
    \/ \E n \in Node : NewNode(n)
    \/ \E q \in Queue :
        \/ PopNode(q)
        \/ \E n \in Node :
            \/ PushNode(q, n) \/ RemoveNode(q, n)
            \/ \E k \in 0 .. MaxKey : PushPrioNode(q, n, k)

Spec == Init /\ [][Next]_vars

================================================================================
