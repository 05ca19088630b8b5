------------------------------- MODULE UserQueue -------------------------------
(***************************************************************************)
(* The queues of lib/libstruct/src/queue.c, for user code: the linked      *)
(* lists of KQueue.tla with an allocator of the user's and with errors     *)
(* where the kernel asserts.  A call that returns an error changes         *)
(* nothing.  The owner of a queue protects it: a call is one step.         *)
(***************************************************************************)
EXTENDS Integers, SequencesExt

CONSTANTS
    Node, Queue, MaxKey, MaxSize, Null,   \* as in KQueue
    Data,      \* what nodes carry
    DataOf     \* queue_node_t.data, which a node keeps for its life

UserQueueAssumption == DataOf \in [Node -> Data]

VARIABLES nodes, queues, next, prev, enlisted, key, head, tail, size

Kernel == INSTANCE KQueue

userQueueVars == Kernel!vars

Init == Kernel!Init

\* queue_create_node and queue_create_queue clear the memory they return.
CreateNode(n) == Kernel!CreateNode(n)
CreateQueue(q) == Kernel!CreateQueue(q)

\* queue_delete_node and queue_delete_queue refuse what is still linked.
DeleteNode(n) == Kernel!DeleteNode(n)
DeleteQueue(q) == Kernel!DeleteQueue(q)

\* queue_push, queue_push_prio and queue_pop
Push(q, n) == Kernel!PushNode(q, n)
PushPrio(q, n, k) == Kernel!PushPrioNode(q, n, k)
Pop(q) == Kernel!PopNode(q)

\* queue_find: the first node with the data, NULL for OS_ERR_NO_SUCH_ID
Find(q, d) ==
    LET nodesWith == SelectSeq(Kernel!Walk(q), LAMBDA n : DataOf[n] = d)
    IN  IF nodesWith = <<>> THEN Null ELSE nodesWith[1]

\* Mutant: a node removed from the middle keeps its links.
RemoveNode_LinksKept(q, n) ==
    /\ q \in queues /\ Contains(Kernel!Walk(q), n)
    /\ head' = [head EXCEPT ![q] = Kernel!NewHead(q, n)]
    /\ tail' = [tail EXCEPT ![q] = Kernel!NewTail(q, n)]
    /\ enlisted' = [enlisted EXCEPT ![n] = FALSE]
    /\ UNCHANGED <<nodes, queues, next, prev, key, size>>

\* queue_remove; the size is left as it is here too.
RemoveNode(q, n) == Kernel!RemoveNode(q, n)

Next ==
    \/ \E n \in Node : CreateNode(n) \/ DeleteNode(n)
    \/ \E q \in Queue :
        \/ CreateQueue(q) \/ DeleteQueue(q) \/ Pop(q)
        \/ \E n \in Node :
            \/ Push(q, n) \/ RemoveNode(q, n)
            \/ \E k \in 0 .. MaxKey : PushPrio(q, n, k)

Spec == Init /\ [][Next]_userQueueVars

--------------------------------------------------------------------------------
\* Both directions of every list agree, and a node is enlisted exactly when it is
\* in one list, in whatever order nodes and queues are made, linked and deleted.
LinksSound == Kernel!ListsMirror /\ Kernel!EnlistedIsLinked

\* A search finds a node exactly when one that is enlisted carries the data, also
\* after removals from the middle, and the node can be reached from the tail, from
\* where queue_pop takes it.
SearchFinds ==
    \A q \in queues, d \in Data :
        IF \E n \in ToSet(Kernel!Walk(q)) : DataOf[n] = d
        THEN /\ enlisted[Find(q, d)] /\ DataOf[Find(q, d)] = d
             /\ Find(q, d) \in ToSet(Kernel!Chain(tail[q], prev))
        ELSE Find(q, d) = Null
================================================================================
