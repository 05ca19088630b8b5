-------------------------------- MODULE KQueue --------------------------------
(***************************************************************************)
(* The doubly linked kernel queues of core/src/kqueue.c: nodes and queues  *)
(* are allocated, linked, unlinked and freed.  The callers protect the     *)
(* queues by critical sections: an operation is one step.  A call that an  *)
(* assertion of the code refuses is a kernel panic and not a step; the     *)
(* warning of kqueue.h, "A node should be only used in one queue at most", *)
(* is asserted nowhere and is a duty of the callers (see Scheduler).       *)
(***************************************************************************)
EXTENDS Integers, SequencesExt

CONSTANTS
    Node,     \* memory for nodes
    Queue,    \* memory for queues
    MaxKey,   \* bound on the priority of a node
    MaxSize,  \* bound on the field size of a queue
    Null      \* the NULL pointer

ASSUME ConstantsAssumption ==
    MaxKey \in Nat /\ MaxSize \in Nat /\ Null \notin Node /\ IsFiniteSet(Node)

VARIABLES
    nodes,     \* the nodes allocated and not yet deleted
    queues,    \* the queues allocated and not yet deleted
    next,      \* kqueue_node_t.next
    prev,      \* kqueue_node_t.prev
    enlisted,  \* kqueue_node_t.enlisted
    key,       \* kqueue_node_t.priority
    head,      \* kqueue_t.head
    tail,      \* kqueue_t.tail
    size       \* kqueue_t.size

vars == <<nodes, queues, next, prev, enlisted, key, head, tail, size>>

TypeOK ==
    /\ nodes \subseteq Node /\ queues \subseteq Queue
    /\ next \in [Node -> Node \cup {Null}] /\ prev \in [Node -> Node \cup {Null}]
    /\ enlisted \in [Node -> BOOLEAN] /\ key \in [Node -> 0 .. MaxKey]
    /\ head \in [Queue -> Node \cup {Null}] /\ tail \in [Queue -> Node \cup {Null}]
    /\ size \in [Queue -> 0 .. MaxSize]

Init ==
    /\ nodes = {} /\ queues = {}
    /\ next = [n \in Node |-> Null] /\ prev = [n \in Node |-> Null]
    /\ enlisted = [n \in Node |-> FALSE] /\ key = [n \in Node |-> 0]
    /\ head = [q \in Queue |-> Null] /\ tail = [q \in Queue |-> Null]
    /\ size = [q \in Queue |-> 0]

\* Where a walk from n along the links l (next or prev) is after each step: at a
\* node, or at Null from the end of the list on.  A walk that meets more nodes than
\* there are goes round in a cycle, and is not followed further.
Steps(n, l) ==
    LET step[i \in 1 .. Cardinality(Node)] ==
            IF i = 1 THEN n
            ELSE IF step[i - 1] = Null THEN Null ELSE l[step[i - 1]]
    IN  step

\* The nodes met by that walk.
Chain(n, l) ==
    LET met == {i \in 1 .. Cardinality(Node) : Steps(n, l)[i] # Null}
    IN  [i \in 1 .. Cardinality(met) |-> Steps(n, l)[i]]

Walk(q) == Chain(head[q], next)

--------------------------------------------------------------------------------
\* Freed memory is kept clear, as the memset of the next allocation makes it.
CreateNode(n) ==
    /\ n \notin nodes
    /\ nodes' = nodes \cup {n}
    /\ key' = [key EXCEPT ![n] = 0]
    /\ UNCHANGED <<queues, next, prev, enlisted, head, tail, size>>

DeleteNode(n) ==
    /\ n \in nodes /\ ~enlisted[n]
    /\ nodes' = nodes \ {n}
    /\ UNCHANGED <<queues, next, prev, enlisted, key, head, tail, size>>

CreateQueue(q) ==
    /\ q \notin queues
    /\ queues' = queues \cup {q}
    /\ size' = [size EXCEPT ![q] = 0]
    /\ UNCHANGED <<nodes, next, prev, enlisted, key, head, tail>>

DeleteQueue(q) ==
    /\ q \in queues /\ head[q] = Null /\ tail[q] = Null
    /\ queues' = queues \ {q}
    /\ UNCHANGED <<nodes, next, prev, enlisted, key, head, tail, size>>

--------------------------------------------------------------------------------
\* What the callers of a push guarantee.
CanPush(q, n) == q \in queues /\ n \in nodes /\ ~enlisted[n] /\ size[q] < MaxSize

\* The node becomes the only one of the queue.
LinkFirst(q, n) ==
    /\ head' = [head EXCEPT ![q] = n]
    /\ tail' = [tail EXCEPT ![q] = n]
    /\ next' = [next EXCEPT ![n] = Null]
    /\ prev' = [prev EXCEPT ![n] = Null]

\* The node goes in front of the node c of the queue.
LinkBefore(q, n, c) ==
    /\ next' = [m \in Node |->
                   IF m = n THEN c
                   ELSE IF m = prev[c] THEN n ELSE next[m]]
    /\ prev' = [prev EXCEPT ![n] = prev[c], ![c] = n]
    /\ head' = IF prev[c] = Null THEN [head EXCEPT ![q] = n] ELSE head
    /\ UNCHANGED tail

LinkLast(q, n) ==
    /\ prev' = [prev EXCEPT ![n] = tail[q]]
    /\ next' = [next EXCEPT ![n] = Null, ![tail[q]] = n]
    /\ tail' = [tail EXCEPT ![q] = n]
    /\ UNCHANGED head

Enlist(q, n) ==
    /\ size' = [size EXCEPT ![q] = @ + 1]
    /\ enlisted' = [enlisted EXCEPT ![n] = TRUE]
    /\ UNCHANGED <<nodes, queues>>

\* kqueue_push.
PushNode(q, n) ==
    /\ CanPush(q, n)
    /\ IF head[q] = Null THEN LinkFirst(q, n) ELSE LinkBefore(q, n, head[q])
    /\ Enlist(q, n)
    /\ UNCHANGED key

\* Mutant: the cursor stops behind the nodes of the same priority.
Cursor_Behind(q, k) ==
    LET stops == {i \in DOMAIN Walk(q) : key[Walk(q)[i]] < k}
    IN  IF stops = {} THEN Null ELSE Walk(q)[Min(stops)]

\* Where the loop of kqueue_push_prio stops.
Cursor(q, k) ==
    LET stops == {i \in DOMAIN Walk(q) : key[Walk(q)[i]] <= k}
    IN  IF stops = {} THEN Null ELSE Walk(q)[Min(stops)]

\* kqueue_push_prio.
PushPrioNode(q, n, k) ==
    /\ CanPush(q, n)
    /\ key' = [key EXCEPT ![n] = k]
    /\ CASE head[q] = Null -> LinkFirst(q, n)
         [] head[q] # Null /\ Cursor(q, k) # Null -> LinkBefore(q, n, Cursor(q, k))
         [] OTHER -> LinkLast(q, n)
    /\ Enlist(q, n)

--------------------------------------------------------------------------------
\* Mutant: the node popped stays marked as enlisted.
ClearNode_Marked(n, nxt, prv) ==
    /\ next' = [nxt EXCEPT ![n] = Null]
    /\ prev' = [prv EXCEPT ![n] = Null]
    /\ UNCHANGED <<enlisted, nodes, queues, key>>

\* The node n leaves its queue, whose links are now nxt and prv.
ClearNode(n, nxt, prv) ==
    /\ next' = [nxt EXCEPT ![n] = Null]
    /\ prev' = [prv EXCEPT ![n] = Null]
    /\ enlisted' = [enlisted EXCEPT ![n] = FALSE]
    /\ UNCHANGED <<nodes, queues, key>>

\* Mutant: the size is decremented before the test for an empty queue.
PopNode_CountFirst(q) ==
    /\ q \in queues /\ head[q] = Null
    /\ size' = [size EXCEPT ![q] = @ - 1]
    /\ UNCHANGED <<nodes, queues, next, prev, enlisted, key, head, tail>>

\* kqueue_pop.
PopNode(q) ==
    /\ q \in queues /\ head[q] # Null
    /\ LET n == tail[q]
           p == prev[n]
       IN  /\ tail' = [tail EXCEPT ![q] = p]
           /\ head' = IF p = Null THEN [head EXCEPT ![q] = Null] ELSE head
           /\ ClearNode(n, IF p = Null THEN next ELSE [next EXCEPT ![p] = Null], prev)
    /\ size' = [size EXCEPT ![q] = @ - 1]

\* Mutant: the head is not moved when the first of several nodes is removed.
NewHead_Kept(q, n) == IF prev[n] = Null /\ next[n] = Null THEN Null ELSE head[q]

NewHead(q, n) == IF prev[n] = Null THEN next[n] ELSE head[q]

NewTail(q, n) == IF next[n] = Null THEN prev[n] ELSE tail[q]

\* kqueue_remove of a node of the queue.  The size is left as it is.
RemoveNode(q, n) ==
    /\ q \in queues /\ n \in ToSet(Walk(q))
    /\ head' = [head EXCEPT ![q] = NewHead(q, n)]
    /\ tail' = [tail EXCEPT ![q] = NewTail(q, n)]
    /\ ClearNode(n,
           IF prev[n] = Null THEN next ELSE [next EXCEPT ![prev[n]] = next[n]],
           IF next[n] = Null THEN prev ELSE [prev EXCEPT ![next[n]] = prev[n]])
    /\ UNCHANGED size

--------------------------------------------------------------------------------
Next ==
    \/ \E n \in Node : CreateNode(n) \/ DeleteNode(n)
    \/ \E q \in Queue :
        \/ CreateQueue(q) \/ DeleteQueue(q) \/ PopNode(q)
        \/ \E n \in Node :
            \/ PushNode(q, n) \/ RemoveNode(q, n)
            \/ \E k \in 0 .. MaxKey : PushPrioNode(q, n, k)

Spec == Init /\ [][Next]_vars

--------------------------------------------------------------------------------
\* The two directions of a list meet the same nodes: no operation leaves a link
\* that only one neighbour knows, a cycle, or a head and tail that disagree.
ListsMirror == \A q \in Queue : Chain(tail[q], prev) = Reverse(Walk(q))

\* The field enlisted, which guards the deletion of a node, tells the truth: an
\* enlisted node is in exactly one list, and a list never reaches a node that
\* was deleted or a queue that was deleted.
EnlistedIsLinked ==
    /\ \A n \in Node : enlisted[n] <=> \E q \in Queue : Contains(Walk(q), n)
    /\ \A q \in Queue :
        /\ ToSet(Walk(q)) \subseteq nodes
        /\ q \notin queues => Walk(q) = <<>>
        /\ \A r \in Queue \ {q} : ToSet(Walk(q)) \cap ToSet(Walk(r)) = {}

\* The linked lists implement the sequences that the other modules use.
Lists == INSTANCE KQueueSpec WITH list <- [q \in Queue |-> Walk(q)]
ImplementsSequences == Lists!Spec
================================================================================
