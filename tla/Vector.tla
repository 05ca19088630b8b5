--------------------------------- MODULE Vector ---------------------------------
(***************************************************************************)
(* The vector of lib/libstruct/src/vector.c: an array of pointers that     *)
(* grows by doubling.  Its owner protects it: a call is one step.  A call  *)
(* that finds no memory, or an index out of bounds, changes nothing.       *)
(***************************************************************************)
EXTENDS Integers, Sequences

CONSTANTS
    Data,         \* pointers to store
    NullData,     \* the pointer NULL
    Garbage,      \* what is read from memory that nothing has written
    MaxCapacity   \* bound on the capacity

VectorAssumption ==
    MaxCapacity \in Nat /\ Garbage \notin Data \cup {NullData}

VARIABLES
    array,   \* the capacity is its length
    size,    \* vector_t.size
    alive,   \* the vector exists
    held     \* what the calls have put in it, Garbage where a resize added slots

vecVars == <<array, size, alive, held>>

GROWTH_FACTOR == 2

Init == array = <<>> /\ size = 0 /\ alive = FALSE /\ held = <<>>

\* vector_create
Create(n, d) ==
    /\ ~alive /\ alive' = TRUE
    /\ array' = [i \in 1 .. n |-> d] /\ size' = n
    /\ held' = array'

\* vector_destroy
Destroy ==
    /\ alive /\ alive' = FALSE
    /\ array' = <<>> /\ size' = 0 /\ held' = <<>>

\* vector_clear
Clear == alive /\ size' = 0 /\ held' = <<>> /\ UNCHANGED <<array, alive>>

\* A new array, with what memcpy brings over from the first n slots of the old one.
Moved(capacity, n) ==
    [i \in 1 .. capacity |-> IF i <= n /\ i <= Len(array) THEN array[i] ELSE Garbage]

\* vector_copy: the copy takes the place of the original.
Copy ==
    /\ alive
    /\ array' = [i \in DOMAIN array |-> IF i <= size THEN array[i] ELSE NullData]
    /\ UNCHANGED <<size, alive, held>>

\* vector_shrink_to_fit
ShrinkToFit ==
    /\ alive /\ Len(array) > size
    /\ array' = Moved(size, size)
    /\ UNCHANGED <<size, alive, held>>

\* vector_resize: the memcpy goes by the new size, beyond the old array.
Resize(n) ==
    /\ alive
    /\ array' = IF Len(array) < n THEN Moved(n, n) ELSE array
    /\ size' = n
    /\ held' = [i \in 1 .. n |-> IF i <= Len(held) THEN held[i] ELSE Garbage]
    /\ UNCHANGED alive

\* Mutant: growing copies one entry too few.
Grown_Short ==
    IF Len(array) # size THEN array
    ELSE Moved(IF size = 0 THEN GROWTH_FACTOR ELSE GROWTH_FACTOR * size, size - 1)

\* GROW_VECTOR_SIZE
Grown ==
    IF Len(array) # size THEN array
    ELSE Moved(IF size = 0 THEN GROWTH_FACTOR ELSE GROWTH_FACTOR * size, size)

\* vector_insert before the slot p; vector_push is an insertion at the end.
Insert(d, p) ==
    /\ alive /\ p <= size /\ Len(Grown) <= MaxCapacity
    /\ array' = [i \in DOMAIN Grown |->
                    CASE i = p + 1 -> d
                      [] i > p + 1 /\ i <= size + 1 -> Grown[i - 1]
                      [] OTHER -> Grown[i]]
    /\ size' = size + 1
    /\ held' = SubSeq(held, 1, p) \o <<d>> \o SubSeq(held, p + 1, Len(held))
    /\ UNCHANGED alive

Push(d) ==
    /\ alive /\ Len(Grown) <= MaxCapacity
    /\ array' = [Grown EXCEPT ![size + 1] = d]
    /\ size' = size + 1
    /\ held' = Append(held, d)
    /\ UNCHANGED alive

\* vector_pop
Pop ==
    /\ alive /\ size > 0
    /\ size' = size - 1
    /\ held' = SubSeq(held, 1, Len(held) - 1)
    /\ UNCHANGED <<array, alive>>

\* vector_get reads a slot in bounds.
Get(p) == array[p + 1]

\* vector_set
Set(p, d) ==
    /\ alive /\ p < size
    /\ array' = [array EXCEPT ![p + 1] = d]
    /\ held' = [held EXCEPT ![p + 1] = d]
    /\ UNCHANGED <<size, alive>>

Next ==
    \/ Destroy \/ Clear \/ Copy \/ ShrinkToFit \/ Pop
    \/ \E n \in 0 .. MaxCapacity :
        \/ Resize(n)
        \/ \E d \in Data : Create(n, d) \/ Insert(d, n) \/ Set(n, d)
    \/ \E d \in Data : Push(d)

Spec == Init /\ [][Next]_vecVars

--------------------------------------------------------------------------------
\* A vector holds what was put in it, in order and within its array, through
\* growth, shrinking, insertions, copies and resizes.
HoldsWhatWasPut ==
    /\ size = Len(held) /\ size <= Len(array)
    /\ \A p \in 0 .. size - 1 : held[p + 1] # Garbage => Get(p) = held[p + 1]
================================================================================
