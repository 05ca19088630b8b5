--------------------------------- MODULE Ranges --------------------------------
(***************************************************************************)
(* The lists of free address ranges of the memory manager (memmgt.c):      *)
(* kernel queues of mem_range_t, head first, for the free frames and for   *)
(* the free pages of each process.  Addresses and lengths are counted in   *)
(* frames.  A range [base, limit, key] covers base .. limit - 1; key is    *)
(* the priority of its node, by which kqueue_push_prio places new nodes.   *)
(***************************************************************************)
EXTENDS SequencesExt, Integers

Range3(base, limit, key) == [base |-> base, limit |-> limit, key |-> key]

Cells(r) == r.base .. r.limit - 1

\* All the addresses that the list q holds.
FreeCells(q) == UNION {Cells(q[i]) : i \in DOMAIN q}

\* Every range holds something and no address is free twice.
RangesDisjoint(q) ==
    /\ \A i \in DOMAIN q : q[i].base < q[i].limit
    /\ \A i, j \in DOMAIN q : i # j => Cells(q[i]) \cap Cells(q[j]) = {}

\* The list is in descending order and no two of its ranges touch.
RangesMerged(q) == \A i \in 1 .. Len(q) - 1 : q[i + 1].limit < q[i].base

\* kqueue_push_prio of a new range.
InsertRange(q, base, limit) ==
    LET at == Cardinality({i \in DOMAIN q : \A j \in 1 .. i : q[j].key > base})
    IN  InsertAt(q, at + 1, Range3(base, limit, base))

--------------------------------------------------------------------------------
\* get_block

Fitting(q, n) == {i \in DOMAIN q : q[i].limit - q[i].base >= n}

HasBlock(q, n) == Fitting(q, n) # {}

\* The first range that fits, from the head or from the tail.
Chosen(q, n, start) ==
    IF start = "BEGINING" THEN Min(Fitting(q, n)) ELSE Max(Fitting(q, n))

\* Mutant: a block taken from the tail starts at the base of its range.
BlockAddress_Base(q, n, start) == q[Chosen(q, n, start)].base

\* The address that get_block returns.
BlockAddress(q, n, start) ==
    LET r == q[Chosen(q, n, start)]
    IN  IF start = "BEGINING" THEN r.base ELSE r.limit - n

\* The list that get_block leaves: a range used up is removed.
GetBlock(q, n, start) ==
    LET i == Chosen(q, n, start)
        r == q[i]
    IN  IF r.limit - r.base = n THEN RemoveAt(q, i)
        ELSE IF start = "BEGINING"
             THEN [q EXCEPT ![i] = Range3(r.base + n, r.limit, r.base + n)]
             ELSE [q EXCEPT ![i].limit = @ - n]

--------------------------------------------------------------------------------
\* add_block of the n cells from first on

\* The cursor stops at the first range that touches the block, holds its first
\* address, or lies below it.
StopsAt(r, first, n) ==
    \/ r.base = first + n
    \/ r.limit = first
    \/ r.base <= first /\ first < r.limit
    \/ r.limit < first

Cursor(q, first, n) == Min({i \in DOMAIN q : StopsAt(q[i], first, n)})

Stops(q, first, n) == \E i \in DOMAIN q : StopsAt(q[i], first, n)

\* The assertion of add_block: the range at the cursor holds the first address.
FreedTwice(q, first, n) ==
    /\ Stops(q, first, n)
    /\ LET r == q[Cursor(q, first, n)]
       IN  r.base # first + n /\ r.base <= first /\ first < r.limit

\* The block extends the range at i downwards, which may then meet the next one.
GrowDown(q, i, first) ==
    IF i < Len(q) /\ q[i + 1].limit = first
    THEN RemoveAt([q EXCEPT ![i].base = q[i + 1].base, ![i].key = q[i + 1].base], i + 1)
    ELSE [q EXCEPT ![i].base = first, ![i].key = first]

\* The block extends the range at i upwards, which may then meet the previous one.
GrowUp(q, i, limit) ==
    IF i > 1 /\ q[i - 1].base = limit
    THEN RemoveAt([q EXCEPT ![i].limit = q[i - 1].limit], i - 1)
    ELSE [q EXCEPT ![i].limit = limit]

AddBlock(q, first, n) ==
    LET i == Cursor(q, first, n)
    IN  IF ~Stops(q, first, n) THEN InsertRange(q, first, first + n)
        ELSE IF q[i].base = first + n THEN GrowDown(q, i, first)
        ELSE IF q[i].limit = first THEN GrowUp(q, i, first + n)
        ELSE InsertRange(q, first, first + n)

--------------------------------------------------------------------------------
\* paging_copy_free_page_table pushes the ranges at the head of the new list one
\* by one, without a priority.
CopyRanges(q) == Reverse([i \in DOMAIN q |-> [q[i] EXCEPT !.key = 0]])
================================================================================
