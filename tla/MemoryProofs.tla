------------------------------ MODULE MemoryProofs ------------------------------
(***************************************************************************)
(* The memory manager, for every number of processes, every size of the    *)
(* memory, of the tables and of the stacks, and every request: the         *)
(* reference counts are exact, the free lists say what is free, and only   *)
(* the assertions KnownPanics names can stop the kernel.                   *)
(*                                                                         *)
(* The invariant IInv says of the whole memory what the properties say and *)
(* what they rest on: Good, the books of every frame, which FrameStep      *)
(* keeps when one frame changes; Sound, the free pages and the stacks of   *)
(* every process; Lives, which processes have a directory.  Each helper of *)
(* memmgt.c has a lemma that says what it does to the memory and to one    *)
(* space; the frames that are taken but not yet mapped are the third       *)
(* argument of Good.  From them follows one lemma per action.              *)
(*                                                                         *)
(* A loop of the code is a fold over the numbers it runs through.  The     *)
(* instances of LoopProofs say what the fold keeps when a round keeps it;  *)
(* they rest on induction up to n, which Climb proves.                     *)
(*                                                                         *)
(* The parts: lists of ranges; the books of the frames; references; the    *)
(* memory once it ran out; mapping and unmapping; the stacks; fork; the    *)
(* release of a process, with a table that was never counted or without;   *)
(* the actions; the theorems.                                              *)
(***************************************************************************)
EXTENDS Memory, KQueueSeqProofs, WellFoundedInduction

\* Induction: what holds of 0 and climbs by one step holds up to n.
LEMMA Climb ==
    ASSUME NEW n \in Nat
    PROVE  \A S : 0 \in S /\ (\A k \in 0 .. n - 1 : k \in S => k + 1 \in S) => n \in S
<1> SUFFICES ASSUME NEW S, 0 \in S, \A k \in 0 .. n - 1 : k \in S => k + 1 \in S, n \notin S
             PROVE  FALSE
  OBVIOUS
<1>1. PICK T : T = {j \in 0 .. n : j \notin S} OBVIOUS
<1>2. T \subseteq Nat /\ T # {} BY <1>1
<1>3. PICK j \in T : \A i \in T : ~(<<i, j>> \in OpToRel(<, Nat))
  BY <1>2, NatLessThanWellFounded, WFMin
<1>4. \A i \in T : ~(i < j) BY <1>2, <1>3 DEF OpToRel
<1>5. j # 0 /\ j - 1 \in 0 .. n - 1 BY <1>1
<1>6. j - 1 \in S BY <1>1, <1>4, <1>5
<1> QED BY <1>1, <1>5, <1>6

\* A range of a free list, and the key of its node.
Rng == [base : Int, limit : Int, key : Int]

\* The range r has the cell x.
Holds(r, x) == r.base <= x /\ x < r.limit

\* Ranges that are not empty, each listed once, and apart from each other.
Apart(q) ==
    /\ q \in Seq(Rng) /\ IsInjective(q)
    /\ \A r \in Rng : Contains(q, r) => r.base < r.limit
    /\ \A r, s \in Rng : Contains(q, r) /\ Contains(q, s) /\ r # s =>
            \A x \in Int : ~(Holds(r, x) /\ Holds(s, x))

\* A cell of a list is in one of its ranges.
LEMMA CellsAre ==
    ASSUME NEW q \in Seq(Rng)
    PROVE  \A x : x \in FreeCells(q) <=> x \in Int /\ \E r \in Rng : Contains(q, r) /\ Holds(r, x)
<1>1. DOMAIN q = 1 .. Len(q) /\ \A i \in 1 .. Len(q) : q[i] \in Rng OBVIOUS
<1>2. \A r \in Rng : \A x : x \in Cells(r) <=> x \in Int /\ Holds(r, x) BY DEF Cells, Rng, Holds
<1>3. \A x : x \in FreeCells(q) <=> \E i \in 1 .. Len(q) : x \in Cells(q[i])
  BY <1>1 DEF FreeCells
<1> QED BY <1>1, <1>2, <1>3 DEF Contains

\* No cell is in two ranges of the list, the part of FreeListsSound that is about one list.
LEMMA ApartDisjoint ==
    ASSUME NEW q, Apart(q) PROVE RangesDisjoint(q)
<1>1. /\ q \in Seq(Rng) /\ DOMAIN q = 1 .. Len(q)
      /\ \A i \in 1 .. Len(q) : q[i] \in Rng /\ Contains(q, q[i])
      /\ \A i, j \in 1 .. Len(q) : q[i] = q[j] => i = j
  BY DEF Apart, Contains, IsInjective
<1>2. \A i \in DOMAIN q : q[i].base < q[i].limit BY <1>1 DEF Apart
<1>3. \A r \in Rng : \A x : x \in Cells(r) <=> x \in Int /\ Holds(r, x) BY DEF Cells, Rng, Holds
<1>4. ASSUME NEW i \in DOMAIN q, NEW j \in DOMAIN q, i # j
      PROVE  Cells(q[i]) \cap Cells(q[j]) = {}
  BY <1>1, <1>3, <1>4 DEF Apart
<1> QED BY <1>2, <1>4 DEF RangesDisjoint

\* An element of a sequence without repetitions is replaced.
LEMMA ReplaceQueue ==
    ASSUME NEW S, NEW q \in Seq(S), IsInjective(q), NEW i \in 1 .. Len(q), NEW y \in S,
           ~Contains(q, y), NEW r, r = [q EXCEPT ![i] = y]
    PROVE  /\ r \in Seq(S) /\ Len(r) = Len(q) /\ IsInjective(r)
           /\ \A x : Contains(r, x) <=> x = y \/ (Contains(q, x) /\ x # q[i])
<1>1. /\ Len(q) \in Nat /\ DOMAIN q = 1 .. Len(q) /\ r \in [1 .. Len(q) -> S]
      /\ r \in Seq(S) /\ Len(r) = Len(q) /\ DOMAIN r = 1 .. Len(q) /\ r[i] = y
      /\ \A j \in 1 .. Len(q) : j # i => r[j] = q[j]
  OBVIOUS
<1>2. \A j, k \in 1 .. Len(q) : q[j] = q[k] => j = k BY <1>1 DEF IsInjective
<1>3. \A j \in 1 .. Len(q) : q[j] # y BY DEF Contains
<1>4. IsInjective(r)
  <2>1. \A j, k \in 1 .. Len(q) : r[j] = r[k] => j = k BY <1>1, <1>2, <1>3
  <2> QED BY <1>1, <2>1 DEF IsInjective
<1>5. \A x : Contains(r, x) <=> x = y \/ (Contains(q, x) /\ x # q[i])
  BY <1>1, <1>2 DEF Contains
<1> QED BY <1>1, <1>4, <1>5

\* A range leaves the list.
LEMMA RemoveApart ==
    ASSUME NEW q, Apart(q), NEW i \in 1 .. Len(q), NEW r, r = RemoveAt(q, i)
    PROVE  /\ Apart(r)
           /\ \A x : x \in FreeCells(r) <=> x \in FreeCells(q) /\ ~Holds(q[i], x)
<1>1. q \in Seq(Rng) /\ IsInjective(q) /\ q[i] \in Rng /\ Contains(q, q[i])
  BY DEF Apart, Contains
<1>2. /\ r \in Seq(Rng) /\ IsInjective(r) /\ ~Contains(r, q[i])
      /\ \A x : Contains(r, x) => Contains(q, x)
      /\ \A x : Contains(q, x) /\ x # q[i] => Contains(r, x)
  BY <1>1, RemoveAtQueue
<1>3. Apart(r) BY <1>2 DEF Apart
<1>4. ASSUME NEW x PROVE x \in FreeCells(r) <=> x \in FreeCells(q) /\ ~Holds(q[i], x)
  <2>1. \A s \in Rng : Contains(q, s) /\ s # q[i] /\ x \in Int => ~(Holds(s, x) /\ Holds(q[i], x))
    BY <1>1 DEF Apart
  <2>2. x \in FreeCells(r) <=> x \in Int /\ \E s \in Rng : Contains(r, s) /\ Holds(s, x)
    BY <1>2, CellsAre
  <2>3. x \in FreeCells(q) <=> x \in Int /\ \E s \in Rng : Contains(q, s) /\ Holds(s, x)
    BY <1>1, CellsAre
  <2> QED BY <1>2, <2>1, <2>2, <2>3
<1> QED BY <1>3, <1>4

\* A range gives way to another one, apart from the rest.
LEMMA ReplaceApart ==
    ASSUME NEW q, Apart(q), NEW i \in 1 .. Len(q), NEW y \in Rng, y.base < y.limit,
           \A s \in Rng : Contains(q, s) /\ s # q[i] => \A x \in Int : ~(Holds(s, x) /\ Holds(y, x)),
           NEW r, r = [q EXCEPT ![i] = y]
    PROVE  /\ Apart(r)
           /\ \A x \in Int : x \in FreeCells(r) <=>
                (x \in FreeCells(q) /\ ~Holds(q[i], x)) \/ Holds(y, x)
<1>1. q \in Seq(Rng) /\ IsInjective(q) /\ q[i] \in Rng /\ Contains(q, q[i])
  BY DEF Apart, Contains
<1>2. Holds(y, y.base) /\ y.base \in Int BY DEF Holds, Rng
<1>3. \A s \in Rng : Contains(q, s) /\ s # q[i] => s # y BY <1>2
<1>4. /\ r \in Seq(Rng) /\ IsInjective(r)
      /\ \A x : Contains(r, x) <=> x = y \/ (Contains(q, x) /\ x # q[i])
  <2>1. CASE y = q[i]
    <3>1. r = q BY <1>1, <2>1
    <3> QED BY <1>1, <2>1, <3>1
  <2>2. CASE y # q[i]
    <3>1. ~Contains(q, y) BY <1>3, <2>2
    <3> QED BY ZenonT(60), <1>1, <3>1, ReplaceQueue
  <2> QED BY <2>1, <2>2
<1>5. Apart(r)
  <2>1. \A s \in Rng : Contains(r, s) => s.base < s.limit BY <1>4 DEF Apart
  <2>2. ASSUME NEW s \in Rng, NEW t \in Rng, Contains(r, s), Contains(r, t), s # t, NEW x \in Int
        PROVE  ~(Holds(s, x) /\ Holds(t, x))
    BY <1>4, <2>2 DEF Apart
  <2> QED BY <1>4, <2>1, <2>2 DEF Apart
<1>6. ASSUME NEW x \in Int
      PROVE  x \in FreeCells(r) <=> (x \in FreeCells(q) /\ ~Holds(q[i], x)) \/ Holds(y, x)
  <2>1. \A s \in Rng : Contains(q, s) /\ s # q[i] => ~(Holds(s, x) /\ Holds(q[i], x))
    BY <1>1 DEF Apart
  <2>2. x \in FreeCells(r) <=> \E s \in Rng : Contains(r, s) /\ Holds(s, x)
    BY <1>4, CellsAre
  <2>3. x \in FreeCells(q) <=> \E s \in Rng : Contains(q, s) /\ Holds(s, x)
    BY <1>1, CellsAre
  <2> QED BY <1>4, <2>1, <2>2, <2>3
<1> QED BY <1>5, <1>6

\* A range joins the list, apart from the others.
LEMMA InsertApart ==
    ASSUME NEW q, Apart(q), NEW i \in 1 .. Len(q) + 1, NEW y \in Rng, y.base < y.limit,
           \A x \in Int : Holds(y, x) => x \notin FreeCells(q),
           NEW r, r = InsertAt(q, i, y)
    PROVE  /\ Apart(r)
           /\ \A x \in Int : x \in FreeCells(r) <=> x \in FreeCells(q) \/ Holds(y, x)
<1>1. q \in Seq(Rng) /\ IsInjective(q) BY DEF Apart
<1>2. \A x \in Int : x \in FreeCells(q) <=> \E s \in Rng : Contains(q, s) /\ Holds(s, x)
  BY <1>1, CellsAre
<1>3. Holds(y, y.base) /\ y.base \in Int BY DEF Holds, Rng
<1>4. ~Contains(q, y) BY <1>2, <1>3
<1>5. /\ r \in Seq(Rng) /\ IsInjective(r)
      /\ \A x : Contains(r, x) <=> x = y \/ Contains(q, x)
  BY <1>1, <1>4, InsertAtQueue
<1>6. Apart(r)
  <2>1. \A s \in Rng : Contains(r, s) => s.base < s.limit BY <1>5 DEF Apart
  <2>2. ASSUME NEW s \in Rng, NEW t \in Rng, Contains(r, s), Contains(r, t), s # t, NEW x \in Int
        PROVE  ~(Holds(s, x) /\ Holds(t, x))
    BY <1>2, <1>5, <2>2 DEF Apart
  <2> QED BY <1>5, <2>1, <2>2 DEF Apart
<1>7. \A x \in Int : x \in FreeCells(r) <=> \E s \in Rng : Contains(r, s) /\ Holds(s, x)
  BY <1>5, CellsAre
<1> QED BY <1>2, <1>5, <1>6, <1>7

--------------------------------------------------------------------------------
\* The least and the greatest place of a set of places.
LEMMA PlaceBounds ==
    ASSUME NEW n \in Nat, NEW I \in SUBSET (1 .. n), I # {}
    PROVE  /\ Min(I) \in I /\ \A i \in I : Min(I) <= i
           /\ Max(I) \in I /\ \A i \in I : i <= Max(I)
<1>1. PICK x \in I : \A y \in I : x <= y BY LeastNatural
<1>2. \E m \in I : \A y \in I : m >= y
  <2> DEFINE J == {n - i : i \in I}
  <2>1. J \in SUBSET Nat /\ J # {} OBVIOUS
  <2>2. PICK j \in J : \A y \in J : j <= y BY ONLY <2>1, LeastNatural
  <2>3. PICK m \in I : j = n - m BY <2>2
  <2>4. \A i \in I : n - i \in J OBVIOUS
  <2>5. \A i \in I : n - m <= n - i BY <2>2, <2>3, <2>4
  <2> HIDE DEF J
  <2>6. \A i \in I : m >= i BY <2>5
  <2> QED BY <2>6
<1>3. \E m \in I : \A y \in I : m =< y BY <1>1
<1>4. Min(I) \in I /\ \A i \in I : Min(I) =< i BY <1>3 DEF Min
<1>5. Max(I) \in I /\ \A i \in I : Max(I) >= i BY <1>2 DEF Max
<1> QED BY <1>4, <1>5

\* The range that is chosen is large enough; from the beginning it is the first one that is.
LEMMA ChosenFits ==
    ASSUME NEW q \in Seq(Rng), NEW n \in Int, HasBlock(q, n), NEW start,
           NEW c, c = Chosen(q, n, start)
    PROVE  /\ c \in 1 .. Len(q) /\ q[c] \in Rng /\ q[c].limit - q[c].base >= n
           /\ start = "BEGINING" =>
                \A i \in 1 .. Len(q) : q[i].limit - q[i].base >= n => c <= i
<1>1. Len(q) \in Nat /\ DOMAIN q = 1 .. Len(q) /\ \A i \in 1 .. Len(q) : q[i] \in Rng OBVIOUS
<1>2. /\ Fitting(q, n) \in SUBSET (1 .. Len(q)) /\ Fitting(q, n) # {}
      /\ \A i \in 1 .. Len(q) : i \in Fitting(q, n) <=> q[i].limit - q[i].base >= n
  BY <1>1 DEF Fitting, HasBlock
<1> QED BY <1>1, <1>2, PlaceBounds DEF Chosen

\* get_block takes exactly the block it returns, which was free.
LEMMA GetBlockApart ==
    ASSUME NEW q, Apart(q), NEW n \in Nat \ {0}, HasBlock(q, n), NEW start,
           NEW a, a = BlockAddress(q, n, start), NEW r, r = GetBlock(q, n, start)
    PROVE  /\ Apart(r) /\ a \in Int
           /\ \A x \in a .. a + n - 1 : x \in FreeCells(q)
           /\ \A x \in Int : x \in FreeCells(r) <=> x \in FreeCells(q) /\ x \notin a .. a + n - 1
<1>1. q \in Seq(Rng) BY DEF Apart
<1>2. PICK i : i = Chosen(q, n, start) OBVIOUS
<1>3. PICK o : o = q[i] OBVIOUS
<1>4. /\ i \in 1 .. Len(q) /\ o \in Rng /\ o.base \in Int /\ o.limit \in Int /\ o.key \in Int
      /\ o.limit - o.base >= n /\ Contains(q, o)
  BY <1>1, <1>2, <1>3, ChosenFits DEF Rng, Contains
<1>5. a = IF start = "BEGINING" THEN o.base ELSE o.limit - n
  BY <1>2, <1>3 DEF BlockAddress
<1>6. /\ a \in Int /\ \A x \in a .. a + n - 1 : Holds(o, x)
      /\ \A x \in a .. a + n - 1 : x \in FreeCells(q)
      /\ \A x \in Int : x \in FreeCells(q) <=> \E s \in Rng : Contains(q, s) /\ Holds(s, x)
  <2>1. a \in Int /\ \A x \in a .. a + n - 1 : Holds(o, x) BY <1>4, <1>5 DEF Holds
  <2>2. \A x \in Int : x \in FreeCells(q) <=> \E s \in Rng : Contains(q, s) /\ Holds(s, x)
    BY <1>1, CellsAre
  <2> QED BY <1>4, <2>1, <2>2
<1>7. CASE o.limit - o.base = n
  <2>1. r = RemoveAt(q, i) BY <1>2, <1>3, <1>7 DEF GetBlock
  <2>2. \A x \in Int : Holds(q[i], x) <=> x \in a .. a + n - 1
    BY <1>3, <1>4, <1>5, <1>7 DEF Holds
  <2>3. /\ Apart(r)
        /\ \A x : x \in FreeCells(r) <=> x \in FreeCells(q) /\ ~Holds(q[i], x)
    BY <1>4, <2>1, RemoveApart
  <2> QED BY <1>6, <2>2, <2>3
<1>8. CASE o.limit - o.base # n
  <2>1. PICK y \in Rng : /\ r = [q EXCEPT ![i] = y] /\ y.base < y.limit
                         /\ \A x \in Int : Holds(y, x) <=> Holds(o, x) /\ x \notin a .. a + n - 1
    <3>1. CASE start = "BEGINING"
      <4> DEFINE y == Range3(o.base + n, o.limit, o.base + n)
      <4>1. r = [q EXCEPT ![i] = y] BY <1>2, <1>3, <1>8, <3>1 DEF GetBlock
      <4>2. /\ y \in Rng /\ y.base < y.limit
            /\ \A x \in Int : Holds(y, x) <=> Holds(o, x) /\ x \notin a .. a + n - 1
        BY <1>4, <1>5, <1>8, <3>1 DEF Range3, Rng, Holds
      <4> QED BY <4>1, <4>2
    <3>2. CASE start # "BEGINING"
      <4> DEFINE y == [o EXCEPT !.limit = @ - n]
      <4>1. r = [q EXCEPT ![i] = y]
        BY <1>1, <1>2, <1>3, <1>4, <1>8, <3>2 DEF GetBlock
      <4>2. /\ y \in Rng /\ y.base < y.limit
            /\ \A x \in Int : Holds(y, x) <=> Holds(o, x) /\ x \notin a .. a + n - 1
        BY <1>4, <1>5, <1>8, <3>2 DEF Rng, Holds
      <4> QED BY <4>1, <4>2
    <3> QED BY <3>1, <3>2
  <2>2. ASSUME NEW s \in Rng, Contains(q, s), s # q[i], NEW x \in Int
        PROVE  ~(Holds(s, x) /\ Holds(y, x)) /\ ~(Holds(s, x) /\ Holds(q[i], x))
    BY <1>3, <1>4, <2>1, <2>2 DEF Apart
  <2>3. /\ Apart(r)
        /\ \A x \in Int : x \in FreeCells(r) <=>
                (x \in FreeCells(q) /\ ~Holds(q[i], x)) \/ Holds(y, x)
    BY <1>4, <2>1, <2>2, ReplaceApart
  <2> QED BY <1>3, <1>4, <1>6, <2>1, <2>3
<1> QED BY <1>6, <1>7, <1>8

\* The cursor of add_block.
LEMMA CursorStops ==
    ASSUME NEW q \in Seq(Rng), NEW a \in Int, NEW n \in Int, Stops(q, a, n),
           NEW i, i = Cursor(q, a, n)
    PROVE  /\ i \in 1 .. Len(q) /\ StopsAt(q[i], a, n)
           /\ \A j \in 1 .. Len(q) : StopsAt(q[j], a, n) => i <= j
<1> DEFINE I == {j \in DOMAIN q : StopsAt(q[j], a, n)}
<1>1. Len(q) \in Nat /\ DOMAIN q = 1 .. Len(q) OBVIOUS
<1>2. I \in SUBSET (1 .. Len(q)) /\ I # {} BY <1>1 DEF Stops
<1>3. i = Min(I) BY DEF Cursor
<1>4. \A j \in 1 .. Len(q) : j \in I <=> StopsAt(q[j], a, n) BY <1>1
<1> HIDE DEF I
<1>5. Min(I) \in I /\ \A j \in I : Min(I) <= j BY <1>1, <1>2, PlaceBounds
<1>6. i \in I /\ \A j \in I : i <= j BY <1>3, <1>5
<1> QED BY <1>2, <1>4, <1>6

\* What a list of ranges that are apart gives: its indices, its members and its cells.
LEMMA RangeFacts ==
    ASSUME NEW q, Apart(q)
    PROVE  /\ q \in Seq(Rng) /\ Len(q) \in Nat /\ DOMAIN q = 1 .. Len(q) /\ IsInjective(q)
           /\ \A i \in 1 .. Len(q) : /\ q[i] \in Rng /\ q[i].base \in Int /\ q[i].limit \in Int
                                     /\ Contains(q, q[i]) /\ q[i].base < q[i].limit
           /\ \A x \in Int : x \in FreeCells(q) <=> \E s \in Rng : Contains(q, s) /\ Holds(s, x)
<1>1. q \in Seq(Rng) /\ Len(q) \in Nat /\ DOMAIN q = 1 .. Len(q) /\ IsInjective(q) BY DEF Apart
<1>2. \A i \in 1 .. Len(q) : q[i] \in Rng /\ Contains(q, q[i]) BY <1>1 DEF Contains
<1>3. \A r \in Rng : r.base \in Int /\ r.limit \in Int BY DEF Rng
<1>4. \A i \in 1 .. Len(q) : q[i].base < q[i].limit BY <1>2 DEF Apart
<1> QED BY <1>1, <1>2, <1>3, <1>4, CellsAre

\* Nothing of the block of n cells from a on is listed in q; the block has joined the
\* list; the range y covers it and two ranges of the list.
Unlisted(q, a, n) == \A x \in a .. a + n - 1 : x \notin FreeCells(q)

\* The block is added to the free cells.
Added(q, r, a, n) ==
    /\ Apart(r)
    /\ \A x \in Int : x \in FreeCells(r) <=> x \in FreeCells(q) \/ x \in a .. a + n - 1

\* The range i of the list grows to y by the block, and by the range k if that is another.
Covers(y, q, i, k, a, n) ==
    \A x \in Int : Holds(y, x) <=> x \in a .. a + n - 1 \/ Holds(q[i], x) \/ Holds(q[k], x)

\* The ranges of G give way to one that covers them and a block that was not free.
LEMMA JoinApart ==
    ASSUME NEW q, Apart(q), NEW a \in Int, NEW n \in Nat \ {0},
           Unlisted(q, a, n),
           NEW G, \A s \in G : s \in Rng /\ Contains(q, s),
           NEW y \in Rng,
           \A x \in Int : Holds(y, x) <=> x \in a .. a + n - 1 \/ \E s \in G : Holds(s, x),
           NEW r \in Seq(Rng), IsInjective(r),
           \A x : Contains(r, x) <=> x = y \/ (Contains(q, x) /\ x \notin G)
    PROVE  Added(q, r, a, n)
<1>1. \A x \in Int : x \in FreeCells(q) <=> \E s \in Rng : Contains(q, s) /\ Holds(s, x)
  BY RangeFacts
<1>2. \A x \in Int : x \in FreeCells(r) <=> \E s \in Rng : Contains(r, s) /\ Holds(s, x)
  BY CellsAre
<1>3. \A s \in Rng : Contains(q, s) /\ s \notin G => \A x \in Int : ~(Holds(s, x) /\ Holds(y, x))
  BY <1>1 DEF Apart, Unlisted
<1>4. y.base < y.limit
  <2>1. Holds(y, a) BY a \in a .. a + n - 1
  <2> QED BY <2>1 DEF Holds, Rng
<1>5. Apart(r)
  <2>1. \A s \in Rng : Contains(r, s) => s.base < s.limit BY <1>4 DEF Apart
  <2>2. ASSUME NEW s \in Rng, NEW t \in Rng, Contains(r, s), Contains(r, t), s # t, NEW x \in Int
        PROVE  ~(Holds(s, x) /\ Holds(t, x))
    BY <1>3, <2>2 DEF Apart
  <2> QED BY <2>1, <2>2 DEF Apart
<1>6. \A x \in Int : x \in FreeCells(r) <=> x \in FreeCells(q) \/ x \in a .. a + n - 1
  BY <1>1, <1>2
<1> QED BY <1>5, <1>6 DEF Added

\* The range at i takes the block and, when it meets the one at k, that one too.
LEMMA GrowEffect ==
    ASSUME NEW q, Apart(q), NEW a \in Int, NEW n \in Nat \ {0},
           Unlisted(q, a, n),
           NEW i \in 1 .. Len(q), NEW k \in 1 .. Len(q), NEW y \in Rng,
           NEW p, p = [q EXCEPT ![i] = y],
           Covers(y, q, i, k, a, n),
           NEW r, r = IF k = i THEN p ELSE RemoveAt(p, k)
    PROVE  Added(q, r, a, n)
<1>1. /\ q \in Seq(Rng) /\ Len(q) \in Nat /\ DOMAIN q = 1 .. Len(q) /\ IsInjective(q)
      /\ \A j \in 1 .. Len(q) : q[j] \in Rng /\ Contains(q, q[j])
      /\ \A x \in Int : x \in FreeCells(q) <=> \E s \in Rng : Contains(q, s) /\ Holds(s, x)
  BY RangeFacts
<1>2. ~Contains(q, y)
  <2>1. a \in a .. a + n - 1 OBVIOUS
  <2>2. Holds(y, a) /\ a \notin FreeCells(q) BY <2>1 DEF Covers, Unlisted
  <2> QED BY <1>1, <2>2
<1>3. /\ p \in Seq(Rng) /\ Len(p) = Len(q) /\ IsInjective(p)
      /\ \A x : Contains(p, x) <=> x = y \/ (Contains(q, x) /\ x # q[i])
      /\ k \in 1 .. Len(p) /\ (k # i => p[k] = q[k])
  <2>1. /\ p \in Seq(Rng) /\ Len(p) = Len(q) /\ IsInjective(p)
        /\ \A x : Contains(p, x) <=> x = y \/ (Contains(q, x) /\ x # q[i])
    <3>1. q \in Seq(Rng) /\ IsInjective(q) BY <1>1
    <3> QED BY ONLY <3>1, <1>2, i \in 1 .. Len(q), y \in Rng, p = [q EXCEPT ![i] = y], ReplaceQueue
  <2>2. k # i => p[k] = q[k] BY <1>1
  <2> QED BY <2>1, <2>2
<1>4. k # i => q[k] # q[i] /\ q[k] # y BY <1>1, <1>2 DEF IsInjective
<1>5. PICK G : G = {q[i], q[k]} OBVIOUS
<1>6. /\ r \in Seq(Rng) /\ IsInjective(r)
      /\ \A x : Contains(r, x) <=> x = y \/ (Contains(q, x) /\ x \notin G)
  <2>1. CASE k = i BY <1>3, <1>5, <2>1
  <2>2. CASE k # i
    <3>1. /\ RemoveAt(p, k) \in Seq(Rng) /\ IsInjective(RemoveAt(p, k))
          /\ \A x : Contains(RemoveAt(p, k), x) <=> Contains(p, x) /\ x # p[k]
      BY ONLY <1>3, RemoveAtQueue
    <3> QED BY <1>3, <1>4, <1>5, <2>2, <3>1
  <2> QED BY <2>1, <2>2
<1>7. \A x \in Int : Holds(y, x) <=> x \in a .. a + n - 1 \/ \E s \in G : Holds(s, x)
  BY <1>5 DEF Covers
<1>8. \A s \in G : s \in Rng /\ Contains(q, s) BY <1>1, <1>5
<1> QED BY ONLY Apart(q), a \in Int, n \in Nat \ {0}, y \in Rng,
                Unlisted(q, a, n),
                <1>6, <1>7, <1>8, JoinApart

\* add_block adds exactly its block when nothing of it was free.
LEMMA AddBlockApart ==
    ASSUME NEW q, Apart(q), NEW a \in Int, NEW n \in Nat \ {0},
           Unlisted(q, a, n),
           NEW r, r = AddBlock(q, a, n)
    PROVE  Added(q, r, a, n) /\ ~FreedTwice(q, a, n)
<1>1. /\ q \in Seq(Rng) /\ Len(q) \in Nat /\ DOMAIN q = 1 .. Len(q)
      /\ \A i \in 1 .. Len(q) : /\ q[i] \in Rng /\ q[i].base \in Int /\ q[i].limit \in Int
                                /\ Contains(q, q[i]) /\ q[i].base < q[i].limit
      /\ \A x \in Int : x \in FreeCells(q) <=> \E s \in Rng : Contains(q, s) /\ Holds(s, x)
  BY RangeFacts
<1>2. \A i \in 1 .. Len(q) : \A x \in a .. a + n - 1 : ~Holds(q[i], x) BY <1>1 DEF Unlisted
<1>3. \A i \in 1 .. Len(q) : ~(q[i].base <= a /\ a < q[i].limit)
  BY <1>2, a \in a .. a + n - 1 DEF Holds
<1>4. PICK i : i = Cursor(q, a, n) OBVIOUS
<1>5. Stops(q, a, n) => i \in 1 .. Len(q) /\ StopsAt(q[i], a, n)
  BY <1>1, <1>4, CursorStops
<1>6. ~FreedTwice(q, a, n) BY <1>3, <1>4, <1>5 DEF FreedTwice
<1>7. ASSUME r = InsertRange(q, a, a + n) PROVE Added(q, r, a, n)
  <2>1. PICK k \in 1 .. Len(q) + 1 : r = InsertAt(q, k, Range3(a, a + n, a))
    <3> DEFINE I == {j \in 1 .. Len(q) : \A m \in 1 .. j : q[m].key > a}
    <3>1. Cardinality(I) \in 0 .. Len(q) BY <1>1, CountInQueue
    <3>2. r = InsertAt(q, Cardinality(I) + 1, Range3(a, a + n, a)) BY <1>1, <1>7 DEF InsertRange
    <3> HIDE DEF I
    <3> QED BY <1>1, <3>1, <3>2
  <2>2. PICK y : y = Range3(a, a + n, a) OBVIOUS
  <2>3. /\ y \in Rng /\ y.base < y.limit
        /\ \A x \in Int : Holds(y, x) <=> x \in a .. a + n - 1
    BY <2>2 DEF Range3, Rng, Holds
  <2>4. \A x \in Int : Holds(y, x) => x \notin FreeCells(q) BY <2>3 DEF Unlisted
  <2>5. /\ Apart(r)
        /\ \A x \in Int : x \in FreeCells(r) <=> x \in FreeCells(q) \/ Holds(y, x)
    BY <2>1, <2>2, <2>3, <2>4, InsertApart
  <2> QED BY <2>3, <2>5 DEF Added
<1>8. ASSUME i \in 1 .. Len(q), NEW k \in 1 .. Len(q), NEW y \in Rng,
             Covers(y, q, i, k, a, n),
             r = IF k = i THEN [q EXCEPT ![i] = y] ELSE RemoveAt([q EXCEPT ![i] = y], k)
      PROVE  Added(q, r, a, n)
  BY ONLY Apart(q), Unlisted(q, a, n), a \in Int, n \in Nat \ {0}, <1>8, GrowEffect
<1>9. ASSUME Stops(q, a, n), q[i].base = a + n PROVE Added(q, r, a, n)
  <2>1. r = GrowDown(q, i, a) /\ i \in 1 .. Len(q) BY <1>4, <1>5, <1>9 DEF AddBlock
  <2>2. CASE i < Len(q) /\ q[i + 1].limit = a
    <3> DEFINE y == [q[i] EXCEPT !.base = q[i + 1].base, !.key = q[i + 1].base]
    <3>1. i + 1 \in 1 .. Len(q) BY <1>1, <2>1, <2>2
    <3>2. r = RemoveAt([q EXCEPT ![i] = y], i + 1) BY <1>1, <2>1, <2>2 DEF GrowDown
    <3>3. y \in Rng /\ y.base = q[i + 1].base /\ y.limit = q[i].limit BY <1>1, <2>1, <3>1 DEF Rng
    <3>4. Covers(y, q, i, i + 1, a, n)
      BY <1>1, <1>9, <2>1, <2>2, <3>1, <3>3 DEF Holds, Covers
    <3>5. r = IF i + 1 = i THEN [q EXCEPT ![i] = y] ELSE RemoveAt([q EXCEPT ![i] = y], i + 1)
      BY <1>1, <2>1, <3>2
    <3> HIDE DEF y
    <3> QED BY <1>8, <2>1, <3>1, <3>3, <3>4, <3>5
  <2>3. CASE ~(i < Len(q) /\ q[i + 1].limit = a)
    <3> DEFINE y == [q[i] EXCEPT !.base = a, !.key = a]
    <3>1. r = [q EXCEPT ![i] = y] BY <1>1, <2>1, <2>3 DEF GrowDown
    <3>2. y \in Rng /\ y.base = a /\ y.limit = q[i].limit BY <1>1, <2>1 DEF Rng
    <3>3. Covers(y, q, i, i, a, n)
      BY <1>1, <1>9, <2>1, <3>2 DEF Holds, Covers
    <3> HIDE DEF y
    <3> QED BY <1>8, <2>1, <3>1, <3>2, <3>3
  <2> QED BY <2>2, <2>3
<1>10. ASSUME Stops(q, a, n), q[i].base # a + n, q[i].limit = a PROVE Added(q, r, a, n)
  <2>1. r = GrowUp(q, i, a + n) /\ i \in 1 .. Len(q) BY <1>4, <1>5, <1>10 DEF AddBlock
  <2>2. CASE i > 1 /\ q[i - 1].base = a + n
    <3> DEFINE y == [q[i] EXCEPT !.limit = q[i - 1].limit]
    <3>1. i - 1 \in 1 .. Len(q) BY <1>1, <2>1, <2>2
    <3>2. r = RemoveAt([q EXCEPT ![i] = y], i - 1) BY <1>1, <2>1, <2>2 DEF GrowUp
    <3>3. y \in Rng /\ y.base = q[i].base /\ y.limit = q[i - 1].limit BY <1>1, <2>1, <3>1 DEF Rng
    <3>4. Covers(y, q, i, i - 1, a, n)
      BY <1>1, <1>10, <2>1, <2>2, <3>1, <3>3 DEF Holds, Covers
    <3>5. r = IF i - 1 = i THEN [q EXCEPT ![i] = y] ELSE RemoveAt([q EXCEPT ![i] = y], i - 1)
      BY <1>1, <2>1, <3>2
    <3> HIDE DEF y
    <3> QED BY <1>8, <2>1, <3>1, <3>3, <3>4, <3>5
  <2>3. CASE ~(i > 1 /\ q[i - 1].base = a + n)
    <3> DEFINE y == [q[i] EXCEPT !.limit = a + n]
    <3>1. r = [q EXCEPT ![i] = y] BY <1>1, <2>1, <2>3 DEF GrowUp
    <3>2. y \in Rng /\ y.base = q[i].base /\ y.limit = a + n
      <4>1. a + n \in Int /\ q[i] \in Rng BY <1>1, <2>1
      <4> QED BY <4>1 DEF Rng
    <3>3. Covers(y, q, i, i, a, n)
      BY <1>1, <1>10, <2>1, <3>2 DEF Holds, Covers
    <3> HIDE DEF y
    <3> QED BY <1>8, <2>1, <3>1, <3>2, <3>3
  <2> QED BY <2>2, <2>3
<1> QED BY <1>4, <1>6, <1>7, <1>9, <1>10 DEF AddBlock

--------------------------------------------------------------------------------
\* The list is in descending order, its ranges do not touch, and it is sorted by the
\* keys of its nodes.
Ordered(q) == \A i, j \in 1 .. Len(q) : i < j => q[j].limit < q[i].base

\* The keys the list is sorted by are the bases of its ranges.
Keyed(q) == \A i \in 1 .. Len(q) : q[i].key = q[i].base

\* Ranges in descending order that do not touch are merged.
LEMMA OrderedMerged ==
    ASSUME NEW q \in Seq(Rng), Ordered(q) PROVE RangesMerged(q)
<1>1. Len(q) \in Nat OBVIOUS
<1>2. ASSUME NEW i \in 1 .. Len(q) - 1 PROVE q[i + 1].limit < q[i].base
  <2>1. i \in 1 .. Len(q) /\ i + 1 \in 1 .. Len(q) /\ i < i + 1 BY <1>1
  <2> QED BY <2>1 DEF Ordered
<1> QED BY <1>2 DEF RangesMerged

\* r is q without its element i.
Removed(q, i, r) ==
    /\ r \in Seq(Rng) /\ Len(r) = Len(q) - 1
    /\ \A j \in 1 .. i - 1 : r[j] = q[j]
    /\ \A j \in i .. Len(q) - 1 : r[j] = q[j + 1]

\* What RemoveAt does to a list of ranges.
LEMMA RangeRemoved ==
    ASSUME NEW q, q \in Seq(Rng), NEW i, i \in 1 .. Len(q), NEW r, r = RemoveAt(q, i)
    PROVE  Removed(q, i, r)
<1>1. PICK S : S = Rng OBVIOUS
<1>2. /\ r \in Seq(S) /\ Len(r) = Len(q) - 1
      /\ \A j \in 1 .. i - 1 : r[j] = q[j]
      /\ \A j \in i .. Len(q) - 1 : r[j] = q[j + 1]
  <2>1. q \in Seq(S) BY <1>1
  <2> QED BY ONLY ZenonT(60), <2>1, i \in 1 .. Len(q), r = RemoveAt(q, i), RemoveEffect
<1> QED BY <1>1, <1>2 DEF Removed

\* A range is removed.
LEMMA RemoveOrdered ==
    ASSUME NEW q, q \in Seq(Rng), Ordered(q), NEW i \in 1 .. Len(q), NEW r, r = RemoveAt(q, i)
    PROVE  Ordered(r) /\ (Keyed(q) \/ Len(q) = 1 => Keyed(r))
<1>1. /\ r \in Seq(Rng) /\ Len(r) = Len(q) - 1 /\ Len(q) \in Nat
      /\ \A j \in 1 .. i - 1 : r[j] = q[j]
      /\ \A j \in i .. Len(q) - 1 : r[j] = q[j + 1]
  <2>1. Removed(q, i, r) BY RangeRemoved
  <2> QED BY <2>1 DEF Removed
<1>2. \A j \in 1 .. Len(r) : r[j] = q[IF j < i THEN j ELSE j + 1]
  BY <1>1
<1>3. ASSUME NEW j \in 1 .. Len(r), NEW k \in 1 .. Len(r), j < k PROVE r[k].limit < r[j].base
  <2>1. PICK a \in 1 .. Len(q), b \in 1 .. Len(q) : a < b /\ r[j] = q[a] /\ r[k] = q[b]
    BY SMTT(60), <1>1, <1>2, <1>3
  <2> QED BY <2>1 DEF Ordered
<1>4. Keyed(q) \/ Len(q) = 1 => Keyed(r)
  <2>1. \A j \in 1 .. Len(r) : \E a \in 1 .. Len(q) : r[j] = q[a] BY <1>1, <1>2
  <2>2. Len(q) = 1 => 1 .. Len(r) = {} BY <1>1
  <2> QED BY <2>1, <2>2 DEF Keyed
<1> QED BY <1>3, <1>4 DEF Ordered

\* A range gives way to one that stays clear of its neighbours.
LEMMA ReplaceOrdered ==
    ASSUME NEW q, q \in Seq(Rng), Ordered(q), NEW i \in 1 .. Len(q), NEW y \in Rng,
           \A j \in 1 .. Len(q) : /\ j < i => y.limit < q[j].base
                                  /\ i < j => q[j].limit < y.base,
           NEW r, r = [q EXCEPT ![i] = y]
    PROVE  /\ Ordered(r) /\ r \in Seq(Rng) /\ Len(r) = Len(q)
           /\ (Keyed(q) \/ Len(q) = 1) /\ y.key = y.base => Keyed(r)
<1>1. /\ Len(q) \in Nat /\ r \in Seq(Rng) /\ Len(r) = Len(q) /\ r[i] = y
      /\ \A j \in 1 .. Len(q) : j # i => r[j] = q[j]
  OBVIOUS
<1>2. \A j, k \in 1 .. Len(q) : j < k => r[k].limit < r[j].base BY <1>1 DEF Ordered
<1>3. (Keyed(q) \/ Len(q) = 1) /\ y.key = y.base => Keyed(r) BY <1>1 DEF Keyed
<1> QED BY <1>1, <1>2, <1>3 DEF Ordered

\* A block taken from the beginning leaves the list in order.
LEMMA GetBlockOrdered ==
    ASSUME NEW q, Apart(q), Ordered(q), NEW n \in Nat \ {0}, HasBlock(q, n),
           Keyed(q) \/ Len(q) = 1, NEW r, r = GetBlock(q, n, "BEGINING")
    PROVE  Ordered(r) /\ Keyed(r)
<1>1. q \in Seq(Rng) BY DEF Apart
<1>2. PICK i : i = Chosen(q, n, "BEGINING") OBVIOUS
<1>3. PICK o : o = q[i] OBVIOUS
<1>4. /\ i \in 1 .. Len(q) /\ o \in Rng /\ o.base \in Int /\ o.limit \in Int
      /\ o.limit - o.base >= n
  BY <1>1, <1>2, <1>3, ChosenFits DEF Rng
<1>5. CASE o.limit - o.base = n
  <2>1. r = RemoveAt(q, i) BY <1>2, <1>3, <1>5 DEF GetBlock
  <2> QED BY <1>1, <1>4, <2>1, RemoveOrdered
<1>6. CASE o.limit - o.base # n
  <2>1. PICK y : y = Range3(o.base + n, o.limit, o.base + n) OBVIOUS
  <2>2. r = [q EXCEPT ![i] = y] BY <1>2, <1>3, <1>6, <2>1 DEF GetBlock
  <2>3. y \in Rng /\ y.key = y.base /\ y.base = o.base + n /\ y.limit = o.limit
    BY <1>4, <2>1 DEF Range3, Rng
  <2>4. \A j \in 1 .. Len(q) : /\ j < i => o.limit < q[j].base
                               /\ i < j => q[j].limit < o.base
                               /\ q[j].limit \in Int /\ q[j].base \in Int
    <3>1. \A j \in 1 .. Len(q) : q[j] \in Rng BY <1>1
    <3>2. \A j \in 1 .. Len(q) : q[j].limit \in Int /\ q[j].base \in Int BY <3>1 DEF Rng
    <3> QED BY <1>3, <1>4, <3>2 DEF Ordered
  <2>5. \A j \in 1 .. Len(q) : /\ j < i => y.limit < q[j].base
                               /\ i < j => q[j].limit < y.base
    BY <1>4, <2>3, <2>4
  <2> QED BY <1>1, <1>4, <2>2, <2>3, <2>5, ReplaceOrdered
<1> QED BY <1>5, <1>6

\* A new range is placed in front of the first one that lies below it.
LEMMA InsertOrdered ==
    ASSUME NEW q, q \in Seq(Rng), Ordered(q), Keyed(q), NEW a \in Int, NEW n \in Nat \ {0},
           NEW i \in 1 .. Len(q) + 1,
           \A j \in 1 .. Len(q) : /\ j < i => a + n < q[j].base
                                  /\ i <= j => q[j].limit < a /\ q[j].base < q[j].limit,
           NEW r, r = InsertRange(q, a, a + n)
    PROVE  Ordered(r) /\ Keyed(r)
<1> DEFINE I == {k \in DOMAIN q : \A j \in 1 .. k : q[j].key > a}
<1>1. Len(q) \in Nat /\ DOMAIN q = 1 .. Len(q)
      /\ \A j \in 1 .. Len(q) : q[j].key = q[j].base /\ q[j].base \in Int /\ q[j].limit \in Int
  <2>1. Len(q) \in Nat /\ DOMAIN q = 1 .. Len(q) /\ \A j \in 1 .. Len(q) : q[j] \in Rng OBVIOUS
  <2>2. \A j \in 1 .. Len(q) : q[j].base \in Int /\ q[j].limit \in Int BY <2>1 DEF Rng
  <2> QED BY <2>1, <2>2 DEF Keyed
<1>2. I = 1 .. i - 1
  <2>1. ASSUME NEW k \in 1 .. Len(q), k < i PROVE k \in I
    <3>1. \A j \in 1 .. k : j \in 1 .. Len(q) /\ j < i BY <1>1, <2>1
    <3> QED BY <1>1, <3>1
  <2>2. ASSUME NEW k \in I PROVE k < i
    <3>1. CASE i \in 1 .. k
      <4>1. q[i].key > a /\ i \in 1 .. Len(q) BY <1>1, <3>1
      <4> QED BY <1>1, <4>1
    <3> QED BY <3>1
  <2>3. I \subseteq 1 .. Len(q) BY <1>1
  <2>4. \A k : k \in 1 .. i - 1 <=> k \in 1 .. Len(q) /\ k < i BY <1>1
  <2> HIDE DEF I
  <2>5. \A k : k \in I <=> k \in 1 .. i - 1 BY <2>1, <2>2, <2>3, <2>4
  <2> QED BY <2>5
<1>3. Cardinality(I) = i - 1
  <2>1. 1 \in Int /\ i - 1 \in Int OBVIOUS
  <2>2. Cardinality(1 .. i - 1) = IF 1 > i - 1 THEN 0 ELSE (i - 1) - 1 + 1 BY <2>1, FS_Interval
  <2>3. i \in Int /\ i >= 1 BY <1>1
  <2>4. Cardinality(1 .. i - 1) = i - 1 BY ONLY <2>2, <2>3
  <2> HIDE DEF I
  <2> QED BY ONLY <1>2, <2>4
<1>4. PICK y : y = Range3(a, a + n, a) OBVIOUS
<1>5. r = InsertAt(q, i, y)
  <2>1. r = InsertAt(q, Cardinality(I) + 1, y) BY <1>4 DEF InsertRange
  <2>2. (i - 1) + 1 = i OBVIOUS
  <2> QED BY <1>3, <2>1, <2>2
<1> HIDE DEF I
<1>6. y \in Rng /\ y.base = a /\ y.limit = a + n /\ y.key = a BY <1>4 DEF Range3, Rng
<1>7. /\ r \in Seq(Rng) /\ Len(r) = Len(q) + 1 /\ r[i] = y
      /\ \A j \in 1 .. i - 1 : r[j] = q[j]
      /\ \A j \in i .. Len(q) : r[j + 1] = q[j]
  BY <1>5, <1>6, InsertEffect
<1>8. \A j \in 1 .. Len(r) : r[j] = IF j < i THEN q[j] ELSE IF j = i THEN y ELSE q[j - 1]
  <2>1. ASSUME NEW j \in 1 .. Len(r), j > i PROVE r[j] = q[j - 1]
    <3>1. j - 1 \in i .. Len(q) /\ (j - 1) + 1 = j BY <1>1, <1>7, <2>1
    <3> QED BY <1>7, <3>1
  <2> QED BY <1>7, <2>1
<1>9. Keyed(r)
  <2>1. \A j \in 1 .. Len(r) : (j < i => j \in 1 .. Len(q)) /\ (j > i => j - 1 \in 1 .. Len(q))
    BY <1>1, <1>7
  <2>2. ASSUME NEW j \in 1 .. Len(r) PROVE r[j].key = r[j].base
    <3>1. CASE j = i BY <1>6, <1>8, <3>1
    <3>2. CASE j < i BY <1>1, <1>8, <2>1, <3>2
    <3>3. CASE j > i BY <1>1, <1>8, <2>1, <3>3
    <3> QED BY <1>1, <1>7, <3>1, <3>2, <3>3
  <2> QED BY <2>2 DEF Keyed
<1>10. ASSUME NEW j \in 1 .. Len(r), NEW k \in 1 .. Len(r), j < k PROVE r[k].limit < r[j].base
  <2>1. CASE j # i /\ k # i
    <3>1. PICK b \in 1 .. Len(q), d \in 1 .. Len(q) : b < d /\ r[j] = q[b] /\ r[k] = q[d]
      <4>1. CASE k < i
        <5>1. j \in 1 .. Len(q) /\ k \in 1 .. Len(q) /\ r[j] = q[j] /\ r[k] = q[k]
          BY <1>1, <1>7, <1>8, <1>10, <4>1
        <5> QED BY <1>10, <5>1
      <4>2. CASE j < i /\ k > i
        <5>1. j \in 1 .. Len(q) /\ k - 1 \in 1 .. Len(q) /\ r[j] = q[j] /\ r[k] = q[k - 1] /\ j < k - 1
          BY <1>1, <1>7, <1>8, <1>10, <4>2
        <5> QED BY <5>1
      <4>3. CASE j > i
        <5>1. /\ j - 1 \in 1 .. Len(q) /\ k - 1 \in 1 .. Len(q) /\ r[j] = q[j - 1] /\ r[k] = q[k - 1]
              /\ j - 1 < k - 1
          BY <1>1, <1>7, <1>8, <1>10, <4>3
        <5> QED BY <5>1
      <4>4. i \in Int BY <1>1
      <4> QED BY <1>10, <2>1, <4>4, <4>1, <4>2, <4>3
    <3> QED BY <3>1 DEF Ordered
  <2>2. CASE k = i
    <3>1. j \in 1 .. Len(q) /\ j < i /\ r[j] = q[j] /\ r[k] = y BY <1>1, <1>7, <1>10, <2>2
    <3> QED BY <1>6, <3>1
  <2>3. CASE j = i
    <3>1. k - 1 \in 1 .. Len(q) /\ i <= k - 1 /\ r[k] = q[k - 1] /\ r[j] = y
      BY <1>1, <1>7, <1>8, <1>10, <2>3
    <3> QED BY <1>6, <3>1
  <2> QED BY <2>1, <2>2, <2>3
<1> QED BY <1>9, <1>10 DEF Ordered

--------------------------------------------------------------------------------
\* A range takes in one of its neighbours, which leaves the list.
LEMMA MergeOrdered ==
    ASSUME NEW q, q \in Seq(Rng), Ordered(q), Keyed(q),
           NEW i \in 1 .. Len(q), NEW k \in 1 .. Len(q), k # i, NEW y \in Rng, y.key = y.base,
           \A j \in 1 .. Len(q) : j # k => /\ j < i => y.limit < q[j].base
                                           /\ i < j => q[j].limit < y.base,
           NEW p, p = [q EXCEPT ![i] = y], NEW r, r = RemoveAt(p, k)
    PROVE  Ordered(r) /\ Keyed(r)
<1>1. /\ Len(q) \in Nat /\ p \in Seq(Rng) /\ Len(p) = Len(q) /\ p[i] = y
      /\ \A j \in 1 .. Len(q) : j # i => p[j] = q[j]
  OBVIOUS
<1>2. \A j, l \in 1 .. Len(q) : j # k /\ l # k /\ j < l => p[l].limit < p[j].base
  BY <1>1 DEF Ordered
<1>3. \A j \in 1 .. Len(q) : j # k => p[j].key = p[j].base
  BY <1>1 DEF Keyed
<1>4. /\ Len(r) = Len(p) - 1
      /\ \A j \in 1 .. k - 1 : r[j] = p[j]
      /\ \A j \in k .. Len(p) - 1 : r[j] = p[j + 1]
  <2>1. k \in 1 .. Len(p) /\ p \in Seq(Rng) BY <1>1
  <2>2. Removed(p, k, r) BY ONLY <2>1, r = RemoveAt(p, k), RangeRemoved
  <2> QED BY <2>2 DEF Removed
<1> DEFINE at(j) == IF j < k THEN j ELSE j + 1
<1>5. ASSUME NEW j \in 1 .. Len(r)
      PROVE  at(j) \in 1 .. Len(q) /\ at(j) # k /\ r[j] = p[at(j)]
  <2>1. j \in 1 .. Len(q) - 1 BY <1>1, <1>4
  <2>2. CASE j < k
    <3>1. j \in 1 .. k - 1 BY <2>1, <2>2
    <3>2. r[j] = p[j] BY ONLY <1>4, <3>1
    <3>3. at(j) = j BY <2>2
    <3> QED BY <2>1, <2>2, <3>2, <3>3
  <2>3. CASE ~(j < k)
    <3>1. j \in k .. Len(p) - 1 BY <1>1, <2>1, <2>3
    <3>2. r[j] = p[j + 1] BY ONLY <1>4, <3>1
    <3>3. at(j) = j + 1 BY <2>3
    <3> QED BY <1>1, <2>1, <2>3, <3>2, <3>3
  <2> QED BY <2>2, <2>3
<1>6. \A j, l \in 1 .. Len(r) : j < l => at(j) < at(l) BY <1>1
<1> HIDE DEF at
<1>7. \A j, l \in 1 .. Len(r) : j < l => r[l].limit < r[j].base BY ZenonT(60), <1>2, <1>5, <1>6
<1>8. \A j \in 1 .. Len(r) : r[j].key = r[j].base BY ZenonT(60), <1>3, <1>5
<1> QED BY <1>7, <1>8 DEF Ordered, Keyed

\* A block given back to a list that is sorted by its keys leaves it in order.
LEMMA AddBlockOrdered ==
    ASSUME NEW q, Apart(q), Ordered(q), Keyed(q), NEW a \in Int, NEW n \in Nat \ {0},
           Unlisted(q, a, n), NEW r, r = AddBlock(q, a, n)
    PROVE  Ordered(r) /\ Keyed(r)
<1>1. /\ q \in Seq(Rng) /\ Len(q) \in Nat /\ DOMAIN q = 1 .. Len(q)
      /\ \A i \in 1 .. Len(q) : /\ q[i] \in Rng /\ q[i].base \in Int /\ q[i].limit \in Int
                                /\ Contains(q, q[i]) /\ q[i].base < q[i].limit
      /\ \A x \in Int : x \in FreeCells(q) <=> \E s \in Rng : Contains(q, s) /\ Holds(s, x)
  BY RangeFacts
<1>2. \A i \in 1 .. Len(q) : q[i].base >= a + n \/ q[i].limit <= a
  <2>1. ASSUME NEW i \in 1 .. Len(q), q[i].base < a + n, q[i].limit > a PROVE FALSE
    <3>1. PICK x \in a .. a + n - 1 : Holds(q[i], x)
      <4>1. CASE q[i].base <= a BY <1>1, <2>1, <4>1, a \in a .. a + n - 1 DEF Holds
      <4>2. CASE q[i].base > a BY <1>1, <2>1, <4>2, q[i].base \in a .. a + n - 1 DEF Holds
      <4> QED BY <1>1, <4>1, <4>2
    <3> QED BY <1>1, <3>1 DEF Unlisted
  <2> QED BY <1>1, <2>1
<1>3. PICK i : i = Cursor(q, a, n) OBVIOUS
<1>4. Stops(q, a, n) => /\ i \in 1 .. Len(q) /\ StopsAt(q[i], a, n)
                        /\ \A j \in 1 .. Len(q) : StopsAt(q[j], a, n) => i <= j
  BY <1>1, <1>3, CursorStops
<1>5. \A j \in 1 .. Len(q) : ~StopsAt(q[j], a, n) => a + n < q[j].base
  BY <1>1, <1>2 DEF StopsAt
<1>6. Stops(q, a, n) => \A j \in 1 .. Len(q) : j < i => a + n < q[j].base
  BY <1>1, <1>4, <1>5
<1>7. \A j, k \in 1 .. Len(q) : j < k => q[k].limit < q[j].base BY DEF Ordered
<1>8. CASE ~Stops(q, a, n)
  <2>1. r = InsertRange(q, a, a + n) BY <1>8 DEF AddBlock
  <2>2. \A j \in 1 .. Len(q) : a + n < q[j].base BY <1>1, <1>5, <1>8 DEF Stops
  <2>3. /\ Len(q) + 1 \in 1 .. Len(q) + 1
        /\ \A j \in 1 .. Len(q) : /\ j < Len(q) + 1 => a + n < q[j].base
                                  /\ Len(q) + 1 <= j => q[j].limit < a /\ q[j].base < q[j].limit
    BY <1>1, <2>2
  <2> QED BY <1>1, <2>1, <2>3, InsertOrdered
<1>9. CASE Stops(q, a, n) /\ q[i].base = a + n
  <2>1. r = GrowDown(q, i, a) /\ i \in 1 .. Len(q) BY <1>3, <1>4, <1>9 DEF AddBlock
  <2>2. CASE i < Len(q) /\ q[i + 1].limit = a
    <3>1. i + 1 \in 1 .. Len(q) /\ i + 1 # i BY <1>1, <2>1, <2>2
    <3>2. PICK y : y = [q[i] EXCEPT !.base = q[i + 1].base, !.key = q[i + 1].base] OBVIOUS
    <3>3. r = RemoveAt([q EXCEPT ![i] = y], i + 1) BY <1>1, <2>1, <2>2, <3>2 DEF GrowDown
    <3>4. y \in Rng /\ y.base = q[i + 1].base /\ y.limit = q[i].limit /\ y.key = y.base
      BY <1>1, <2>1, <3>1, <3>2 DEF Rng
    <3>5. \A j \in 1 .. Len(q) : j # i + 1 => /\ j < i => y.limit < q[j].base
                                              /\ i < j => q[j].limit < y.base
      BY <1>1, <1>7, <2>1, <3>1, <3>4
    <3> QED BY <1>1, <2>1, <3>1, <3>3, <3>4, <3>5, MergeOrdered
  <2>3. CASE ~(i < Len(q) /\ q[i + 1].limit = a)
    <3>1. PICK y : y = [q[i] EXCEPT !.base = a, !.key = a] OBVIOUS
    <3>2. r = [q EXCEPT ![i] = y] BY <1>1, <2>1, <2>3, <3>1 DEF GrowDown
    <3>3. y \in Rng /\ y.base = a /\ y.limit = q[i].limit /\ y.key = a BY <1>1, <2>1, <3>1 DEF Rng
    <3>4. ASSUME NEW j \in 1 .. Len(q), i < j PROVE q[j].limit < a
      <4>1. i + 1 \in 1 .. Len(q) /\ i < i + 1 /\ i < Len(q) BY <1>1, <2>1, <3>4
      <4>2. q[i + 1].limit < a BY <1>1, <1>2, <1>7, <1>9, <2>1, <2>3, <4>1
      <4>3. j # i + 1 => q[j].limit < q[i + 1].base BY <1>1, <1>7, <2>1, <3>4, <4>1
      <4> QED BY <1>1, <4>1, <4>2, <4>3
    <3>5. \A j \in 1 .. Len(q) : /\ j < i => y.limit < q[j].base
                                 /\ i < j => q[j].limit < y.base
      BY <1>7, <2>1, <3>3, <3>4
    <3>6. q \in Seq(Rng) /\ Ordered(q) /\ Keyed(q) /\ i \in 1 .. Len(q) BY <1>1, <2>1
    <3>7. y \in Rng /\ y.key = y.base BY <3>3
    <3> QED BY ONLY <3>2, <3>5, <3>6, <3>7, ReplaceOrdered
  <2> QED BY <2>2, <2>3
<1>10. CASE Stops(q, a, n) /\ q[i].base # a + n /\ q[i].limit = a
  <2>1. r = GrowUp(q, i, a + n) /\ i \in 1 .. Len(q) BY <1>3, <1>4, <1>10 DEF AddBlock
  <2>2. \A j \in 1 .. Len(q) : j < i => a + n < q[j].base \/ q[j].base = a + n
    BY <1>6, <1>10
  <2>3. CASE i > 1 /\ q[i - 1].base = a + n
    <3>1. FALSE
      <4>1. i - 1 \in 1 .. Len(q) /\ i - 1 < i BY <1>1, <2>1, <2>3
      <4> QED BY <1>1, <1>6, <1>10, <2>3, <4>1
    <3> QED BY <3>1
  <2>4. CASE ~(i > 1 /\ q[i - 1].base = a + n)
    <3>1. PICK y : y = [q[i] EXCEPT !.limit = a + n] OBVIOUS
    <3>2. r = [q EXCEPT ![i] = y] BY <1>1, <2>1, <2>4, <3>1 DEF GrowUp
    <3>3. y \in Rng /\ y.base = q[i].base /\ y.limit = a + n /\ y.key = q[i].key
      <4>1. a + n \in Int /\ q[i] \in Rng BY <1>1, <2>1
      <4> QED BY <3>1, <4>1 DEF Rng
    <3>4. y.key = y.base BY <2>1, <3>3 DEF Keyed
    <3>5. \A j \in 1 .. Len(q) : /\ j < i => y.limit < q[j].base
                                 /\ i < j => q[j].limit < y.base
      BY <1>6, <1>7, <1>10, <2>1, <3>3
    <3>6. q \in Seq(Rng) /\ Ordered(q) /\ Keyed(q) /\ i \in 1 .. Len(q) BY <1>1, <2>1
    <3>7. y \in Rng /\ y.key = y.base BY <3>3, <3>4
    <3> QED BY ONLY <3>2, <3>5, <3>6, <3>7, ReplaceOrdered
  <2> QED BY <2>3, <2>4
<1>11. CASE Stops(q, a, n) /\ q[i].base # a + n /\ q[i].limit # a
  <2>1. r = InsertRange(q, a, a + n) /\ i \in 1 .. Len(q) BY <1>3, <1>4, <1>11 DEF AddBlock
  <2>2. q[i].limit < a BY <1>1, <1>2, <1>4, <1>11, <2>1 DEF StopsAt
  <2>3. \A j \in 1 .. Len(q) : i <= j => q[j].limit < a
    <3>1. ASSUME NEW j \in 1 .. Len(q), i < j PROVE q[j].limit < a
      BY <1>1, <1>7, <2>1, <2>2, <3>1
    <3> QED BY <1>1, <2>1, <2>2, <3>1
  <2>4. i \in 1 .. Len(q) + 1 BY <1>1, <2>1
  <2> QED BY <1>1, <1>6, <1>11, <2>1, <2>3, <2>4, InsertOrdered
<1> QED BY <1>8, <1>9, <1>10, <1>11

--------------------------------------------------------------------------------
\* A list of one range is sound.
LEMMA SingleApart ==
    ASSUME NEW y \in Rng, y.base < y.limit, NEW q, q = <<y>>
    PROVE  /\ Apart(q) /\ Ordered(q) /\ Len(q) = 1
           /\ \A x : x \in FreeCells(q) <=> x \in Int /\ Holds(y, x)
<1>1. q \in Seq(Rng) /\ Len(q) = 1 /\ DOMAIN q = 1 .. 1 /\ q[1] = y OBVIOUS
<1>2. \A x : Contains(q, x) <=> x = y BY <1>1 DEF Contains
<1>3. IsInjective(q) BY <1>1 DEF IsInjective
<1>4. Apart(q) BY <1>1, <1>2, <1>3 DEF Apart
<1>5. Ordered(q) BY <1>1 DEF Ordered
<1> QED BY <1>1, <1>2, <1>4, <1>5, CellsAre

\* The list of a child holds what the list of its parent does.
LEMMA CopyApart ==
    ASSUME NEW q, Apart(q), NEW r, r = CopyRanges(q)
    PROVE  Apart(r) /\ \A x : x \in FreeCells(r) <=> x \in FreeCells(q)
<1> DEFINE copy(s) == [s EXCEPT !.key = 0]
<1>1. /\ q \in Seq(Rng) /\ Len(q) \in Nat /\ DOMAIN q = 1 .. Len(q) /\ IsInjective(q)
      /\ \A i \in 1 .. Len(q) : /\ q[i] \in Rng /\ q[i].base \in Int /\ q[i].limit \in Int
                                /\ Contains(q, q[i]) /\ q[i].base < q[i].limit
  BY RangeFacts
<1>2. \A s \in Rng : copy(s) \in Rng /\ copy(s).base = s.base /\ copy(s).limit = s.limit
  BY DEF Rng
<1> HIDE DEF copy
<1>3. PICK p : p = [i \in 1 .. Len(q) |-> copy(q[i])] OBVIOUS
<1>4. p \in Seq(Rng) /\ Len(p) = Len(q) BY <1>1, <1>2, <1>3
<1>5. r = Reverse(p) BY <1>1, <1>3 DEF CopyRanges, copy
<1>6. /\ r \in Seq(Rng) /\ Len(r) = Len(q) /\ DOMAIN r = 1 .. Len(q)
      /\ \A i \in 1 .. Len(q) : Len(q) - i + 1 \in 1 .. Len(q) /\ r[i] = copy(q[Len(q) - i + 1])
  <2>1. r = [i \in 1 .. Len(q) |-> p[(Len(q) - i) + 1]] BY <1>4, <1>5 DEF Reverse
  <2>2. \A i \in 1 .. Len(q) : Len(q) - i + 1 \in 1 .. Len(q) BY <1>1
  <2>3. \A i \in 1 .. Len(q) : p[i] = copy(q[i]) /\ p[i] \in Rng BY <1>1, <1>2, <1>3
  <2> QED BY <1>1, <2>1, <2>2, <2>3
<1>7. \A i \in 1 .. Len(q) : Holds(q[i], q[i].base) /\ q[i].base \in Int BY <1>1 DEF Holds
<1>8. \A i, j \in 1 .. Len(q) : i # j => \A x \in Int : ~(Holds(q[i], x) /\ Holds(q[j], x))
  BY <1>1 DEF Apart, IsInjective
<1>9. \A i, j \in 1 .. Len(q) : copy(q[i]) = copy(q[j]) => i = j
  <2>1. ASSUME NEW i \in 1 .. Len(q), NEW j \in 1 .. Len(q), copy(q[i]) = copy(q[j]), i # j PROVE FALSE
    <3>1. q[i].base = q[j].base BY <1>1, <1>2, <2>1
    <3>2. Holds(q[j], q[i].base) BY <1>7, <3>1
    <3> QED BY <1>7, <1>8, <2>1, <3>2
  <2> QED BY <2>1
<1>10. IsInjective(r)
  <2>1. ASSUME NEW i \in 1 .. Len(q), NEW j \in 1 .. Len(q), r[i] = r[j] PROVE i = j
    <3>1. Len(q) - i + 1 = Len(q) - j + 1 BY SMTT(60), <1>6, <1>9, <2>1
    <3> QED BY <1>1, <3>1
  <2> QED BY <1>6, <2>1 DEF IsInjective
<1>11. \A s : Contains(r, s) <=> \E i \in 1 .. Len(q) : s = copy(q[i])
  <2>1. ASSUME NEW s, Contains(r, s) PROVE \E i \in 1 .. Len(q) : s = copy(q[i])
    <3>1. PICK i \in 1 .. Len(q) : r[i] = s BY <1>6, <2>1 DEF Contains
    <3> QED BY <1>6, <3>1
  <2>2. ASSUME NEW i \in 1 .. Len(q) PROVE Contains(r, copy(q[i]))
    <3>1. Len(q) - i + 1 \in 1 .. Len(q) /\ Len(q) - (Len(q) - i + 1) + 1 = i BY <1>1
    <3>2. r[Len(q) - i + 1] = copy(q[i]) BY <1>6, <3>1
    <3> QED BY <1>6, <3>1, <3>2 DEF Contains
  <2> QED BY <2>1, <2>2
<1>12. \A s \in Rng : \A x : Holds(copy(s), x) <=> Holds(s, x) BY <1>2 DEF Holds
<1>13. Apart(r)
  <2>1. \A s \in Rng : Contains(r, s) => s.base < s.limit BY <1>1, <1>2, <1>11
  <2>2. ASSUME NEW s \in Rng, NEW t \in Rng, Contains(r, s), Contains(r, t), s # t, NEW x \in Int
        PROVE  ~(Holds(s, x) /\ Holds(t, x))
    BY <1>1, <1>8, <1>11, <1>12, <2>2
  <2> QED BY <1>6, <1>10, <2>1, <2>2 DEF Apart
<1>14. \A x : x \in FreeCells(q) <=> x \in Int /\ \E s \in Rng : Contains(q, s) /\ Holds(s, x)
  BY <1>1, CellsAre
<1>15. \A x : x \in FreeCells(r) <=> x \in Int /\ \E s \in Rng : Contains(r, s) /\ Holds(s, x)
  BY <1>6, CellsAre
<1>16. \A s : Contains(q, s) <=> \E i \in 1 .. Len(q) : s = q[i] BY <1>1 DEF Contains
<1>17. ASSUME NEW x PROVE x \in FreeCells(r) <=> x \in FreeCells(q)
  BY <1>1, <1>2, <1>11, <1>12, <1>14, <1>15, <1>16
<1> QED BY <1>13, <1>17

--------------------------------------------------------------------------------
\* The frames that the manager hands out.
G == {f \in Frame : KernelEnd <= f /\ InitFrameRefs(MemMap)[f].there}

\* Values and records of the model.
Mode == {"regular", "cow", "private"}

Causes == {"none", "no_memory", "page_fault", "released_free", "freed_twice",
           "no_reference", "remapped", "unmapped"}

RefT == [there : BOOLEAN, hw : BOOLEAN, count : Nat]

MemT == [free : Seq(Rng), avail : Int, ref : [Frame -> RefT], fail : Causes]

SpaceT == [dir : Frame \cup {None}, table : [Table -> G \cup {None}],
           pte : [Page -> [frame : G, mode : Mode] \cup {None}], pages : Seq(Rng)]

\* The frame mapped at a page; the directory and the tables of a space.
At(sp, a) == IF sp.pte[a] = None THEN None ELSE sp.pte[a].frame

\* The slots of a space: -1 is the directory, the others are the tables.
Root(sp, j) == IF j = -1 THEN sp.dir ELSE sp.table[j]

Slot == -1 .. NbTables - 1

\* The pages mapped to a frame, and their number.
MapsOf(S, f) == {x \in Proc \X Page : At(S[x[1]], x[2]) = f}
KeptBy(S, f) == {x \in Proc \X Slot : Root(S[x[1]], x[2]) = f}

Count(S, f) == Cardinality(MapsOf(S, f))

Extra(f) == IF f = KernelEnd THEN 1 ELSE 0

\* A frame of reference count c with n mappings, kept as a directory or table at K,
\* idle when it is free or just taken from the list.
State(f, c, n, K, idle) ==
    /\ K # {} => /\ n = 0 /\ f # KernelEnd /\ ~idle /\ c \in {0, 1}
                 /\ \A h \in K : h[2] = -1 => c = 1
                 /\ \A h, k \in K : h = k
    /\ K = {} => c = n + Extra(f)
    /\ idle => n = 0
    /\ n = 0 /\ K = {} /\ f # KernelEnd => idle

\* The free frames.
Free(m) == FreeCells(m.free)

\* The free list of the frames. Only the list of the boot may have a key that is off.
ListOK(m) ==
    /\ Apart(m.free) /\ Ordered(m.free)
    /\ Keyed(m.free) \/ (Len(m.free) = 1 /\ KernelEnd \in Free(m))
    /\ Free(m) \subseteq G /\ m.avail = Cardinality(Free(m))

\* Which frames the table of references has never changes for the frames handed out.
Static(m) == \A f \in Frame : KernelEnd <= f => ((m.ref[f].there /\ ~m.ref[f].hw) <=> f \in G)

\* The frames of L are taken and not used yet.
Good(m, S, L) ==
    /\ m \in MemT /\ S \in [Proc -> SpaceT] /\ L \in SUBSET G /\ L \cap Free(m) = {}
    /\ ListOK(m) /\ Static(m)
    /\ \A f \in G : State(f, m.ref[f].count, Count(S, f), KeptBy(S, f), f \in Free(m) \/ f \in L)

\* The mappings of a frame are finitely many, so their number is a natural.
LEMMA Finite ==
    /\ IsFiniteSet(Proc \X Page) /\ IsFiniteSet(G) /\ IsFiniteSet(Frame)
    /\ \A S, f : IsFiniteSet(MapsOf(S, f)) /\ Count(S, f) \in Nat
<1>1. NbTables * TableSize - 1 \in Int /\ FrameLimit - 1 \in Int /\ 0 \in Int
  <2>1. FrameLimit \in Nat /\ NbTables \in Nat /\ TableSize \in Nat
    BY MemoryAssumption
  <2> QED BY <2>1
<1>2. IsFiniteSet(Page) /\ IsFiniteSet(Frame) BY <1>1, FS_Interval DEF Page, Frame
<1>3. IsFiniteSet(Proc \X Page) BY <1>2, MemoryAssumption, FS_Product
<1>4. IsFiniteSet(G)
  <2>1. G \subseteq Frame BY DEF G
  <2> QED BY <1>2, <2>1, FS_Subset
<1>5. ASSUME NEW S, NEW f PROVE IsFiniteSet(MapsOf(S, f)) /\ Count(S, f) \in Nat
  <2>1. MapsOf(S, f) \subseteq Proc \X Page BY DEF MapsOf
  <2>2. IsFiniteSet(MapsOf(S, f)) BY <1>3, <2>1, FS_Subset
  <2> QED BY <2>2, FS_CardinalityType DEF Count
<1> QED BY <1>2, <1>3, <1>4, <1>5

\* One page is mapped or unmapped.
LEMMA CountChange ==
    ASSUME NEW S, NEW T, NEW x \in Proc \X Page, NEW old, NEW new,
           old = At(S[x[1]], x[2]), new = At(T[x[1]], x[2]),
           \A y \in Proc \X Page : y # x => At(T[y[1]], y[2]) = At(S[y[1]], y[2]), NEW f
    PROVE  /\ old # f /\ new = f => Count(T, f) = Count(S, f) + 1
           /\ old = f /\ new # f => Count(T, f) = Count(S, f) - 1
           /\ (old = f <=> new = f) => Count(T, f) = Count(S, f)
           /\ old = f => Count(S, f) > 0
<1>1. IsFiniteSet(MapsOf(S, f)) /\ IsFiniteSet(MapsOf(T, f)) BY Finite
<1>2. ASSUME old # f, new = f PROVE Count(T, f) = Count(S, f) + 1
  <2>1. x \notin MapsOf(S, f) BY <1>2 DEF MapsOf
  <2>2. MapsOf(T, f) = MapsOf(S, f) \cup {x} BY <1>2 DEF MapsOf
  <2> QED BY <1>1, <2>1, <2>2, FS_AddElement DEF Count
<1>3. ASSUME old = f, new # f PROVE Count(T, f) = Count(S, f) - 1
  <2>1. x \in MapsOf(S, f) BY <1>3 DEF MapsOf
  <2>2. MapsOf(T, f) = MapsOf(S, f) \ {x} BY <1>3 DEF MapsOf
  <2> QED BY <1>1, <2>1, <2>2, FS_RemoveElement DEF Count
<1>4. ASSUME old = f <=> new = f PROVE Count(T, f) = Count(S, f)
  <2>1. MapsOf(T, f) = MapsOf(S, f) BY <1>4 DEF MapsOf
  <2> QED BY <2>1 DEF Count
<1>5. ASSUME old = f PROVE Count(S, f) > 0
  <2>1. x \in MapsOf(S, f) BY <1>5 DEF MapsOf
  <2>2. Cardinality(MapsOf(S, f)) # 0 BY <1>1, <2>1, FS_EmptySet
  <2>3. Count(S, f) \in Nat BY Finite
  <2> QED BY <2>2, <2>3 DEF Count
<1> QED BY <1>2, <1>3, <1>4, <1>5

--------------------------------------------------------------------------------
\* Frames other than f keep their part of the state.
Apartness(m, n, S, T, L, M, f) ==
    /\ \A g \in Frame : /\ n.ref[g].there = m.ref[g].there /\ n.ref[g].hw = m.ref[g].hw
                        /\ g # f => n.ref[g].count = m.ref[g].count
    /\ \A g \in G : g # f => /\ g \in Free(n) <=> g \in Free(m)
                             /\ g \in M <=> g \in L
                             /\ Count(T, g) = Count(S, g) /\ KeptBy(T, g) = KeptBy(S, g)

\* A step that disturbs one frame keeps the books when they hold of that frame afterwards.
LEMMA FrameStep ==
    ASSUME NEW m, NEW S, NEW L, Good(m, S, L), NEW f \in G,
           NEW n \in MemT, NEW T \in [Proc -> SpaceT], NEW M \in SUBSET G, ListOK(n),
           Apartness(m, n, S, T, L, M, f),
           State(f, n.ref[f].count, Count(T, f), KeptBy(T, f), f \in Free(n) \/ f \in M),
           ~(f \in Free(n) /\ f \in M)
    PROVE  Good(n, T, M)
<1>1. G \subseteq Frame BY DEF G
<1>2. Static(n) BY <1>1 DEF Static, Good, Apartness
<1>3. ASSUME NEW g \in G
      PROVE State(g, n.ref[g].count, Count(T, g), KeptBy(T, g), g \in Free(n) \/ g \in M)
  <2>1. CASE g = f BY <2>1
  <2>2. CASE g # f
    <3>1. State(g, m.ref[g].count, Count(S, g), KeptBy(S, g), g \in Free(m) \/ g \in L)
      BY DEF Good
    <3>2. /\ n.ref[g].count = m.ref[g].count /\ Count(T, g) = Count(S, g)
          /\ KeptBy(T, g) = KeptBy(S, g)
          /\ (g \in Free(n) \/ g \in M) <=> (g \in Free(m) \/ g \in L)
      BY <1>1, <2>2 DEF Apartness
    <3>3. (g \in Free(n) \/ g \in M) = (g \in Free(m) \/ g \in L) BY <3>2
    <3> QED BY <3>1, <3>2, <3>3
  <2> QED BY <2>1, <2>2
<1>4. M \cap Free(n) = {}
  <2>1. Free(n) \subseteq G BY DEF ListOK
  <2>2. \A g \in G : g # f => ~(g \in Free(n) /\ g \in M) BY DEF Apartness, Good
  <2> QED BY <2>1, <2>2
<1> QED BY <1>2, <1>3, <1>4 DEF Good

\* One space changes in one page.
PteStep(S, T, p, a, old, new) ==
    /\ T \in [Proc -> SpaceT]
    /\ \A g : KeptBy(T, g) = KeptBy(S, g)
    /\ old = At(S[p], a) /\ new = At(T[p], a)
    /\ \A x \in Proc \X Page : x # <<p, a>> => At(T[x[1]], x[2]) = At(S[x[1]], x[2])

\* Setting an entry is a step of that entry.
LEMMA PteUse ==
    ASSUME NEW S \in [Proc -> SpaceT], NEW p \in Proc, NEW a \in Page,
           NEW e \in [frame : G, mode : Mode] \cup {None},
           NEW s, s = [S[p] EXCEPT !.pte[a] = e], NEW T, T = [S EXCEPT ![p] = s]
    PROVE  /\ s \in SpaceT
           /\ PteStep(S, T, p, a, At(S[p], a), IF e = None THEN None ELSE e.frame)
<1>1. S[p] \in SpaceT OBVIOUS
<1>2. /\ s \in SpaceT /\ s.dir = S[p].dir /\ s.table = S[p].table
      /\ s.pte = [S[p].pte EXCEPT ![a] = e] /\ s.pte[a] = e
      /\ \A b \in Page : b # a => s.pte[b] = S[p].pte[b]
  BY <1>1 DEF SpaceT
<1>3. T \in [Proc -> SpaceT] /\ T[p] = s /\ \A r \in Proc : r # p => T[r] = S[r]
  BY <1>2
<1>4. \A r \in Proc : \A j \in Slot : Root(T[r], j) = Root(S[r], j) BY <1>2, <1>3 DEF Root
<1>5. \A g : KeptBy(T, g) = KeptBy(S, g) BY <1>4 DEF KeptBy
<1>6. At(T[p], a) = IF e = None THEN None ELSE e.frame BY <1>2, <1>3 DEF At
<1>7. ASSUME NEW r \in Proc, NEW b \in Page, <<r, b>> # <<p, a>>
      PROVE  At(T[r], b) = At(S[r], b)
  <2>1. T[r].pte[b] = S[r].pte[b] BY <1>2, <1>3, <1>7
  <2> QED BY <2>1 DEF At
<1>8. \A x \in Proc \X Page : x # <<p, a>> => At(T[x[1]], x[2]) = At(S[x[1]], x[2])
  BY <1>7
<1> QED BY <1>2, <1>3, <1>5, <1>6, <1>8 DEF PteStep

\* Such a step moves one mapping from the old frame to the new one.
LEMMA PteCount ==
    ASSUME NEW S, NEW T, NEW p \in Proc, NEW a \in Page, NEW old, NEW new,
           PteStep(S, T, p, a, old, new), NEW f
    PROVE  /\ old # f /\ new = f => Count(T, f) = Count(S, f) + 1
           /\ old = f /\ new # f => Count(T, f) = Count(S, f) - 1
           /\ (old = f <=> new = f) => Count(T, f) = Count(S, f)
           /\ old = f => Count(S, f) > 0
           /\ KeptBy(T, f) = KeptBy(S, f)
<1>0. PICK x : x = <<p, a>> OBVIOUS
<1>1. x = <<p, a>> /\ x \in Proc \X Page /\ x[1] = p /\ x[2] = a BY <1>0
<1>2. /\ old = At(S[x[1]], x[2]) /\ new = At(T[x[1]], x[2])
      /\ \A y \in Proc \X Page : y # x => At(T[y[1]], y[2]) = At(S[y[1]], y[2])
      /\ KeptBy(T, f) = KeptBy(S, f)
  BY <1>1 DEF PteStep
<1>3. x \in Proc \X Page BY <1>1
<1>4. /\ old # f /\ new = f => Count(T, f) = Count(S, f) + 1
      /\ old = f /\ new # f => Count(T, f) = Count(S, f) - 1
      /\ (old = f <=> new = f) => Count(T, f) = Count(S, f)
      /\ old = f => Count(S, f) > 0
  BY ONLY <1>2, <1>3, CountChange
<1> QED BY <1>2, <1>4

\* One space changes in its directory or one of its tables.
SlotStep(S, T, p, j, old, new) ==
    /\ T \in [Proc -> SpaceT]
    /\ \A g : Count(T, g) = Count(S, g)
    /\ old = Root(S[p], j) /\ new = Root(T[p], j)
    /\ \A x \in Proc \X Slot : x # <<p, j>> => Root(T[x[1]], x[2]) = Root(S[x[1]], x[2])

\* Setting the directory or a table is a step of that slot.
LEMMA SlotUse ==
    ASSUME NEW S \in [Proc -> SpaceT], NEW p \in Proc, NEW j \in Slot, NEW f \in G \cup {None},
           NEW s, s = IF j = -1 THEN [S[p] EXCEPT !.dir = f] ELSE [S[p] EXCEPT !.table[j] = f],
           NEW T, T = [S EXCEPT ![p] = s]
    PROVE  s \in SpaceT /\ SlotStep(S, T, p, j, Root(S[p], j), f)
<1>1. S[p] \in SpaceT /\ G \subseteq Frame BY DEF G
<1>2. /\ s \in SpaceT /\ s.pte = S[p].pte /\ Root(s, j) = f
      /\ \A k \in Slot : k # j => Root(s, k) = Root(S[p], k)
  <2>1. CASE j = -1
    <3>1. /\ s \in SpaceT /\ s.pte = S[p].pte /\ s.dir = f /\ s.table = S[p].table
      BY <1>1, <2>1 DEF SpaceT
    <3> QED BY <2>1, <3>1 DEF Root
  <2>2. CASE j # -1
    <3>1. j \in Table BY <2>2, MemoryAssumption DEF Slot, Table
    <3>2. /\ s \in SpaceT /\ s.pte = S[p].pte /\ s.dir = S[p].dir /\ s.table[j] = f
          /\ \A k \in Table : k # j => s.table[k] = S[p].table[k]
      BY <1>1, <2>2, <3>1 DEF SpaceT
    <3>3. \A k \in Slot : k # -1 => k \in Table BY MemoryAssumption DEF Slot, Table
    <3> QED BY <2>2, <3>2, <3>3 DEF Root
  <2> QED BY <2>1, <2>2
<1>3. T \in [Proc -> SpaceT] /\ T[p] = s /\ \A r \in Proc : r # p => T[r] = S[r]
  BY <1>2
<1>4. ASSUME NEW g PROVE Count(T, g) = Count(S, g)
  <2>1. \A r \in Proc : \A b \in Page : At(T[r], b) = At(S[r], b) BY <1>2, <1>3 DEF At
  <2>2. MapsOf(T, g) = MapsOf(S, g) BY <2>1 DEF MapsOf
  <2> QED BY <2>2 DEF Count
<1>5. ASSUME NEW r \in Proc, NEW k \in Slot, <<r, k>> # <<p, j>>
      PROVE  Root(T[r], k) = Root(S[r], k)
  BY <1>2, <1>3, <1>5
<1>6. \A x \in Proc \X Slot : x # <<p, j>> => Root(T[x[1]], x[2]) = Root(S[x[1]], x[2])
  BY <1>5
<1>7. Root(T[p], j) = f BY <1>2, <1>3
<1> QED BY <1>2, <1>3, <1>4, <1>6, <1>7 DEF SlotStep

\* Such a step moves one table or directory from the old frame to the new one.
LEMMA SlotKept ==
    ASSUME NEW S, NEW T, NEW p \in Proc, NEW j \in Slot, NEW old, NEW new,
           SlotStep(S, T, p, j, old, new), NEW f
    PROVE  /\ new = f => KeptBy(T, f) = KeptBy(S, f) \cup {<<p, j>>}
           /\ new # f => KeptBy(T, f) = KeptBy(S, f) \ {<<p, j>>}
           /\ old = f <=> <<p, j>> \in KeptBy(S, f)
           /\ Count(T, f) = Count(S, f)
<1>0. PICK x : x = <<p, j>> OBVIOUS
<1>1. x = <<p, j>> /\ x \in Proc \X Slot /\ x[1] = p /\ x[2] = j BY <1>0
<1>2. /\ old = Root(S[x[1]], x[2]) /\ new = Root(T[x[1]], x[2])
      /\ \A y \in Proc \X Slot : y # x => Root(T[y[1]], y[2]) = Root(S[y[1]], y[2])
      /\ Count(T, f) = Count(S, f)
  BY <1>1 DEF SlotStep
<1>3. new = f => KeptBy(T, f) = KeptBy(S, f) \cup {x} BY <1>1, <1>2 DEF KeptBy
<1>4. new # f => KeptBy(T, f) = KeptBy(S, f) \ {x} BY <1>1, <1>2 DEF KeptBy
<1>5. old = f <=> x \in KeptBy(S, f) BY <1>1, <1>2 DEF KeptBy
<1> QED BY <1>1, <1>2, <1>3, <1>4, <1>5

--------------------------------------------------------------------------------
\* The frames the kernel hands out are frames, and None is none of them.
LEMMA Frames ==
    /\ G \subseteq Frame /\ Frame \subseteq Nat /\ KernelEnd \in Nat
    /\ None \notin G /\ None \notin Frame /\ None \notin Page
    /\ \A f \in G : KernelEnd <= f
<1>1. Frame \subseteq Nat /\ KernelEnd \in Frame BY MemoryAssumption DEF Frame
<1> QED BY <1>1, MemoryAssumption DEF G

\* Only the count of f changes, to c.
Recount(m, n, f, c) ==
    /\ n \in MemT /\ n.free = m.free /\ n.avail = m.avail /\ n.fail = m.fail
    /\ n.ref[f].count = c
    /\ \A g \in Frame : /\ n.ref[g].there = m.ref[g].there /\ n.ref[g].hw = m.ref[g].hw
                        /\ g # f => n.ref[g].count = m.ref[g].count

\* Setting the count of a frame changes nothing else.
LEMMA RecountSet ==
    ASSUME NEW m \in MemT, NEW f \in Frame, NEW c \in Nat, NEW n,
           n = [m EXCEPT !.ref[f].count = c]
    PROVE  Recount(m, n, f, c)
<1>1. m.ref \in [Frame -> RefT] /\ m.ref[f] \in RefT BY DEF MemT
<1>2. PICK r : r = [m.ref[f] EXCEPT !.count = c] OBVIOUS
<1>3. r \in RefT /\ r.there = m.ref[f].there /\ r.hw = m.ref[f].hw /\ r.count = c
  BY <1>1, <1>2 DEF RefT
<1>4. PICK h : h = [m.ref EXCEPT ![f] = r] OBVIOUS
<1>5. h \in [Frame -> RefT] /\ h[f] = r /\ \A g \in Frame : g # f => h[g] = m.ref[g]
  BY <1>1, <1>3, <1>4
<1>6. n = [m EXCEPT !.ref = h] BY <1>2, <1>4 DEF MemT
<1>7. n \in MemT /\ n.ref = h /\ n.free = m.free /\ n.avail = m.avail /\ n.fail = m.fail
  BY <1>5, <1>6 DEF MemT
<1> QED BY <1>3, <1>5, <1>7 DEF Recount

\* mem_mgt_acquire_frame_ref adds one to the count of its frame.
LEMMA AcquireEffect ==
    ASSUME NEW m \in MemT, NEW f \in Frame, m.ref[f].there, NEW n, n = AcquireRef(m, f)
    PROVE  Recount(m, n, f, m.ref[f].count + 1)
<1>1. m.ref[f].count \in Nat BY DEF MemT, RefT
<1>2. n = [m EXCEPT !.ref[f].count = m.ref[f].count + 1] BY DEF AcquireRef, MemT
<1>3. m.ref[f].count + 1 \in Nat BY <1>1
<1> QED BY <1>2, <1>3, RecountSet

\* The frame f joins the list of the free frames and loses its count.
Freed(m, n, f) ==
    /\ n \in MemT /\ n.fail = m.fail /\ ListOK(n) /\ Keyed(n.free)
    /\ n.ref[f].count = 0
    /\ \A g : g \in Free(n) <=> g \in Free(m) \/ g = f
    /\ \A g \in Frame : /\ n.ref[g].there = m.ref[g].there /\ n.ref[g].hw = m.ref[g].hw
                        /\ g # f => n.ref[g].count = m.ref[g].count

\* A frame that was not free is free after kernel_free_frames.
LEMMA FreeEffect ==
    ASSUME NEW m \in MemT, ListOK(m), Keyed(m.free), NEW f \in G, f \notin Free(m),
           NEW n, n = FreeFrames(m, f, 1)
    PROVE  Freed(m, n, f)
<1>1. f \in Frame /\ f \in Int /\ 1 \in Nat \ {0} /\ f .. f + 1 - 1 = {f} BY Frames
<1>2. Apart(m.free) /\ Ordered(m.free) BY DEF ListOK
<1>3. Unlisted(m.free, f, 1) BY <1>1 DEF Unlisted, Free
<1>4. PICK q : q = AddBlock(m.free, f, 1) OBVIOUS
<1>5. Added(m.free, q, f, 1) /\ ~FreedTwice(m.free, f, 1)
  BY <1>1, <1>2, <1>3, <1>4, AddBlockApart
<1>6. Ordered(q) /\ Keyed(q) BY <1>1, <1>2, <1>3, <1>4, AddBlockOrdered
<1>7. /\ Apart(q) /\ q \in Seq(Rng)
      /\ \A x \in Int : x \in FreeCells(q) <=> x \in FreeCells(m.free) \/ x = f
  BY <1>1, <1>5 DEF Added, Apart
<1>8. \A x : x \in FreeCells(q) => x \in Int BY <1>7, CellsAre
<1>9. \A x : x \in FreeCells(m.free) => x \in Int BY <1>2, CellsAre DEF Apart
<1>10. \A x : x \in FreeCells(q) <=> x \in FreeCells(m.free) \/ x = f BY <1>1, <1>7, <1>8, <1>9
<1>11. PICK k : k = [m EXCEPT !.ref[f].count = 0] OBVIOUS
<1>12. Recount(m, k, f, 0) BY <1>1, <1>11, RecountSet
<1>13. n = [k EXCEPT !.free = q, !.avail = m.avail + 1]
  BY <1>4, <1>5, <1>11 DEF FreeFrames, MemT
<1>14. /\ n \in MemT /\ n.fail = k.fail /\ n.ref = k.ref /\ n.free = q /\ n.avail = m.avail + 1
  <2>1. k \in MemT /\ m.avail + 1 \in Int BY <1>12 DEF Recount, MemT
  <2> QED BY <1>7, <1>13, <2>1 DEF MemT
<1>15. ListOK(n)
  <2>1. Free(n) = Free(m) \cup {f} BY <1>10, <1>14 DEF Free
  <2>2. Free(m) \subseteq G /\ m.avail = Cardinality(Free(m)) BY DEF ListOK
  <2>3. IsFiniteSet(Free(m)) BY <2>2, Finite, FS_Subset
  <2>4. Cardinality(Free(n)) = Cardinality(Free(m)) + 1 BY <2>1, <2>3, FS_AddElement
  <2> QED BY <1>6, <1>7, <1>14, <2>1, <2>2, <2>4 DEF ListOK
<1>16. \A g : g \in Free(n) <=> g \in Free(m) \/ g = f BY <1>10, <1>14 DEF Free
<1> QED BY <1>6, <1>12, <1>14, <1>15, <1>16 DEF Recount, Freed

\* mem_mgt_release_frame_ref takes one off the count and frees the frame at zero.
LEMMA ReleaseEffect ==
    ASSUME NEW m \in MemT, ListOK(m), Keyed(m.free), Static(m), NEW f \in G, f \notin Free(m),
           m.ref[f].count # 0, NEW n, n = ReleaseRef(m, f)
    PROVE  /\ m.ref[f].count = 1 => Freed(m, n, f)
           /\ m.ref[f].count > 1 => Recount(m, n, f, m.ref[f].count - 1)
<1>1. f \in Frame /\ m.ref[f].there /\ ~m.ref[f].hw BY Frames DEF Static
<1>2. m.ref[f].count \in Nat \ {0} BY <1>1 DEF MemT, RefT
<1>3. PICK d : d = [m EXCEPT !.ref[f].count = m.ref[f].count - 1] OBVIOUS
<1>4. Recount(m, d, f, m.ref[f].count - 1)
  <2>1. m.ref[f].count - 1 \in Nat BY <1>2
  <2> QED BY <1>1, <1>3, <2>1, RecountSet
<1>5. n = IF m.ref[f].count = 1 THEN FreeFrames(d, f, 1) ELSE d
  BY <1>1, <1>3 DEF ReleaseRef, MemT
<1>6. CASE m.ref[f].count = 1
  <2>1. /\ d \in MemT /\ d.free = m.free /\ d.fail = m.fail
        /\ \A g \in Frame : /\ d.ref[g].there = m.ref[g].there /\ d.ref[g].hw = m.ref[g].hw
                            /\ g # f => d.ref[g].count = m.ref[g].count
    BY <1>4 DEF Recount
  <2>2. ListOK(d) /\ Free(d) = Free(m) BY <1>4, <2>1 DEF ListOK, Free, Recount
  <2>3. Freed(d, n, f) BY <1>5, <1>6, <2>1, <2>2, FreeEffect
  <2>4. Freed(m, n, f) BY <2>1, <2>2, <2>3 DEF Freed
  <2> QED BY <1>6, <2>4
<1> QED BY <1>2, <1>4, <1>5, <1>6

\* The frames of the block leave the list.
Taken(m, n, f, k) ==
    /\ n \in MemT /\ n.fail = m.fail /\ n.ref = m.ref /\ ListOK(n) /\ Keyed(n.free)
    /\ f \in Int /\ f .. f + k - 1 \subseteq Free(m)
    /\ \A g : g \in Free(n) <=> g \in Free(m) /\ g \notin f .. f + k - 1

\* kernel_alloc_frames takes the frames at the address it returns from the list.
LEMMA AllocEffect ==
    ASSUME NEW m \in MemT, ListOK(m), NEW k \in Nat \ {0}, NEW n, n = AllocFrames(m, k),
           HasBlock(m.free, k)
    PROVE  Taken(m, n, FrameAddress(m, k), k)
<1>1. PICK q : q = GetBlock(m.free, k, "BEGINING") OBVIOUS
<1>2. PICK f : f = FrameAddress(m, k) OBVIOUS
<1>3. f = BlockAddress(m.free, k, "BEGINING") BY <1>2 DEF FrameAddress
<1>4. Apart(m.free) /\ Ordered(m.free) /\ (Keyed(m.free) \/ Len(m.free) = 1) BY DEF ListOK
<1>5. /\ Apart(q) /\ f \in Int
      /\ \A x \in f .. f + k - 1 : x \in FreeCells(m.free)
      /\ \A x \in Int : x \in FreeCells(q) <=> x \in FreeCells(m.free) /\ x \notin f .. f + k - 1
  BY <1>1, <1>3, <1>4, GetBlockApart
<1>6. Ordered(q) /\ Keyed(q) BY <1>1, <1>4, GetBlockOrdered
<1>7. n = [m EXCEPT !.free = q, !.avail = m.avail - k] BY <1>1 DEF AllocFrames
<1>8. q \in Seq(Rng) BY <1>5 DEF Apart
<1>9. /\ n \in MemT /\ n.fail = m.fail /\ n.ref = m.ref /\ n.free = q /\ n.avail = m.avail - k
  <2>1. m.avail - k \in Int BY DEF MemT
  <2> QED BY <1>7, <1>8, <2>1 DEF MemT
<1>10. \A x : x \in FreeCells(q) => x \in Int BY <1>8, CellsAre
<1>11. \A x : x \in FreeCells(m.free) => x \in Int BY <1>4, CellsAre DEF Apart
<1>12. \A g : g \in Free(n) <=> g \in Free(m) /\ g \notin f .. f + k - 1
  BY <1>5, <1>9, <1>10, <1>11 DEF Free
<1>13. f .. f + k - 1 \subseteq Free(m) BY <1>5 DEF Free
<1>14. ListOK(n)
  <2>1. Free(m) \subseteq G /\ m.avail = Cardinality(Free(m)) BY DEF ListOK
  <2>2. IsFiniteSet(Free(m)) BY <2>1, Finite, FS_Subset
  <2>3. Free(n) = Free(m) \ (f .. f + k - 1) BY <1>12
  <2>4. f + k - 1 \in Int BY <1>5
  <2>5. Cardinality(f .. f + k - 1) = k
    <3>1. Cardinality(f .. f + k - 1) = IF f > f + k - 1 THEN 0 ELSE f + k - 1 - f + 1
      BY <1>5, <2>4, FS_Interval
    <3> QED BY <1>5, <3>1
  <2>6. Free(m) \cap (f .. f + k - 1) = f .. f + k - 1 BY <1>13
  <2>7. Cardinality(Free(n)) = Cardinality(Free(m)) - k
    <3>1. Cardinality(Free(n)) = Cardinality(Free(m)) - Cardinality(Free(m) \cap (f .. f + k - 1))
      BY <2>2, <2>3, FS_Difference
    <3> QED BY <2>5, <2>6, <3>1
  <2>8. Free(n) \subseteq G BY <2>1, <2>3
  <2> QED BY <1>5, <1>6, <1>9, <2>1, <2>7, <2>8 DEF ListOK, Free
<1> QED BY <1>2, <1>5, <1>6, <1>9, <1>12, <1>13, <1>14 DEF Taken

--------------------------------------------------------------------------------
\* A space, an entry or a slot is replaced.
Put(S, p, sp) == [S EXCEPT ![p] = sp]

SetPte(sp, a, e) == [sp EXCEPT !.pte[a] = e]

SetRoot(sp, j, f) == IF j = -1 THEN [sp EXCEPT !.dir = f] ELSE [sp EXCEPT !.table[j] = f]

\* The first block is taken: the first frame behind the kernel is never free again.
Used(m) == Keyed(m.free) /\ KernelEnd \notin Free(m)
Untouched(m) == Len(m.free) = 1 /\ KernelEnd \in Free(m)

\* The first allocation gets the frames right after the kernel.
LEMMA FirstBlock ==
    ASSUME NEW m \in MemT, ListOK(m), Untouched(m), NEW k \in Nat \ {0}, HasBlock(m.free, k)
    PROVE  FrameAddress(m, k) = KernelEnd
<1>1. m.free \in Seq(Rng) /\ Apart(m.free) /\ Len(m.free) = 1 /\ DOMAIN m.free = 1 .. 1
  BY DEF ListOK, Untouched, MemT
<1>2. PICK r : r = m.free[1] OBVIOUS
<1>3. r \in Rng /\ r.base \in Int /\ r.limit \in Int /\ r.base < r.limit
  BY <1>1, <1>2, RangeFacts
<1>4. \A x : Contains(m.free, x) <=> x = r BY <1>1, <1>2 DEF Contains
<1>5. \A x : x \in Free(m) <=> x \in Int /\ Holds(r, x)
  BY <1>1, <1>3, <1>4, CellsAre DEF Free
<1>6. r.base = KernelEnd
  <2>1. Holds(r, KernelEnd) BY <1>5 DEF Untouched
  <2>2. r.base \in Free(m) BY <1>3, <1>5 DEF Holds
  <2>3. r.base \in G BY <2>2 DEF ListOK
  <2>4. KernelEnd <= r.base BY <2>3, Frames
  <2> QED BY <1>3, <2>1, <2>4, Frames DEF Holds
<1>7. Fitting(m.free, k) = {1}
  <2>1. Fitting(m.free, k) \subseteq {1} BY <1>1 DEF Fitting
  <2>2. Fitting(m.free, k) # {} BY DEF HasBlock
  <2> QED BY <2>1, <2>2
<1>8. Chosen(m.free, k, "BEGINING") = 1
  <2>1. Min({1}) = 1 BY DEF Min
  <2> QED BY <1>7, <2>1 DEF Chosen
<1> QED BY <1>2, <1>6, <1>8 DEF FrameAddress, BlockAddress

\* Frames are taken from the list.
LEMMA AllocGood ==
    ASSUME NEW m, NEW S, NEW L, Good(m, S, L), Used(m) \/ Untouched(m),
           NEW k \in Nat \ {0}, HasBlock(m.free, k),
           NEW n, n = AllocFrames(m, k), NEW f, f = FrameAddress(m, k)
    PROVE  /\ Good(n, S, L \cup (f .. f + k - 1)) /\ Used(n) /\ n.fail = m.fail /\ f \in Int
           /\ \A g \in f .. f + k - 1 : g \in G /\ g \notin L
           /\ Used(m) => KernelEnd \notin f .. f + k - 1
<1> DEFINE B == f .. f + k - 1
<1>1. m \in MemT /\ ListOK(m) BY DEF Good
<1>2. Taken(m, n, f, k) BY <1>1, AllocEffect
<1>3. /\ n \in MemT /\ n.fail = m.fail /\ n.ref = m.ref /\ ListOK(n) /\ Keyed(n.free) /\ f \in Int
      /\ B \subseteq Free(m) /\ \A g : g \in Free(n) <=> g \in Free(m) /\ g \notin B
  BY <1>2 DEF Taken
<1> HIDE DEF B
<1>4. Free(m) \subseteq G /\ L \cap Free(m) = {} /\ L \in SUBSET G BY DEF Good, ListOK
<1>5. \A g \in B : g \in G /\ g \notin L BY <1>3, <1>4
<1>6. Used(n)
  <2>1. CASE Used(m) BY <1>3, <2>1 DEF Used
  <2>2. CASE Untouched(m)
    <3>1. f = KernelEnd BY <1>1, <2>2, FirstBlock
    <3>2. f \in B BY <1>3 DEF B
    <3> QED BY <1>3, <3>1, <3>2 DEF Used
  <2> QED BY <2>1, <2>2
<1>7. Good(n, S, L \cup B)
  <2>1. Static(n) BY <1>3 DEF Static, Good
  <2>2. L \cup B \in SUBSET G /\ (L \cup B) \cap Free(n) = {} BY <1>3, <1>4, <1>5
  <2>3. ASSUME NEW g \in G
        PROVE  State(g, n.ref[g].count, Count(S, g), KeptBy(S, g), g \in Free(n) \/ g \in L \cup B)
    <3>1. State(g, m.ref[g].count, Count(S, g), KeptBy(S, g), g \in Free(m) \/ g \in L)
      BY DEF Good
    <3>2. (g \in Free(n) \/ g \in L \cup B) <=> (g \in Free(m) \/ g \in L) BY <1>3
    <3>3. (g \in Free(n) \/ g \in L \cup B) = (g \in Free(m) \/ g \in L) BY <3>2
    <3> QED BY <1>3, <3>1, <3>3
  <2> QED BY <1>3, <2>1, <2>2, <2>3 DEF Good
<1>8. Used(m) => KernelEnd \notin B BY <1>3 DEF Used
<1> QED BY <1>3, <1>5, <1>6, <1>7, <1>8 DEF B

\* A frame taken from the list, or mapped already, is mapped at a page.
LEMMA MapGood ==
    ASSUME NEW m, NEW S, NEW L, Good(m, S, L), NEW p \in Proc, NEW a \in Page,
           S[p].pte[a] = None, NEW f \in G, f \notin Free(m), KeptBy(S, f) = {},
           NEW n, n = AcquireRef(m, f), NEW e \in [frame : G, mode : Mode], e.frame = f, NEW s, s = SetPte(S[p], a, e)
    PROVE  /\ Good(n, Put(S, p, s), L \ {f}) /\ n.fail = m.fail /\ n.free = m.free
           /\ s \in SpaceT
<1>2. e \in [frame : G, mode : Mode] \cup {None} /\ e.frame = f /\ e # None
  <2>1. e \in Entry
    <3>1. e.mode \in {"regular", "cow", "private"} /\ e.frame \in Frame BY Frames DEF Mode
    <3> QED BY <3>1 DEF Entry
  <2> QED BY <2>1, MemoryAssumption
<1>3. PICK T : T = Put(S, p, s) OBVIOUS
<1>4. S \in [Proc -> SpaceT] /\ m \in MemT /\ ListOK(m) /\ Static(m) BY DEF Good
<1>5. s \in SpaceT /\ PteStep(S, T, p, a, At(S[p], a), f)
  <2>1. s \in SpaceT /\ PteStep(S, T, p, a, At(S[p], a), IF e = None THEN None ELSE e.frame)
    <3>1. s = [S[p] EXCEPT !.pte[a] = e] /\ T = [S EXCEPT ![p] = s] BY <1>3 DEF Put, SetPte
    <3> QED BY ONLY <1>2, <1>4, <3>1, p \in Proc, a \in Page, PteUse
  <2> QED BY <1>2, <2>1
<1>6. At(S[p], a) = None /\ f # None BY Frames DEF At
<1>7. \A g : /\ KeptBy(T, g) = KeptBy(S, g) /\ (g # f /\ g # None => Count(T, g) = Count(S, g))
             /\ g = f => Count(T, g) = Count(S, g) + 1
  <2>1. ASSUME NEW g
        PROVE  /\ KeptBy(T, g) = KeptBy(S, g) /\ (g # f /\ g # None => Count(T, g) = Count(S, g))
               /\ g = f => Count(T, g) = Count(S, g) + 1
    BY <1>5, <1>6, PteCount
  <2> QED BY <2>1
<1>8. f \in Frame /\ m.ref[f].there BY <1>4, Frames DEF Static
<1>9. Recount(m, n, f, m.ref[f].count + 1) BY <1>4, <1>8, AcquireEffect
<1>10. n \in MemT /\ n.fail = m.fail /\ n.free = m.free /\ ListOK(n) /\ Free(n) = Free(m)
  BY <1>4, <1>9 DEF Recount, ListOK, Free
<1>11. T \in [Proc -> SpaceT] BY <1>5 DEF PteStep
<1>12. Apartness(m, n, S, T, L, L \ {f}, f)
  <2>1. \A g \in G : g # None BY Frames
  <2> QED BY <1>7, <1>9, <1>10, <2>1 DEF Apartness, Recount
<1>13. State(f, n.ref[f].count, Count(T, f), KeptBy(T, f), f \in Free(n) \/ f \in L \ {f})
  <2>1. State(f, m.ref[f].count, Count(S, f), KeptBy(S, f), f \in Free(m) \/ f \in L) BY DEF Good
  <2>2. Count(S, f) \in Nat BY Finite
  <2>3. m.ref[f].count = Count(S, f) + Extra(f) BY <2>1 DEF State
  <2>4. n.ref[f].count = m.ref[f].count + 1 BY <1>9 DEF Recount
  <2>5. Count(T, f) = Count(S, f) + 1 /\ KeptBy(T, f) = {} BY <1>7
  <2>6. n.ref[f].count = Count(T, f) + Extra(f) /\ Count(T, f) # 0
    BY <2>2, <2>3, <2>4, <2>5 DEF Extra
  <2>7. ~(f \in Free(n) \/ f \in L \ {f}) BY <1>10
  <2> QED BY <2>5, <2>6, <2>7 DEF State
<1>14. L \ {f} \in SUBSET G BY DEF Good
<1>15. Good(n, T, L \ {f})
  BY <1>10, <1>11, <1>12, <1>13, <1>14, FrameStep
<1> QED BY <1>3, <1>5, <1>10, <1>15

\* Two references with the same fields are the same.
LEMMA RefEqual ==
    ASSUME NEW x \in RefT, NEW y \in RefT, x.there = y.there, x.hw = y.hw, x.count = y.count
    PROVE  x = y
BY DEF RefT

\* A page is unmapped and its frame loses a reference.
LEMMA UnmapGood ==
    ASSUME NEW m, NEW S, NEW L, Good(m, S, L), Used(m), NEW p \in Proc, NEW a \in Page,
           S[p].pte[a] # None, NEW f, f = S[p].pte[a].frame, NEW n, n = ReleaseRef(m, f),
           NEW s, s = SetPte(S[p], a, None)
    PROVE  /\ Good(n, Put(S, p, s), L) /\ Used(n) /\ n.fail = m.fail
           /\ s \in SpaceT /\ f \in G /\ KeptBy(S, f) = {} /\ m.ref[f].count # 0
           /\ \A g \in Frame : g # f => n.ref[g] = m.ref[g]
<1>1. S \in [Proc -> SpaceT] /\ m \in MemT /\ ListOK(m) /\ Static(m) /\ Keyed(m.free)
  BY DEF Good, Used
<1>2. f \in G /\ f # None /\ f \in Frame
  <2>1. S[p] \in SpaceT BY <1>1
  <2>2. S[p].pte \in [Page -> [frame : G, mode : Mode] \cup {None}] BY <2>1 DEF SpaceT
  <2>3. S[p].pte[a] \in [frame : G, mode : Mode] BY <2>2
  <2> QED BY <2>3, Frames
<1>3. PICK T : T = Put(S, p, s) OBVIOUS
<1>4. s \in SpaceT /\ PteStep(S, T, p, a, At(S[p], a), None)
  <2>1. s = [S[p] EXCEPT !.pte[a] = None] /\ T = [S EXCEPT ![p] = s] BY <1>3 DEF Put, SetPte
  <2> QED BY <1>1, <2>1, PteUse
<1>5. At(S[p], a) = f BY DEF At
<1>6. \A g : /\ KeptBy(T, g) = KeptBy(S, g) /\ (g # f /\ g # None => Count(T, g) = Count(S, g))
             /\ g = f => (Count(T, g) = Count(S, g) - 1 /\ Count(S, g) > 0)
  <2>1. ASSUME NEW g
        PROVE  /\ KeptBy(T, g) = KeptBy(S, g) /\ (g # f /\ g # None => Count(T, g) = Count(S, g))
               /\ g = f => (Count(T, g) = Count(S, g) - 1 /\ Count(S, g) > 0)
    BY <1>2, <1>4, <1>5, PteCount
  <2> QED BY <2>1
<1>7. State(f, m.ref[f].count, Count(S, f), KeptBy(S, f), f \in Free(m) \/ f \in L)
  BY <1>2 DEF Good
<1>8. Count(S, f) \in Nat /\ Count(S, f) > 0 /\ Count(T, f) = Count(S, f) - 1 BY <1>6, Finite
<1>9. KeptBy(S, f) = {} /\ f \notin Free(m) /\ f \notin L /\ m.ref[f].count = Count(S, f) + Extra(f)
  <2>1. PICK k : k = Count(S, f) OBVIOUS
  <2>2. k \in Nat /\ k > 0 BY <1>8, <2>1
  <2>3. k # 0 BY ONLY <2>2
  <2>4. Count(S, f) # 0 BY <2>1, <2>3
  <2>5. KeptBy(S, f) = {} BY <1>7, <2>4 DEF State
  <2> QED BY <1>7, <2>4, <2>5 DEF State
<1>10. /\ m.ref[f].count \in Nat /\ m.ref[f].count # 0
       /\ m.ref[f].count = 1 \/ m.ref[f].count > 1
  <2>1. PICK k : k = m.ref[f].count OBVIOUS
  <2>2. k \in Nat /\ k # 0 BY <1>8, <1>9, <2>1 DEF Extra
  <2>3. k = 1 \/ k > 1 BY ONLY <2>2
  <2> QED BY <2>1, <2>2, <2>3
<1>11. /\ m.ref[f].count = 1 => Freed(m, n, f)
       /\ m.ref[f].count > 1 => Recount(m, n, f, m.ref[f].count - 1)
  BY <1>1, <1>2, <1>9, <1>10, ReleaseEffect
<1>12. \A g \in Frame : g # f => n.ref[g] = m.ref[g]
  <2>1. n \in MemT
    <3>1. Freed(m, n, f) => n \in MemT BY Zenon DEF Freed
    <3>2. Recount(m, n, f, m.ref[f].count - 1) => n \in MemT BY Zenon DEF Recount
    <3> QED BY Zenon, <1>10, <1>11, <3>1, <3>2
  <2>2. ASSUME NEW g \in Frame, g # f PROVE n.ref[g] = m.ref[g]
    <3>1. n.ref[g] \in RefT /\ m.ref[g] \in RefT BY <1>1, <2>1 DEF MemT
    <3>2. /\ n.ref[g].there = m.ref[g].there /\ n.ref[g].hw = m.ref[g].hw
          /\ n.ref[g].count = m.ref[g].count
      <4>1. CASE m.ref[f].count = 1 BY <1>11, <2>2, <4>1 DEF Freed
      <4>2. CASE m.ref[f].count > 1 BY <1>11, <2>2, <4>2 DEF Recount
      <4> QED BY <1>10, <4>1, <4>2
    <3> QED BY ONLY <3>1, <3>2, RefEqual
  <2> QED BY <2>2
<1>13. T \in [Proc -> SpaceT] BY <1>4 DEF PteStep
<1>14. L \in SUBSET G BY DEF Good
<1>15. Good(n, T, L) /\ Used(n) /\ n.fail = m.fail
  <2>1. CASE m.ref[f].count = 1
    <3>1. Freed(m, n, f) BY <1>11, <2>1
    <3>2. Apartness(m, n, S, T, L, L, f)
      <4>1. \A g \in G : g # None BY Frames
      <4> QED BY <1>6, <3>1, <4>1 DEF Apartness, Freed
    <3>3. Count(T, f) = 0 /\ f # KernelEnd BY <1>8, <1>9, <2>1 DEF Extra
    <3>4. State(f, n.ref[f].count, Count(T, f), KeptBy(T, f), f \in Free(n) \/ f \in L)
      <4>1. n.ref[f].count = 0 /\ f \in Free(n) BY <3>1 DEF Freed
      <4>2. KeptBy(T, f) = {} BY <1>6, <1>9
      <4> QED BY <3>3, <4>1, <4>2 DEF State, Extra
    <3>5. Good(n, T, L)
      BY <1>2, <1>9, <1>13, <1>14, <3>1, <3>2, <3>4, FrameStep DEF Freed
    <3> QED BY <3>1, <3>3, <3>5 DEF Freed, Used
  <2>2. CASE m.ref[f].count > 1
    <3>1. Recount(m, n, f, m.ref[f].count - 1) BY <1>11, <2>2
    <3>2. n \in MemT /\ n.fail = m.fail /\ n.free = m.free /\ ListOK(n) /\ Free(n) = Free(m)
      BY <1>1, <3>1 DEF Recount, ListOK, Free
    <3>3. Apartness(m, n, S, T, L, L, f)
      <4>1. \A g \in G : g # None BY Frames
      <4> QED BY <1>6, <3>1, <3>2, <4>1 DEF Apartness, Recount
    <3>4. State(f, n.ref[f].count, Count(T, f), KeptBy(T, f), f \in Free(n) \/ f \in L)
      <4>1. n.ref[f].count = m.ref[f].count - 1 BY <3>1 DEF Recount
      <4>2. KeptBy(T, f) = {} BY <1>6, <1>9
      <4>3. ~(f \in Free(n) \/ f \in L) BY <1>9, <3>2
      <4>4. n.ref[f].count = Count(T, f) + Extra(f) /\ (f # KernelEnd => Count(T, f) # 0)
        BY <1>8, <1>9, <2>2, <4>1 DEF Extra
      <4> QED BY <4>2, <4>3, <4>4 DEF State
    <3>5. Good(n, T, L)
      BY <1>2, <1>9, <1>13, <1>14, <3>2, <3>3, <3>4, FrameStep
    <3> QED BY <3>2, <3>5 DEF Used
  <2> QED BY <1>10, <2>1, <2>2
<1> QED BY <1>2, <1>3, <1>4, <1>9, <1>10, <1>12, <1>15

--------------------------------------------------------------------------------
\* A frame taken from the list becomes a directory or a table.
LEMMA RootGood ==
    ASSUME NEW m, NEW S, NEW L, Good(m, S, L), NEW p \in Proc, NEW j \in Slot,
           Root(S[p], j) = None, NEW f \in L, f # KernelEnd,
           NEW n, (n = m /\ j # -1) \/ n = AcquireRef(m, f),
           NEW s, s = SetRoot(S[p], j, f)
    PROVE  /\ Good(n, Put(S, p, s), L \ {f}) /\ n.fail = m.fail /\ n.free = m.free
           /\ s \in SpaceT
<1>1. S \in [Proc -> SpaceT] /\ m \in MemT /\ ListOK(m) /\ Static(m) /\ f \in G /\ L \in SUBSET G
  BY DEF Good
<1>2. PICK T : T = Put(S, p, s) OBVIOUS
<1>3. s \in SpaceT /\ SlotStep(S, T, p, j, None, f)
  <2>1. s \in SpaceT /\ SlotStep(S, T, p, j, Root(S[p], j), f)
    <3>1. f \in G \cup {None} BY <1>1
    <3>2. /\ S \in [Proc -> SpaceT] /\ p \in Proc /\ j \in Slot /\ T = [S EXCEPT ![p] = s]
          /\ s = IF j = -1 THEN [S[p] EXCEPT !.dir = f] ELSE [S[p] EXCEPT !.table[j] = f]
      BY <1>1, <1>2 DEF Put, SetRoot
    <3> QED BY ONLY <3>1, <3>2, SlotUse
  <2> QED BY <2>1
<1>4. f \in Frame /\ f # None /\ m.ref[f].there BY <1>1, Frames DEF Static
<1>5. \A g \in G : /\ Count(T, g) = Count(S, g)
                   /\ g # f => KeptBy(T, g) = KeptBy(S, g)
                   /\ g = f => KeptBy(T, g) = KeptBy(S, g) \cup {<<p, j>>}
  <2>1. ASSUME NEW g \in G
        PROVE  /\ Count(T, g) = Count(S, g)
               /\ g # f => KeptBy(T, g) = KeptBy(S, g)
               /\ g = f => KeptBy(T, g) = KeptBy(S, g) \cup {<<p, j>>}
    <3>1. g # None BY Frames
    <3>2. /\ Count(T, g) = Count(S, g)
          /\ f = g => KeptBy(T, g) = KeptBy(S, g) \cup {<<p, j>>}
          /\ f # g => KeptBy(T, g) = KeptBy(S, g) \ {<<p, j>>}
          /\ None = g <=> <<p, j>> \in KeptBy(S, g)
      BY <1>3, SlotKept
    <3> QED BY <3>1, <3>2
  <2> QED BY <2>1
<1>6. State(f, m.ref[f].count, Count(S, f), KeptBy(S, f), f \in Free(m) \/ f \in L)
  BY <1>1 DEF Good
<1>7. Count(S, f) = 0 /\ KeptBy(S, f) = {} /\ m.ref[f].count = 0
  <2>1. f \in Free(m) \/ f \in L OBVIOUS
  <2> QED BY <1>6, <2>1 DEF State, Extra
<1>8. /\ n \in MemT /\ n.free = m.free /\ n.avail = m.avail /\ n.fail = m.fail
      /\ n.ref[f].count \in {0, 1} /\ (j = -1 => n.ref[f].count = 1)
      /\ \A g \in Frame : /\ n.ref[g].there = m.ref[g].there /\ n.ref[g].hw = m.ref[g].hw
                          /\ g # f => n.ref[g].count = m.ref[g].count
  <2>1. CASE n = m /\ j # -1 BY <1>1, <1>7, <2>1
  <2>2. CASE n = AcquireRef(m, f)
    <3>1. Recount(m, n, f, m.ref[f].count + 1) BY <1>1, <1>4, <2>2, AcquireEffect
    <3> QED BY <1>7, <3>1 DEF Recount
  <2> QED BY <2>1, <2>2
<1>9. ListOK(n) /\ Free(n) = Free(m) BY <1>1, <1>8 DEF ListOK, Free
<1>10. f \notin Free(n) /\ f \notin L \ {f} BY <1>9 DEF Good
<1>11. Apartness(m, n, S, T, L, L \ {f}, f)
  BY <1>5, <1>8, <1>9 DEF Apartness
<1>12. State(f, n.ref[f].count, Count(T, f), KeptBy(T, f), f \in Free(n) \/ f \in L \ {f})
  <2>1. KeptBy(T, f) = {<<p, j>>} /\ Count(T, f) = 0 BY <1>1, <1>5, <1>7
  <2>2. \A h \in KeptBy(T, f) : h[2] = -1 => n.ref[f].count = 1 BY <1>8, <2>1
  <2> QED BY <1>8, <1>10, <2>1, <2>2 DEF State
<1>13. T \in [Proc -> SpaceT] BY <1>3 DEF SlotStep
<1>14. Good(n, T, L \ {f})
  <2>1. L \ {f} \in SUBSET G BY <1>1
  <2> QED BY <1>1, <1>8, <1>9, <1>10, <1>11, <1>12, <1>13, <2>1, FrameStep
<1> QED BY <1>2, <1>3, <1>8, <1>14

\* A directory or table is given back.
LEMMA DropGood ==
    ASSUME NEW m, NEW S, NEW L, Good(m, S, L), Used(m), NEW p \in Proc, NEW j \in Slot,
           NEW f \in G, f = Root(S[p], j),
           NEW n, n = FreeFrames(m, f, 1) \/ (n = ReleaseRef(m, f) /\ m.ref[f].count = 1),
           NEW s, s = SetRoot(S[p], j, None)
    PROVE  /\ Good(n, Put(S, p, s), L) /\ Used(n) /\ n.fail = m.fail
           /\ s \in SpaceT
           /\ \A g \in Frame : g # f => n.ref[g] = m.ref[g]
<1>1. S \in [Proc -> SpaceT] /\ m \in MemT /\ ListOK(m) /\ Static(m) /\ L \in SUBSET G /\ Keyed(m.free)
  BY DEF Good, Used
<1>2. PICK T : T = Put(S, p, s) OBVIOUS
<1>3. s \in SpaceT /\ SlotStep(S, T, p, j, f, None)
  <2>1. s \in SpaceT /\ SlotStep(S, T, p, j, Root(S[p], j), None)
    <3>1. None \in G \cup {None} OBVIOUS
    <3>2. /\ S \in [Proc -> SpaceT] /\ p \in Proc /\ j \in Slot /\ T = [S EXCEPT ![p] = s]
          /\ s = IF j = -1 THEN [S[p] EXCEPT !.dir = None] ELSE [S[p] EXCEPT !.table[j] = None]
      BY <1>1, <1>2 DEF Put, SetRoot
    <3> QED BY ONLY <3>1, <3>2, SlotUse
  <2> QED BY <2>1
<1>4. f \in Frame /\ f # None BY Frames
<1>5. \A g \in G : /\ Count(T, g) = Count(S, g)
                   /\ g # f => KeptBy(T, g) = KeptBy(S, g)
                   /\ g = f => (KeptBy(T, g) = KeptBy(S, g) \ {<<p, j>>} /\ <<p, j>> \in KeptBy(S, g))
  <2>1. ASSUME NEW g \in G
        PROVE  /\ Count(T, g) = Count(S, g)
               /\ g # f => KeptBy(T, g) = KeptBy(S, g)
               /\ g = f => (KeptBy(T, g) = KeptBy(S, g) \ {<<p, j>>} /\ <<p, j>> \in KeptBy(S, g))
    <3>1. g # None BY Frames
    <3>2. /\ Count(T, g) = Count(S, g)
          /\ None # g => KeptBy(T, g) = KeptBy(S, g) \ {<<p, j>>}
          /\ f = g <=> <<p, j>> \in KeptBy(S, g)
      BY <1>3, SlotKept
    <3> QED BY <3>1, <3>2
  <2> QED BY <2>1
<1>6. State(f, m.ref[f].count, Count(S, f), KeptBy(S, f), f \in Free(m) \/ f \in L)
  BY <1>1 DEF Good
<1>7. /\ Count(S, f) = 0 /\ f # KernelEnd /\ f \notin Free(m) /\ f \notin L
      /\ KeptBy(T, f) = {}
  <2>1. <<p, j>> \in KeptBy(S, f) /\ KeptBy(T, f) = KeptBy(S, f) \ {<<p, j>>} BY <1>5
  <2>2. \A h, k \in KeptBy(S, f) : h = k BY <1>6, <2>1 DEF State
  <2> QED BY <1>6, <2>1, <2>2 DEF State
<1>8. Freed(m, n, f)
  <2>1. CASE n = FreeFrames(m, f, 1) BY <1>1, <1>7, <2>1, FreeEffect
  <2>2. CASE n = ReleaseRef(m, f) /\ m.ref[f].count = 1 BY <1>1, <1>7, <2>2, ReleaseEffect
  <2> QED BY <2>1, <2>2
<1>9. Apartness(m, n, S, T, L, L, f) BY <1>5, <1>8 DEF Apartness, Freed
<1>10. State(f, n.ref[f].count, Count(T, f), KeptBy(T, f), f \in Free(n) \/ f \in L)
  <2>1. n.ref[f].count = 0 /\ f \in Free(n) BY <1>8 DEF Freed
  <2>2. Count(T, f) = 0 BY <1>5, <1>7
  <2> QED BY <1>7, <2>1, <2>2 DEF State, Extra
<1>11. T \in [Proc -> SpaceT] BY <1>3 DEF SlotStep
<1>12. Good(n, T, L)
  BY <1>1, <1>7, <1>8, <1>9, <1>10, <1>11, FrameStep DEF Freed
<1>13. Used(n) BY <1>7, <1>8 DEF Used, Freed
<1>14. \A g \in Frame : g # f => n.ref[g] = m.ref[g]
  <2>1. n \in MemT BY <1>8 DEF Freed
  <2>2. ASSUME NEW g \in Frame, g # f PROVE n.ref[g] = m.ref[g]
    <3>1. n.ref[g] \in RefT /\ m.ref[g] \in RefT BY <1>1, <2>1 DEF MemT
    <3>2. /\ n.ref[g].there = m.ref[g].there /\ n.ref[g].hw = m.ref[g].hw
          /\ n.ref[g].count = m.ref[g].count
      BY <1>8, <2>2 DEF Freed
    <3> QED BY <3>1, <3>2 DEF RefT
  <2> QED BY <2>2
<1> QED BY <1>2, <1>3, <1>8, <1>12, <1>13, <1>14 DEF Freed

--------------------------------------------------------------------------------
\* References that a mapping for a while takes and drops.

\* A reference taken and released again leaves the memory as it was.
LEMMA Noop ==
    ASSUME NEW m \in MemT, NEW f \in Frame, m.ref[f].there, m.ref[f].count # 0
    PROVE  ReleaseRef(AcquireRef(m, f), f) = m
<1>1. PICK n : n = AcquireRef(m, f) OBVIOUS
<1>2. m.ref[f] \in RefT /\ m.ref[f].count \in Nat BY DEF MemT, RefT
<1>3. n = [m EXCEPT !.ref = [m.ref EXCEPT ![f] = [m.ref[f] EXCEPT !.count = m.ref[f].count + 1]]]
  BY <1>1 DEF AcquireRef, MemT
<1>4. /\ n.ref = [m.ref EXCEPT ![f] = [m.ref[f] EXCEPT !.count = m.ref[f].count + 1]]
      /\ n.ref[f] = [m.ref[f] EXCEPT !.count = m.ref[f].count + 1]
      /\ n.ref[f].there /\ n.ref[f].count = m.ref[f].count + 1
  BY <1>2, <1>3 DEF MemT, RefT
<1>5. ReleaseRef(n, f) = [n EXCEPT !.ref = [n.ref EXCEPT ![f] = [n.ref[f] EXCEPT !.count = n.ref[f].count - 1]]]
  BY <1>2, <1>4 DEF ReleaseRef
<1>6. [n.ref[f] EXCEPT !.count = n.ref[f].count - 1] = m.ref[f]
  <2>1. n.ref[f].count - 1 = m.ref[f].count BY <1>2, <1>4
  <2> QED BY <1>2, <1>4, <2>1 DEF RefT
<1>7. [n.ref EXCEPT ![f] = m.ref[f]] = m.ref BY <1>4 DEF MemT
<1>8. [n EXCEPT !.ref = m.ref] = m BY <1>3 DEF MemT
<1> QED BY <1>1, <1>5, <1>6, <1>7, <1>8

\* The record with the count of f raised.
Raised(m, f) == [m EXCEPT !.ref = [m.ref EXCEPT ![f] = [m.ref[f] EXCEPT !.count = m.ref[f].count + 1]]]

\* Raised is mem_mgt_acquire_frame_ref on a frame of the table.
LEMMA RaisedIs ==
    ASSUME NEW m \in MemT, NEW f \in Frame, NEW n, n = Raised(m, f)
    PROVE  /\ m.ref[f].there => AcquireRef(m, f) = n
           /\ n \in MemT /\ n.free = m.free /\ n.avail = m.avail /\ n.fail = m.fail
           /\ n.ref[f].count = m.ref[f].count + 1
           /\ n.ref[f].there = m.ref[f].there /\ n.ref[f].hw = m.ref[f].hw
           /\ \A g \in Frame : g # f => n.ref[g] = m.ref[g]
<1>1. m.ref[f] \in RefT /\ m.ref[f].count \in Nat BY DEF MemT, RefT
<1>2. m.ref[f].there => AcquireRef(m, f) = n BY DEF Raised, AcquireRef, MemT
<1>3. PICK r : r = [m.ref[f] EXCEPT !.count = m.ref[f].count + 1] OBVIOUS
<1>4. /\ r \in RefT /\ r.count = m.ref[f].count + 1
      /\ r.there = m.ref[f].there /\ r.hw = m.ref[f].hw
  BY <1>1, <1>3 DEF RefT
<1>5. n = [m EXCEPT !.ref = [m.ref EXCEPT ![f] = r]] BY <1>3 DEF Raised
<1>6. /\ n.free = m.free /\ n.avail = m.avail /\ n.fail = m.fail /\ n \in MemT
      /\ n.ref = [m.ref EXCEPT ![f] = r]
  BY <1>4, <1>5 DEF MemT
<1> QED BY <1>2, <1>4, <1>6 DEF MemT

\* The record after a release of e: its new count and the fields of the list.
Settled(m, e, k, q, v, x) ==
    [free |-> q, avail |-> v, ref |-> [m.ref EXCEPT ![e] = [m.ref[e] EXCEPT !.count = k]], fail |-> x]

\* What mem_mgt_release_frame_ref does, field by field.
LEMMA SettledIs ==
    ASSUME NEW m \in MemT, NEW e \in Frame, m.ref[e].there, m.ref[e].count # 0
    PROVE  LET twice == FreedTwice(m.free, e, 1)
               last  == m.ref[e].count = 1 /\ ~m.ref[e].hw
           IN  ReleaseRef(m, e) =
                   Settled(m, e, m.ref[e].count - 1,
                           IF last /\ ~twice THEN AddBlock(m.free, e, 1) ELSE m.free,
                           IF last /\ ~twice THEN m.avail + 1 ELSE m.avail,
                           IF last /\ twice /\ m.fail = "none" THEN "freed_twice" ELSE m.fail)
<1>1. m.ref[e] \in RefT /\ m.ref[e].count \in Nat BY DEF MemT, RefT
<1>2. PICK k : k = m.ref[e].count - 1 OBVIOUS
<1>3. PICK r : r = [m.ref[e] EXCEPT !.count = k] OBVIOUS
<1>4. PICK d : d = [m EXCEPT !.ref[e].count = k] OBVIOUS
<1>5. d = [m EXCEPT !.ref = [m.ref EXCEPT ![e] = r]] BY <1>3, <1>4 DEF MemT
<1>6. /\ d.free = m.free /\ d.avail = m.avail /\ d.fail = m.fail
      /\ d.ref = [m.ref EXCEPT ![e] = r] /\ d.ref[e] = r
  BY <1>5 DEF MemT
<1>7. r.count = k /\ r \in [there : BOOLEAN, hw : BOOLEAN, count : Int] BY <1>1, <1>2, <1>3 DEF RefT
<1>8. d = Settled(m, e, k, m.free, m.avail, m.fail) BY <1>3, <1>5 DEF MemT, Settled
<1>9. CASE ~(m.ref[e].count = 1 /\ ~m.ref[e].hw)
  <2>1. ReleaseRef(m, e) = d BY <1>2, <1>4, <1>9 DEF ReleaseRef
  <2> QED BY <1>2, <1>8, <1>9, <2>1
<1>10. CASE m.ref[e].count = 1 /\ ~m.ref[e].hw
  <2>1. ReleaseRef(m, e) = FreeFrames(d, e, 1) BY <1>2, <1>4, <1>10 DEF ReleaseRef
  <2>2. k = 0 BY <1>2, <1>10
  <2>3. CASE FreedTwice(m.free, e, 1)
    <3>1. FreeFrames(d, e, 1) = Fail(d, "freed_twice") BY <1>6, <2>3 DEF FreeFrames
    <3>2. Fail(d, "freed_twice") = Settled(m, e, k, m.free, m.avail,
              IF m.fail = "none" THEN "freed_twice" ELSE m.fail)
      BY <1>8, <1>6 DEF Fail, Settled
    <3> QED BY <1>2, <1>10, <2>1, <2>3, <3>1, <3>2
  <2>4. CASE ~FreedTwice(m.free, e, 1)
    <3>1. PICK q : q = AddBlock(m.free, e, 1) OBVIOUS
    <3>2. FreeFrames(d, e, 1) = [d EXCEPT !.free = q, !.avail = m.avail + 1, !.ref[e].count = 0]
      BY <1>6, <2>4, <3>1 DEF FreeFrames
    <3>3. [d.ref EXCEPT ![e].count = 0] = d.ref
      <4>1. [r EXCEPT !.count = 0] = r BY <1>7, <2>2
      <4> QED BY <1>6, <4>1 DEF MemT
    <3>4. [d EXCEPT !.free = q, !.avail = m.avail + 1, !.ref[e].count = 0]
            = [free |-> q, avail |-> m.avail + 1, ref |-> d.ref, fail |-> m.fail]
      <4>1. [d EXCEPT !.free = q, !.avail = m.avail + 1, !.ref[e].count = 0]
              = [d EXCEPT !.free = q, !.avail = m.avail + 1, !.ref = [d.ref EXCEPT ![e].count = 0]]
        BY <1>8 DEF Settled
      <4>2. [d EXCEPT !.free = q, !.avail = m.avail + 1, !.ref = d.ref]
              = [free |-> q, avail |-> m.avail + 1, ref |-> d.ref, fail |-> m.fail]
        <5>1. PICK z, z2 : z = m.avail + 1 /\ z2 = d.ref OBVIOUS
        <5>2. /\ d \in [free : {m.free}, avail : {m.avail}, ref : {z2}, fail : {m.fail}]
              /\ d.fail = m.fail
          BY <1>8, <1>6, <5>1 DEF Settled
        <5>3. [d EXCEPT !.free = q, !.avail = z, !.ref = z2]
                = [free |-> q, avail |-> z, ref |-> z2, fail |-> m.fail]
          <6>1. PICK h : h = [d EXCEPT !.free = q, !.avail = z, !.ref = z2] OBVIOUS
          <6>2. h \in [free : {q}, avail : {z}, ref : {z2}, fail : {m.fail}]
            BY <5>2, <6>1
          <6>3. h = [free |-> q, avail |-> z, ref |-> z2, fail |-> m.fail] BY ONLY <6>2
          <6> QED BY <6>1, <6>3
        <5> QED BY <5>1, <5>3
      <4> QED BY <3>3, <4>1, <4>2
    <3>5. FreeFrames(d, e, 1) = Settled(m, e, k, q, m.avail + 1, m.fail)
      BY <1>3, <1>6, <3>2, <3>4 DEF Settled
    <3> QED BY <1>2, <1>10, <2>1, <2>4, <3>1, <3>5
  <2> QED BY <2>3, <2>4
<1> QED BY <1>9, <1>10

\* A reference of d does not meet the release of e.
LEMMA Commute ==
    ASSUME NEW m \in MemT, NEW d \in Frame, NEW e \in Frame, d # e,
           m.ref[d].there, m.ref[e].there, m.ref[e].count # 0, ReleaseRef(m, e) \in MemT
    PROVE  ReleaseRef(AcquireRef(m, d), e) = AcquireRef(ReleaseRef(m, e), d)
<1>1. PICK n : n = Raised(m, d) OBVIOUS
<1>2. /\ AcquireRef(m, d) = n /\ n \in MemT /\ n.free = m.free /\ n.avail = m.avail
      /\ n.fail = m.fail /\ n.ref[e] = m.ref[e]
  BY <1>1, RaisedIs
<1>3. PICK k, q, v, x : /\ ReleaseRef(m, e) = Settled(m, e, k, q, v, x)
                        /\ ReleaseRef(n, e) = Settled(n, e, k, q, v, x)
  BY <1>2, SettledIs
<1>4. PICK o : o = Settled(m, e, k, q, v, x) OBVIOUS
<1>5. o \in MemT /\ o = ReleaseRef(m, e) BY <1>3, <1>4
<1>6. /\ o.ref = [m.ref EXCEPT ![e] = [m.ref[e] EXCEPT !.count = k]]
      /\ o.free = q /\ o.avail = v /\ o.fail = x
      /\ o.ref[d] = m.ref[d]
  BY <1>4 DEF Settled, MemT
<1>7. AcquireRef(o, d) = Raised(o, d)
  <2>1. o \in MemT /\ o.ref[d].there BY <1>5, <1>6
  <2> QED BY ONLY <2>1, d \in Frame, RaisedIs
<1>8. Raised(o, d) = Settled(n, e, k, q, v, x)
  <2>1. PICK r : r = [m.ref[d] EXCEPT !.count = m.ref[d].count + 1] OBVIOUS
  <2>2. PICK u : u = [m.ref[e] EXCEPT !.count = k] OBVIOUS
  <2>3. n.ref = [m.ref EXCEPT ![d] = r] BY <1>1, <2>1 DEF Raised, MemT
  <2>4. Settled(n, e, k, q, v, x) =
            [free |-> q, avail |-> v, ref |-> [[m.ref EXCEPT ![d] = r] EXCEPT ![e] = u], fail |-> x]
    BY <1>2, <2>2, <2>3 DEF Settled
  <2>5. Raised(o, d) =
            [free |-> q, avail |-> v, ref |-> [[m.ref EXCEPT ![e] = u] EXCEPT ![d] = r], fail |-> x]
    BY <1>4, <1>6, <2>1, <2>2 DEF Raised, Settled
  <2>6. [[m.ref EXCEPT ![e] = u] EXCEPT ![d] = r] = [[m.ref EXCEPT ![d] = r] EXCEPT ![e] = u]
    BY DEF MemT
  <2> QED BY <2>4, <2>5, <2>6
<1> QED BY <1>2, <1>3, <1>4, <1>5, <1>7, <1>8

\* Nor does the reference of another frame, nor the allocation.
LEMMA Raise2 ==
    ASSUME NEW m \in MemT, NEW d \in Frame, NEW e \in Frame, m.ref[d].there, m.ref[e].there
    PROVE  AcquireRef(AcquireRef(m, d), e) = AcquireRef(AcquireRef(m, e), d)
<1>1. CASE d = e BY <1>1
<1>2. CASE d # e
  <2>1. PICK n : n = Raised(m, d) OBVIOUS
  <2>2. PICK o : o = Raised(m, e) OBVIOUS
  <2>3. /\ AcquireRef(m, d) = n /\ n \in MemT /\ n.ref[e] = m.ref[e] /\ n.ref[e].there
        /\ AcquireRef(m, e) = o /\ o \in MemT /\ o.ref[d] = m.ref[d] /\ o.ref[d].there
    BY <1>2, <2>1, <2>2, RaisedIs
  <2>4. AcquireRef(n, e) = Raised(n, e) /\ AcquireRef(o, d) = Raised(o, d) BY <2>3, RaisedIs
  <2>5. PICK r : r = [m.ref[d] EXCEPT !.count = m.ref[d].count + 1] OBVIOUS
  <2>6. PICK u : u = [m.ref[e] EXCEPT !.count = m.ref[e].count + 1] OBVIOUS
  <2>7. Raised(n, e) = [m EXCEPT !.ref = [[m.ref EXCEPT ![d] = r] EXCEPT ![e] = u]]
    BY <2>1, <2>3, <2>5, <2>6 DEF Raised, MemT
  <2>8. Raised(o, d) = [m EXCEPT !.ref = [[m.ref EXCEPT ![e] = u] EXCEPT ![d] = r]]
    BY <2>2, <2>3, <2>5, <2>6 DEF Raised, MemT
  <2>9. [[m.ref EXCEPT ![e] = u] EXCEPT ![d] = r] = [[m.ref EXCEPT ![d] = r] EXCEPT ![e] = u]
    BY <1>2 DEF MemT
  <2> QED BY <2>3, <2>4, <2>7, <2>8, <2>9
<1> QED BY <1>1, <1>2

\* Taking a reference and allocating a frame may be swapped.
LEMMA RaiseAlloc ==
    ASSUME NEW m \in MemT, NEW d \in Frame, m.ref[d].there, HasBlock(m.free, 1),
           AllocFrames(m, 1) \in MemT
    PROVE  /\ AllocFrames(AcquireRef(m, d), 1) = AcquireRef(AllocFrames(m, 1), d)
           /\ FrameAddress(AcquireRef(m, d), 1) = FrameAddress(m, 1)
           /\ HasBlock(AcquireRef(m, d).free, 1)
<1>1. PICK n : n = Raised(m, d) OBVIOUS
<1>2. /\ AcquireRef(m, d) = n /\ n \in MemT /\ n.free = m.free /\ n.avail = m.avail
  BY <1>1, RaisedIs
<1>3. PICK q : q = GetBlock(m.free, 1, "BEGINING") OBVIOUS
<1>4. PICK o : o = AllocFrames(m, 1) OBVIOUS
<1>5. o = [m EXCEPT !.free = q, !.avail = m.avail - 1] BY <1>3, <1>4 DEF AllocFrames
<1>6. o \in MemT /\ o.ref = m.ref BY <1>4, <1>5 DEF MemT
<1>7. AcquireRef(o, d) = Raised(o, d) BY <1>6, RaisedIs
<1>8. AllocFrames(n, 1) = [n EXCEPT !.free = q, !.avail = m.avail - 1]
  BY <1>2, <1>3 DEF AllocFrames
<1>9. PICK r : r = [m.ref EXCEPT ![d] = [m.ref[d] EXCEPT !.count = m.ref[d].count + 1]] OBVIOUS
<1>10. n = [m EXCEPT !.ref = r] BY <1>1, <1>9 DEF Raised
<1>11. Raised(o, d) = [o EXCEPT !.ref = r] BY <1>6, <1>9 DEF Raised
<1>12. [[m EXCEPT !.ref = r] EXCEPT !.free = q, !.avail = m.avail - 1]
         = [[m EXCEPT !.free = q, !.avail = m.avail - 1] EXCEPT !.ref = r]
  BY DEF MemT
<1>13. FrameAddress(n, 1) = FrameAddress(m, 1) BY <1>2 DEF FrameAddress
<1> QED BY <1>2, <1>4, <1>5, <1>7, <1>8, <1>10, <1>11, <1>12, <1>13

--------------------------------------------------------------------------------
\* After a failure: nothing but its cause is seen of the rest of the operation.
Stuck(m, c) == DOMAIN m = {"free", "avail", "ref", "fail"} /\ m.fail = c /\ c # "none"

\* A failure stays: no later call of the memory manager changes its cause.
LEMMA StuckStep ==
    ASSUME NEW m, NEW c, Stuck(m, c)
    PROVE  /\ \A k : Stuck(AllocFrames(m, k), c)
           /\ \A x : Stuck(Fail(m, x), c)
           /\ \A f : Stuck(AcquireRef(m, f), c)
           /\ \A f, k : Stuck(FreeFrames(m, f, k), c)
           /\ \A f : Stuck(ReleaseRef(m, f), c)
<1>1. ASSUME NEW x PROVE Fail(m, x) = m BY DEF Fail, Stuck
<1>2. ASSUME NEW k PROVE Stuck(AllocFrames(m, k), c)
  BY <1>1 DEF AllocFrames, Stuck
<1>3. ASSUME NEW f PROVE Stuck(AcquireRef(m, f), c)
  BY <1>1 DEF AcquireRef, Stuck
<1>4. ASSUME NEW n, Stuck(n, c), NEW f, NEW k PROVE Stuck(FreeFrames(n, f, k), c)
  <2>1. Fail(n, "freed_twice") = n BY <1>4 DEF Fail, Stuck
  <2> QED BY <1>4, <2>1 DEF FreeFrames, Stuck
<1>5. ASSUME NEW f PROVE Stuck(ReleaseRef(m, f), c)
  <2>1. PICK d : d = [m EXCEPT !.ref[f].count = @ - 1] OBVIOUS
  <2>2. Stuck(d, c) BY <2>1 DEF Stuck
  <2> QED BY <1>1, <1>4, <2>1, <2>2 DEF ReleaseRef
<1> QED BY <1>1, <1>2, <1>3, <1>4, <1>5

\* The first failure sets the cause.
LEMMA StuckStart ==
    ASSUME NEW m \in MemT, m.fail = "none", NEW x, x # "none"
    PROVE  Stuck(Fail(m, x), x)
BY DEF Fail, Stuck, MemT

--------------------------------------------------------------------------------
\* Division rounds down.
LEMMA Digits ==
    ASSUME NEW a \in Int, NEW n \in Nat \ {0}
    PROVE  /\ a \div n \in Int
           /\ n * (a \div n) <= a /\ a < n * (a \div n) + n
OBVIOUS

\* A smaller quotient is smaller by a whole divisor.
LEMMA Below ==
    ASSUME NEW x \in Int, NEW y \in Int, NEW n \in Nat \ {0}, x < y
    PROVE  n * x + n <= n * y
<1>1. n * y - (n * x + n) = n * (y - x - 1) OBVIOUS
<1>2. y - x - 1 >= 0 OBVIOUS
<1>3. \A u, v \in Nat : u * v >= 0 OBVIOUS
<1>4. y - x - 1 \in Nat /\ n \in Nat BY <1>2
<1>5. n * (y - x - 1) >= 0 BY <1>3, <1>4
<1>6. n * y \in Int /\ n * x \in Int /\ n * (y - x - 1) \in Int OBVIOUS
<1> QED BY <1>1, <1>5, <1>6

\* A quotient is determined by the interval that holds the number.
LEMMA Quotient ==
    ASSUME NEW a \in Int, NEW n \in Nat \ {0}, NEW t \in Int, n * t <= a, a < n * t + n
    PROVE  a \div n = t
<1>1. PICK q : q = a \div n OBVIOUS
<1>2. q \in Int /\ n * q <= a /\ a < n * q + n BY <1>1, Digits
<1>3. ~(q < t)
  <2>1. q < t => n * q + n <= n * t BY <1>2, Below
  <2>2. n * q \in Int /\ n * t \in Int BY <1>2
  <2> QED BY <1>2, <2>1, <2>2
<1>4. ~(t < q)
  <2>1. t < q => n * t + n <= n * q BY <1>2, Below
  <2>2. n * q \in Int /\ n * t \in Int BY <1>2
  <2> QED BY <1>2, <2>1, <2>2
<1> QED BY <1>1, <1>2, <1>3, <1>4

\* The pages of a table.
LEMMA PagesOfTables ==
    /\ NbTables \in Nat \ {0} /\ TableSize \in Nat \ {0} /\ Page \subseteq Nat
    /\ \A a \in Page : TableOf(a) \in Table
    /\ \A t \in Table : \A i \in 0 .. TableSize - 1 :
           t * TableSize + i \in Page /\ TableOf(t * TableSize + i) = t
    /\ \A a \in Page : \E i \in 0 .. TableSize - 1 : a = TableOf(a) * TableSize + i
    /\ \A t \in Table : \A i, j \in 0 .. TableSize - 1 :
           i # j => t * TableSize + i # t * TableSize + j
<1>1. NbTables \in Nat \ {0} /\ TableSize \in Nat \ {0} BY MemoryAssumption
<1>2. PICK n, k : n = TableSize /\ k = NbTables OBVIOUS
<1>3. Page = 0 .. k * n - 1 /\ Table = 0 .. k - 1 /\ k \in Nat \ {0} /\ n \in Nat \ {0}
  BY <1>1, <1>2 DEF Page, Table
<1>4. k * n = n * k /\ k * n \in Nat BY <1>3
<1>5. ASSUME NEW a \in Page
      PROVE  a \div n \in Table /\ \E i \in 0 .. n - 1 : a = (a \div n) * n + i
  <2>1. a \in Int /\ 0 <= a /\ a < n * k BY <1>3, <1>4
  <2>2. PICK q : q = a \div n OBVIOUS
  <2>3. q \in Int /\ n * q <= a /\ a < n * q + n BY <1>3, <2>1, <2>2, Digits
  <2>4. n * q \in Int /\ q * n = n * q BY <1>3, <2>3
  <2>5. ~(q < 0)
    <3>1. q < 0 => n * q + n <= n * 0 BY <1>3, <2>3, Below
    <3>2. n * 0 = 0 BY <1>3
    <3> QED BY <1>3, <2>1, <2>3, <2>4, <3>1, <3>2
  <2>6. ~(k - 1 < q)
    <3>1. k <= q => n * k <= n * q
      <4>1. CASE k = q BY <1>3, <1>4, <4>1
      <4>2. CASE k < q
        <5>1. n * k + n <= n * q BY <1>3, <2>3, <4>2, Below
        <5> QED BY <1>3, <1>4, <2>4, <5>1
      <4> QED BY <1>3, <2>3, <4>1, <4>2
    <3> QED BY <1>3, <1>4, <2>1, <2>3, <2>4, <3>1
  <2>7. a - n * q \in 0 .. n - 1 /\ a = q * n + (a - n * q) BY <1>3, <2>1, <2>3, <2>4
  <2>8. q \in Table BY <1>3, <2>3, <2>5, <2>6
  <2> QED BY <2>2, <2>7, <2>8
<1>6. ASSUME NEW t \in Table, NEW i \in 0 .. n - 1
      PROVE  t * n + i \in Page /\ (t * n + i) \div n = t
  <2>1. t \in Int /\ 0 <= t /\ t < k /\ i \in Int /\ 0 <= i /\ i < n BY <1>3
  <2>2. n * t \in Int /\ t * n = n * t BY <1>3, <2>1
  <2>3. 0 <= n * t
    <3>1. \A u, v \in Nat : u * v >= 0 OBVIOUS
    <3> QED BY <1>3, <2>1, <2>2, <3>1
  <2>4. n * t + n <= n * k BY <1>3, <2>1, Below
  <2>5. t * n + i \in Int /\ n * t <= t * n + i /\ t * n + i < n * t + n
    <3>1. PICK u : u = n * t OBVIOUS
    <3>2. u \in Int /\ t * n = u BY <2>2, <3>1
    <3>3. n \in Int /\ u + i \in Int /\ u <= u + i /\ u + i < u + n BY <1>3, <2>1, <3>2
    <3> QED BY <3>1, <3>2, <3>3
  <2>6. t * n + i \in Page BY <1>3, <1>4, <2>1, <2>2, <2>3, <2>4
  <2>7. (t * n + i) \div n = t BY <1>3, <2>1, <2>5, Quotient
  <2> QED BY <2>6, <2>7
<1>7. ASSUME NEW t \in Table, NEW i \in 0 .. n - 1, NEW j \in 0 .. n - 1, i # j
      PROVE  t * n + i # t * n + j
  <2>1. t * n \in Int BY <1>3
  <2> QED BY <1>7, <2>1
<1>8. Page \subseteq Nat BY <1>3
<1>9. \A x : x \div n = TableOf(x) BY <1>2 DEF TableOf
<1>10. \A a \in Page : TableOf(a) \in Table /\ \E i \in 0 .. n - 1 : a = TableOf(a) * n + i
  BY <1>5, <1>9
<1>11. \A t \in Table : \A i \in 0 .. n - 1 : t * n + i \in Page /\ TableOf(t * n + i) = t
  BY <1>6, <1>9
<1>12. \A t \in Table : \A i, j \in 0 .. n - 1 : i # j => t * n + i # t * n + j BY <1>7
<1> QED BY ONLY <1>1, <1>2, <1>8, <1>10, <1>11, <1>12

--------------------------------------------------------------------------------
\* The manager works and the frames of L are taken and not used yet.
Fit(m, S, L) == Good(m, S, L) /\ Used(m) /\ m.fail = "none"

\* A mapped page has a table.
Tabled(sp) == \A b \in Page : sp.pte[b] # None => sp.table[TableOf(b)] # None

\* The free pages of a space.
FreeOf(sp) == FreeCells(sp.pages)

\* The free pages of a process are apart from each other and from what is mapped.
PagesOK(sp) ==
    /\ Apart(sp.pages) /\ Tabled(sp)
    /\ \A b \in FreeOf(sp) : b \in Page /\ sp.pte[b] = None

\* The space of a process is replaced, those of the others stay.
LEMMA PutFacts ==
    ASSUME NEW S \in [Proc -> SpaceT], NEW p \in Proc, NEW x
    PROVE  /\ Put(S, p, x)[p] = x /\ \A y : Put(Put(S, p, x), p, y) = Put(S, p, y)
           /\ \A q \in Proc : q # p => Put(S, p, x)[q] = S[q]
           /\ \A m, L : Good(m, Put(S, p, x), L) => x \in SpaceT
           /\ Put(S, p, S[p]) = S
<1>1. ASSUME NEW m, NEW L, Good(m, Put(S, p, x), L) PROVE x \in SpaceT
  BY <1>1 DEF Good, Put
<1> QED BY <1>1 DEF Put

\* The fields of a space.
LEMMA SpaceFacts ==
    ASSUME NEW sp \in SpaceT
    PROVE  /\ DOMAIN sp = {"dir", "table", "pte", "pages"}
           /\ DOMAIN sp.table = Table /\ DOMAIN sp.pte = Page
           /\ \A t \in Table : sp.table[t] \in G \cup {None}
           /\ \A a \in Page : sp.pte[a] # None => sp.pte[a] \in [frame : G, mode : Mode]
BY DEF SpaceT

\* One frame is allocated: it leaves the list for the frames in hand, or the memory is out.
LEMMA AllocOne ==
    ASSUME NEW m, NEW S, NEW L, Fit(m, S, L), NEW n, n = AllocFrames(m, 1),
           NEW f, f = FrameAddress(m, 1)
    PROVE  \/ Stuck(n, "no_memory")
           \/ /\ HasBlock(m.free, 1) /\ Fit(n, S, L \cup {f}) /\ f \in G /\ f \notin L /\ f # KernelEnd
              /\ f \in Free(m) /\ n.ref = m.ref
<1>1. m \in MemT BY DEF Fit, Good
<1>2. CASE ~HasBlock(m.free, 1)
  <2>1. n = Fail(m, "no_memory") BY <1>2 DEF AllocFrames
  <2>2. "no_memory" # "none" /\ m.fail = "none" BY DEF Fit
  <2>3. Stuck(n, "no_memory") BY <1>1, <2>1, <2>2, StuckStart
  <2> QED BY <2>3
<1>3. CASE HasBlock(m.free, 1)
  <2>1. /\ Good(n, S, L \cup (f .. f + 1 - 1)) /\ Used(n) /\ n.fail = m.fail /\ f \in Int
        /\ \A g \in f .. f + 1 - 1 : g \in G /\ g \notin L
        /\ Used(m) => KernelEnd \notin f .. f + 1 - 1
    <3>1. Good(m, S, L) /\ (Used(m) \/ Untouched(m)) BY DEF Fit
    <3>2. PICK k : k = 1 OBVIOUS
    <3>3. k \in Nat \ {0} /\ HasBlock(m.free, k) /\ n = AllocFrames(m, k) /\ f = FrameAddress(m, k)
      BY <1>3, <3>2
    <3>4. /\ Good(n, S, L \cup (f .. f + k - 1)) /\ Used(n) /\ n.fail = m.fail /\ f \in Int
          /\ \A g \in f .. f + k - 1 : g \in G /\ g \notin L
          /\ Used(m) => KernelEnd \notin f .. f + k - 1
      BY ONLY <3>1, <3>3, AllocGood
    <3> QED BY <3>2, <3>4
  <2>2. f .. f + 1 - 1 = {f} BY <2>1
  <2>3. n.ref = m.ref BY <1>1, <1>3 DEF AllocFrames, MemT
  <2>4. f \in Free(m)
    <3>1. ListOK(m) BY DEF Fit, Good
    <3>2. Taken(m, n, FrameAddress(m, 1), 1)
      <4>1. 1 \in Nat \ {0} OBVIOUS
      <4> QED BY ONLY <1>1, <1>3, <3>1, <4>1, n = AllocFrames(m, 1), AllocEffect
    <3> QED BY <2>2, <3>2 DEF Taken
  <2> QED BY <1>3, <2>1, <2>2, <2>3, <2>4 DEF Fit
<1> QED BY <1>2, <1>3

\* What the mapping of one page leaves alone.
Mapped(v, w, a, e) ==
    /\ v.sp.pages = w.sp.pages /\ v.sp.dir = w.sp.dir
    /\ v.sp.pte = [w.sp.pte EXCEPT ![a] = e]

\* The table of a page is there after NeedTable, or the memory is out.
LEMMA NeedTableGood ==
    ASSUME NEW w, DOMAIN w = {"mem", "sp"}, NEW S \in [Proc -> SpaceT], NEW p \in Proc, NEW L,
           Fit(w.mem, Put(S, p, w.sp), L), Tabled(w.sp), NEW a \in Page, NEW t, t = NeedTable(w, a)
    PROVE  /\ DOMAIN t = {"mem", "sp"}
           /\ \/ Stuck(t.mem, "no_memory")
              \/ /\ Fit(t.mem, Put(S, p, t.sp), L) /\ Tabled(t.sp) /\ t.sp.table[TableOf(a)] # None
                 /\ t.sp.pages = w.sp.pages /\ t.sp.dir = w.sp.dir /\ t.sp.pte = w.sp.pte
<1>1. CASE w.sp.table[TableOf(a)] # None
  <2>1. t = w BY <1>1 DEF NeedTable
  <2> QED BY <1>1, <2>1
<1>2. CASE w.sp.table[TableOf(a)] = None
  <2>1. PICK n : n = AllocFrames(w.mem, 1) OBVIOUS
  <2>2. PICK f : f = FrameAddress(w.mem, 1) OBVIOUS
  <2>3. PICK j : j = TableOf(a) OBVIOUS
  <2>4. PICK s : s = [w.sp EXCEPT !.table[j] = f] OBVIOUS
  <2>5. w.sp \in SpaceT BY PutFacts DEF Fit
  <2>6. j \in Table BY <2>3, PagesOfTables
  <2>7. t = [w EXCEPT !.mem = n, !.sp = s]
    BY <1>2, <2>1, <2>2, <2>3, <2>4 DEF NeedTable
  <2>8. DOMAIN t = {"mem", "sp"} /\ t.mem = n /\ t.sp = s BY <2>7
  <2>9. CASE Stuck(n, "no_memory") BY <2>8, <2>9
  <2>10. ASSUME ~Stuck(n, "no_memory")
         PROVE  /\ Fit(n, Put(S, p, s), L)
                /\ f # None /\ f \in G
    <3>1. /\ Fit(n, Put(S, p, w.sp), L \cup {f}) /\ f \in G /\ f \notin L /\ f # KernelEnd
      BY <2>1, <2>2, <2>10, AllocOne
    <3>2. PICK T : T = Put(S, p, w.sp) OBVIOUS
    <3>3. T[p] = w.sp /\ \A y : Put(T, p, y) = Put(S, p, y) BY <3>2, PutFacts
    <3>4. j # -1 /\ j \in Slot BY <2>6, PagesOfTables DEF Table, Slot
    <3>5. Root(T[p], j) = None /\ s = SetRoot(T[p], j, f)
      BY <1>2, <2>3, <2>4, <3>3, <3>4 DEF Root, SetRoot
    <3>6. PICK M : M = L \cup {f} OBVIOUS
    <3>7. Good(n, T, M) /\ f \in M BY <3>1, <3>2, <3>6 DEF Fit
    <3>8. /\ Good(n, Put(T, p, s), M \ {f})
      <4>1. (n = n /\ j # -1) \/ n = AcquireRef(n, f) BY <3>4
      <4> QED BY ONLY <3>1, <3>4, <3>5, <3>7, <4>1, p \in Proc, RootGood
    <3>9. M \ {f} = L BY <3>1, <3>6
    <3>10. Good(n, Put(S, p, s), L) BY <3>3, <3>8, <3>9
    <3> QED BY <3>1, <3>10, Frames DEF Fit
  <2>11. /\ s.pages = w.sp.pages /\ s.dir = w.sp.dir /\ s.pte = w.sp.pte
         /\ s.table[j] = f /\ \A k \in Table : k # j => s.table[k] = w.sp.table[k]
    BY <2>4, <2>5, <2>6, SpaceFacts
  <2>12. f # None => Tabled(s)
    <3>1. \A b \in Page : TableOf(b) \in Table BY PagesOfTables
    <3> QED BY <2>11, <3>1 DEF Tabled
  <2> QED BY <2>3, <2>8, <2>9, <2>10, <2>11, <2>12
<1> QED BY <1>1, <1>2

\* kernel_mmap of one page: the frame in hand is mapped there, or the memory is out.
LEMMA MapPageGood ==
    ASSUME NEW w, DOMAIN w = {"mem", "sp"}, NEW S \in [Proc -> SpaceT], NEW p \in Proc, NEW L,
           Fit(w.mem, Put(S, p, w.sp), L), Tabled(w.sp), NEW a \in Page, w.sp.pte[a] = None,
           NEW f \in L, NEW mode \in Mode, NEW v, v = MapPage(w, a, f, mode)
    PROVE  /\ DOMAIN v = {"mem", "sp"}
           /\ \/ Stuck(v.mem, "no_memory")
              \/ /\ Fit(v.mem, Put(S, p, v.sp), L \ {f}) /\ Tabled(v.sp)
                 /\ Mapped(v, w, a, [frame |-> f, mode |-> mode])
<1>1. PICK t : t = NeedTable(w, a) OBVIOUS
<1>2. /\ DOMAIN t = {"mem", "sp"}
      /\ \/ Stuck(t.mem, "no_memory")
         \/ /\ Fit(t.mem, Put(S, p, t.sp), L) /\ Tabled(t.sp) /\ t.sp.table[TableOf(a)] # None
            /\ t.sp.pages = w.sp.pages /\ t.sp.dir = w.sp.dir /\ t.sp.pte = w.sp.pte
  BY <1>1, NeedTableGood
<1>3. PICK e : e = [frame |-> f, mode |-> mode] OBVIOUS
<1>4. PICK n : n = AcquireRef(t.mem, f) OBVIOUS
<1>5. PICK s : s = [t.sp EXCEPT !.pte[a] = e] OBVIOUS
<1>6. v = [t EXCEPT !.sp = s, !.mem = n]
  BY <1>1, <1>3, <1>4, <1>5 DEF MapPage
<1>7. DOMAIN v = {"mem", "sp"} /\ v.mem = n /\ v.sp = s BY <1>2, <1>6
<1>8. CASE Stuck(t.mem, "no_memory") BY <1>4, <1>7, <1>8, StuckStep
<1>9. CASE ~Stuck(t.mem, "no_memory")
  <2>1. /\ Fit(t.mem, Put(S, p, t.sp), L) /\ Tabled(t.sp) /\ t.sp.table[TableOf(a)] # None
        /\ t.sp.pages = w.sp.pages /\ t.sp.dir = w.sp.dir /\ t.sp.pte = w.sp.pte
    BY <1>2, <1>9
  <2>2. PICK T : T = Put(S, p, t.sp) OBVIOUS
  <2>3. T[p] = t.sp /\ \A y : Put(T, p, y) = Put(S, p, y) BY <2>2, PutFacts
  <2>4. Good(t.mem, T, L) BY <2>1, <2>2 DEF Fit
  <2>5. t.sp \in SpaceT BY <2>1, PutFacts DEF Fit
  <2>6. f \in G /\ f \notin Free(t.mem) /\ KeptBy(T, f) = {}
    <3>1. L \in SUBSET G /\ L \cap Free(t.mem) = {} BY <2>4 DEF Good
    <3>2. State(f, t.mem.ref[f].count, Count(T, f), KeptBy(T, f), f \in Free(t.mem) \/ f \in L)
      BY <2>4, <3>1 DEF Good
    <3> QED BY <3>1, <3>2 DEF State
  <2>7. s = SetPte(T[p], a, e) BY <1>5, <2>3 DEF SetPte
  <2>8. T[p].pte[a] = None BY <2>1, <2>3
  <2>9. Good(n, Put(T, p, s), L \ {f}) /\ n.fail = t.mem.fail /\ n.free = t.mem.free
    <3>1. PICK m : m = t.mem OBVIOUS
    <3>2. /\ Good(m, T, L) /\ f \in G /\ f \notin Free(m) /\ KeptBy(T, f) = {}
          /\ n = AcquireRef(m, f)
      BY <1>4, <2>4, <2>6, <3>1
    <3>3. Good(n, Put(T, p, s), L \ {f}) /\ n.fail = m.fail /\ n.free = m.free
      <4>1. e \in [frame : G, mode : Mode] /\ e.frame = f BY <1>3, <3>2
      <4> QED BY ONLY SMTT(60), <4>1, <2>7, <2>8, <3>2, p \in Proc, a \in Page, MapGood
    <3> QED BY <3>1, <3>3
  <2>10. Fit(n, Put(S, p, s), L \ {f})
    BY <2>1, <2>3, <2>9 DEF Fit, Used, Free
  <2>11. /\ s.pages = t.sp.pages /\ s.dir = t.sp.dir /\ s.table = t.sp.table
         /\ s.pte = [t.sp.pte EXCEPT ![a] = e] /\ \A b \in Page : b # a => s.pte[b] = t.sp.pte[b]
    BY <1>5, <2>5, SpaceFacts
  <2>12. Tabled(s) BY <2>1, <2>11 DEF Tabled
  <2> QED BY <1>3, <1>7, <2>1, <2>10, <2>11, <2>12 DEF Mapped
<1> QED BY <1>8, <1>9

--------------------------------------------------------------------------------
\* The entry of a page is set, those of the others stay.
LEMMA SetPteFacts ==
    ASSUME NEW sp \in SpaceT, NEW a \in Page, NEW e, NEW s, s = SetPte(sp, a, e)
    PROVE  /\ s.pages = sp.pages /\ s.dir = sp.dir /\ s.table = sp.table /\ s.pte[a] = e
           /\ \A b \in Page : b # a => s.pte[b] = sp.pte[b]
           /\ Tabled(sp) /\ (e # None => sp.table[TableOf(a)] # None) => Tabled(s)
<1>1. /\ s.pages = sp.pages /\ s.dir = sp.dir /\ s.table = sp.table /\ s.pte[a] = e
      /\ \A b \in Page : b # a => s.pte[b] = sp.pte[b]
  BY SpaceFacts DEF SetPte
<1> QED BY <1>1 DEF Tabled

\* A table is set, the others stay.
LEMMA SetTableFacts ==
    ASSUME NEW sp \in SpaceT, NEW j \in Table, NEW f, NEW s, s = SetRoot(sp, j, f)
    PROVE  /\ s.pages = sp.pages /\ s.dir = sp.dir /\ s.pte = sp.pte /\ s.table[j] = f
           /\ \A k \in Table : k # j => s.table[k] = sp.table[k]
           /\ s = [sp EXCEPT !.table[j] = f]
<1>1. j # -1 BY PagesOfTables DEF Table
<1>2. s = [sp EXCEPT !.table[j] = f] BY <1>1 DEF SetRoot
<1> QED BY <1>2, SpaceFacts

\* kernel_munmap of one page: the frame it mapped loses a mapping and a reference.
LEMMA UnmapPageGood ==
    ASSUME NEW w, DOMAIN w = {"mem", "sp"}, NEW S \in [Proc -> SpaceT], NEW p \in Proc, NEW L,
           Fit(w.mem, Put(S, p, w.sp), L), Tabled(w.sp), NEW a \in Page,
           NEW v, v = UnmapPage(w, a)
    PROVE  /\ DOMAIN v = {"mem", "sp"} /\ Fit(v.mem, Put(S, p, v.sp), L) /\ Tabled(v.sp)
           /\ Mapped(v, w, a, None)
<1>1. w.sp \in SpaceT BY PutFacts DEF Fit
<1>2. PICK j : j = TableOf(a) OBVIOUS
<1>3. j \in Table /\ j \in Slot /\ j # -1 BY <1>2, PagesOfTables DEF Table, Slot
<1>4. PICK t : t = w.sp.table[j] OBVIOUS
<1>5. t \in G \cup {None} BY <1>1, <1>3, <1>4, SpaceFacts
<1>6. PICK u : u = IF t = None \/ w.sp.pte[a] = None THEN w
                   ELSE [w EXCEPT !.mem = ReleaseRef(@, w.sp.pte[a].frame), !.sp.pte[a] = None]
  OBVIOUS
<1>7. /\ DOMAIN u = {"mem", "sp"} /\ Fit(u.mem, Put(S, p, u.sp), L) /\ Tabled(u.sp)
      /\ Mapped(u, w, a, None) /\ u.sp \in SpaceT /\ u.sp.table = w.sp.table
  <2>1. CASE t = None \/ w.sp.pte[a] = None
    <3>1. u = w BY <1>6, <2>1
    <3>2. w.sp.pte[a] = None BY <1>2, <1>4, <2>1 DEF Tabled
    <3>3. w.sp.pte = [w.sp.pte EXCEPT ![a] = None] BY <1>1, <3>2 DEF SpaceT
    <3> QED BY <1>1, <3>1, <3>3 DEF Mapped
  <2>2. CASE ~(t = None \/ w.sp.pte[a] = None)
    <3>1. PICK f : f = w.sp.pte[a].frame OBVIOUS
    <3>2. PICK m : m = w.mem OBVIOUS
    <3>3. PICK n : n = ReleaseRef(m, f) OBVIOUS
    <3>4. PICK s : s = SetPte(w.sp, a, None) OBVIOUS
    <3>5. u = [w EXCEPT !.mem = n, !.sp = s] BY <1>6, <2>2, <3>1, <3>2, <3>3, <3>4 DEF SetPte
    <3>6. DOMAIN u = {"mem", "sp"} /\ u.mem = n /\ u.sp = s BY <3>5
    <3>7. PICK T : T = Put(S, p, w.sp) OBVIOUS
    <3>8. T[p] = w.sp /\ \A y : Put(T, p, y) = Put(S, p, y) BY <3>7, PutFacts
    <3>9. Good(m, T, L) /\ Used(m) /\ m.fail = "none" BY <3>2, <3>7 DEF Fit
    <3>10. T[p].pte[a] # None /\ f = T[p].pte[a].frame /\ s = SetPte(T[p], a, None)
      BY <2>2, <3>1, <3>4, <3>8
    <3>11. Good(n, Put(T, p, s), L) /\ Used(n) /\ n.fail = m.fail /\ s \in SpaceT
      BY ONLY <3>3, <3>9, <3>10, p \in Proc, a \in Page, UnmapGood
    <3>12. Fit(n, Put(S, p, s), L) BY <3>8, <3>9, <3>11 DEF Fit
    <3>13. /\ s.pages = w.sp.pages /\ s.dir = w.sp.dir /\ s.table = w.sp.table
           /\ s.pte = [w.sp.pte EXCEPT ![a] = None] /\ Tabled(s)
      <4>1. s.pte = [w.sp.pte EXCEPT ![a] = None] BY <1>1, <3>4, SpaceFacts DEF SetPte
      <4> QED BY <1>1, <3>4, <4>1, SetPteFacts
    <3> QED BY <3>6, <3>11, <3>12, <3>13 DEF Mapped
  <2> QED BY <2>1, <2>2
<1>8. v = IF t # None /\ \A b \in Page : TableOf(b) = TableOf(a) => u.sp.pte[b] = None
          THEN [u EXCEPT !.mem = FreeFrames(@, t, 1), !.sp.table[TableOf(a)] = None]
          ELSE u
  BY <1>2, <1>4, <1>6 DEF UnmapPage
<1>9. CASE ~(t # None /\ \A b \in Page : TableOf(b) = TableOf(a) => u.sp.pte[b] = None)
  BY <1>7, <1>8, <1>9
<1>10. CASE t # None /\ \A b \in Page : TableOf(b) = TableOf(a) => u.sp.pte[b] = None
  <2>1. PICK m : m = u.mem OBVIOUS
  <2>2. PICK n : n = FreeFrames(m, t, 1) OBVIOUS
  <2>3. PICK s : s = SetRoot(u.sp, j, None) OBVIOUS
  <2>4. /\ s.pages = u.sp.pages /\ s.dir = u.sp.dir /\ s.pte = u.sp.pte /\ s.table[j] = None
        /\ \A k \in Table : k # j => s.table[k] = u.sp.table[k]
        /\ s = [u.sp EXCEPT !.table[j] = None]
    BY <1>3, <1>7, <2>3, SetTableFacts
  <2>5. v = [u EXCEPT !.mem = n, !.sp = s] BY <1>2, <1>8, <1>10, <2>1, <2>2, <2>4
  <2>6. DOMAIN v = {"mem", "sp"} /\ v.mem = n /\ v.sp = s BY <1>7, <2>5
  <2>7. PICK T : T = Put(S, p, u.sp) OBVIOUS
  <2>8. T[p] = u.sp /\ \A y : Put(T, p, y) = Put(S, p, y) BY <2>7, PutFacts
  <2>9. Good(m, T, L) /\ Used(m) /\ m.fail = "none" BY <1>7, <2>1, <2>7 DEF Fit
  <2>10. t \in G /\ t = Root(T[p], j) /\ s = SetRoot(T[p], j, None)
    BY <1>3, <1>4, <1>5, <1>7, <1>10, <2>3, <2>8 DEF Root
  <2>11. Good(n, Put(T, p, s), L) /\ Used(n) /\ n.fail = m.fail
    <3>1. n = FreeFrames(m, t, 1) \/ (n = ReleaseRef(m, t) /\ m.ref[t].count = 1) BY <2>2
    <3> QED BY ONLY <1>3, <2>9, <2>10, <3>1, p \in Proc, DropGood
  <2>12. Fit(n, Put(S, p, s), L) BY <2>8, <2>9, <2>11 DEF Fit
  <2>13. Tabled(s)
    <3>1. \A b \in Page : TableOf(b) \in Table BY PagesOfTables
    <3>2. \A b \in Page : TableOf(b) = j => s.pte[b] = None BY <1>2, <1>10, <2>4
    <3>3. \A b \in Page : s.pte[b] # None => u.sp.table[TableOf(b)] # None
      BY <1>7, <2>4 DEF Tabled
    <3> QED BY <2>4, <3>1, <3>2, <3>3 DEF Tabled
  <2> QED BY <1>7, <2>4, <2>6, <2>12, <2>13 DEF Mapped
<1> QED BY <1>9, <1>10

--------------------------------------------------------------------------------
\* The list of the free pages.

\* The pages that are allocated were free and are no longer.
LEMMA TakePages ==
    ASSUME NEW w, DOMAIN w = {"mem", "sp"}, w.sp \in SpaceT, PagesOK(w.sp), NEW n \in Nat \ {0},
           NEW start, HasBlock(w.sp.pages, n), NEW v, v = AllocPages(w, n, start),
           NEW a, a = PageAddress(w, n, start)
    PROVE  /\ DOMAIN v = {"mem", "sp"} /\ v.mem = w.mem /\ v.sp \in SpaceT
           /\ v.sp.dir = w.sp.dir /\ v.sp.table = w.sp.table /\ v.sp.pte = w.sp.pte
           /\ PagesOK(v.sp) /\ a \in Int
           /\ \A b \in a .. a + n - 1 : b \in FreeOf(w.sp) /\ b \in Page /\ w.sp.pte[b] = None
           /\ \A b : b \in FreeOf(v.sp) <=> b \in FreeOf(w.sp) /\ b \notin a .. a + n - 1
<1>1. PICK q : q = GetBlock(w.sp.pages, n, start) OBVIOUS
<1>2. v = [w EXCEPT !.sp = [w.sp EXCEPT !.pages = q]] BY <1>1 DEF AllocPages
<1>3. a = BlockAddress(w.sp.pages, n, start) BY DEF PageAddress
<1>4. Apart(w.sp.pages) /\ Tabled(w.sp) /\ \A b \in FreeOf(w.sp) : b \in Page /\ w.sp.pte[b] = None
  BY DEF PagesOK
<1>5. /\ Apart(q) /\ a \in Int
      /\ \A x \in a .. a + n - 1 : x \in FreeCells(w.sp.pages)
      /\ \A x \in Int : x \in FreeCells(q) <=> x \in FreeCells(w.sp.pages) /\ x \notin a .. a + n - 1
  BY <1>1, <1>3, <1>4, GetBlockApart
<1>6. q \in Seq(Rng) /\ w.sp.pages \in Seq(Rng) BY <1>4, <1>5 DEF Apart
<1>7. \A x : x \in FreeCells(q) => x \in Int BY <1>6, CellsAre
<1>8. \A x : x \in FreeCells(w.sp.pages) => x \in Int BY <1>6, CellsAre
<1>9. \A x : x \in FreeCells(q) <=> x \in FreeCells(w.sp.pages) /\ x \notin a .. a + n - 1
  BY <1>5, <1>7, <1>8
<1>10. PICK s : s = [w.sp EXCEPT !.pages = q] OBVIOUS
<1>11. /\ s \in SpaceT /\ s.pages = q /\ s.dir = w.sp.dir /\ s.table = w.sp.table /\ s.pte = w.sp.pte
  BY <1>6, <1>10 DEF SpaceT
<1>12. DOMAIN v = {"mem", "sp"} /\ v.mem = w.mem /\ v.sp = s BY <1>2, <1>10
<1>13. PagesOK(s)
  <2>1. Tabled(s) BY <1>4, <1>11 DEF Tabled
  <2>2. \A b \in FreeOf(s) : b \in Page /\ s.pte[b] = None BY <1>4, <1>9, <1>11 DEF FreeOf
  <2> QED BY <1>5, <1>11, <2>1, <2>2 DEF PagesOK
<1>14. \A b \in a .. a + n - 1 : b \in FreeOf(w.sp) /\ b \in Page /\ w.sp.pte[b] = None
  BY <1>4, <1>5 DEF FreeOf
<1> QED BY <1>5, <1>9, <1>11, <1>12, <1>13, <1>14 DEF FreeOf

\* The n pages from a on are neither mapped nor free; free_pages gives them back.
Idle(w, a, n) ==
    /\ DOMAIN w = {"mem", "sp"} /\ w.sp \in SpaceT /\ PagesOK(w.sp)
    /\ \A b \in a .. a + n - 1 : b \in Page /\ b \notin FreeOf(w.sp) /\ w.sp.pte[b] = None

\* The pages are free now.
GivenBack(w, v, a, n) ==
    /\ DOMAIN v = {"mem", "sp"} /\ v.mem = w.mem /\ v.sp \in SpaceT
    /\ v.sp.dir = w.sp.dir /\ v.sp.table = w.sp.table /\ v.sp.pte = w.sp.pte
    /\ PagesOK(v.sp)
    /\ \A b : b \in FreeOf(v.sp) <=> b \in FreeOf(w.sp) \/ b \in a .. a + n - 1

\* The pages that are given back are free again.
LEMMA GivePages ==
    ASSUME NEW w, NEW n \in Nat \ {0}, NEW a \in Int, Idle(w, a, n),
           NEW v, v = FreePages(w, a, n)
    PROVE  GivenBack(w, v, a, n)
<1>0. /\ DOMAIN w = {"mem", "sp"} /\ w.sp \in SpaceT /\ PagesOK(w.sp)
      /\ \A b \in a .. a + n - 1 : b \in Page /\ b \notin FreeOf(w.sp) /\ w.sp.pte[b] = None
  BY DEF Idle
<1>1. PICK q : q = AddBlock(w.sp.pages, a, n) OBVIOUS
<1>2. Apart(w.sp.pages) /\ Tabled(w.sp) /\ \A b \in FreeOf(w.sp) : b \in Page /\ w.sp.pte[b] = None
  BY <1>0 DEF PagesOK
<1>3. Unlisted(w.sp.pages, a, n) BY <1>0 DEF Unlisted, FreeOf
<1>4. Added(w.sp.pages, q, a, n) /\ ~FreedTwice(w.sp.pages, a, n)
  BY <1>1, <1>2, <1>3, AddBlockApart
<1>5. v = [w EXCEPT !.sp = [w.sp EXCEPT !.pages = q]] BY <1>1, <1>4 DEF FreePages
<1>6. /\ Apart(q) /\ q \in Seq(Rng)
      /\ \A x : x \in FreeCells(q) <=> x \in FreeCells(w.sp.pages) \/ x \in a .. a + n - 1
  <2>1. Apart(q) /\ q \in Seq(Rng) /\ w.sp.pages \in Seq(Rng) BY <1>2, <1>4 DEF Added, Apart
  <2>2. \A x : x \in FreeCells(q) => x \in Int BY <2>1, CellsAre
  <2>3. \A x : x \in FreeCells(w.sp.pages) => x \in Int BY <2>1, CellsAre
  <2> QED BY <1>4, <2>1, <2>2, <2>3 DEF Added
<1>10. PICK s : s = [w.sp EXCEPT !.pages = q] OBVIOUS
<1>11. /\ s \in SpaceT /\ s.pages = q /\ s.dir = w.sp.dir /\ s.table = w.sp.table /\ s.pte = w.sp.pte
  BY <1>0, <1>6, <1>10 DEF SpaceT
<1>12. DOMAIN v = {"mem", "sp"} /\ v.mem = w.mem /\ v.sp = s BY <1>0, <1>5, <1>10
<1>13. PagesOK(s)
  <2>1. Tabled(s) BY <1>2, <1>11 DEF Tabled
  <2>2. ASSUME NEW b \in FreeOf(s) PROVE b \in Page /\ s.pte[b] = None
    <3>1. b \in FreeOf(w.sp) \/ b \in a .. a + n - 1 BY <1>6, <1>11 DEF FreeOf
    <3>2. b \in Page /\ w.sp.pte[b] = None BY <1>0, <1>2, <3>1
    <3> QED BY <1>11, <3>2
  <2> QED BY <1>6, <1>11, <2>1, <2>2 DEF PagesOK
<1> QED BY <1>6, <1>11, <1>12, <1>13 DEF FreeOf, GivenBack

--------------------------------------------------------------------------------
\* UpTo(n) counts from 0 to n - 1.
LEMMA UpToIs ==
    ASSUME NEW n \in Nat
    PROVE  DOMAIN UpTo(n) = 1 .. n /\ \A i \in 0 .. n - 1 : UpTo(n)[i + 1] = i
BY DEF UpTo

\* kernel_mmap_internal: c holds its arguments and the state before it.
MapTurn(c, v, i) == MapPage(v, c.a + i, c.f + i, c.mode)

\* What the loop of kernel_mmap keeps.
MapKeeps(c, i, v) ==
    /\ DOMAIN v = {"mem", "sp"}
    /\ \/ Stuck(v.mem, "no_memory")
       \/ /\ Fit(v.mem, Put(c.S, c.p, v.sp), (c.f + i) .. (c.f + c.n - 1)) /\ Tabled(v.sp)
          /\ v.sp.pages = c.sp.pages /\ v.sp.dir = c.sp.dir
          /\ \A b \in Page : v.sp.pte[b] = IF b \in c.a .. c.a + i - 1
                                           THEN [frame |-> c.f + (b - c.a), mode |-> c.mode]
                                           ELSE c.sp.pte[b]

\* The loop of kernel_mmap.
Maps == INSTANCE LoopProofs WITH Step <- MapTurn, Keeps <- MapKeeps

\* kernel_mmap of n pages maps the frames in hand in turn, or the memory is out.
LEMMA MapPagesGood ==
    ASSUME NEW w, DOMAIN w = {"mem", "sp"}, NEW S \in [Proc -> SpaceT], NEW p \in Proc,
           NEW n \in Nat \ {0}, NEW a \in Int, NEW f \in Int, NEW mode \in Mode,
           Fit(w.mem, Put(S, p, w.sp), f .. f + n - 1), Tabled(w.sp),
           \A b \in a .. a + n - 1 : b \in Page /\ w.sp.pte[b] = None,
           NEW v, v = MapPages(w, a, f, n, mode)
    PROVE  /\ DOMAIN v = {"mem", "sp"}
           /\ \/ Stuck(v.mem, "no_memory")
              \/ /\ Fit(v.mem, Put(S, p, v.sp), {}) /\ Tabled(v.sp)
                 /\ v.sp.pages = w.sp.pages /\ v.sp.dir = w.sp.dir
                 /\ \A b \in Page : v.sp.pte[b] = IF b \in a .. a + n - 1
                                                  THEN [frame |-> f + (b - a), mode |-> mode]
                                                  ELSE w.sp.pte[b]
<1>1. PICK c : c = [a |-> a, f |-> f, n |-> n, mode |-> mode, S |-> S, p |-> p, sp |-> w.sp] OBVIOUS
<1>2. /\ c.a = a /\ c.f = f /\ c.n = n /\ c.mode = mode /\ c.S = S /\ c.p = p /\ c.sp = w.sp
  BY <1>1
<1>3. PICK q : q = UpTo(n) OBVIOUS
<1>4. DOMAIN q = 1 .. n /\ \A i \in 0 .. n - 1 : q[i + 1] = i BY <1>3, UpToIs
<1>5. v = Maps!Fold(c, w, q)
  <2>1. ~IsMapped(w, a, n) BY DEF IsMapped
  <2>2. v = FoldLeft(LAMBDA x, i : MapPage(x, a + i, f + i, mode), w, q)
    BY <1>3, <2>1 DEF MapPages
  <2>3. Maps!Fold(c, w, q) = FoldLeft(LAMBDA x, i : MapPage(x, a + i, f + i, mode), w, q)
    BY <1>2 DEF Maps!Fold, MapTurn, FoldLeft, Maps!Largest, MapThenFoldSet,
                Max
  <2> QED BY <2>2, <2>3
<1>6. MapKeeps(c, 0, w)
  <2>1. f + 0 = f /\ a .. a + 0 - 1 = {} OBVIOUS
  <2> QED BY <1>2, <2>1 DEF MapKeeps
<1>7. ASSUME NEW i \in 0 .. n - 1, NEW x, MapKeeps(c, i, x)
      PROVE  MapKeeps(c, i + 1, MapTurn(c, x, q[i + 1]))
  <2>1. PICK y : y = MapTurn(c, x, q[i + 1]) OBVIOUS
  <2>2. PICK b, g : b = a + i /\ g = f + i OBVIOUS
  <2>3. y = MapPage(x, b, g, mode) BY <1>2, <1>4, <2>1, <2>2 DEF MapTurn
  <2>4. i \in Int /\ b \in a .. a + n - 1 /\ b \in Page /\ b \notin a .. a + i - 1 /\ g \in Int
    BY <2>2
  <2>5. DOMAIN x = {"mem", "sp"} BY <1>7 DEF MapKeeps
  <2>6. CASE Stuck(x.mem, "no_memory")
    <3>1. PICK t : t = NeedTable(x, b) OBVIOUS
    <3>2. PICK o : o = AllocFrames(x.mem, 1) OBVIOUS
    <3>3. Stuck(o, "no_memory") BY <2>6, <3>2, StuckStep
    <3>4. DOMAIN t = {"mem", "sp"} /\ Stuck(t.mem, "no_memory")
      <4>1. t = x \/ (DOMAIN t = {"mem", "sp"} /\ t.mem = o) BY <2>5, <3>1, <3>2 DEF NeedTable
      <4> QED BY <2>5, <2>6, <3>3, <4>1
    <3>5. PICK h : h = AcquireRef(t.mem, g) OBVIOUS
    <3>6. Stuck(h, "no_memory") BY <3>4, <3>5, StuckStep
    <3>7. DOMAIN y = {"mem", "sp"} /\ y.mem = h BY <2>3, <3>1, <3>4, <3>5 DEF MapPage
    <3> QED BY <2>1, <3>6, <3>7 DEF MapKeeps
  <2>7. CASE ~Stuck(x.mem, "no_memory")
    <3>1. /\ Fit(x.mem, Put(S, p, x.sp), (f + i) .. (f + n - 1)) /\ Tabled(x.sp)
          /\ x.sp.pages = w.sp.pages /\ x.sp.dir = w.sp.dir
          /\ \A d \in Page : x.sp.pte[d] = IF d \in a .. a + i - 1
                                           THEN [frame |-> f + (d - a), mode |-> mode]
                                           ELSE w.sp.pte[d]
      BY <1>2, <1>7, <2>7 DEF MapKeeps
    <3>2. PICK L : L = (f + i) .. (f + n - 1) OBVIOUS
    <3>3. g \in L /\ L \ {g} = (f + (i + 1)) .. (f + n - 1) BY <2>2, <3>2
    <3>4. x.sp.pte[b] = None BY <2>4, <3>1
    <3>5. PICK e : e = [frame |-> g, mode |-> mode] OBVIOUS
    <3>6. /\ DOMAIN y = {"mem", "sp"}
          /\ \/ Stuck(y.mem, "no_memory")
             \/ /\ Fit(y.mem, Put(S, p, y.sp), L \ {g}) /\ Tabled(y.sp)
                /\ Mapped(y, x, b, e)
      <4>1. Fit(x.mem, Put(S, p, x.sp), L) /\ Tabled(x.sp) BY <3>1, <3>2
      <4>2. /\ DOMAIN y = {"mem", "sp"}
            /\ \/ Stuck(y.mem, "no_memory")
               \/ /\ Fit(y.mem, Put(S, p, y.sp), L \ {g}) /\ Tabled(y.sp)
                  /\ Mapped(y, x, b, [frame |-> g, mode |-> mode])
        <5>1. g \in L /\ b \in Page BY <2>4, <3>3
        <5> QED BY ONLY S \in [Proc -> SpaceT], p \in Proc, mode \in Mode, <2>3, <2>5, <3>4, <4>1,
                        <5>1, MapPageGood
      <4> QED BY <3>5, <4>2
    <3>7. CASE Stuck(y.mem, "no_memory") BY <2>1, <3>6, <3>7 DEF MapKeeps
    <3>8. CASE ~Stuck(y.mem, "no_memory")
      <4>1. /\ Fit(y.mem, Put(S, p, y.sp), (f + (i + 1)) .. (f + n - 1)) /\ Tabled(y.sp)
            /\ y.sp.pages = w.sp.pages /\ y.sp.dir = w.sp.dir /\ y.sp.pte = [x.sp.pte EXCEPT ![b] = e]
        BY <3>1, <3>3, <3>6, <3>8 DEF Mapped
      <4>2. DOMAIN x.sp.pte = Page
        <5>1. x.sp \in SpaceT BY <3>1, PutFacts DEF Fit
        <5> QED BY <5>1, SpaceFacts
      <4>3. ASSUME NEW d \in Page
            PROVE  y.sp.pte[d] = IF d \in a .. a + (i + 1) - 1
                                 THEN [frame |-> f + (d - a), mode |-> mode] ELSE w.sp.pte[d]
        <5>1. d \in Int BY PagesOfTables
        <5>2. d \in a .. a + (i + 1) - 1 <=> d = b \/ d \in a .. a + i - 1 BY <2>2, <2>4, <5>1
        <5>3. CASE d = b
          <6>1. f + (d - a) = g BY <2>2, <2>4, <5>3
          <6> QED BY <3>5, <4>1, <4>2, <5>2, <5>3, <6>1
        <5>4. CASE d # b BY <3>1, <4>1, <4>2, <5>2, <5>4
        <5> QED BY <5>3, <5>4
      <4>4. MapKeeps(c, i + 1, y) BY <1>2, <3>6, <4>1, <4>3 DEF MapKeeps
      <4> QED BY <2>1, <4>4
    <3> QED BY <3>7, <3>8
  <2> QED BY <2>6, <2>7
<1>8. MapKeeps(c, n, v)
  <2>1. \A i \in 0 .. n - 1 : \A x : MapKeeps(c, i, x) => MapKeeps(c, i + 1, MapTurn(c, x, q[i + 1]))
    BY <1>7
  <2>2. n \in Nat /\ DOMAIN q = 1 .. n BY <1>4
  <2>0. Maps!Climbs(n)
    <3>1. n \in Nat BY <2>2
    <3> QED BY <3>1, Climb DEF Maps!Climbs
  <2>3. MapKeeps(c, n, Maps!Fold(c, w, q)) BY ONLY <2>0, <1>6, <2>1, <2>2, Maps!LoopRule
  <2> QED BY <1>5, <2>3
<1>9. (f + n) .. (f + n - 1) = {} OBVIOUS
<1> QED BY <1>2, <1>8, <1>9 DEF MapKeeps

--------------------------------------------------------------------------------
\* memory_munmap: c holds its arguments and the state before it.
UnmapTurn(c, v, i) == UnmapPage(v, c.a + i)

\* What the loop of kernel_munmap keeps.
UnmapKeeps(c, i, v) ==
    /\ DOMAIN v = {"mem", "sp"} /\ Fit(v.mem, Put(c.S, c.p, v.sp), {}) /\ Tabled(v.sp)
    /\ v.sp.pages = c.sp.pages /\ v.sp.dir = c.sp.dir
    /\ \A b \in Page : v.sp.pte[b] = IF b \in c.a .. c.a + i - 1 THEN None ELSE c.sp.pte[b]

\* The loop of kernel_munmap.
Unmaps == INSTANCE LoopProofs WITH Step <- UnmapTurn, Keeps <- UnmapKeeps

\* kernel_munmap of n pages unmaps them and no other.
LEMMA UnmapPagesGood ==
    ASSUME NEW w, DOMAIN w = {"mem", "sp"}, NEW S \in [Proc -> SpaceT], NEW p \in Proc,
           NEW n \in Nat \ {0}, NEW a \in Int,
           Fit(w.mem, Put(S, p, w.sp), {}), Tabled(w.sp), \A b \in a .. a + n - 1 : b \in Page,
           NEW v, v = UnmapPages(w, a, n)
    PROVE  /\ DOMAIN v = {"mem", "sp"} /\ Fit(v.mem, Put(S, p, v.sp), {}) /\ Tabled(v.sp)
           /\ v.sp.pages = w.sp.pages /\ v.sp.dir = w.sp.dir
           /\ \A b \in Page : v.sp.pte[b] = IF b \in a .. a + n - 1 THEN None ELSE w.sp.pte[b]
<1>1. PICK c : c = [a |-> a, S |-> S, p |-> p, sp |-> w.sp] OBVIOUS
<1>2. c.a = a /\ c.S = S /\ c.p = p /\ c.sp = w.sp BY <1>1
<1>3. PICK q : q = UpTo(n) OBVIOUS
<1>4. DOMAIN q = 1 .. n /\ \A i \in 0 .. n - 1 : q[i + 1] = i BY <1>3, UpToIs
<1>5. v = Unmaps!Fold(c, w, q)
  <2>2. v = FoldLeft(LAMBDA x, i : UnmapPage(x, a + i), w, q) BY <1>3 DEF UnmapPages
  <2>3. Unmaps!Fold(c, w, q) = FoldLeft(LAMBDA x, i : UnmapPage(x, a + i), w, q)
    BY <1>2 DEF Unmaps!Fold, UnmapTurn, FoldLeft, Unmaps!Largest, MapThenFoldSet, Max
  <2> QED BY <2>2, <2>3
<1>6. UnmapKeeps(c, 0, w)
  <2>1. a .. a + 0 - 1 = {} OBVIOUS
  <2> QED BY <1>2, <2>1 DEF UnmapKeeps
<1>7. ASSUME NEW i \in 0 .. n - 1, NEW x, UnmapKeeps(c, i, x)
      PROVE  UnmapKeeps(c, i + 1, UnmapTurn(c, x, q[i + 1]))
  <2>1. PICK y : y = UnmapTurn(c, x, q[i + 1]) OBVIOUS
  <2>2. PICK b : b = a + i OBVIOUS
  <2>3. y = UnmapPage(x, b) BY <1>2, <1>4, <2>1, <2>2 DEF UnmapTurn
  <2>4. i \in Int /\ b \in a .. a + n - 1 /\ b \in Page BY <2>2
  <2>5. /\ DOMAIN x = {"mem", "sp"} /\ Fit(x.mem, Put(S, p, x.sp), {}) /\ Tabled(x.sp)
        /\ x.sp.pages = w.sp.pages /\ x.sp.dir = w.sp.dir
        /\ \A d \in Page : x.sp.pte[d] = IF d \in a .. a + i - 1 THEN None ELSE w.sp.pte[d]
    BY <1>2, <1>7 DEF UnmapKeeps
  <2>6. /\ DOMAIN y = {"mem", "sp"} /\ Fit(y.mem, Put(S, p, y.sp), {}) /\ Tabled(y.sp)
        /\ Mapped(y, x, b, None)
    BY <2>3, <2>4, <2>5, UnmapPageGood
  <2>7. DOMAIN x.sp.pte = Page
    <3>1. x.sp \in SpaceT BY <2>5, PutFacts DEF Fit
    <3> QED BY <3>1, SpaceFacts
  <2>8. /\ y.sp.pages = w.sp.pages /\ y.sp.dir = w.sp.dir /\ y.sp.pte = [x.sp.pte EXCEPT ![b] = None]
    BY <2>5, <2>6 DEF Mapped
  <2>9. ASSUME NEW d \in Page
        PROVE  y.sp.pte[d] = IF d \in a .. a + (i + 1) - 1 THEN None ELSE w.sp.pte[d]
    <3>1. d \in Int BY PagesOfTables
    <3>2. d \in a .. a + (i + 1) - 1 <=> d = b \/ d \in a .. a + i - 1 BY <2>2, <2>4, <3>1
    <3>3. CASE d = b BY <2>7, <2>8, <3>2, <3>3
    <3>4. CASE d # b BY <2>5, <2>7, <2>8, <3>2, <3>4
    <3> QED BY <3>3, <3>4
  <2>10. UnmapKeeps(c, i + 1, y) BY <1>2, <2>6, <2>8, <2>9 DEF UnmapKeeps
  <2> QED BY <2>1, <2>10
<1>8. UnmapKeeps(c, n, v)
  <2>1. \A i \in 0 .. n - 1 : \A x : UnmapKeeps(c, i, x) => UnmapKeeps(c, i + 1, UnmapTurn(c, x, q[i + 1]))
    BY <1>7
  <2>2. n \in Nat /\ DOMAIN q = 1 .. n BY <1>4
  <2>0. Unmaps!Climbs(n)
    <3>1. n \in Nat BY <2>2
    <3> QED BY <3>1, Climb DEF Unmaps!Climbs
  <2>3. UnmapKeeps(c, n, Unmaps!Fold(c, w, q)) BY ONLY <2>0, <1>6, <2>1, <2>2, Unmaps!LoopRule
  <2> QED BY <1>5, <2>3
<1> QED BY <1>2, <1>8 DEF UnmapKeeps

--------------------------------------------------------------------------------
\* The n pages from a on, free in sp, are mapped in s.
Placed(sp, s, a, n, mode) ==
    /\ s \in SpaceT /\ PagesOK(s) /\ s.dir = sp.dir /\ a \in Int
    /\ \A b \in a .. a + n - 1 : /\ b \in FreeOf(sp) /\ b \in Page
                                 /\ s.pte[b] # None /\ s.pte[b].mode = mode
    /\ \A b \in Page : b \notin a .. a + n - 1 => s.pte[b] = sp.pte[b]
    /\ \A b : b \in FreeOf(s) <=> b \in FreeOf(sp) /\ b \notin a .. a + n - 1

\* Pages and frames are allocated and mapped to each other, or the memory is out.
LEMMA AllocMappedGood ==
    ASSUME NEW S, NEW p \in Proc, NEW w, DOMAIN w = {"mem", "sp"}, w.sp = S[p],
           Good(w.mem, S, {}), Used(w.mem) \/ Untouched(w.mem), w.mem.fail = "none",
           PagesOK(S[p]), NEW n \in Nat \ {0}, NEW start, NEW mode \in Mode,
           NEW v, v = AllocMapped(w, n, start, mode), NEW a, a = PageAddress(w, n, start)
    PROVE  \/ Stuck(v.mem, "no_memory")
           \/ Fit(v.mem, Put(S, p, v.sp), {}) /\ Placed(S[p], v.sp, a, n, mode)
<1>1. S \in [Proc -> SpaceT] /\ w.mem \in MemT /\ w.sp \in SpaceT BY DEF Good
<1>2. PICK o : o = AllocFrames(w.mem, n) OBVIOUS
<1>3. PICK f : f = FrameAddress(w.mem, n) OBVIOUS
<1>4. PICK x : x = [w EXCEPT !.mem = o] OBVIOUS
<1>5. DOMAIN x = {"mem", "sp"} /\ x.mem = o /\ x.sp = w.sp BY <1>4
<1>6. PICK y : y = AllocPages(x, n, start) OBVIOUS
<1>7. v = IF y.mem.fail # "none" THEN y ELSE MapPages(y, a, f, n, mode)
  BY <1>2, <1>3, <1>4, <1>6 DEF AllocMapped
<1>8. a = PageAddress(x, n, start) BY <1>5 DEF PageAddress
<1>9. \A c : Stuck(o, c) => Stuck(y.mem, c)
  <2>1. ASSUME NEW c, Stuck(o, c) PROVE Stuck(y.mem, c)
    <3>1. Stuck(Fail(o, "no_memory"), c) BY <2>1, StuckStep
    <3>2. y.mem = o \/ y.mem = Fail(o, "no_memory") BY <1>5, <1>6 DEF AllocPages
    <3> QED BY <2>1, <3>1, <3>2
  <2> QED BY <2>1
<1>10. CASE ~HasBlock(w.mem.free, n)
  <2>1. o = Fail(w.mem, "no_memory") BY <1>2, <1>10 DEF AllocFrames
  <2>2. "no_memory" # "none" OBVIOUS
  <2>3. Stuck(o, "no_memory") BY <1>1, <2>1, <2>2, StuckStart
  <2>4. Stuck(y.mem, "no_memory") BY <1>9, <2>3
  <2>5. v = y BY <1>7, <2>2, <2>4 DEF Stuck
  <2> QED BY <2>4, <2>5
<1>11. CASE HasBlock(w.mem.free, n)
  <2>1. PICK L : L = {} \cup (f .. f + n - 1) OBVIOUS
  <2>2. Good(o, S, L) /\ Used(o) /\ o.fail = "none" /\ f \in Int
    <3>1. PICK m, E : m = w.mem /\ E = {} OBVIOUS
    <3>2. Good(m, S, E) /\ (Used(m) \/ Untouched(m)) /\ HasBlock(m.free, n)
          /\ o = AllocFrames(m, n) /\ f = FrameAddress(m, n) /\ m.fail = "none"
      BY <1>2, <1>3, <1>11, <3>1
    <3>3. Good(o, S, E \cup (f .. f + n - 1)) /\ Used(o) /\ o.fail = m.fail /\ f \in Int
      <4>1. PICK k : k = n OBVIOUS
      <4>2. /\ k \in Nat \ {0} /\ HasBlock(m.free, k) /\ o = AllocFrames(m, k)
            /\ f = FrameAddress(m, k)
        BY <3>2, <4>1
      <4>3. Good(m, S, E) /\ (Used(m) \/ Untouched(m)) BY <3>2
      <4>4. Good(o, S, E \cup (f .. f + k - 1)) /\ Used(o) /\ o.fail = m.fail /\ f \in Int
        BY ONLY <4>2, <4>3, AllocGood
      <4> QED BY <4>1, <4>4
    <3> QED BY <2>1, <3>1, <3>2, <3>3
  <2>3. o \in MemT BY <2>2 DEF Good
  <2>4. CASE ~HasBlock(x.sp.pages, n)
    <3>1. y = [x EXCEPT !.mem = Fail(o, "no_memory")] BY <1>5, <1>6, <2>4 DEF AllocPages
    <3>2. "no_memory" # "none" OBVIOUS
    <3>3. Stuck(Fail(o, "no_memory"), "no_memory") BY <2>2, <2>3, <3>2, StuckStart
    <3>4. y.mem = Fail(o, "no_memory") BY <1>5, <3>1
    <3>5. v = y BY <1>7, <3>2, <3>3, <3>4 DEF Stuck
    <3> QED BY <3>3, <3>4, <3>5
  <2>5. CASE HasBlock(x.sp.pages, n)
    <3>1. /\ DOMAIN y = {"mem", "sp"} /\ y.mem = x.mem /\ y.sp \in SpaceT
          /\ y.sp.dir = x.sp.dir /\ y.sp.table = x.sp.table /\ y.sp.pte = x.sp.pte
          /\ PagesOK(y.sp) /\ a \in Int
          /\ \A b \in a .. a + n - 1 : b \in FreeOf(x.sp) /\ b \in Page /\ x.sp.pte[b] = None
          /\ \A b : b \in FreeOf(y.sp) <=> b \in FreeOf(x.sp) /\ b \notin a .. a + n - 1
      <4>1. x.sp \in SpaceT /\ PagesOK(x.sp) BY <1>1, <1>5
      <4> QED BY <1>5, <1>6, <1>8, <2>5, <4>1, TakePages
    <3>2. v = MapPages(y, a, f, n, mode) BY <1>5, <1>7, <2>2, <3>1
    <3>3. PICK T : T = Put(S, p, y.sp) OBVIOUS
    <3>4. Fit(y.mem, T, f .. f + n - 1)
      <4>1. L = f .. f + n - 1 BY <2>1
      <4>2. T \in [Proc -> SpaceT] BY <1>1, <3>1, <3>3 DEF Put
      <4>3. /\ \A g : Count(T, g) = Count(S, g) /\ KeptBy(T, g) = KeptBy(S, g)
        <5>1. \A r \in Proc : \A b \in Page : At(T[r], b) = At(S[r], b)
          BY SMTT(60), <1>1, <1>5, <3>1, <3>3, PutFacts DEF At
        <5>2. \A r \in Proc : \A j \in Slot : Root(T[r], j) = Root(S[r], j)
          BY <1>1, <1>5, <3>1, <3>3, PutFacts DEF Root
        <5> QED BY <5>1, <5>2 DEF Count, MapsOf, KeptBy
      <4>4. Good(o, T, L) BY <2>2, <4>2, <4>3 DEF Good
      <4> QED BY <1>5, <2>2, <3>1, <4>1, <4>4 DEF Fit
    <3>5. Tabled(y.sp) /\ \A b \in a .. a + n - 1 : b \in Page /\ y.sp.pte[b] = None
      BY <3>1 DEF PagesOK
    <3>6. \/ Stuck(v.mem, "no_memory")
          \/ /\ Fit(v.mem, Put(S, p, v.sp), {}) /\ Tabled(v.sp)
             /\ v.sp.pages = y.sp.pages /\ v.sp.dir = y.sp.dir
             /\ \A b \in Page : v.sp.pte[b] = IF b \in a .. a + n - 1
                                              THEN [frame |-> f + (b - a), mode |-> mode]
                                              ELSE y.sp.pte[b]
      BY <1>1, <2>2, <3>1, <3>2, <3>3, <3>4, <3>5, MapPagesGood
    <3>7. ASSUME ~Stuck(v.mem, "no_memory") PROVE Placed(S[p], v.sp, a, n, mode)
      <4>1. v.sp \in SpaceT BY <1>1, <3>6, <3>7, PutFacts DEF Fit
      <4>2. ASSUME NEW b \in a .. a + n - 1
            PROVE  b \in Page /\ v.sp.pte[b] # None /\ v.sp.pte[b].mode = mode
        <5>1. v.sp.pte[b] = [frame |-> f + (b - a), mode |-> mode] BY <3>1, <3>6, <3>7
        <5>2. b - a \in Int /\ f + (b - a) \in f .. f + n - 1 BY <2>2, <3>1
        <5>3. f + (b - a) \in G
          <6>1. L \in SUBSET G BY <2>2 DEF Good
          <6> QED BY <2>1, <5>2, <6>1
        <5>4. v.sp.pte[b] \in Entry
          <6>1. PICK g : g = f + (b - a) OBVIOUS
          <6>2. g \in Frame /\ mode \in {"regular", "cow", "private"}
            BY <5>3, <6>1, Frames DEF Mode
          <6>3. v.sp.pte[b] = [frame |-> g, mode |-> mode] BY <5>1, <6>1
          <6> QED BY ONLY <6>2, <6>3 DEF Entry
        <5>5. v.sp.pte[b] # None BY <5>4, MemoryAssumption
        <5> QED BY <3>1, <5>1, <5>5
      <4>3. \A b \in Page : b \notin a .. a + n - 1 => v.sp.pte[b] = w.sp.pte[b]
        <5>1. ASSUME NEW b \in Page, b \notin a .. a + n - 1 PROVE v.sp.pte[b] = y.sp.pte[b]
          BY <3>6, <3>7, <5>1
        <5> QED BY <1>5, <3>1, <5>1
      <4>4. FreeOf(v.sp) = FreeOf(y.sp) BY <3>6, <3>7 DEF FreeOf
      <4>5. PagesOK(v.sp)
        <5>1. Apart(v.sp.pages) BY <3>1, <3>6, <3>7 DEF PagesOK
        <5>2. \A b \in FreeOf(v.sp) : b \in Page /\ v.sp.pte[b] = None
          BY <3>1, <3>6, <3>7, <4>4 DEF PagesOK
        <5> QED BY <3>6, <3>7, <5>1, <5>2 DEF PagesOK
      <4> QED BY <1>5, <3>1, <3>6, <3>7, <4>1, <4>2, <4>3, <4>4, <4>5 DEF Placed
    <3> QED BY <3>6, <3>7
  <2> QED BY <2>4, <2>5
<1> QED BY <1>10, <1>11

--------------------------------------------------------------------------------
\* The stacks of a thread, the pages of the kernel stack and those of the other.
StackT == [kstack : Page, stack : Page \cup {None}]

Kernel(t) == t.kstack .. t.kstack + KStackPages - 1
User(t)   == IF t.stack = None THEN {} ELSE t.stack .. t.stack + StackPages - 1

\* The stacks of the threads of a process are mapped and apart.
StacksOK(sp, T) ==
    /\ IsFiniteSet(T) /\ T \subseteq StackT
    /\ \A t \in T : \A b \in Kernel(t) :
           b \in Page /\ b \notin FreeOf(sp) /\ sp.pte[b] # None /\ sp.pte[b].mode = "private"
    /\ \A t \in T : \A b \in User(t) :
           b \in Page /\ b \notin FreeOf(sp) /\ sp.pte[b] # None /\ sp.pte[b].mode # "private"
    /\ \A t, u \in T : t # u => Kernel(t) \cap Kernel(u) = {} /\ User(t) \cap User(u) = {}

\* Stacks are not empty.
LEMMA StackSizes ==
    /\ KStackPages \in Nat \ {0} /\ StackPages \in Nat \ {0}
    /\ \A t \in StackT : /\ t.kstack \in Int /\ t.kstack \in Kernel(t)
                         /\ t.stack # None => t.stack \in Int /\ t.stack \in User(t)
<1>1. KStackPages \in Nat \ {0} /\ StackPages \in Nat \ {0} BY MemoryAssumption
<1>2. ASSUME NEW t \in StackT
      PROVE  /\ t.kstack \in Int /\ t.kstack \in Kernel(t)
             /\ t.stack # None => t.stack \in Int /\ t.stack \in User(t)
  <2>0. t.kstack \in Page /\ t.stack \in Page \cup {None} BY DEF StackT
  <2>1. t.kstack \in Int /\ (t.stack # None => t.stack \in Int)
    <3>1. \A b \in Page : b \in Int BY PagesOfTables
    <3> QED BY <2>0, <3>1
  <2> QED BY <1>1, <2>1 DEF Kernel, User
<1> QED BY <1>1, <1>2

\* New pages leave the stacks that are there.
LEMMA PlacedKeeps ==
    ASSUME NEW sp, NEW s, NEW a, NEW n, NEW mode, NEW T,
           Placed(sp, s, a, n, mode), StacksOK(sp, T)
    PROVE  StacksOK(s, T)
<1>1. ASSUME NEW b \in Page, b \notin FreeOf(sp)
      PROVE  b \notin FreeOf(s) /\ s.pte[b] = sp.pte[b]
  BY <1>1 DEF Placed
<1>2. \A t \in T : \A b \in Kernel(t) :
          b \in Page /\ b \notin FreeOf(s) /\ s.pte[b] # None /\ s.pte[b].mode = "private"
  BY <1>1 DEF StacksOK
<1>3. \A t \in T : \A b \in User(t) :
          b \in Page /\ b \notin FreeOf(s) /\ s.pte[b] # None /\ s.pte[b].mode # "private"
  BY <1>1 DEF StacksOK
<1> QED BY <1>2, <1>3 DEF StacksOK

\* The new pages become the kernel stack of a new thread.
LEMMA KStackPlaced ==
    ASSUME NEW sp, NEW s, NEW a, NEW T,
           Placed(sp, s, a, KStackPages, "private"), StacksOK(sp, T),
           NEW t, t = [kstack |-> a, stack |-> None]
    PROVE  StacksOK(s, T \cup {t})
<1>1. StacksOK(s, T) BY PlacedKeeps
<1>2. t.kstack = a /\ t.stack = None /\ User(t) = {} /\ Kernel(t) = a .. a + KStackPages - 1
  BY DEF User, Kernel
<1>3. \A b \in Kernel(t) : /\ b \in FreeOf(sp) /\ b \in Page /\ b \notin FreeOf(s)
                           /\ s.pte[b] # None /\ s.pte[b].mode = "private"
  BY <1>2 DEF Placed
<1>4. a \in Kernel(t) BY <1>2, StackSizes DEF Placed
<1>5. t \in StackT BY <1>3, <1>4 DEF StackT
<1>6. \A u \in T : Kernel(u) \cap Kernel(t) = {} /\ User(u) \cap User(t) = {}
  BY <1>2, <1>3 DEF StacksOK
<1>7. IsFiniteSet(T \cup {t}) BY FS_AddElement DEF StacksOK
<1>8. PICK U : U = T \cup {t} OBVIOUS
<1>9. \A u \in U : u \in T \/ u = t BY <1>8
<1>10. StacksOK(s, U)
  <2>1. IsFiniteSet(U) /\ U \subseteq StackT BY <1>1, <1>5, <1>7, <1>8 DEF StacksOK
  <2>2. \A u \in U : \A b \in Kernel(u) :
            b \in Page /\ b \notin FreeOf(s) /\ s.pte[b] # None /\ s.pte[b].mode = "private"
    BY <1>1, <1>3, <1>9 DEF StacksOK
  <2>3. \A u \in U : \A b \in User(u) :
            b \in Page /\ b \notin FreeOf(s) /\ s.pte[b] # None /\ s.pte[b].mode # "private"
    BY <1>1, <1>2, <1>9 DEF StacksOK
  <2>4. \A u, v \in U : u # v => Kernel(u) \cap Kernel(v) = {} /\ User(u) \cap User(v) = {}
    BY <1>1, <1>6, <1>9 DEF StacksOK
  <2> QED BY <2>1, <2>2, <2>3, <2>4 DEF StacksOK
<1> QED BY <1>8, <1>10

\* The new pages become the stack of a thread.
LEMMA StackPlaced ==
    ASSUME NEW sp, NEW s, NEW a, NEW T, NEW t \in T, t.stack = None,
           Placed(sp, s, a, StackPages, "regular"), StacksOK(sp, T),
           NEW u, u = [t EXCEPT !.stack = a]
    PROVE  StacksOK(s, (T \ {t}) \cup {u})
<1>1. StacksOK(s, T) BY PlacedKeeps
<1>2. t \in StackT BY DEF StacksOK
<1>3. u.kstack = t.kstack /\ u.stack = a /\ DOMAIN u = {"kstack", "stack"} BY <1>2 DEF StackT
<1>4. \A b \in a .. a + StackPages - 1 :
          /\ b \in FreeOf(sp) /\ b \in Page /\ b \notin FreeOf(s)
          /\ s.pte[b] # None /\ s.pte[b].mode = "regular"
  BY DEF Placed
<1>5. a \in a .. a + StackPages - 1 BY StackSizes DEF Placed
<1>6. a \in Page /\ a # None BY <1>4, <1>5, Frames
<1>7. Kernel(u) = Kernel(t) /\ User(u) = a .. a + StackPages - 1 BY <1>3, <1>6 DEF Kernel, User
<1>8. u \in StackT BY <1>2, <1>6 DEF StackT
<1>9. \A x \in T : x # t => Kernel(x) \cap Kernel(u) = {} /\ User(x) \cap User(u) = {}
  BY <1>4, <1>7 DEF StacksOK
<1>10. PICK U : U = (T \ {t}) \cup {u} OBVIOUS
<1>11. \A x \in U : (x \in T /\ x # t) \/ x = u BY <1>10
<1>12. IsFiniteSet(U)
  <2>1. IsFiniteSet(T \ {t}) BY FS_RemoveElement DEF StacksOK
  <2> QED BY <1>10, <2>1, FS_AddElement
<1>13. StacksOK(s, U)
  <2>1. U \subseteq StackT BY <1>1, <1>8, <1>11 DEF StacksOK
  <2>2. \A x \in U : \A b \in Kernel(x) :
            b \in Page /\ b \notin FreeOf(s) /\ s.pte[b] # None /\ s.pte[b].mode = "private"
    BY <1>1, <1>7, <1>11 DEF StacksOK
  <2>3. \A x \in U : \A b \in User(x) :
            b \in Page /\ b \notin FreeOf(s) /\ s.pte[b] # None /\ s.pte[b].mode # "private"
    BY <1>1, <1>4, <1>7, <1>11 DEF StacksOK
  <2>4. \A x, v \in U : x # v => Kernel(x) \cap Kernel(v) = {} /\ User(x) \cap User(v) = {}
    BY <1>1, <1>9, <1>11 DEF StacksOK
  <2> QED BY <1>12, <2>1, <2>2, <2>3, <2>4 DEF StacksOK
<1> QED BY <1>10, <1>13

--------------------------------------------------------------------------------
\* The n pages from a on, mapped in sp, are unmapped and free in s.
Given(sp, s, a, n) ==
    /\ s \in SpaceT /\ PagesOK(s) /\ s.dir = sp.dir
    /\ \A b \in Page : b \notin a .. a + n - 1 => s.pte[b] = sp.pte[b]
    /\ \A b : b \in FreeOf(s) <=> b \in FreeOf(sp) \/ b \in a .. a + n - 1

\* Pages are unmapped and given back.
LEMMA GiveGood ==
    ASSUME NEW w, DOMAIN w = {"mem", "sp"}, NEW S \in [Proc -> SpaceT], NEW p \in Proc,
           NEW n \in Nat \ {0}, NEW a \in Int, Fit(w.mem, Put(S, p, w.sp), {}), PagesOK(w.sp),
           \A b \in a .. a + n - 1 : b \in Page /\ b \notin FreeOf(w.sp),
           NEW v, v = FreePages(UnmapPages(w, a, n), a, n)
    PROVE  /\ DOMAIN v = {"mem", "sp"} /\ Fit(v.mem, Put(S, p, v.sp), {}) /\ Given(w.sp, v.sp, a, n)
<1>1. PICK x : x = UnmapPages(w, a, n) OBVIOUS
<1>2. /\ DOMAIN x = {"mem", "sp"} /\ Fit(x.mem, Put(S, p, x.sp), {}) /\ Tabled(x.sp)
      /\ x.sp.pages = w.sp.pages /\ x.sp.dir = w.sp.dir
      /\ \A b \in Page : x.sp.pte[b] = IF b \in a .. a + n - 1 THEN None ELSE w.sp.pte[b]
  <2>1. Tabled(w.sp) BY DEF PagesOK
  <2> QED BY <1>1, <2>1, UnmapPagesGood
<1>3. x.sp \in SpaceT BY <1>2, PutFacts DEF Fit
<1>4. FreeOf(x.sp) = FreeOf(w.sp) BY <1>2 DEF FreeOf
<1>5. PagesOK(x.sp)
  <2>1. \A b \in FreeOf(x.sp) : b \in Page /\ x.sp.pte[b] = None BY <1>2, <1>4 DEF PagesOK
  <2> QED BY <1>2, <2>1 DEF PagesOK
<1>6. \A b \in a .. a + n - 1 : b \in Page /\ b \notin FreeOf(x.sp) /\ x.sp.pte[b] = None
  BY <1>2, <1>4
<1>7. /\ DOMAIN v = {"mem", "sp"} /\ v.mem = x.mem /\ v.sp \in SpaceT
      /\ v.sp.dir = x.sp.dir /\ v.sp.table = x.sp.table /\ v.sp.pte = x.sp.pte
      /\ PagesOK(v.sp)
      /\ \A b : b \in FreeOf(v.sp) <=> b \in FreeOf(x.sp) \/ b \in a .. a + n - 1
  <2>1. v = FreePages(x, a, n) BY <1>1
  <2>2. DOMAIN x = {"mem", "sp"} BY <1>2
  <2>3. Idle(x, a, n) BY <1>3, <1>5, <1>6, <2>2 DEF Idle
  <2>4. GivenBack(x, v, a, n) BY ONLY n \in Nat \ {0}, a \in Int, <2>1, <2>3, GivePages
  <2> QED BY <2>4 DEF GivenBack
<1>8. Fit(v.mem, Put(S, p, v.sp), {})
  <2>1. PICK T : T = Put(S, p, v.sp) OBVIOUS
  <2>2. PICK R : R = Put(S, p, x.sp) OBVIOUS
  <2>3. T \in [Proc -> SpaceT] BY <1>7, <2>1 DEF Put
  <2>4. \A g : Count(T, g) = Count(R, g) /\ KeptBy(T, g) = KeptBy(R, g)
    <3>1. \A r \in Proc : \A b \in Page : At(T[r], b) = At(R[r], b)
      BY <1>7, <2>1, <2>2, PutFacts DEF At
    <3>2. \A r \in Proc : \A j \in Slot : Root(T[r], j) = Root(R[r], j)
      BY <1>7, <2>1, <2>2, PutFacts DEF Root
    <3> QED BY <3>1, <3>2 DEF Count, MapsOf, KeptBy
  <2>5. Good(x.mem, T, {}) BY <1>2, <2>2, <2>3, <2>4 DEF Good, Fit
  <2> QED BY <1>2, <1>7, <2>1, <2>5 DEF Fit
<1>9. \A b \in Page : b \notin a .. a + n - 1 => v.sp.pte[b] = w.sp.pte[b]
  BY <1>2, <1>7
<1> QED BY <1>2, <1>4, <1>7, <1>8, <1>9 DEF Given

\* The two stacks of a thread are given back.
LEMMA FreeStacksGood ==
    ASSUME NEW w, DOMAIN w = {"mem", "sp"}, NEW S \in [Proc -> SpaceT], NEW p \in Proc,
           Fit(w.mem, Put(S, p, w.sp), {}), PagesOK(w.sp), NEW T, StacksOK(w.sp, T),
           NEW t \in T, t.stack # None,
           NEW v, v = FreePages(UnmapPages(w, t.stack, StackPages), t.stack, StackPages),
           NEW y, y = FreePages(UnmapPages(v, t.kstack, KStackPages), t.kstack, KStackPages)
    PROVE  /\ DOMAIN y = {"mem", "sp"} /\ Fit(y.mem, Put(S, p, y.sp), {}) /\ PagesOK(y.sp)
           /\ StacksOK(y.sp, T \ {t}) /\ y.sp.dir = w.sp.dir
<1>1. t \in StackT BY DEF StacksOK
<1>2. PICK a, k : a = t.stack /\ k = t.kstack OBVIOUS
<1>3. a \in Int /\ k \in Int /\ StackPages \in Nat \ {0} /\ KStackPages \in Nat \ {0}
  BY <1>1, <1>2, StackSizes
<1>4. User(t) = a .. a + StackPages - 1 /\ Kernel(t) = k .. k + KStackPages - 1
  BY <1>2 DEF User, Kernel
<1>5. \A b \in User(t) : b \in Page /\ b \notin FreeOf(w.sp) /\ w.sp.pte[b] # None /\ w.sp.pte[b].mode # "private"
  BY DEF StacksOK
<1>6. \A b \in Kernel(t) : b \in Page /\ b \notin FreeOf(w.sp) /\ w.sp.pte[b] # None /\ w.sp.pte[b].mode = "private"
  BY DEF StacksOK
<1>7. /\ DOMAIN v = {"mem", "sp"} /\ Fit(v.mem, Put(S, p, v.sp), {})
      /\ Given(w.sp, v.sp, a, StackPages)
  <2>1. \A b \in a .. a + StackPages - 1 : b \in Page /\ b \notin FreeOf(w.sp) BY <1>4, <1>5
  <2>2. v = FreePages(UnmapPages(w, a, StackPages), a, StackPages) BY <1>2
  <2> QED BY <1>3, <2>1, <2>2, GiveGood
<1>8. /\ v.sp \in SpaceT /\ PagesOK(v.sp) /\ v.sp.dir = w.sp.dir
      /\ \A b \in Page : b \notin User(t) => v.sp.pte[b] = w.sp.pte[b]
      /\ \A b : b \in FreeOf(v.sp) <=> b \in FreeOf(w.sp) \/ b \in User(t)
  BY <1>4, <1>7 DEF Given
<1>9. /\ DOMAIN y = {"mem", "sp"} /\ Fit(y.mem, Put(S, p, y.sp), {})
      /\ Given(v.sp, y.sp, k, KStackPages)
  <2>1. \A b \in k .. k + KStackPages - 1 : b \in Page /\ b \notin FreeOf(v.sp)
    BY <1>4, <1>5, <1>6, <1>8
  <2>2. y = FreePages(UnmapPages(v, k, KStackPages), k, KStackPages) BY <1>2
  <2>3. PICK n : n = KStackPages OBVIOUS
  <2>4. n \in Nat \ {0} /\ k \in Int /\ y = FreePages(UnmapPages(v, k, n), k, n) BY <1>3, <2>2, <2>3
  <2>5. \A b \in k .. k + n - 1 : b \in Page /\ b \notin FreeOf(v.sp) BY <2>1, <2>3
  <2>6. DOMAIN v = {"mem", "sp"} /\ Fit(v.mem, Put(S, p, v.sp), {}) /\ PagesOK(v.sp)
    BY <1>7, <1>8
  <2>7. /\ DOMAIN y = {"mem", "sp"} /\ Fit(y.mem, Put(S, p, y.sp), {})
        /\ Given(v.sp, y.sp, k, n)
    BY ONLY S \in [Proc -> SpaceT], p \in Proc, <2>4, <2>5, <2>6, GiveGood
  <2> QED BY <2>3, <2>7
<1>10. /\ y.sp \in SpaceT /\ PagesOK(y.sp) /\ y.sp.dir = v.sp.dir
       /\ \A b \in Page : b \notin Kernel(t) => y.sp.pte[b] = v.sp.pte[b]
       /\ \A b : b \in FreeOf(y.sp) <=> b \in FreeOf(v.sp) \/ b \in Kernel(t)
  BY <1>4, <1>9 DEF Given
<1>11. PICK U : U = T \ {t} OBVIOUS
<1>12. \A u \in U : u \in T /\ u # t BY <1>11
<1>13. StacksOK(y.sp, U)
  <2>1. IsFiniteSet(U) /\ U \subseteq StackT
    <3>1. IsFiniteSet(T \ {t}) BY FS_RemoveElement DEF StacksOK
    <3> QED BY <1>11, <3>1 DEF StacksOK
  <2>2. ASSUME NEW u \in U, NEW b \in Kernel(u)
        PROVE  b \in Page /\ b \notin FreeOf(y.sp) /\ y.sp.pte[b] = w.sp.pte[b]
               /\ w.sp.pte[b] # None /\ w.sp.pte[b].mode = "private"
    <3>1. /\ b \in Page /\ b \notin FreeOf(w.sp) /\ w.sp.pte[b] # None /\ w.sp.pte[b].mode = "private"
          /\ b \notin Kernel(t)
      BY <1>12 DEF StacksOK
    <3>2. b \notin User(t) BY <1>5, <3>1
    <3> QED BY <1>8, <1>10, <3>1, <3>2
  <2>3. ASSUME NEW u \in U, NEW b \in User(u)
        PROVE  b \in Page /\ b \notin FreeOf(y.sp) /\ y.sp.pte[b] = w.sp.pte[b]
               /\ w.sp.pte[b] # None /\ w.sp.pte[b].mode # "private"
    <3>1. /\ b \in Page /\ b \notin FreeOf(w.sp) /\ w.sp.pte[b] # None /\ w.sp.pte[b].mode # "private"
          /\ b \notin User(t)
      BY <1>12 DEF StacksOK
    <3>2. b \notin Kernel(t) BY <1>6, <3>1
    <3> QED BY <1>8, <1>10, <3>1, <3>2
  <2>4. \A x, z \in U : x # z => Kernel(x) \cap Kernel(z) = {} /\ User(x) \cap User(z) = {}
    BY <1>12 DEF StacksOK
  <2>5. \A u \in U : \A b \in Kernel(u) :
            b \in Page /\ b \notin FreeOf(y.sp) /\ y.sp.pte[b] # None /\ y.sp.pte[b].mode = "private"
    BY <2>2
  <2>6. \A u \in U : \A b \in User(u) :
            b \in Page /\ b \notin FreeOf(y.sp) /\ y.sp.pte[b] # None /\ y.sp.pte[b].mode # "private"
    BY <2>3
  <2> QED BY <2>1, <2>4, <2>5, <2>6 DEF StacksOK
<1> QED BY <1>8, <1>9, <1>10, <1>11, <1>13

--------------------------------------------------------------------------------
\* The mode of a mapped page changes.
LEMMA ModeGood ==
    ASSUME NEW m, NEW S, NEW L, Good(m, S, L), NEW p \in Proc, NEW a \in Page,
           S[p].pte[a] # None, NEW e \in [frame : G, mode : Mode], e.frame = S[p].pte[a].frame,
           NEW s, s = SetPte(S[p], a, e)
    PROVE  /\ Good(m, Put(S, p, s), L) /\ s \in SpaceT
           /\ e.frame \notin Free(m) /\ e.frame \notin L /\ KeptBy(S, e.frame) = {}
           /\ \A g : KeptBy(Put(S, p, s), g) = KeptBy(S, g)
           /\ m.ref[e.frame].count # 0
<1>1. S \in [Proc -> SpaceT] /\ m \in MemT BY DEF Good
<1>2. PICK f : f = e.frame OBVIOUS
<1>3. f \in G /\ f # None /\ e # None
  <2>1. f \in G BY <1>2
  <2>2. e.mode \in {"regular", "cow", "private"} /\ e.frame \in Frame BY <1>2, <2>1, Frames DEF Mode
  <2>3. e \in Entry BY <2>2 DEF Entry
  <2> QED BY <2>1, <2>3, Frames, MemoryAssumption
<1>4. PICK T : T = Put(S, p, s) OBVIOUS
<1>5. s \in SpaceT /\ PteStep(S, T, p, a, f, f)
  <2>1. s = [S[p] EXCEPT !.pte[a] = e] /\ T = [S EXCEPT ![p] = s] BY <1>4 DEF Put, SetPte
  <2>2. e \in [frame : G, mode : Mode] \cup {None} OBVIOUS
  <2>3. s \in SpaceT /\ PteStep(S, T, p, a, At(S[p], a), IF e = None THEN None ELSE e.frame)
    BY ONLY <1>1, <2>1, <2>2, p \in Proc, a \in Page, PteUse
  <2>4. At(S[p], a) = f BY <1>2 DEF At
  <2> QED BY <1>2, <1>3, <2>3, <2>4
<1>6. \A g : Count(T, g) = Count(S, g) /\ KeptBy(T, g) = KeptBy(S, g) /\ (g = f => Count(S, g) > 0)
  <2>1. ASSUME NEW g
        PROVE  Count(T, g) = Count(S, g) /\ KeptBy(T, g) = KeptBy(S, g) /\ (g = f => Count(S, g) > 0)
    BY <1>5, PteCount
  <2> QED BY <2>1
<1>7. T \in [Proc -> SpaceT] BY <1>5 DEF PteStep
<1>8. Good(m, T, L) BY <1>6, <1>7 DEF Good
<1>9. State(f, m.ref[f].count, Count(S, f), KeptBy(S, f), f \in Free(m) \/ f \in L)
  BY <1>3 DEF Good
<1>10. Count(S, f) \in Nat /\ Count(S, f) > 0 BY <1>6, Finite
<1>11. f \notin Free(m) /\ f \notin L /\ KeptBy(S, f) = {} /\ m.ref[f].count # 0
  BY <1>9, <1>10 DEF State, Extra
<1> QED BY <1>2, <1>4, <1>5, <1>6, <1>8, <1>11

\* A new frame is mapped for a while.
LEMMA TempGood ==
    ASSUME NEW m, NEW S, NEW L, Fit(m, S, L), NEW o, o = AllocFrames(m, 1),
           NEW f, f = FrameAddress(m, 1), NEW n, n = ReleaseRef(AcquireRef(AcquireRef(o, f), f), f)
    PROVE  \/ Stuck(n, "no_memory")
           \/ n = AcquireRef(o, f) /\ Fit(o, S, L \cup {f}) /\ f \in G /\ f \notin L /\ f # KernelEnd
              /\ o.ref[f].there
<1>1. CASE Stuck(o, "no_memory")
  <2>1. PICK x : x = AcquireRef(o, f) OBVIOUS
  <2>2. Stuck(x, "no_memory") BY <1>1, <2>1, StuckStep
  <2>3. PICK y : y = AcquireRef(x, f) OBVIOUS
  <2>4. Stuck(y, "no_memory") BY <2>2, <2>3, StuckStep
  <2> QED BY <2>1, <2>3, <2>4, StuckStep
<1>2. CASE ~Stuck(o, "no_memory")
  <2>1. Fit(o, S, L \cup {f}) /\ f \in G /\ f \notin L /\ f # KernelEnd
    BY <1>2, AllocOne
  <2>2. o \in MemT /\ f \in Frame /\ o.ref[f].there BY <2>1, Frames DEF Fit, Good, Static
  <2>3. PICK x : x = AcquireRef(o, f) OBVIOUS
  <2>4. PICK y : y = Raised(o, f) OBVIOUS
  <2>5. x = y /\ y \in MemT /\ y.ref[f].count = o.ref[f].count + 1 /\ y.ref[f].there
    BY <2>2, <2>3, <2>4, RaisedIs
  <2>6. y.ref[f].count # 0
    <3>1. o.ref[f].count \in Nat BY <2>2 DEF MemT, RefT
    <3> QED BY <2>5, <3>1
  <2>7. ReleaseRef(AcquireRef(y, f), f) = y BY <2>2, <2>5, <2>6, Noop
  <2> QED BY <2>1, <2>2, <2>3, <2>5, <2>7
<1> QED BY <1>1, <1>2

--------------------------------------------------------------------------------
\* The space sp of a parent p and the space ch of its child q.
Two(S, p, q, sp, ch) == Put(Put(S, p, sp), q, ch)

\* The spaces of two processes are replaced.
LEMMA TwoFacts ==
    ASSUME NEW S \in [Proc -> SpaceT], NEW p \in Proc, NEW q \in Proc, p # q, NEW x, NEW y,
           NEW T, T = Two(S, p, q, x, y)
    PROVE  /\ T[p] = x /\ T[q] = y /\ DOMAIN T = Proc
           /\ \A z : Put(T, p, z) = Two(S, p, q, z, y) /\ Put(T, q, z) = Two(S, p, q, x, z)
           /\ \A m, L : Good(m, T, L) => x \in SpaceT /\ y \in SpaceT
           /\ \A m, L : Fit(m, T, L) => x \in SpaceT /\ y \in SpaceT
<1>1. T[p] = x /\ T[q] = y /\ DOMAIN T = Proc BY DEF Two, Put
<1>2. ASSUME NEW m, NEW L, Good(m, T, L) PROVE x \in SpaceT /\ y \in SpaceT
  <2>1. T \in [Proc -> SpaceT] BY <1>2 DEF Good
  <2> QED BY <1>1, <2>1
<1>3. \A z : Put(T, q, z) = Two(S, p, q, x, z) BY DEF Two, Put
<1>4. \A z : Put(T, p, z) = Two(S, p, q, z, y) BY DEF Two, Put
<1> QED BY <1>1, <1>2, <1>3, <1>4 DEF Fit

\* The parent's space after some of its entries became read-only.
Alike(x, sp) ==
    /\ x.dir = sp.dir /\ x.table = sp.table /\ x.pages = sp.pages
    /\ \A b \in Page : /\ x.pte[b] = None <=> sp.pte[b] = None
                       /\ sp.pte[b] # None => (x.pte[b].mode = "private" <=> sp.pte[b].mode = "private")

\* A page that a fork shares.
Shared(sp, b) == sp.pte[b] # None /\ sp.pte[b].mode # "private"

\* The child got the entries of the pages below k.
Copied(sp, ch, k) ==
    \A b \in Page : IF b < k /\ Shared(sp, b)
                    THEN ch.pte[b] # None /\ ch.pte[b].mode # "private"
                    ELSE ch.pte[b] = None

\* The fields of the record that copy_self_mapping works on.
Four == {"mem", "sp", "child", "data"}

\* The tables of the child count.
Counted(m, ch) == \A k \in Table : ch.table[k] # None => m.ref[ch.table[k]].count # 0

\* One entry is copied: the parent and the child share its frame, and it has one more
\* reference.
LEMMA CopyEntryGood ==
    ASSUME NEW S, S \in [Proc -> SpaceT], NEW p \in Proc, NEW q \in Proc, p # q,
           NEW w, DOMAIN w = Four, Fit(w.mem, Two(S, p, q, w.sp, w.child), {}),
           NEW sp, Alike(w.sp, sp), NEW a \in Page, Copied(sp, w.child, a),
           Counted(w.mem, w.child), NEW v, v = CopyEntry(w, a)
    PROVE  /\ DOMAIN v = Four /\ v.data = w.data
           /\ Fit(v.mem, Two(S, p, q, v.sp, v.child), {}) /\ Alike(v.sp, sp)
           /\ v.child.dir = w.child.dir /\ v.child.table = w.child.table
           /\ Copied(sp, v.child, a + 1) /\ Counted(v.mem, v.child)
<1>1. PICK e : e = w.sp.pte[a] OBVIOUS
<1>2. PICK T : T = Two(S, p, q, w.sp, w.child) OBVIOUS
<1>3. /\ T[p] = w.sp /\ T[q] = w.child
      /\ \A z : Put(T, p, z) = Two(S, p, q, z, w.child)
      /\ w.sp \in SpaceT /\ w.child \in SpaceT
  BY <1>2, TwoFacts
<1>4. \A b \in Page : b \in Int BY PagesOfTables
<1>5. \A b \in Page : b < a + 1 <=> b < a \/ b = a BY <1>4
<1>6. (e = None \/ e.mode = "private") <=> ~Shared(sp, a) BY <1>1 DEF Alike, Shared
<1>7. CASE e = None \/ e.mode = "private"
  <2>1. v = w BY <1>1, <1>7 DEF CopyEntry
  <2>2. Copied(sp, w.child, a + 1) BY <1>5, <1>6, <1>7 DEF Copied
  <2> QED BY <2>1, <2>2
<1>8. CASE ~(e = None \/ e.mode = "private")
  <2>1. e \in [frame : G, mode : Mode] BY <1>1, <1>3, <1>8, SpaceFacts
  <2>2. PICK d : d = [e EXCEPT !.mode = "cow"] OBVIOUS
  <2>3. d \in [frame : G, mode : Mode] /\ d.frame = e.frame /\ d.mode = "cow"
    BY <2>1, <2>2 DEF Mode
  <2>4. PICK f : f = e.frame OBVIOUS
  <2>5. PICK s : s = SetPte(w.sp, a, d) OBVIOUS
  <2>6. PICK c : c = SetPte(w.child, a, d) OBVIOUS
  <2>7. PICK m : m = w.mem OBVIOUS
  <2>8. PICK n : n = AcquireRef(m, f) OBVIOUS
  <2>9. v = [w EXCEPT !.sp = s, !.child = c, !.mem = n]
    <3>1. s = [w.sp EXCEPT !.pte[a].mode = "cow"]
      <4>1. [w.sp.pte EXCEPT ![a].mode = "cow"] = [w.sp.pte EXCEPT ![a] = d]
        BY <1>1, <2>2
      <4> QED BY <2>5, <4>1 DEF SetPte
    <3>2. c = [w.child EXCEPT !.pte[a] = [e EXCEPT !.mode = "cow"]] BY <2>2, <2>6 DEF SetPte
    <3> QED BY <1>1, <1>8, <2>4, <2>7, <2>8, <3>1, <3>2 DEF CopyEntry
  <2>10. DOMAIN v = Four /\ v.data = w.data /\ v.mem = n /\ v.sp = s /\ v.child = c
    BY <2>9 DEF Four
  <2>11. Good(m, T, {}) /\ Used(m) /\ m.fail = "none" BY <1>2, <2>7 DEF Fit
  <2>12. PICK R : R = Put(T, p, s) OBVIOUS
  <2>13. /\ Good(m, R, {}) /\ s \in SpaceT /\ f \notin Free(m) /\ KeptBy(R, f) = {} /\ f \in G
    <3>1. T[p].pte[a] # None /\ d.frame = T[p].pte[a].frame /\ s = SetPte(T[p], a, d)
      BY <1>1, <1>3, <1>8, <2>3, <2>5
    <3>2. /\ Good(m, Put(T, p, s), {}) /\ s \in SpaceT /\ d.frame \notin Free(m)
          /\ KeptBy(T, d.frame) = {} /\ \A g : KeptBy(Put(T, p, s), g) = KeptBy(T, g)
      <4>1. PICK E : E = {} OBVIOUS
      <4>2. Good(m, T, E) BY <2>11, <4>1
      <4>3. d \in [frame : G, mode : Mode] BY <2>3
      <4>4. /\ Good(m, Put(T, p, s), E) /\ s \in SpaceT /\ d.frame \notin Free(m)
            /\ KeptBy(T, d.frame) = {} /\ \A g : KeptBy(Put(T, p, s), g) = KeptBy(T, g)
        BY ONLY <3>1, <4>2, <4>3, p \in Proc, a \in Page, ModeGood
      <4> QED BY <4>1, <4>4
    <3> QED BY <2>1, <2>3, <2>4, <2>12, <3>2
  <2>14. /\ R = Two(S, p, q, s, w.child) /\ R[q] = w.child
         /\ \A z : Put(R, q, z) = Two(S, p, q, s, z)
    <3>1. R = Two(S, p, q, s, w.child) BY <1>3, <2>12
    <3> QED BY <3>1, TwoFacts
  <2>15. R[q].pte[a] = None BY <1>4, <2>14 DEF Copied
  <2>16. /\ Good(n, Put(R, q, c), {} \ {f}) /\ n.fail = m.fail /\ n.free = m.free /\ c \in SpaceT
    <3>1. c = SetPte(R[q], a, d) /\ d.frame = f BY <2>3, <2>4, <2>6, <2>14
    <3>0. PICK E : E = {} OBVIOUS
    <3>2. Good(m, R, E) /\ f \in G /\ f \notin Free(m) /\ KeptBy(R, f) = {} /\ n = AcquireRef(m, f)
      BY <2>8, <2>13, <3>0
    <3>3. d \in [frame : G, mode : Mode] BY <2>3
    <3>4. /\ Good(n, Put(R, q, c), E \ {f}) /\ n.fail = m.fail /\ n.free = m.free /\ c \in SpaceT
      BY ONLY <2>15, <3>1, <3>2, <3>3, q \in Proc, a \in Page, MapGood
    <3> QED BY <3>0, <3>4
  <2>17. Fit(n, Two(S, p, q, s, c), {})
    <3>1. {} \ {f} = {} OBVIOUS
    <3> QED BY <2>11, <2>14, <2>16, <3>1 DEF Fit, Used, Free
  <2>18. /\ s.pages = w.sp.pages /\ s.dir = w.sp.dir /\ s.table = w.sp.table /\ s.pte[a] = d
         /\ \A b \in Page : b # a => s.pte[b] = w.sp.pte[b]
    <3>1. w.sp \in SpaceT BY <1>3
    <3> QED BY ONLY <2>5, <3>1, a \in Page, SetPteFacts
  <2>19. /\ c.dir = w.child.dir /\ c.table = w.child.table /\ c.pte[a] = d
         /\ \A b \in Page : b # a => c.pte[b] = w.child.pte[b]
    <3>1. w.child \in SpaceT BY <1>3
    <3> QED BY ONLY <2>6, <3>1, a \in Page, SetPteFacts
  <2>20. d # None
    <3>1. d.mode \in {"regular", "cow", "private"} /\ d.frame \in Frame BY <2>3, <2>4, <2>13, Frames
    <3>2. d \in Entry BY <2>3, <3>1 DEF Entry
    <3> QED BY <3>2, MemoryAssumption
  <2>21. Alike(s, sp) BY <1>6, <1>8, <2>3, <2>18, <2>20 DEF Alike, Shared
  <2>22. Copied(sp, c, a + 1) BY <1>5, <1>6, <1>8, <2>3, <2>19, <2>20 DEF Copied
  <2>23. Counted(n, c)
    <3>1. m \in MemT /\ f \in Frame /\ m.ref[f].there BY <2>11, <2>13, Frames DEF Good, Static
    <3>2. Recount(m, n, f, m.ref[f].count + 1) BY <2>8, <3>1, AcquireEffect
    <3>3. \A g \in Frame : m.ref[g].count \in Nat BY <3>1 DEF MemT, RefT
    <3>4. \A g \in Frame : m.ref[g].count # 0 => n.ref[g].count # 0
      BY <3>1, <3>2, <3>3 DEF Recount
    <3>5. \A k \in Table : w.child.table[k] # None => w.child.table[k] \in Frame
      BY <1>3, SpaceFacts, Frames
    <3>6. \A k \in Table : w.child.table[k] # None => m.ref[w.child.table[k]].count # 0
      BY <2>7 DEF Counted
    <3> QED BY <2>19, <3>4, <3>5, <3>6 DEF Counted
  <2> QED BY <2>10, <2>17, <2>19, <2>21, <2>22, <2>23
<1> QED BY <1>7, <1>8

--------------------------------------------------------------------------------
\* A table covers the pages from its first on.
LEMMA TableRange ==
    ASSUME NEW t \in Table, NEW n, n = TableSize, NEW a, a = t * TableSize
    PROVE  /\ n \in Nat \ {0} /\ t \in Int /\ a \in Int /\ (t + 1) * TableSize = a + n
           /\ \A b \in a .. a + n - 1 : b \in Page
           /\ \A b \in Page : TableOf(b) = t <=> b \in a .. a + n - 1
<1>1. n \in Nat \ {0} /\ t \in Int BY PagesOfTables DEF Table
<1>2. a \in Int /\ (t + 1) * TableSize = a + n BY <1>1
<1>3. \A i \in 0 .. n - 1 : a + i \in Page /\ TableOf(a + i) = t
  <2>1. \A i \in 0 .. TableSize - 1 : t * TableSize + i \in Page /\ TableOf(t * TableSize + i) = t
    BY PagesOfTables
  <2> QED BY <2>1
<1>4. ASSUME NEW b \in a .. a + n - 1 PROVE b \in Page /\ TableOf(b) = t
  <2>1. PICK i : i = b - a OBVIOUS
  <2>2. i \in 0 .. n - 1 /\ b = a + i BY <1>1, <1>2, <2>1
  <2> QED BY <1>3, <2>2
<1>5. ASSUME NEW b \in Page, TableOf(b) = t PROVE b \in a .. a + n - 1
  <2>1. PICK i \in 0 .. TableSize - 1 : b = TableOf(b) * TableSize + i BY PagesOfTables
  <2>2. b = a + i /\ i \in 0 .. n - 1 BY <1>5, <2>1
  <2> QED BY <1>1, <1>2, <2>2
<1> QED BY <1>1, <1>2, <1>4, <1>5

\* memory_copy_self_pgtable: c holds the table and the state before.
EntryTurn(c, v, i) == CopyEntry(v, c.t * TableSize + i)

\* The loop of copy_self_mapping over the entries of a table.
CopyEntries(w, t) == FoldLeft(LAMBDA x, i : CopyEntry(x, t * TableSize + i), w, UpTo(TableSize))

\* What it keeps.
EntryKeeps(c, i, v) ==
    /\ DOMAIN v = Four /\ v.data = c.data
    /\ \/ Stuck(v.mem, "no_memory")
       \/ /\ ~Stuck(c.mem, "no_memory")
          /\ Fit(v.mem, Two(c.S, c.p, c.q, v.sp, v.child), {}) /\ Alike(v.sp, c.sp)
          /\ v.child.dir = c.dir /\ v.child.table = c.table
          /\ Copied(c.sp, v.child, c.a + i) /\ Counted(v.mem, v.child)

\* The loop over the entries.
Entries == INSTANCE LoopProofs WITH Step <- EntryTurn, Keeps <- EntryKeeps

\* The entries of one table are copied, or the memory was out before.
LEMMA CopyEntriesGood ==
    ASSUME NEW S, S \in [Proc -> SpaceT], NEW p \in Proc, NEW q \in Proc, p # q, NEW sp,
           NEW t \in Table, NEW n, n = TableSize, NEW a, a = t * TableSize,
           NEW w, DOMAIN w = Four,
           \/ Stuck(w.mem, "no_memory")
           \/ /\ Fit(w.mem, Two(S, p, q, w.sp, w.child), {}) /\ Alike(w.sp, sp)
              /\ Copied(sp, w.child, a) /\ Counted(w.mem, w.child),
           NEW v, v = CopyEntries(w, t)
    PROVE  /\ DOMAIN v = Four /\ v.data = w.data
           /\ \/ Stuck(v.mem, "no_memory")
              \/ /\ ~Stuck(w.mem, "no_memory")
                 /\ Fit(v.mem, Two(S, p, q, v.sp, v.child), {}) /\ Alike(v.sp, sp)
                 /\ v.child.dir = w.child.dir /\ v.child.table = w.child.table
                 /\ Copied(sp, v.child, a + n) /\ Counted(v.mem, v.child)
<1>0. n \in Nat /\ a \in Int /\ \A b \in a .. a + n - 1 : b \in Page BY TableRange
<1>1. PICK c : c = [a |-> a, t |-> t, S |-> S, p |-> p, q |-> q, sp |-> sp, data |-> w.data,
                    dir |-> w.child.dir, table |-> w.child.table, mem |-> w.mem] OBVIOUS
<1>2. /\ c.a = a /\ c.t = t /\ c.S = S /\ c.p = p /\ c.q = q /\ c.sp = sp /\ c.data = w.data
      /\ c.dir = w.child.dir /\ c.table = w.child.table /\ c.mem = w.mem
  BY <1>1
<1>3. PICK u : u = UpTo(n) OBVIOUS
<1>4. DOMAIN u = 1 .. n /\ \A i \in 0 .. n - 1 : u[i + 1] = i BY <1>0, <1>3, UpToIs
<1>5. v = Entries!Fold(c, w, u)
  <2>1. Entries!Fold(c, w, u) = FoldLeft(LAMBDA x, i : CopyEntry(x, t * TableSize + i), w, u)
    BY <1>2 DEF Entries!Fold, EntryTurn, FoldLeft, Entries!Largest, MapThenFoldSet, Max
  <2> QED BY <1>3, <2>1 DEF CopyEntries
<1>6. EntryKeeps(c, 0, w)
  <2>1. a + 0 = a BY <1>0
  <2> QED BY <1>2, <2>1 DEF EntryKeeps
<1>7. ASSUME NEW i \in 0 .. n - 1, NEW x, EntryKeeps(c, i, x)
      PROVE  EntryKeeps(c, i + 1, EntryTurn(c, x, u[i + 1]))
  <2>1. PICK y : y = EntryTurn(c, x, u[i + 1]) OBVIOUS
  <2>2. PICK b : b = a + i OBVIOUS
  <2>3. y = CopyEntry(x, b) BY <1>2, <1>4, <2>1, <2>2 DEF EntryTurn

  <2>4. b \in Page /\ b + 1 = a + (i + 1) BY <1>0, <2>2
  <2>5. DOMAIN x = Four /\ x.data = w.data BY <1>2, <1>7 DEF EntryKeeps
  <2>6. CASE Stuck(x.mem, "no_memory")
    <3>1. PICK h : h = AcquireRef(x.mem, x.sp.pte[b].frame) OBVIOUS
    <3>2. Stuck(h, "no_memory") BY <2>6, <3>1, StuckStep
    <3>3. DOMAIN y = Four /\ y.data = x.data /\ (y.mem = x.mem \/ y.mem = h)
      BY <2>3, <2>5, <3>1 DEF CopyEntry, Four
    <3> QED BY <1>2, <2>1, <2>5, <2>6, <3>2, <3>3 DEF EntryKeeps
  <2>7. CASE ~Stuck(x.mem, "no_memory")
    <3>1. /\ ~Stuck(w.mem, "no_memory")
          /\ Fit(x.mem, Two(S, p, q, x.sp, x.child), {}) /\ Alike(x.sp, sp)
          /\ x.child.dir = w.child.dir /\ x.child.table = w.child.table
          /\ Copied(sp, x.child, b) /\ Counted(x.mem, x.child)
      BY <1>2, <1>7, <2>2, <2>7 DEF EntryKeeps
    <3>2. /\ DOMAIN y = Four /\ y.data = x.data
          /\ Fit(y.mem, Two(S, p, q, y.sp, y.child), {}) /\ Alike(y.sp, sp)
          /\ y.child.dir = x.child.dir /\ y.child.table = x.child.table
          /\ Copied(sp, y.child, b + 1) /\ Counted(y.mem, y.child)
      BY ONLY S \in [Proc -> SpaceT], p \in Proc, q \in Proc, p # q, <2>3, <2>4, <2>5, <3>1,
              CopyEntryGood
    <3> QED BY <1>2, <2>1, <2>4, <2>5, <3>1, <3>2 DEF EntryKeeps
  <2> QED BY <2>6, <2>7
<1>8. EntryKeeps(c, n, v)
  <2>1. \A i \in 0 .. n - 1 : \A x : EntryKeeps(c, i, x) => EntryKeeps(c, i + 1, EntryTurn(c, x, u[i + 1]))
    BY <1>7
  <2>0. Entries!Climbs(n)
    <3>1. n \in Nat BY <1>4, <1>0
    <3> QED BY <3>1, Climb DEF Entries!Climbs
  <2>2. EntryKeeps(c, n, Entries!Fold(c, w, u)) BY ONLY <2>0, <1>0, <1>4, <1>6, <2>1, Entries!LoopRule
  <2> QED BY <1>5, <2>2
<1> QED BY <1>2, <1>8 DEF EntryKeeps

--------------------------------------------------------------------------------
\* The child has the tables below i.
Rooted(sp, ch, i) ==
    \A k \in Table : IF k < i THEN ch.table[k] # None <=> sp.table[k] # None
                     ELSE ch.table[k] = None

\* One table and its entries are copied, or the memory is out.
LEMMA CopyTableGood ==
    ASSUME NEW S, S \in [Proc -> SpaceT], NEW p \in Proc, NEW q \in Proc, p # q,
           NEW sp, Tabled(sp), NEW t \in Table, NEW w, DOMAIN w = Four,
           \/ Stuck(w.mem, "no_memory")
           \/ /\ Fit(w.mem, Two(S, p, q, w.sp, w.child), {}) /\ Alike(w.sp, sp)
              /\ Rooted(sp, w.child, t) /\ Copied(sp, w.child, t * TableSize)
              /\ Counted(w.mem, w.child),
           NEW v, v = CopyTable(w, t)
    PROVE  /\ DOMAIN v = Four /\ v.data = w.data
           /\ \/ Stuck(v.mem, "no_memory")
              \/ /\ Fit(v.mem, Two(S, p, q, v.sp, v.child), {}) /\ Alike(v.sp, sp)
                 /\ v.child.dir = w.child.dir
                 /\ Rooted(sp, v.child, t + 1) /\ Copied(sp, v.child, (t + 1) * TableSize)
                 /\ Counted(v.mem, v.child) /\ ~Stuck(w.mem, "no_memory")
<1>1. PICK n : n = TableSize OBVIOUS
<1>2. PICK a : a = t * TableSize OBVIOUS
<1>3. /\ n \in Nat \ {0} /\ t \in Int /\ a \in Int /\ (t + 1) * TableSize = a + n
      /\ \A b \in a .. a + n - 1 : b \in Page
      /\ \A b \in Page : TableOf(b) = t <=> b \in a .. a + n - 1
  BY <1>1, <1>2, TableRange
<1>4. \A k \in Table : k \in Int /\ (k < t + 1 <=> k < t \/ k = t) BY <1>3 DEF Table
<1>5. CASE w.sp.table[t] = None
  <2>1. v = w BY <1>5 DEF CopyTable
  <2>2. CASE Stuck(w.mem, "no_memory") BY <2>1, <2>2
  <2>3. CASE ~Stuck(w.mem, "no_memory")
    <3>1. sp.table[t] = None BY <1>5, <2>3 DEF Alike
    <3>2. Rooted(sp, w.child, t + 1) BY <1>4, <2>3, <3>1, t < t + 1 DEF Rooted
    <3>3. ASSUME NEW b \in Page, Shared(sp, b) PROVE b < a <=> b < a + n
      <4>1. TableOf(b) # t BY <3>1, <3>3 DEF Tabled, Shared
      <4>2. b \in Int BY PagesOfTables
      <4> QED BY <1>3, <4>1, <4>2
    <3>4. Copied(sp, w.child, a + n) BY <1>2, <2>3, <3>3 DEF Copied
    <3> QED BY <1>3, <2>1, <2>3, <3>2, <3>4
  <2> QED BY <2>2, <2>3
<1>6. CASE w.sp.table[t] # None
  <2>1. PICK f : f = FrameAddress(w.mem, 1) OBVIOUS
  <2>2. PICK o : o = AllocFrames(w.mem, 1) OBVIOUS
  <2>3. PICK m : m = ReleaseRef(AcquireRef(AcquireRef(o, f), f), f) OBVIOUS
  <2>4. PICK s : s = SetRoot(w.child, t, f) OBVIOUS
  <2>5. s = [w.child EXCEPT !.table[t] = f]
    <3>1. t # -1 BY DEF Table
    <3> QED BY <2>4, <3>1 DEF SetRoot
  <2>6. PICK x : x = [w EXCEPT !.mem = m, !.child = s] OBVIOUS
  <2>7. DOMAIN x = Four /\ x.mem = m /\ x.child = s /\ x.sp = w.sp /\ x.data = w.data
    BY <2>6 DEF Four
  <2>8. v = CopyEntries(x, t)
    <3>1. x = [w EXCEPT !.mem = UnmapTemp(AcquireRef(MapTemp(AllocFrames(@, 1), f), f), f),
                        !.child.table[t] = f]
      BY <2>2, <2>3, <2>5, <2>6 DEF UnmapTemp, MapTemp
    <3> QED BY <1>6, <2>1, <3>1 DEF CopyTable, CopyEntries
  <2>9. \/ Stuck(m, "no_memory")
        \/ /\ Fit(m, Two(S, p, q, w.sp, s), {}) /\ Alike(w.sp, sp) /\ w.child \in SpaceT /\ f # None
           /\ Rooted(sp, w.child, t) /\ Copied(sp, w.child, a) /\ Counted(m, s)
           /\ ~Stuck(w.mem, "no_memory")
    <3>1. CASE Stuck(w.mem, "no_memory")
      <4>1. Stuck(o, "no_memory") BY <2>2, <3>1, StuckStep
      <4>2. PICK g : g = AcquireRef(o, f) OBVIOUS
      <4>3. Stuck(g, "no_memory") BY <4>1, <4>2, StuckStep
      <4>4. PICK h : h = AcquireRef(g, f) OBVIOUS
      <4>5. Stuck(h, "no_memory") BY <4>3, <4>4, StuckStep
      <4>6. m = ReleaseRef(h, f) BY <2>3, <4>2, <4>4
      <4> QED BY <4>5, <4>6, StuckStep
    <3>2. CASE ~Stuck(w.mem, "no_memory")
      <4>1. /\ Fit(w.mem, Two(S, p, q, w.sp, w.child), {}) /\ Alike(w.sp, sp)
            /\ Rooted(sp, w.child, t) /\ Copied(sp, w.child, a) /\ Counted(w.mem, w.child)
        BY <1>2, <3>2
      <4>2. PICK T : T = Two(S, p, q, w.sp, w.child) OBVIOUS
      <4>3. /\ T[q] = w.child /\ w.child \in SpaceT
            /\ \A z : Put(T, q, z) = Two(S, p, q, w.sp, z)
        BY <4>1, <4>2, TwoFacts
      <4>4. PICK E, g : E = {} /\ g = w.mem OBVIOUS

      <4>5. Fit(g, T, E) /\ o = AllocFrames(g, 1) /\ f = FrameAddress(g, 1) BY <2>1, <2>2, <4>1, <4>2, <4>4
      <4>6. \/ Stuck(m, "no_memory")
            \/ m = AcquireRef(o, f) /\ Fit(o, T, E \cup {f}) /\ f \in G /\ f \notin E /\ f # KernelEnd
               /\ o.ref[f].there
        BY ONLY <2>3, <4>5, TempGood
      <4>7. ASSUME ~Stuck(m, "no_memory") PROVE Fit(m, Two(S, p, q, w.sp, s), {}) /\ f # None
        <5>1. PICK L : L = E \cup {f} OBVIOUS
        <5>2. Good(o, T, L) /\ f \in L /\ f # KernelEnd /\ m = AcquireRef(o, f) /\ Used(o) /\ o.fail = "none"
          BY <4>6, <4>7, <5>1 DEF Fit
        <5>3. Root(T[q], t) = None /\ s = SetRoot(T[q], t, f) /\ t \in Slot
          <6>1. t # -1 /\ t \in Slot BY DEF Table, Slot
          <6>2. w.child.table[t] = None BY <1>3, <4>1 DEF Rooted
          <6> QED BY <2>4, <4>3, <6>1, <6>2 DEF Root
        <5>4. Good(m, Put(T, q, s), L \ {f}) /\ m.fail = o.fail /\ m.free = o.free
          <6>1. (m = o /\ t # -1) \/ m = AcquireRef(o, f) BY <5>2
          <6>2. Good(o, T, L) /\ f \in L /\ f # KernelEnd BY <5>2
          <6> QED BY ONLY <5>3, <6>1, <6>2, q \in Proc, RootGood
        <5>5. L \ {f} = {} BY <4>4, <5>1
        <5>6. f # None BY <4>6, <4>7, Frames
        <5> QED BY <4>3, <5>2, <5>4, <5>5, <5>6 DEF Fit, Used, Free
      <4>8. ASSUME ~Stuck(m, "no_memory") PROVE Counted(m, s)
        <5>1. o \in MemT /\ f \in Frame /\ o.ref[f].there BY <4>6, <4>8, Frames DEF Fit, Good
        <5>2. m = AcquireRef(o, f) BY <4>6, <4>8
        <5>3. Recount(o, m, f, o.ref[f].count + 1) BY <5>1, <5>2, AcquireEffect
        <5>4. o.ref = g.ref
          <6>1. Fit(g, T, E) BY <4>5
          <6>2. ~Stuck(o, "no_memory")
            <7>1. SUFFICES ASSUME Stuck(o, "no_memory") PROVE FALSE OBVIOUS
            <7>2. Stuck(m, "no_memory") BY <5>2, <7>1, StuckStep
            <7> QED BY <4>8, <7>2
          <6> QED BY <4>5, <6>2, AllocOne
        <5>5. \A h \in Frame : o.ref[h].count \in Nat BY <5>1 DEF MemT, RefT
        <5>6. \A h \in Frame : o.ref[h].count # 0 => m.ref[h].count # 0
          BY <5>1, <5>3, <5>5 DEF Recount
        <5>7. m.ref[f].count # 0 BY <5>1, <5>3, <5>5 DEF Recount
        <5>8. /\ s.table[t] = f /\ \A k \in Table : k # t => s.table[k] = w.child.table[k]
          BY <2>4, <4>3, SetTableFacts
        <5>9. \A k \in Table : w.child.table[k] # None => w.child.table[k] \in Frame
          BY <4>3, SpaceFacts, Frames
        <5>10. \A k \in Table : w.child.table[k] # None => o.ref[w.child.table[k]].count # 0
          BY <4>1, <4>4, <5>4 DEF Counted
        <5>11. \A k \in Table : k # t /\ s.table[k] # None => m.ref[s.table[k]].count # 0
          BY <5>6, <5>8, <5>9, <5>10
        <5> QED BY <5>7, <5>8, <5>11 DEF Counted
      <4> QED BY <3>2, <4>1, <4>3, <4>7, <4>8
    <3> QED BY <3>1, <3>2
  <2>10. ASSUME ~Stuck(m, "no_memory")
         PROVE  /\ Fit(x.mem, Two(S, p, q, x.sp, x.child), {}) /\ Alike(x.sp, sp)
                /\ Copied(sp, x.child, a) /\ Rooted(sp, x.child, t + 1) /\ x.child.dir = w.child.dir
                /\ Counted(x.mem, x.child) /\ ~Stuck(w.mem, "no_memory")
    <3>1. /\ s.pages = w.child.pages /\ s.dir = w.child.dir /\ s.pte = w.child.pte /\ s.table[t] = f
          /\ \A k \in Table : k # t => s.table[k] = w.child.table[k]
      BY <2>4, <2>9, <2>10, SetTableFacts
    <3>2. Copied(sp, s, a) BY <2>9, <2>10, <3>1 DEF Copied
    <3>3. sp.table[t] # None BY <1>6, <2>9, <2>10 DEF Alike
    <3>4. Rooted(sp, s, t + 1) BY <1>3, <1>4, <2>9, <2>10, <3>1, <3>3 DEF Rooted
    <3> QED BY <2>7, <2>9, <2>10, <3>1, <3>2, <3>4
  <2>11. /\ DOMAIN v = Four /\ v.data = x.data
         /\ \/ Stuck(v.mem, "no_memory")
            \/ /\ ~Stuck(x.mem, "no_memory")
               /\ Fit(v.mem, Two(S, p, q, v.sp, v.child), {}) /\ Alike(v.sp, sp)
               /\ v.child.dir = x.child.dir /\ v.child.table = x.child.table
               /\ Copied(sp, v.child, a + n) /\ Counted(v.mem, v.child)
    <3>1. \/ Stuck(x.mem, "no_memory")
          \/ /\ Fit(x.mem, Two(S, p, q, x.sp, x.child), {}) /\ Alike(x.sp, sp)
             /\ Copied(sp, x.child, a) /\ Counted(x.mem, x.child)
      BY <2>7, <2>10
    <3>2. t \in Table /\ DOMAIN x = Four BY <2>7
    <3> QED BY ONLY S \in [Proc -> SpaceT], p \in Proc, q \in Proc, p # q, <1>1, <1>2, <2>8, <3>1, <3>2,
                    CopyEntriesGood
  <2>12. CASE Stuck(v.mem, "no_memory") BY <2>7, <2>11, <2>12
  <2>13. CASE ~Stuck(v.mem, "no_memory")
    <3>1. ~Stuck(x.mem, "no_memory") /\ ~Stuck(m, "no_memory") BY <2>7, <2>11, <2>13
    <3>2. Rooted(sp, v.child, t + 1) BY <2>7, <2>10, <2>11, <2>13, <3>1 DEF Rooted
    <3> QED BY <1>3, <2>7, <2>10, <2>11, <2>13, <3>1, <3>2
  <2> QED BY <2>12, <2>13
<1> QED BY <1>5, <1>6

--------------------------------------------------------------------------------
\* The loop over the tables in memory_copy_self_mapping: c holds the state before it.
TableTurn(c, v, t) == CopyTable(v, t)

\* What the loop over the tables keeps.
TableKeeps(c, i, v) ==
    /\ DOMAIN v = Four /\ v.data = c.data
    /\ \/ Stuck(v.mem, "no_memory")
       \/ /\ ~Stuck(c.mem, "no_memory")
          /\ Fit(v.mem, Two(c.S, c.p, c.q, v.sp, v.child), {}) /\ Alike(v.sp, c.sp)
          /\ v.child.dir = c.dir /\ Rooted(c.sp, v.child, i)
          /\ Copied(c.sp, v.child, i * TableSize) /\ Counted(v.mem, v.child)

\* The loop of copy_self_mapping over the tables.
TablesOf == INSTANCE LoopProofs WITH Step <- TableTurn, Keeps <- TableKeeps

\* The same as a fold.
CopyTables(w) == FoldLeft(CopyTable, w, UpTo(NbTables))

\* All tables are copied, or the memory is out.
LEMMA CopyTablesGood ==
    ASSUME NEW S, S \in [Proc -> SpaceT], NEW p \in Proc, NEW q \in Proc, p # q,
           NEW sp, Tabled(sp), NEW w, DOMAIN w = Four,
           \/ Stuck(w.mem, "no_memory")
           \/ /\ Fit(w.mem, Two(S, p, q, w.sp, w.child), {}) /\ Alike(w.sp, sp)
              /\ Rooted(sp, w.child, 0) /\ Copied(sp, w.child, 0) /\ Counted(w.mem, w.child),
           NEW v, v = CopyTables(w)
    PROVE  /\ DOMAIN v = Four /\ v.data = w.data
           /\ \/ Stuck(v.mem, "no_memory")
              \/ /\ ~Stuck(w.mem, "no_memory")
                 /\ Fit(v.mem, Two(S, p, q, v.sp, v.child), {}) /\ Alike(v.sp, sp)
                 /\ v.child.dir = w.child.dir /\ Rooted(sp, v.child, NbTables)
                 /\ Copied(sp, v.child, NbTables * TableSize) /\ Counted(v.mem, v.child)
<1>0. PICK n : n = NbTables OBVIOUS
<1>1. PICK c : c = [S |-> S, p |-> p, q |-> q, sp |-> sp, data |-> w.data,
                    dir |-> w.child.dir, mem |-> w.mem] OBVIOUS
<1>2. /\ c.S = S /\ c.p = p /\ c.q = q /\ c.sp = sp /\ c.data = w.data
      /\ c.dir = w.child.dir /\ c.mem = w.mem
  BY <1>1
<1>3. PICK u : u = UpTo(n) OBVIOUS
<1>4. DOMAIN u = 1 .. n /\ (\A i \in 0 .. n - 1 : u[i + 1] = i) /\ n \in Nat
  BY <1>0, <1>3, UpToIs, PagesOfTables
<1>5. v = TablesOf!Fold(c, w, u)
  <2>1. TablesOf!Fold(c, w, u) = FoldLeft(CopyTable, w, u)
    BY DEF TablesOf!Fold, TableTurn, FoldLeft, TablesOf!Largest, MapThenFoldSet, Max
  <2> QED BY <1>0, <1>3, <2>1 DEF CopyTables
<1>6. TableKeeps(c, 0, w)
  <2>1. 0 * TableSize = 0 BY PagesOfTables
  <2> QED BY <1>2, <2>1 DEF TableKeeps
<1>7. ASSUME NEW i \in 0 .. n - 1, NEW x, TableKeeps(c, i, x)
      PROVE  TableKeeps(c, i + 1, TableTurn(c, x, u[i + 1]))
  <2>1. PICK y : y = TableTurn(c, x, u[i + 1]) OBVIOUS
  <2>2. y = CopyTable(x, i) BY <1>4, <2>1 DEF TableTurn
  <2>3. i \in Table BY <1>0 DEF Table
  <2>4. DOMAIN x = Four /\ x.data = w.data BY <1>2, <1>7 DEF TableKeeps
  <2>5. \/ Stuck(x.mem, "no_memory")
        \/ /\ ~Stuck(w.mem, "no_memory") /\ x.child.dir = w.child.dir
           /\ Fit(x.mem, Two(S, p, q, x.sp, x.child), {}) /\ Alike(x.sp, sp)
           /\ Rooted(sp, x.child, i) /\ Copied(sp, x.child, i * TableSize)
           /\ Counted(x.mem, x.child)
    BY <1>2, <1>7 DEF TableKeeps
  <2>6. \/ Stuck(x.mem, "no_memory")
        \/ /\ Fit(x.mem, Two(S, p, q, x.sp, x.child), {}) /\ Alike(x.sp, sp)
           /\ Rooted(sp, x.child, i) /\ Copied(sp, x.child, i * TableSize)
           /\ Counted(x.mem, x.child)
    BY <2>5
  <2>7. /\ DOMAIN y = Four /\ y.data = x.data
        /\ \/ Stuck(y.mem, "no_memory")
           \/ /\ Fit(y.mem, Two(S, p, q, y.sp, y.child), {}) /\ Alike(y.sp, sp)
              /\ y.child.dir = x.child.dir
              /\ Rooted(sp, y.child, i + 1) /\ Copied(sp, y.child, (i + 1) * TableSize)
              /\ Counted(y.mem, y.child) /\ ~Stuck(x.mem, "no_memory")
    BY ONLY S \in [Proc -> SpaceT], p \in Proc, q \in Proc, p # q, Tabled(sp), <2>2, <2>3, <2>4,
            <2>6, CopyTableGood
  <2> QED BY <1>2, <2>1, <2>4, <2>5, <2>7 DEF TableKeeps
<1>8. TableKeeps(c, n, v)
  <2>1. \A i \in 0 .. n - 1 : \A x : TableKeeps(c, i, x) => TableKeeps(c, i + 1, TableTurn(c, x, u[i + 1]))
    BY <1>7
  <2>0. TablesOf!Climbs(n)
    <3>1. n \in Nat BY <1>4
    <3> QED BY <3>1, Climb DEF TablesOf!Climbs
  <2>2. TableKeeps(c, n, TablesOf!Fold(c, w, u)) BY ONLY <2>0, <1>4, <1>6, <2>1, TablesOf!LoopRule
  <2> QED BY <1>5, <2>2
<1> QED BY <1>0, <1>2, <1>8 DEF TableKeeps

--------------------------------------------------------------------------------
\* The child gets a directory, or the memory is out.
LEMMA NewDirectoryGood ==
    ASSUME NEW S, S \in [Proc -> SpaceT], NEW p \in Proc, NEW q \in Proc, p # q,
           S[q] = NoSpace, NEW m, Fit(m, S, {}), NEW d,
           NEW w, w = NewDirectory([mem |-> m, sp |-> S[p], child |-> NoSpace, data |-> d])
    PROVE  /\ DOMAIN w = Four /\ w.data = d /\ w.sp = S[p]
           /\ w.child.pte = NoSpace.pte /\ w.child.table = NoSpace.table
           /\ \/ Stuck(w.mem, "no_memory")
              \/ Fit(w.mem, Two(S, p, q, w.sp, w.child), {}) /\ w.child.dir \in G
<1>1. PICK o : o = AllocFrames(m, 1) OBVIOUS
<1>2. PICK f : f = FrameAddress(m, 1) OBVIOUS
<1>3. PICK n : n = ReleaseRef(AcquireRef(AcquireRef(o, f), f), f) OBVIOUS
<1>4. PICK s : s = SetRoot(NoSpace, -1, f) OBVIOUS
<1>5. w = [mem |-> n, sp |-> S[p], child |-> s, data |-> d]
  BY <1>1, <1>2, <1>3, <1>4 DEF NewDirectory, MapTemp, UnmapTemp, SetRoot
<1>6. DOMAIN w = Four /\ w.data = d /\ w.sp = S[p] /\ w.child = s /\ w.mem = n
  BY <1>5 DEF Four
<1>7. s.dir = f /\ s.pte = NoSpace.pte /\ s.table = NoSpace.table BY <1>4 DEF SetRoot, NoSpace
<1>8. PICK E : E = {} OBVIOUS
<1>9. \/ Stuck(n, "no_memory")
      \/ n = AcquireRef(o, f) /\ Fit(o, S, E \cup {f}) /\ f \in G /\ f \notin E /\ f # KernelEnd
         /\ o.ref[f].there
  <2>1. Fit(m, S, E) BY <1>8
  <2> QED BY ONLY <1>1, <1>2, <1>3, <2>1, TempGood
<1>10. ASSUME ~Stuck(n, "no_memory") PROVE Fit(n, Two(S, p, q, S[p], s), {}) /\ f # None
  <2>1. PICK L : L = E \cup {f} OBVIOUS
  <2>2. PICK j : j = -1 OBVIOUS
  <2>3. Root(S[q], j) = None /\ s = SetRoot(S[q], j, f) /\ j \in Slot
    <3>1. NbTables - 1 \in Nat BY PagesOfTables
    <3> QED BY <1>4, <2>2, <3>1 DEF Root, NoSpace, Slot
  <2>4. Good(o, S, L) /\ f \in L /\ f # KernelEnd BY <1>9, <1>10, <2>1 DEF Fit
  <2>5. (n = o /\ j # -1) \/ n = AcquireRef(o, f) BY <1>9, <1>10
  <2>6. Good(n, Put(S, q, s), L \ {f}) /\ n.fail = o.fail /\ n.free = o.free
    <3>1. Root(S[q], j) = None BY <2>3
    <3>2. s = SetRoot(S[q], j, f) BY <2>3
    <3>3. j \in Slot BY <2>3
    <3> QED BY ONLY <3>1, <3>2, <3>3, <2>4, <2>5, q \in Proc, RootGood, SMTT(60)
  <2>7. L \ {f} = {} BY <1>8, <2>1
  <2>8. Put(S, q, s) = Two(S, p, q, S[p], s) BY DEF Put, Two
  <2> QED BY <1>9, <1>10, <2>6, <2>7, <2>8, Frames DEF Fit, Used, Free
<1> QED BY <1>6, <1>7, <1>9, <1>10

--------------------------------------------------------------------------------
\* The references taken and dropped while a page of the stack is copied cancel out.
LEMMA StackMem ==
    ASSUME NEW m, NEW S, NEW L, Fit(m, S, L), NEW d \in G, m.ref[d].count # 0,
           NEW f, f = FrameAddress(m, 1),
           NEW x, x = AcquireRef(AllocFrames(AcquireRef(m, d), 1), f),
           NEW n, n = ReleaseRef(ReleaseRef(AcquireRef(x, f), f), d),
           NEW o, o = AllocFrames(m, 1)
    PROVE  \/ Stuck(n, "no_memory")
           \/ n = AcquireRef(o, f) /\ Fit(o, S, L \cup {f}) /\ f \in G /\ f \notin L /\ f # KernelEnd
              /\ o.ref = m.ref
<1>0. m \in MemT /\ d \in Frame /\ m.ref[d].there BY Frames DEF Fit, Good, Static
<1>1. PICK r : r = AcquireRef(m, d) OBVIOUS
<1>2. PICK k : k = AllocFrames(r, 1) OBVIOUS
<1>3. x = AcquireRef(k, f) BY <1>1, <1>2
<1>4. CASE Stuck(o, "no_memory")
  <2>1. ~HasBlock(m.free, 1)
    <3>1. SUFFICES ASSUME HasBlock(m.free, 1) PROVE FALSE OBVIOUS
    <3>2. o.fail = m.fail BY <1>0, <3>1 DEF AllocFrames, MemT
    <3> QED BY <1>4, <3>2 DEF Stuck, Fit
  <2>2. r \in MemT /\ r.free = m.free /\ r.fail = m.fail
    <3>1. Recount(m, r, d, m.ref[d].count + 1) BY <1>0, <1>1, AcquireEffect
    <3> QED BY <3>1 DEF Recount
  <2>3. k = Fail(r, "no_memory") BY <1>2, <2>1, <2>2 DEF AllocFrames
  <2>4. "no_memory" # "none" /\ r.fail = "none" BY <2>2 DEF Fit
  <2>5. Stuck(k, "no_memory") BY <2>2, <2>3, <2>4, StuckStart
  <2>6. Stuck(x, "no_memory") BY <1>3, <2>5, StuckStep
  <2>7. PICK y : y = AcquireRef(x, f) OBVIOUS
  <2>8. Stuck(y, "no_memory") BY <2>6, <2>7, StuckStep
  <2>9. PICK z : z = ReleaseRef(y, f) OBVIOUS
  <2>10. Stuck(z, "no_memory") BY <2>8, <2>9, StuckStep
  <2>11. n = ReleaseRef(z, d) BY <2>7, <2>9
  <2> QED BY <2>10, <2>11, StuckStep
<1>5. CASE ~Stuck(o, "no_memory")
  <2>1. /\ HasBlock(m.free, 1) /\ Fit(o, S, L \cup {f}) /\ f \in G /\ f \notin L /\ f # KernelEnd
        /\ f \in Free(m) /\ o.ref = m.ref
    BY <1>5, AllocOne
  <2>2. o \in MemT /\ f \in Frame /\ o.ref[f].there /\ o.ref[d].there /\ o.ref[d].count # 0
    BY <2>1, <1>0, Frames DEF Fit, Good, Static
  <2>3. k = AcquireRef(o, d) BY <1>0, <1>1, <1>2, <2>1, <2>2, RaiseAlloc
  <2>4. PICK y : y = AcquireRef(o, f) OBVIOUS
  <2>5. x = AcquireRef(y, d) BY <1>0, <1>3, <2>2, <2>3, <2>4, Raise2
  <2>6. y \in MemT /\ y.ref[f].count = o.ref[f].count + 1 /\ y.ref[d].there /\ y.ref[f].there
        /\ (d # f => y.ref[d].count = o.ref[d].count)
    <3>1. Recount(o, y, f, o.ref[f].count + 1) BY <2>2, <2>4, AcquireEffect
    <3> QED BY <1>0, <2>2, <3>1 DEF Recount
  <2>7. \A g \in Frame : o.ref[g].count \in Nat /\ y.ref[g].count \in Nat
    BY <2>2, <2>6 DEF MemT, RefT
  <2>8. y.ref[d].count # 0 /\ y.ref[f].count # 0 BY <1>0, <2>2, <2>6, <2>7
  <2>9. x \in MemT /\ x.ref[f].there /\ x.ref[f].count # 0
    <3>1. Recount(y, x, d, y.ref[d].count + 1) BY <1>0, <2>5, <2>6, AcquireEffect
    <3> QED BY <1>0, <2>2, <2>6, <2>7, <2>8, <3>1 DEF Recount
  <2>10. ReleaseRef(AcquireRef(x, f), f) = x BY <2>2, <2>9, Noop
  <2>11. ReleaseRef(AcquireRef(y, d), d) = y BY <1>0, <2>6, <2>8, Noop
  <2>12. n = y BY <2>5, <2>10, <2>11
  <2> QED BY <2>1, <2>4, <2>12
<1> QED BY <1>4, <1>5

\* A page of the kernel stack is copied to a frame of the child's own.
LEMMA CopyStackPageGood ==
    ASSUME NEW S, S \in [Proc -> SpaceT], NEW p \in Proc, NEW q \in Proc, p # q,
           NEW w, DOMAIN w = Four, Fit(w.mem, Two(S, p, q, w.sp, w.child), {}),
           Counted(w.mem, w.child), w.data \in [Frame -> Value], NEW a \in Page,
           w.sp.pte[a] # None, w.child.pte[a] = None, w.child.table[TableOf(a)] # None,
           NEW v, v = CopyStackPage(w, a)
    PROVE  /\ DOMAIN v = Four
           /\ \/ Stuck(v.mem, "no_memory")
              \/ /\ Fit(v.mem, Two(S, p, q, v.sp, v.child), {}) /\ Counted(v.mem, v.child)
                 /\ v.data \in [Frame -> Value] /\ v.sp = w.sp
                 /\ v.child.dir = w.child.dir /\ v.child.table = w.child.table
                 /\ v.child.pte[a] # None /\ v.child.pte[a].mode = "private"
                 /\ \A b \in Page : b # a => v.child.pte[b] = w.child.pte[b]
<1>1. PICK T : T = Two(S, p, q, w.sp, w.child) OBVIOUS
<1>2. PICK E, m : E = {} /\ m = w.mem OBVIOUS
<1>3. Fit(m, T, E) BY <1>1, <1>2
<1>4. /\ T[p] = w.sp /\ T[q] = w.child /\ w.sp \in SpaceT /\ w.child \in SpaceT
      /\ \A z : Put(T, q, z) = Two(S, p, q, w.sp, z)
  BY <1>1, TwoFacts
<1>5. PICK d : d = w.child.table[TableOf(a)] OBVIOUS
<1>6. d \in G /\ m.ref[d].count # 0
  <2>1. TableOf(a) \in Table BY PagesOfTables
  <2> QED BY <1>2, <1>4, <1>5, <2>1, SpaceFacts DEF Counted
<1>7. PICK f : f = FrameAddress(m, 1) OBVIOUS
<1>8. PICK x : x = AcquireRef(AllocFrames(AcquireRef(m, d), 1), f) OBVIOUS
<1>9. PICK n : n = ReleaseRef(ReleaseRef(AcquireRef(x, f), f), d) OBVIOUS
<1>10. PICK o : o = AllocFrames(m, 1) OBVIOUS
<1>11. PICK e : e = [frame |-> f, mode |-> "private"] OBVIOUS
<1>12. PICK s : s = SetPte(w.child, a, e) OBVIOUS
<1>13. PICK g : g = [w.data EXCEPT ![f] = w.data[w.sp.pte[a].frame]] OBVIOUS
<1>14. v = [w EXCEPT !.mem = n, !.data = g, !.child = s]
  BY <1>2, <1>5, <1>7, <1>8, <1>9, <1>11, <1>12, <1>13 DEF CopyStackPage, MapTemp, UnmapTemp, SetPte
<1>15. DOMAIN v = Four /\ v.mem = n /\ v.data = g /\ v.child = s /\ v.sp = w.sp
  BY <1>14 DEF Four
<1>16. \/ Stuck(n, "no_memory")
       \/ n = AcquireRef(o, f) /\ Fit(o, T, E \cup {f}) /\ f \in G /\ f \notin E /\ f # KernelEnd
          /\ o.ref = m.ref
  BY ONLY <1>3, <1>6, <1>7, <1>8, <1>9, <1>10, StackMem
<1>17. CASE Stuck(n, "no_memory") BY <1>15, <1>17
<1>18. CASE ~Stuck(n, "no_memory")
  <2>1. PICK L : L = E \cup {f} OBVIOUS
  <2>2. /\ n = AcquireRef(o, f) /\ Good(o, T, L) /\ Used(o) /\ o.fail = "none" /\ f \in G
        /\ o \in MemT /\ f \in Frame /\ f \in L
    BY <1>16, <1>18, <2>1, Frames DEF Fit, Good
  <2>3. e \in [frame : G, mode : Mode] /\ e.frame = f /\ e.mode = "private" /\ e # None
    <3>1. e \in [frame : G, mode : Mode] BY <1>11, <2>2 DEF Mode
    <3>2. e.mode \in {"regular", "cow", "private"} BY <1>11
    <3>3. e \in Entry BY <1>11, <2>2 DEF Entry
    <3> QED BY <1>11, <3>1, <3>3, MemoryAssumption
  <2>4. f \notin Free(o) /\ KeptBy(T, f) = {}
    <3>1. L \in SUBSET G /\ L \cap Free(o) = {} BY <2>2 DEF Good
    <3>2. State(f, o.ref[f].count, Count(T, f), KeptBy(T, f), f \in Free(o) \/ f \in L)
      BY <2>2 DEF Good
    <3> QED BY <2>2, <3>1, <3>2 DEF State
  <2>5. T[q].pte[a] = None /\ s = SetPte(T[q], a, e) BY <1>4, <1>12
  <2>6. Good(n, Put(T, q, s), L \ {f}) /\ n.fail = o.fail /\ n.free = o.free /\ s \in SpaceT
    <3>1. Good(o, T, L) /\ n = AcquireRef(o, f) /\ f \in G BY <2>2
    <3>2. e \in [frame : G, mode : Mode] /\ e.frame = f BY <2>3
    <3> QED BY ONLY <2>4, <2>5, <3>1, <3>2, q \in Proc, a \in Page, MapGood, SMTT(60)
  <2>7. Fit(n, Two(S, p, q, w.sp, s), {})
    <3>1. L \ {f} = {} BY <1>2, <2>1
    <3> QED BY <1>4, <2>2, <2>6, <3>1 DEF Fit, Used, Free
  <2>8. /\ s.dir = w.child.dir /\ s.table = w.child.table /\ s.pte[a] = e
        /\ \A b \in Page : b # a => s.pte[b] = w.child.pte[b]
    BY <1>4, <1>12, SetPteFacts
  <2>9. Counted(n, s)
    <3>1. Recount(o, n, f, o.ref[f].count + 1)
      <4>1. o.ref[f].there BY <2>2 DEF Good, Static, G
      <4> QED BY <2>2, <4>1, AcquireEffect
    <3>2. \A h \in Frame : o.ref[h].count \in Nat BY <2>2 DEF MemT, RefT
    <3>3. \A h \in Frame : o.ref[h].count # 0 => n.ref[h].count # 0
      BY <2>2, <3>1, <3>2 DEF Recount
    <3>4. \A k \in Table : w.child.table[k] # None => w.child.table[k] \in Frame
      BY <1>4, SpaceFacts, Frames
    <3>5. \A k \in Table : w.child.table[k] # None => o.ref[w.child.table[k]].count # 0
      BY <1>2, <1>16, <1>18 DEF Counted
    <3> QED BY <2>8, <3>3, <3>4, <3>5 DEF Counted
  <2>10. g \in [Frame -> Value]
    <3>1. w.sp.pte[a].frame \in Frame BY <1>4, SpaceFacts, Frames
    <3> QED BY <1>13, <2>2, <3>1
  <2> QED BY <1>15, <2>3, <2>7, <2>8, <2>9, <2>10
<1> QED BY <1>17, <1>18

--------------------------------------------------------------------------------
\* memory_copy_self_stack: c holds the first page and the state before.
StackTurn(c, v, i) == CopyStackPage(v, c.k + i)

\* What the loop over the pages of the kernel stack keeps.
StackKeeps(c, i, v) ==
    /\ DOMAIN v = Four
    /\ \/ Stuck(v.mem, "no_memory")
       \/ /\ ~Stuck(c.mem, "no_memory")
          /\ Fit(v.mem, Two(c.S, c.p, c.q, v.sp, v.child), {}) /\ Counted(v.mem, v.child)
          /\ v.data \in [Frame -> Value] /\ v.sp = c.sp
          /\ v.child.dir = c.child.dir /\ v.child.table = c.child.table
          /\ \A b \in Page : IF b \in c.k .. c.k + i - 1
                             THEN v.child.pte[b] # None /\ v.child.pte[b].mode = "private"
                             ELSE v.child.pte[b] = c.child.pte[b]

\* The loop over the pages of the kernel stack.
StacksOf == INSTANCE LoopProofs WITH Step <- StackTurn, Keeps <- StackKeeps

\* The same as a fold.
CopyStack(w, t) == FoldLeft(LAMBDA x, i : CopyStackPage(x, t.kstack + i), w, UpTo(KStackPages))

\* The kernel stack of the forking thread is copied page by page.
LEMMA CopyStackGood ==
    ASSUME NEW S, S \in [Proc -> SpaceT], NEW p \in Proc, NEW q \in Proc, p # q,
           NEW t \in StackT, NEW w, DOMAIN w = Four,
           \/ Stuck(w.mem, "no_memory")
           \/ /\ Fit(w.mem, Two(S, p, q, w.sp, w.child), {}) /\ Counted(w.mem, w.child)
              /\ w.data \in [Frame -> Value]
              /\ \A b \in Kernel(t) : /\ b \in Page /\ w.sp.pte[b] # None /\ w.child.pte[b] = None
                                      /\ w.child.table[TableOf(b)] # None,
           NEW v, v = CopyStack(w, t)
    PROVE  /\ DOMAIN v = Four
           /\ \/ Stuck(v.mem, "no_memory")
              \/ /\ ~Stuck(w.mem, "no_memory")
                 /\ Fit(v.mem, Two(S, p, q, v.sp, v.child), {}) /\ Counted(v.mem, v.child)
                 /\ v.data \in [Frame -> Value] /\ v.sp = w.sp
                 /\ v.child.dir = w.child.dir /\ v.child.table = w.child.table
                 /\ \A b \in Page : IF b \in Kernel(t)
                                    THEN v.child.pte[b] # None /\ v.child.pte[b].mode = "private"
                                    ELSE v.child.pte[b] = w.child.pte[b]
<1>0. PICK n, k : n = KStackPages /\ k = t.kstack OBVIOUS
<1>1. n \in Nat /\ k \in Int /\ Kernel(t) = k .. k + n - 1 BY <1>0, StackSizes DEF Kernel
<1>2. PICK c : c = [S |-> S, p |-> p, q |-> q, t |-> t, k |-> t.kstack, sp |-> w.sp, child |-> w.child, mem |-> w.mem]
  OBVIOUS
<1>3. c.S = S /\ c.p = p /\ c.q = q /\ c.k = k /\ c.k = t.kstack /\ c.sp = w.sp /\ c.child = w.child /\ c.mem = w.mem
  BY <1>0, <1>2
<1>4. PICK u : u = UpTo(n) OBVIOUS
<1>5. DOMAIN u = 1 .. n /\ (\A i \in 0 .. n - 1 : u[i + 1] = i) BY <1>1, <1>4, UpToIs
<1>6. v = StacksOf!Fold(c, w, u)
  <2>1. StacksOf!Fold(c, w, u) = FoldLeft(LAMBDA x, i : CopyStackPage(x, t.kstack + i), w, u)
    BY <1>3 DEF StacksOf!Fold, StackTurn, FoldLeft, StacksOf!Largest, MapThenFoldSet, Max
  <2> QED BY <1>0, <1>4, <2>1 DEF CopyStack
<1>7. StackKeeps(c, 0, w)
  <2>1. k .. k + 0 - 1 = {} BY <1>1
  <2> QED BY <1>3, <2>1 DEF StackKeeps
<1>8. ASSUME NEW i \in 0 .. n - 1, NEW x, StackKeeps(c, i, x)
      PROVE  StackKeeps(c, i + 1, StackTurn(c, x, u[i + 1]))
  <2>1. PICK y : y = StackTurn(c, x, u[i + 1]) OBVIOUS
  <2>2. PICK a : a = k + i OBVIOUS
  <2>3. y = CopyStackPage(x, a) BY <1>3, <1>5, <2>1, <2>2 DEF StackTurn
  <2>4. i \in Int /\ a \in Kernel(t) /\ a \notin k .. k + i - 1 BY <1>1, <2>2
  <2>5. DOMAIN x = Four BY <1>8 DEF StackKeeps
  <2>6. CASE Stuck(x.mem, "no_memory")
    <3>1. PICK d, f : d = x.child.table[TableOf(a)] /\ f = FrameAddress(x.mem, 1) OBVIOUS
    <3>2. PICK h : h = AcquireRef(x.mem, d) OBVIOUS
    <3>3. Stuck(h, "no_memory") BY <2>6, <3>2, StuckStep
    <3>4. PICK j : j = AllocFrames(h, 1) OBVIOUS
    <3>5. Stuck(j, "no_memory") BY <3>3, <3>4, StuckStep
    <3>6. PICK l : l = AcquireRef(j, f) OBVIOUS
    <3>7. Stuck(l, "no_memory") BY <3>5, <3>6, StuckStep
    <3>8. PICK l2 : l2 = AcquireRef(l, f) OBVIOUS
    <3>9. Stuck(l2, "no_memory") BY <3>7, <3>8, StuckStep
    <3>10. PICK l3 : l3 = ReleaseRef(l2, f) OBVIOUS
    <3>11. Stuck(l3, "no_memory") BY <3>9, <3>10, StuckStep
    <3>12. PICK l4 : l4 = ReleaseRef(l3, d) OBVIOUS
    <3>13. Stuck(l4, "no_memory") BY <3>11, <3>12, StuckStep
    <3>14. DOMAIN y = Four /\ y.mem = l4
      BY <2>3, <2>5, <3>1, <3>2, <3>4, <3>6, <3>8, <3>10, <3>12
         DEF CopyStackPage, MapTemp, UnmapTemp, Four
    <3> QED BY <2>1, <3>13, <3>14 DEF StackKeeps
  <2>7. CASE ~Stuck(x.mem, "no_memory")
    <3>1. /\ ~Stuck(w.mem, "no_memory")
          /\ Fit(x.mem, Two(S, p, q, x.sp, x.child), {}) /\ Counted(x.mem, x.child)
          /\ x.data \in [Frame -> Value] /\ x.sp = w.sp
          /\ x.child.dir = w.child.dir /\ x.child.table = w.child.table
          /\ \A b \in Page : IF b \in k .. k + i - 1
                             THEN x.child.pte[b] # None /\ x.child.pte[b].mode = "private"
                             ELSE x.child.pte[b] = w.child.pte[b]
      BY <1>3, <1>8, <2>7 DEF StackKeeps
    <3>2. a \in Page /\ w.sp.pte[a] # None /\ w.child.pte[a] = None /\ w.child.table[TableOf(a)] # None
      BY <2>4, <3>1
    <3>3. x.sp.pte[a] # None /\ x.child.pte[a] = None /\ x.child.table[TableOf(a)] # None
      BY <2>4, <3>1, <3>2
    <3>4. /\ DOMAIN y = Four
          /\ \/ Stuck(y.mem, "no_memory")
             \/ /\ Fit(y.mem, Two(S, p, q, y.sp, y.child), {}) /\ Counted(y.mem, y.child)
                /\ y.data \in [Frame -> Value] /\ y.sp = x.sp
                /\ y.child.dir = x.child.dir /\ y.child.table = x.child.table
                /\ y.child.pte[a] # None /\ y.child.pte[a].mode = "private"
                /\ \A b \in Page : b # a => y.child.pte[b] = x.child.pte[b]
      <4>1. Fit(x.mem, Two(S, p, q, x.sp, x.child), {}) /\ Counted(x.mem, x.child)
            /\ x.data \in [Frame -> Value]
        BY <3>1
      <4>2. a \in Page BY <3>2
      <4> QED BY ONLY S \in [Proc -> SpaceT], p \in Proc, q \in Proc, p # q, <2>3, <2>5, <4>1,
                      <3>3, <4>2, CopyStackPageGood
    <3>5. ASSUME NEW b \in Page, ~Stuck(y.mem, "no_memory")
          PROVE  IF b \in k .. k + (i + 1) - 1
                 THEN y.child.pte[b] # None /\ y.child.pte[b].mode = "private"
                 ELSE y.child.pte[b] = w.child.pte[b]
      <4>1. b \in Int BY PagesOfTables
      <4>2. b \in k .. k + (i + 1) - 1 <=> b = a \/ b \in k .. k + i - 1 BY <1>1, <2>2, <2>4, <4>1
      <4> QED BY <3>1, <3>4, <3>5, <4>2
    <3> QED BY <1>3, <2>1, <3>1, <3>4, <3>5 DEF StackKeeps
  <2> QED BY <2>6, <2>7
<1>9. StackKeeps(c, n, v)
  <2>1. \A i \in 0 .. n - 1 : \A x : StackKeeps(c, i, x) => StackKeeps(c, i + 1, StackTurn(c, x, u[i + 1]))
    BY <1>8
  <2>2. n \in Nat /\ DOMAIN u = 1 .. n BY <1>1, <1>5
  <2>0. StacksOf!Climbs(n)
    <3>1. n \in Nat BY <2>2
    <3> QED BY <3>1, Climb DEF StacksOf!Climbs
  <2>3. StackKeeps(c, n, StacksOf!Fold(c, w, u)) BY ONLY <2>0, <1>7, <2>1, <2>2, StacksOf!LoopRule
  <2> QED BY <1>6, <2>3
<1> QED BY <1>1, <1>3, <1>9 DEF StackKeeps

--------------------------------------------------------------------------------
\* The list of the free pages says nothing about frames.
LEMMA PagesSwap ==
    ASSUME NEW m, NEW T, NEW L, Fit(m, T, L), NEW q \in Proc, NEW s \in SpaceT,
           s.dir = T[q].dir, s.table = T[q].table, s.pte = T[q].pte
    PROVE  Fit(m, Put(T, q, s), L)
<1>1. T \in [Proc -> SpaceT] BY DEF Fit, Good
<1>2. PICK R : R = Put(T, q, s) OBVIOUS
<1>3. R \in [Proc -> SpaceT] BY <1>1, <1>2 DEF Put
<1>4. R[q] = s /\ \A r \in Proc : r # q => R[r] = T[r] BY <1>1, <1>2 DEF Put
<1>5. \A r \in Proc : \A b \in Page : At(R[r], b) = At(T[r], b) BY <1>4 DEF At
<1>6. \A r \in Proc : \A j \in Slot : Root(R[r], j) = Root(T[r], j) BY <1>4 DEF Root
<1>7. \A g : Count(R, g) = Count(T, g) /\ KeptBy(R, g) = KeptBy(T, g)
  BY <1>5, <1>6 DEF Count, MapsOf, KeptBy
<1>8. Good(m, R, L) BY <1>3, <1>7 DEF Good, Fit
<1> QED BY <1>2, <1>8 DEF Fit

\* What a fork gives.
Forked(S, p, q, T, t, w) ==
    /\ Fit(w.mem, Two(S, p, q, w.sp, w.child), {})
    /\ PagesOK(w.sp) /\ StacksOK(w.sp, T) /\ w.sp.dir = S[p].dir
    /\ PagesOK(w.child) /\ StacksOK(w.child, {t}) /\ w.child.dir \in G
    /\ w.data \in [Frame -> Value]

\* The child has the stacks of the thread that forked.
LEMMA ChildStacks ==
    ASSUME NEW sp, NEW T, StacksOK(sp, T), NEW t \in T, NEW ch,
           FreeOf(ch) = FreeOf(sp),
           \A b \in Page : Shared(sp, b) => ch.pte[b] # None /\ ch.pte[b].mode # "private",
           \A b \in Kernel(t) : ch.pte[b] # None /\ ch.pte[b].mode = "private"
    PROVE  StacksOK(ch, {t})
<1>1. PICK U : U = {t} OBVIOUS
<1>2. IsFiniteSet(U) /\ U \subseteq StackT BY <1>1, FS_Singleton DEF StacksOK
<1>3. ASSUME NEW b \in User(t)
      PROVE  b \in Page /\ b \notin FreeOf(ch) /\ ch.pte[b] # None /\ ch.pte[b].mode # "private"
  BY <1>3 DEF StacksOK, Shared
<1>4. ASSUME NEW b \in Kernel(t)
      PROVE  b \in Page /\ b \notin FreeOf(ch) /\ ch.pte[b] # None /\ ch.pte[b].mode = "private"
  BY <1>4 DEF StacksOK
<1>5. StacksOK(ch, U) BY <1>1, <1>2, <1>3, <1>4 DEF StacksOK
<1> QED BY <1>1, <1>5

\* Marking pages copy-on-write leaves the stacks and the free pages of the parent.
LEMMA AlikeKeeps ==
    ASSUME NEW sp, NEW x, Alike(x, sp), NEW T, StacksOK(sp, T), PagesOK(sp)
    PROVE  PagesOK(x) /\ StacksOK(x, T)
<1>1. FreeOf(x) = FreeOf(sp) /\ x.pages = sp.pages BY DEF Alike, FreeOf
<1>2. PagesOK(x)
  <2>1. Tabled(x) BY DEF Alike, Tabled, PagesOK
  <2>2. \A b \in FreeOf(x) : b \in Page /\ x.pte[b] = None BY <1>1 DEF Alike, PagesOK
  <2> QED BY <1>1, <2>1, <2>2 DEF PagesOK
<1>3. \A t \in T : \A b \in Kernel(t) :
          b \in Page /\ b \notin FreeOf(x) /\ x.pte[b] # None /\ x.pte[b].mode = "private"
  BY <1>1 DEF StacksOK, Alike
<1>4. \A t \in T : \A b \in User(t) :
          b \in Page /\ b \notin FreeOf(x) /\ x.pte[b] # None /\ x.pte[b].mode # "private"
  BY <1>1 DEF StacksOK, Alike
<1> QED BY <1>2, <1>3, <1>4 DEF StacksOK

\* copy_self_mapping: a space for the child whose references are counted, or the memory is
\* out.
LEMMA ForkGood ==
    ASSUME space \in [Proc -> SpaceT], NEW p \in Proc, NEW q \in Proc, p # q,
           space[q] = NoSpace, Fit(mem, space, {}), PagesOK(space[p]),
           NEW T, StacksOK(space[p], T), NEW t \in T, data \in [Frame -> Value],
           NEW w, w = CopySelfMapping(p, t)
    PROVE  /\ DOMAIN w = Four
           /\ Stuck(w.mem, "no_memory") \/ Forked(space, p, q, T, t, w)
<1>1. PICK sp : sp = space[p] OBVIOUS
<1>2. PICK S : S = space OBVIOUS
<1>3. PICK x : x = NewDirectory([mem |-> mem, sp |-> space[p], child |-> NoSpace, data |-> data])
  OBVIOUS
<1>4. PICK y : y = CopyTables(x) OBVIOUS
<1>5. PICK z : z = CopyStack(y, t) OBVIOUS
<1>6. w = [z EXCEPT !.child.pages = CopyRanges(x.sp.pages)]
  BY <1>3, <1>4, <1>5 DEF CopySelfMapping, CopyTables, CopyStack
<1>7. /\ DOMAIN x = Four /\ x.data = data /\ x.sp = S[p]
      /\ x.child.pte = NoSpace.pte /\ x.child.table = NoSpace.table
      /\ \/ Stuck(x.mem, "no_memory")
         \/ Fit(x.mem, Two(S, p, q, x.sp, x.child), {}) /\ x.child.dir \in G
  <2>1. PICK m, d : m = mem /\ d = data OBVIOUS
  <2>2. /\ S \in [Proc -> SpaceT] /\ S[q] = NoSpace /\ Fit(m, S, {})
        /\ x = NewDirectory([mem |-> m, sp |-> S[p], child |-> NoSpace, data |-> d])
    BY <1>2, <1>3, <2>1
  <2>3. /\ DOMAIN x = Four /\ x.data = d /\ x.sp = S[p]
        /\ x.child.pte = NoSpace.pte /\ x.child.table = NoSpace.table
        /\ \/ Stuck(x.mem, "no_memory")
           \/ Fit(x.mem, Two(S, p, q, x.sp, x.child), {}) /\ x.child.dir \in G
    BY ONLY p \in Proc, q \in Proc, p # q, <2>2, NewDirectoryGood
  <2> QED BY <2>1, <2>3
<1>8. sp \in SpaceT /\ Tabled(sp) /\ x.sp = sp /\ t \in StackT /\ S \in [Proc -> SpaceT]
  BY <1>1, <1>2, <1>7 DEF PagesOK, StacksOK
<1>9. /\ DOMAIN y = Four /\ y.data = x.data
      /\ \/ Stuck(y.mem, "no_memory")
         \/ /\ ~Stuck(x.mem, "no_memory")
            /\ Fit(y.mem, Two(S, p, q, y.sp, y.child), {}) /\ Alike(y.sp, sp)
            /\ y.child.dir = x.child.dir /\ Rooted(sp, y.child, NbTables)
            /\ Copied(sp, y.child, NbTables * TableSize) /\ Counted(y.mem, y.child)
  <2>1. Alike(x.sp, sp) BY <1>8 DEF Alike
  <2>2. /\ \A k \in Table : x.child.table[k] = None /\ ~(k < 0)
        /\ \A b \in Page : x.child.pte[b] = None /\ ~(b < 0)
    BY <1>7, PagesOfTables DEF NoSpace, Table
  <2>3. Rooted(sp, x.child, 0) /\ Copied(sp, x.child, 0) /\ Counted(x.mem, x.child)
    BY <2>2 DEF Rooted, Copied, Counted
  <2>4. /\ DOMAIN x = Four
        /\ \/ Stuck(x.mem, "no_memory")
           \/ /\ Fit(x.mem, Two(S, p, q, x.sp, x.child), {}) /\ Alike(x.sp, sp)
              /\ Rooted(sp, x.child, 0) /\ Copied(sp, x.child, 0) /\ Counted(x.mem, x.child)
    BY <1>7, <2>1, <2>3
  <2> QED BY ONLY p \in Proc, q \in Proc, p # q, <1>4, <1>8, <2>4, CopyTablesGood
<1>10. ASSUME ~Stuck(y.mem, "no_memory")
       PROVE  /\ Fit(y.mem, Two(S, p, q, y.sp, y.child), {}) /\ Alike(y.sp, sp) /\ Counted(y.mem, y.child)
              /\ y.child.dir \in G
              /\ \A b \in Page : IF Shared(sp, b) THEN y.child.pte[b] # None /\ y.child.pte[b].mode # "private"
                                                  ELSE y.child.pte[b] = None
              /\ \A k \in Table : y.child.table[k] # None <=> sp.table[k] # None
  <2>1. \A b \in Page : b < NbTables * TableSize
    <3>1. PICK n : n = NbTables * TableSize OBVIOUS
    <3>2. n \in Int BY <3>1, PagesOfTables
    <3> QED BY <3>1, <3>2 DEF Page
  <2>2. \A k \in Table : k < NbTables BY PagesOfTables DEF Table
  <2>3. ~Stuck(y.mem, "no_memory") /\ y.child.dir \in G BY <1>7, <1>9, <1>10
  <2> QED BY <1>9, <2>1, <2>2, <2>3 DEF Copied, Rooted
<1>11. /\ DOMAIN z = Four
       /\ \/ Stuck(z.mem, "no_memory")
          \/ /\ ~Stuck(y.mem, "no_memory")
             /\ Fit(z.mem, Two(S, p, q, z.sp, z.child), {}) /\ Counted(z.mem, z.child)
             /\ z.data \in [Frame -> Value] /\ z.sp = y.sp
             /\ z.child.dir = y.child.dir /\ z.child.table = y.child.table
             /\ \A b \in Page : IF b \in Kernel(t)
                                THEN z.child.pte[b] # None /\ z.child.pte[b].mode = "private"
                                ELSE z.child.pte[b] = y.child.pte[b]
  <2>1. ASSUME NEW b \in Kernel(t), ~Stuck(y.mem, "no_memory")
        PROVE  /\ b \in Page /\ y.sp.pte[b] # None /\ y.child.pte[b] = None
               /\ y.child.table[TableOf(b)] # None
    <3>1. b \in Page /\ sp.pte[b] # None /\ sp.pte[b].mode = "private" BY <1>1 DEF StacksOK
    <3>2. y.sp.pte[b] # None BY <1>10, <2>1, <3>1 DEF Alike
    <3>3. y.child.pte[b] = None BY <1>10, <2>1, <3>1 DEF Shared
    <3>4. sp.table[TableOf(b)] # None /\ TableOf(b) \in Table BY <1>8, <3>1, PagesOfTables DEF Tabled
    <3> QED BY <1>10, <2>1, <3>1, <3>2, <3>3, <3>4
  <2>2. /\ DOMAIN y = Four
        /\ \/ Stuck(y.mem, "no_memory")
           \/ /\ Fit(y.mem, Two(S, p, q, y.sp, y.child), {}) /\ Counted(y.mem, y.child)
              /\ y.data \in [Frame -> Value]
              /\ \A b \in Kernel(t) : /\ b \in Page /\ y.sp.pte[b] # None /\ y.child.pte[b] = None
                                      /\ y.child.table[TableOf(b)] # None
    BY <1>7, <1>9, <1>10, <2>1
  <2> QED BY ONLY p \in Proc, q \in Proc, p # q, <1>5, <1>8, <2>2, CopyStackGood
<1>12. PICK r : r = CopyRanges(x.sp.pages) OBVIOUS
<1>13. PICK ch : ch = [z.child EXCEPT !.pages = r] OBVIOUS
<1>14. DOMAIN w = Four /\ w.mem = z.mem /\ w.sp = z.sp /\ w.data = z.data /\ w.child = ch
  <2>1. w = [z EXCEPT !.child = ch] BY <1>6, <1>12, <1>13
  <2> QED BY <1>11, <2>1 DEF Four
<1>15. CASE Stuck(z.mem, "no_memory") BY <1>14, <1>15
<1>16. CASE ~Stuck(z.mem, "no_memory")
  <2>1. ~Stuck(y.mem, "no_memory") BY <1>11, <1>16
  <2>2. PagesOK(z.sp) /\ StacksOK(z.sp, T) /\ z.sp.dir = S[p].dir
    <3>1. Alike(z.sp, sp) /\ StacksOK(sp, T) /\ PagesOK(sp) BY <1>1, <1>10, <1>11, <1>16, <2>1
    <3>2. z.sp.dir = S[p].dir BY <1>1, <1>2, <3>1 DEF Alike
    <3> QED BY <3>1, <3>2, AlikeKeeps
  <2>3. Apart(r) /\ FreeCells(r) = FreeOf(sp)
    <3>1. Apart(sp.pages) /\ x.sp.pages = sp.pages BY <1>1, <1>8 DEF PagesOK
    <3>2. Apart(r) /\ \A b : b \in FreeCells(r) <=> b \in FreeCells(sp.pages)
      BY <1>12, <3>1, CopyApart
    <3> QED BY <3>2 DEF FreeOf
  <2>4. PICK R : R = Two(S, p, q, z.sp, z.child) OBVIOUS
  <2>5. /\ R[q] = z.child /\ z.child \in SpaceT
        /\ \A u : Put(R, q, u) = Two(S, p, q, z.sp, u)
    <3>1. Fit(z.mem, R, {}) BY <1>11, <1>16, <2>4
    <3> QED BY <1>8, <2>4, <3>1, TwoFacts
  <2>6. /\ ch \in SpaceT /\ ch.dir = z.child.dir /\ ch.table = z.child.table /\ ch.pte = z.child.pte
        /\ ch.pages = r
    <3>1. r \in Seq(Rng) BY <2>3 DEF Apart
    <3> QED BY <1>13, <2>5, <3>1 DEF SpaceT
  <2>7. Fit(z.mem, Two(S, p, q, z.sp, ch), {})
    <3>1. PICK E : E = {} OBVIOUS
    <3>2. Fit(z.mem, R, E) /\ ch.dir = R[q].dir /\ ch.table = R[q].table /\ ch.pte = R[q].pte
      BY <1>11, <1>16, <2>4, <2>5, <2>6, <3>1
    <3>3. Fit(z.mem, Put(R, q, ch), E) BY ONLY <2>6, <3>2, q \in Proc, PagesSwap
    <3> QED BY <2>5, <3>1, <3>3
  <2>8. FreeOf(ch) = FreeOf(sp) BY <2>3, <2>6 DEF FreeOf
  <2>9. ASSUME NEW b \in Page
        PROVE  /\ b \in Kernel(t) => ch.pte[b] # None /\ ch.pte[b].mode = "private"
               /\ Shared(sp, b) => ch.pte[b] # None /\ ch.pte[b].mode # "private"
               /\ ch.pte[b] # None => b \in Kernel(t) \/ Shared(sp, b)
    <3>1. b \in Kernel(t) => ~Shared(sp, b) BY <1>1 DEF StacksOK, Shared
    <3> QED BY <1>10, <1>11, <1>16, <2>1, <2>6, <3>1
  <2>10. \A b \in Kernel(t) : b \in Page /\ b \notin FreeOf(sp) /\ sp.pte[b] # None
    BY <1>1 DEF StacksOK
  <2>11. StacksOK(ch, {t})
    <3>1. StacksOK(sp, T) BY <1>1
    <3>2. \A b \in Page : Shared(sp, b) => ch.pte[b] # None /\ ch.pte[b].mode # "private" BY <2>9
    <3>3. \A b \in Kernel(t) : ch.pte[b] # None /\ ch.pte[b].mode = "private" BY <2>9, <2>10
    <3> QED BY ONLY t \in T, <2>8, <3>1, <3>2, <3>3, ChildStacks
  <2>12. PagesOK(ch)
    <3>1. Tabled(ch)
      <4>1. ASSUME NEW b \in Page, ch.pte[b] # None PROVE ch.table[TableOf(b)] # None
        <5>1. sp.pte[b] # None BY <2>9, <2>10, <4>1 DEF Shared
        <5>2. sp.table[TableOf(b)] # None /\ TableOf(b) \in Table
          BY <1>8, <5>1, PagesOfTables DEF Tabled
        <5> QED BY <1>10, <1>11, <1>16, <2>1, <2>6, <5>2
      <4> QED BY <4>1 DEF Tabled
    <3>2. ASSUME NEW b \in FreeOf(ch) PROVE b \in Page /\ ch.pte[b] = None
      <4>1. b \in FreeOf(sp) BY <2>8
      <4>2. b \in Page /\ sp.pte[b] = None BY <1>1, <4>1 DEF PagesOK
      <4>3. b \notin Kernel(t) /\ ~Shared(sp, b) BY <2>10, <4>2 DEF Shared
      <4> QED BY <2>9, <4>2, <4>3
    <3> QED BY <2>3, <2>6, <3>1, <3>2 DEF PagesOK
  <2>13. ch.dir \in G BY <1>10, <1>11, <1>16, <2>1, <2>6
  <2>14. Forked(S, p, q, T, t, w)
    BY <1>11, <1>14, <1>16, <2>2, <2>7, <2>11, <2>12, <2>13 DEF Forked
  <2> QED BY <1>2, <1>14, <2>14
<1> QED BY <1>15, <1>16

--------------------------------------------------------------------------------
\* The directory, the tables and the mapped frames of a space are different frames.
LEMMA Kinds ==
    ASSUME NEW m, NEW T, NEW L, Good(m, T, L), NEW q \in Proc, NEW sp, sp = T[q]
    PROVE  /\ sp \in SpaceT
           /\ \A j \in Slot : Root(sp, j) \in G =>
                  /\ m.ref[Root(sp, j)].count \in {0, 1} /\ Root(sp, j) \notin Free(m)
                  /\ j = -1 => m.ref[Root(sp, j)].count = 1
                  /\ \A a \in Page : At(sp, a) # Root(sp, j)
           /\ \A i, j \in Slot : Root(sp, i) \in G /\ Root(sp, i) = Root(sp, j) => i = j
           /\ \A a \in Page : At(sp, a) # None =>
                  /\ At(sp, a) = sp.pte[a].frame /\ At(sp, a) \in G /\ At(sp, a) \notin Free(m)
                  /\ m.ref[At(sp, a)].count # 0
<1>1. T \in [Proc -> SpaceT] /\ sp \in SpaceT BY DEF Good
<1>2. ASSUME NEW j \in Slot, NEW r \in G, r = Root(sp, j)
      PROVE  /\ m.ref[r].count \in {0, 1} /\ r \notin Free(m) /\ (j = -1 => m.ref[r].count = 1)
             /\ Count(T, r) = 0 /\ \A i \in Slot : Root(sp, i) = r => i = j
  <2>1. State(r, m.ref[r].count, Count(T, r), KeptBy(T, r), r \in Free(m) \/ r \in L)
    BY DEF Good
  <2>2. \A i \in Slot : Root(sp, i) = r => <<q, i>> \in KeptBy(T, r) BY DEF KeptBy
  <2>3. <<q, j>> \in KeptBy(T, r) BY <1>2, <2>2
  <2>4. /\ Count(T, r) = 0 /\ m.ref[r].count \in {0, 1} /\ r \notin Free(m)
        /\ \A h \in KeptBy(T, r) : h[2] = -1 => m.ref[r].count = 1
        /\ \A h, k \in KeptBy(T, r) : h = k
    BY <2>1, <2>3 DEF State
  <2>5. \A i \in Slot : Root(sp, i) = r => i = j
    <3>1. ASSUME NEW i \in Slot, Root(sp, i) = r PROVE i = j
      <4>1. <<q, i>> = <<q, j>> BY <2>2, <2>3, <2>4, <3>1
      <4> QED BY <4>1
    <3> QED BY <3>1
  <2>6. j = -1 => m.ref[r].count = 1
    <3>1. ASSUME j = -1 PROVE m.ref[r].count = 1
      <4>1. <<q, j>>[2] = -1 BY <3>1
      <4> QED BY <2>3, <2>4, <4>1
    <3> QED BY <3>1
  <2> QED BY <2>4, <2>5, <2>6
<1>3. ASSUME NEW a \in Page, NEW r, r = At(sp, a), r # None
      PROVE  /\ r = sp.pte[a].frame /\ r \in G /\ r \notin Free(m) /\ m.ref[r].count # 0
             /\ Count(T, r) # 0
  <2>1. sp.pte[a] # None /\ r = sp.pte[a].frame BY <1>3 DEF At
  <2>2. r \in G BY <1>1, <2>1, SpaceFacts
  <2>3. Count(T, r) # 0
    <3>1. <<q, a>> \in MapsOf(T, r) BY <1>3 DEF MapsOf
    <3>2. IsFiniteSet(MapsOf(T, r)) BY Finite
    <3> QED BY <3>1, <3>2, FS_EmptySet DEF Count
  <2>4. State(r, m.ref[r].count, Count(T, r), KeptBy(T, r), r \in Free(m) \/ r \in L)
    BY <2>2 DEF Good
  <2>5. Count(T, r) \in Nat BY Finite
  <2>6. r \notin Free(m) /\ m.ref[r].count # 0
    <3>1. r \notin Free(m) /\ KeptBy(T, r) = {} BY <2>3, <2>4 DEF State
    <3>2. m.ref[r].count = Count(T, r) + Extra(r) BY <2>4, <3>1 DEF State
    <3> QED BY <2>3, <2>5, <3>1, <3>2 DEF Extra
  <2> QED BY <2>1, <2>2, <2>3, <2>6
<1>4. \A j \in Slot : Root(sp, j) \in G =>
          /\ m.ref[Root(sp, j)].count \in {0, 1} /\ Root(sp, j) \notin Free(m)
          /\ j = -1 => m.ref[Root(sp, j)].count = 1
          /\ \A a \in Page : At(sp, a) # Root(sp, j)
  <2>1. ASSUME NEW j \in Slot, Root(sp, j) \in G
        PROVE  /\ m.ref[Root(sp, j)].count \in {0, 1} /\ Root(sp, j) \notin Free(m)
               /\ j = -1 => m.ref[Root(sp, j)].count = 1
               /\ \A a \in Page : At(sp, a) # Root(sp, j)
    <3>1. PICK r : r = Root(sp, j) OBVIOUS
    <3>2. r \in G /\ r # None BY <2>1, <3>1, Frames
    <3> QED BY <1>2, <1>3, <3>1, <3>2
  <2> QED BY <2>1
<1>5. \A i, j \in Slot : Root(sp, i) \in G /\ Root(sp, i) = Root(sp, j) => i = j BY <1>2
<1>6. \A a \in Page : At(sp, a) # None =>
          /\ At(sp, a) = sp.pte[a].frame /\ At(sp, a) \in G /\ At(sp, a) \notin Free(m)
          /\ m.ref[At(sp, a)].count # 0
  BY <1>3
<1> QED BY <1>1, <1>4, <1>5, <1>6

\* A release under two references for a while of other frames.
LEMMA Shed ==
    ASSUME NEW m \in MemT, NEW d \in Frame, NEW t \in Frame, NEW f \in Frame, d # f, t # f, d # t,
           m.ref[d].there, m.ref[t].there, m.ref[f].there, m.ref[f].count # 0,
           NEW n, n = ReleaseRef(m, f), n \in MemT, n.ref[d] = m.ref[d], n.ref[t] = m.ref[t]
    PROVE  /\ ReleaseRef(AcquireRef(AcquireRef(m, d), t), f) = AcquireRef(AcquireRef(n, d), t)
           /\ m.ref[t].count # 0 =>
                  ReleaseRef(AcquireRef(AcquireRef(n, d), t), t) = AcquireRef(n, d)
<1>1. PICK x : x = AcquireRef(m, d) OBVIOUS
<1>2. PICK y : y = AcquireRef(n, d) OBVIOUS
<1>3. Recount(m, x, d, m.ref[d].count + 1) BY <1>1, AcquireEffect
<1>4. n.ref[d].there /\ n.ref[t].there OBVIOUS
<1>5. Recount(n, y, d, n.ref[d].count + 1) BY <1>2, <1>4, AcquireEffect
<1>6. /\ x \in MemT /\ x.ref[t].there /\ x.ref[f].there /\ x.ref[f].count # 0
      /\ y \in MemT /\ y.ref[t].there /\ y.ref[t].count = m.ref[t].count
  BY <1>3, <1>4, <1>5 DEF Recount
<1>7. ReleaseRef(x, f) = y BY <1>1, <1>2, Commute
<1>8. ReleaseRef(AcquireRef(x, t), f) = AcquireRef(y, t) BY <1>6, <1>7, Commute
<1>9. m.ref[t].count # 0 => ReleaseRef(AcquireRef(y, t), t) = y BY <1>6, Noop
<1> QED BY <1>1, <1>2, <1>8, <1>9

--------------------------------------------------------------------------------
\* Below a table bad without a reference the counts are not to be trusted: all that
\* is known is how the kernel may stop.  c is the count of bad until then.
Weak(m, bad, c) ==
    /\ DOMAIN m = {"free", "avail", "ref", "fail"} /\ m.ref \in [Frame -> RefT]
    /\ \A f \in G : m.ref[f].there /\ ~m.ref[f].hw
    /\ m.fail \in {"none", "released_free", "freed_twice"}
    /\ m.fail = "none" => m.ref[bad].count = c

\* A reference is taken in a memory with one count that is wrong.
LEMMA WeakAcquire ==
    ASSUME NEW m, NEW bad \in G, NEW c, Weak(m, bad, c), NEW f \in G, NEW n, n = AcquireRef(m, f)
    PROVE  /\ f # bad => Weak(n, bad, c)
           /\ f = bad => Weak(n, bad, c + 1)
           /\ m.fail # "none" => n.fail # "none"
<1>1. m.ref[f].there /\ f \in Frame /\ bad \in Frame BY Frames DEF Weak
<1>2. n = [m EXCEPT !.ref[f].count = @ + 1] BY <1>1 DEF AcquireRef
<1>3. PICK r : r = [m.ref EXCEPT ![f].count = @ + 1] OBVIOUS
<1>4. n = [m EXCEPT !.ref = r] BY <1>2, <1>3
<1>5. /\ r \in [Frame -> RefT] /\ r[f].count = m.ref[f].count + 1
      /\ \A g \in Frame : /\ r[g].there = m.ref[g].there /\ r[g].hw = m.ref[g].hw
                          /\ g # f => r[g].count = m.ref[g].count
  <2>1. m.ref \in [Frame -> RefT] BY DEF Weak
  <2> QED BY <1>1, <1>3, <2>1 DEF RefT
<1>6. DOMAIN n = {"free", "avail", "ref", "fail"} /\ n.ref = r /\ n.fail = m.fail
  BY <1>4 DEF Weak
<1>7. \A g \in G : g \in Frame BY Frames
<1> QED BY <1>1, <1>5, <1>6, <1>7 DEF Weak

\* A reference is released there: the count that is wrong ends at zero or the kernel panics.
LEMMA WeakRelease ==
    ASSUME NEW m, NEW bad \in G, NEW c, Weak(m, bad, c), NEW f \in G, NEW n, n = ReleaseRef(m, f)
    PROVE  /\ f # bad => Weak(n, bad, c)
           /\ f = bad /\ c = 1 => Weak(n, bad, 0)
           /\ f = bad /\ c = 0 => Weak(n, bad, 0) /\ n.fail # "none"
           /\ m.fail # "none" => n.fail # "none"
<1>1. m.ref[f].there /\ ~m.ref[f].hw /\ f \in Frame /\ bad \in Frame /\ m.ref \in [Frame -> RefT]
  BY Frames DEF Weak
<1>2. \A g \in G : g \in Frame BY Frames
<1>3. CASE m.ref[f].count = 0
  <2>1. n = Fail(m, "released_free") BY <1>1, <1>3 DEF ReleaseRef
  <2>2. n = IF m.fail = "none" THEN [m EXCEPT !.fail = "released_free"] ELSE m BY <2>1 DEF Fail
  <2>3. /\ DOMAIN n = {"free", "avail", "ref", "fail"} /\ n.ref = m.ref /\ n.fail # "none"
        /\ n.fail \in {"none", "released_free", "freed_twice"}
    BY <2>2 DEF Weak
  <2> QED BY <2>3 DEF Weak
<1>4. CASE m.ref[f].count # 0
  <2>1. PICK r : r = [m.ref EXCEPT ![f].count = @ - 1] OBVIOUS
  <2>2. /\ r \in [Frame -> RefT] /\ r[f].count = m.ref[f].count - 1
        /\ \A g \in Frame : /\ r[g].there = m.ref[g].there /\ r[g].hw = m.ref[g].hw
                            /\ g # f => r[g].count = m.ref[g].count
    <3>1. m.ref[f].count - 1 \in Nat BY <1>1, <1>4 DEF RefT
    <3> QED BY <1>1, <2>1, <3>1 DEF RefT
  <2>3. PICK x : x = [m EXCEPT !.ref[f].count = @ - 1] OBVIOUS
  <2>4. DOMAIN x = {"free", "avail", "ref", "fail"} /\ x.ref = r /\ x.fail = m.fail
    <3>1. x = [m EXCEPT !.ref = r] BY <2>1, <2>3
    <3> QED BY <3>1 DEF Weak
  <2>5. n = IF m.ref[f].count = 1 THEN FreeFrames(x, f, 1) ELSE x
    BY <1>1, <1>4, <2>3 DEF ReleaseRef
  <2>6. CASE m.ref[f].count # 1
    <3>1. n = x BY <2>5, <2>6
    <3> QED BY <1>1, <1>2, <1>4, <2>2, <2>4, <2>6, <3>1 DEF Weak
  <2>7. CASE m.ref[f].count = 1
    <3>1. CASE FreedTwice(x.free, f, 1)
      <4>1. n = IF x.fail = "none" THEN [x EXCEPT !.fail = "freed_twice"] ELSE x
        BY <2>5, <2>7, <3>1 DEF FreeFrames, Fail
      <4>2. /\ DOMAIN n = {"free", "avail", "ref", "fail"} /\ n.ref = r /\ n.fail # "none"
            /\ n.fail \in {"none", "released_free", "freed_twice"}
        BY <2>4, <4>1 DEF Weak
      <4> QED BY <1>1, <1>2, <2>2, <4>2 DEF Weak
    <3>2. CASE ~FreedTwice(x.free, f, 1)
      <4>1. n = [x EXCEPT !.free = AddBlock(@, f, 1), !.avail = @ + 1, !.ref[f].count = 0]
        BY <2>5, <2>7, <3>2 DEF FreeFrames
      <4>2. r[f].count = 0 BY <2>2, <2>7
      <4>3. [r EXCEPT ![f].count = 0] = r BY <1>1, <2>2, <4>2 DEF RefT
      <4>4. DOMAIN n = {"free", "avail", "ref", "fail"} /\ n.ref = r /\ n.fail = m.fail
        BY <2>4, <4>1, <4>3
      <4> QED BY <1>1, <1>2, <1>4, <2>2, <2>7, <4>2, <4>4 DEF Weak
    <3> QED BY <3>1, <3>2
  <2> QED BY <2>6, <2>7
<1> QED BY <1>3, <1>4

--------------------------------------------------------------------------------
\* bad is neither the directory of the space nor mapped in it.
Clear(bad, sp) == sp.dir # bad /\ \A b \in Page : At(sp, b) # bad

\* bad still is a table of the space, or the kernel has stopped.
Doomed(m, bad, n, sp) ==
    /\ Weak(m, bad, n) /\ Clear(bad, sp)
    /\ m.fail = "none" => \E k \in Table : sp.table[k] = bad

\* The memory while the process c.q with the space sp is released: c.bad is a table of
\* it without a reference, None when there is none.
Safe(c, m, sp) ==
    /\ c.bad = None => Fit(m, Put(c.S, c.q, sp), {}) /\ Counted(m, sp)
    /\ c.bad # None => Doomed(m, c.bad, 0, sp)

\* The same while the directory is mapped.
Held(c, m, sp) ==
    /\ c.bad = None => \E g : Safe(c, g, sp) /\ m = AcquireRef(g, sp.dir)
    /\ c.bad # None => Safe(c, m, sp)

\* The same while the directory and the table t are.
HeldTwo(c, m, sp, t) ==
    /\ c.bad = None => \E g : Safe(c, g, sp) /\ m = AcquireRef(AcquireRef(g, sp.dir), t)
    /\ c.bad # None => Doomed(m, c.bad, IF t = c.bad THEN 1 ELSE 0, sp)

\* The process that is released, in which spaces, and the table without a reference.
Case(c) == c.S \in [Proc -> SpaceT] /\ c.q \in Proc /\ c.bad \in G \cup {None}

\* A reference is taken on the way to the panic.
LEMMA DoomedAcquire ==
    ASSUME NEW m, NEW bad \in G, NEW k \in Nat, NEW sp, Doomed(m, bad, k, sp), NEW f \in G,
           NEW n, n = AcquireRef(m, f), NEW j, j = IF f = bad THEN k + 1 ELSE k
    PROVE  Doomed(n, bad, j, sp)
<1>1. /\ f # bad => Weak(n, bad, k)
      /\ f = bad => Weak(n, bad, k + 1)
      /\ m.fail # "none" => n.fail # "none"
  <2>1. Weak(m, bad, k) BY DEF Doomed
  <2> QED BY <2>1, WeakAcquire
<1> QED BY <1>1 DEF Doomed

\* A reference is released on the way to the panic.
LEMMA DoomedRelease ==
    ASSUME NEW m, NEW bad \in G, NEW k \in {0, 1}, NEW sp, Doomed(m, bad, k, sp), NEW f \in G,
           NEW n, n = ReleaseRef(m, f), NEW j, j = IF f = bad THEN 0 ELSE k
    PROVE  Doomed(n, bad, j, sp) /\ (f = bad /\ k = 0 => n.fail # "none")
<1>1. /\ f # bad => Weak(n, bad, k)
      /\ f = bad /\ k = 1 => Weak(n, bad, 0)
      /\ f = bad /\ k = 0 => Weak(n, bad, 0) /\ n.fail # "none"
      /\ m.fail # "none" => n.fail # "none"
  <2>1. Weak(m, bad, k) BY DEF Doomed
  <2> QED BY <2>1, WeakRelease
<1> QED BY <1>1 DEF Doomed

\* The directory is held while the entries are released.
LEMMA HoldDir ==
    ASSUME NEW c, Case(c), NEW m, NEW sp, sp.dir \in G, Safe(c, m, sp),
           NEW n, n = AcquireRef(m, sp.dir)
    PROVE  Held(c, n, sp)
<1>1. CASE c.bad = None BY <1>1 DEF Held
<1>2. CASE c.bad # None
  <2>1. Doomed(m, c.bad, 0, sp) /\ c.bad \in G /\ sp.dir # c.bad
    BY <1>2 DEF Safe, Doomed, Case, Clear
  <2>2. PICK k, d, bad : k = 0 /\ d = sp.dir /\ bad = c.bad OBVIOUS
  <2>3. k \in Nat /\ bad \in G /\ Doomed(m, bad, k, sp) /\ d \in G /\ n = AcquireRef(m, d)
        /\ k = IF d = bad THEN k + 1 ELSE k
    BY <2>1, <2>2
  <2>4. Doomed(n, bad, k, sp) BY ONLY <2>3, DoomedAcquire
  <2> QED BY <1>2, <2>2, <2>4 DEF Held, Safe
<1> QED BY <1>1, <1>2

\* What Good says of the frames of the space.
LEMMA SafeKinds ==
    ASSUME NEW c, Case(c), c.bad = None, NEW m, NEW sp, Safe(c, m, sp)
    PROVE  /\ Put(c.S, c.q, sp)[c.q] = sp /\ m \in MemT /\ m.fail = "none" /\ Used(m)
           /\ Good(m, Put(c.S, c.q, sp), {}) /\ sp \in SpaceT
           /\ \A f \in G : f \in Frame /\ m.ref[f].there
           /\ sp.dir \in G =>
                  /\ m.ref[sp.dir].count = 1
                  /\ \A k \in Table : sp.table[k] # sp.dir
                  /\ \A a \in Page : At(sp, a) # sp.dir
           /\ \A k \in Table : sp.table[k] # None =>
                  /\ sp.table[k] \in G /\ m.ref[sp.table[k]].count = 1
                  /\ \A a \in Page : At(sp, a) # sp.table[k]
           /\ \A a \in Page : At(sp, a) # None =>
                  /\ At(sp, a) = sp.pte[a].frame /\ At(sp, a) \in G /\ m.ref[At(sp, a)].count # 0
<1>1. PICK T : T = Put(c.S, c.q, sp) OBVIOUS
<1>2. T[c.q] = sp BY <1>1, PutFacts DEF Case
<1>3. Good(m, T, {}) /\ m.fail = "none" /\ m \in MemT /\ Counted(m, sp) /\ Used(m)
  BY <1>1 DEF Safe, Fit, Good
<1>4. c.q \in Proc BY DEF Case
<1>5. /\ sp \in SpaceT
      /\ \A j \in Slot : Root(sp, j) \in G =>
             /\ m.ref[Root(sp, j)].count \in {0, 1} /\ Root(sp, j) \notin Free(m)
             /\ j = -1 => m.ref[Root(sp, j)].count = 1
             /\ \A a \in Page : At(sp, a) # Root(sp, j)
      /\ \A i, j \in Slot : Root(sp, i) \in G /\ Root(sp, i) = Root(sp, j) => i = j
      /\ \A a \in Page : At(sp, a) # None =>
             /\ At(sp, a) = sp.pte[a].frame /\ At(sp, a) \in G /\ At(sp, a) \notin Free(m)
             /\ m.ref[At(sp, a)].count # 0
  <2>1. PICK E : E = {} OBVIOUS
  <2>2. Good(m, T, E) /\ sp = T[c.q] BY <1>2, <1>3, <2>1
  <2> QED BY ONLY <1>4, <2>2, Kinds
<1>6. Root(sp, -1) = sp.dir /\ -1 \in Slot /\ \A k \in Table : k \in Slot /\ k # -1 /\ Root(sp, k) = sp.table[k]
  <2>1. NbTables - 1 \in Nat BY PagesOfTables
  <2> QED BY <2>1 DEF Root, Slot, Table
<1>7. \A f \in G : f \in Frame /\ m.ref[f].there BY <1>3, Frames DEF Good, Static
<1>8. sp.dir \in G =>
          /\ m.ref[sp.dir].count = 1
          /\ \A k \in Table : sp.table[k] # sp.dir
          /\ \A a \in Page : At(sp, a) # sp.dir
  BY <1>5, <1>6
<1>9. ASSUME NEW k \in Table, sp.table[k] # None
      PROVE  /\ sp.table[k] \in G /\ m.ref[sp.table[k]].count = 1
             /\ \A a \in Page : At(sp, a) # sp.table[k]
  <2>1. sp.table[k] \in G BY <1>5, <1>9, SpaceFacts
  <2>2. m.ref[sp.table[k]].count # 0 BY <1>3, <1>9 DEF Counted
  <2> QED BY <1>5, <1>6, <2>1, <2>2
<1> QED BY <1>1, <1>2, <1>3, <1>5, <1>7, <1>8, <1>9

\* The directory is let go.
LEMMA LetDir ==
    ASSUME NEW c, Case(c), NEW m, NEW sp, sp.dir \in G, Held(c, m, sp),
           NEW n, n = ReleaseRef(m, sp.dir)
    PROVE  Safe(c, n, sp)
<1>1. CASE c.bad = None
  <2>1. PICK g : Safe(c, g, sp) /\ m = AcquireRef(g, sp.dir) BY <1>1 DEF Held
  <2>2. g \in MemT /\ sp.dir \in Frame /\ g.ref[sp.dir].there /\ g.ref[sp.dir].count = 1
    BY <1>1, <2>1, SafeKinds
  <2>3. n = g BY <2>1, <2>2, Noop
  <2> QED BY <1>1, <2>1, <2>3
<1>2. CASE c.bad # None
  <2>1. Doomed(m, c.bad, 0, sp) /\ c.bad \in G /\ sp.dir # c.bad
    BY <1>2 DEF Held, Safe, Doomed, Case, Clear
  <2>2. PICK k, d, bad : k = 0 /\ d = sp.dir /\ bad = c.bad OBVIOUS
  <2>3. k \in {0, 1} /\ bad \in G /\ Doomed(m, bad, k, sp) /\ d \in G /\ n = ReleaseRef(m, d)
        /\ k = IF d = bad THEN 0 ELSE k
    BY <2>1, <2>2
  <2>4. Doomed(n, bad, k, sp) BY ONLY <2>3, DoomedRelease
  <2> QED BY <1>2, <2>2, <2>4 DEF Safe
<1> QED BY <1>1, <1>2

\* A table is held while its entries are released.
LEMMA HoldTable ==
    ASSUME NEW c, Case(c), NEW m, NEW sp, Held(c, m, sp), NEW t \in G, NEW n, n = AcquireRef(m, t)
    PROVE  HeldTwo(c, n, sp, t)
<1>1. CASE c.bad = None BY <1>1 DEF Held, HeldTwo
<1>2. CASE c.bad # None
  <2>1. PICK k, bad, j : k = 0 /\ bad = c.bad /\ j = IF t = bad THEN 1 ELSE 0 OBVIOUS
  <2>2. k \in Nat /\ bad \in G /\ Doomed(m, bad, k, sp) /\ j = IF t = bad THEN k + 1 ELSE k
    BY <1>2, <2>1 DEF Held, Safe, Case
  <2>3. Doomed(n, bad, j, sp) BY <2>2, DoomedAcquire
  <2> QED BY <1>2, <2>1, <2>3 DEF HeldTwo
<1> QED BY <1>1, <1>2

\* A table is let go.
LEMMA LetTable ==
    ASSUME NEW c, Case(c), NEW m, NEW sp, sp.dir \in G, NEW k \in Table, NEW t, t = sp.table[k],
           t \in G, HeldTwo(c, m, sp, t), NEW n, n = ReleaseRef(m, t)
    PROVE  Held(c, n, sp)
<1>1. CASE c.bad = None
  <2>1. PICK g : Safe(c, g, sp) /\ m = AcquireRef(AcquireRef(g, sp.dir), t) BY <1>1 DEF HeldTwo
  <2>2. /\ g \in MemT /\ sp.dir \in Frame /\ g.ref[sp.dir].there /\ t # sp.dir
        /\ t \in Frame /\ g.ref[t].there /\ g.ref[t].count = 1
    BY <1>1, <2>1, SafeKinds, Frames
  <2>3. PICK h : h = AcquireRef(g, sp.dir) OBVIOUS
  <2>4. h \in MemT /\ h.ref[t].there /\ h.ref[t].count # 0
    <3>1. PICK d : d = sp.dir OBVIOUS
    <3>2. Recount(g, h, d, g.ref[d].count + 1) BY <2>2, <2>3, <3>1, AcquireEffect
    <3> QED BY <2>2, <3>1, <3>2 DEF Recount
  <2>5. n = h BY <2>1, <2>2, <2>3, <2>4, Noop
  <2> QED BY <1>1, <2>1, <2>3, <2>5 DEF Held
<1>2. CASE c.bad # None
  <2>1. PICK z, bad, j : z = 0 /\ bad = c.bad /\ j = IF t = bad THEN 1 ELSE 0 OBVIOUS
  <2>2. j \in {0, 1} /\ bad \in G /\ Doomed(m, bad, j, sp) /\ z = IF t = bad THEN 0 ELSE j
    BY <1>2, <2>1 DEF HeldTwo, Case
  <2>3. Doomed(n, bad, z, sp) BY <2>2, DoomedRelease
  <2> QED BY <1>2, <2>1, <2>3 DEF Held, Safe
<1> QED BY <1>1, <1>2

--------------------------------------------------------------------------------
\* One entry is taken out of the space and its frame loses a reference, while the
\* directory and the table t are mapped.
LEMMA EntryShed ==
    ASSUME NEW c, Case(c), NEW m, NEW sp, sp.dir \in G, sp \in SpaceT,
           NEW k \in Table, NEW t, t = sp.table[k], t # None, HeldTwo(c, m, sp, t),
           NEW a \in Page, sp.pte[a] # None, NEW n, n = ReleaseRef(m, sp.pte[a].frame),
           NEW s, s = SetPte(sp, a, None)
    PROVE  HeldTwo(c, n, s, t)
<1>1. PICK f : f = sp.pte[a].frame OBVIOUS
<1>2. f \in G /\ t \in G /\ At(sp, a) = f /\ f # None BY <1>1, SpaceFacts, Frames DEF At
<1>3. s.dir = sp.dir /\ s.table = sp.table /\ s.pte[a] = None
      /\ \A b \in Page : b # a => s.pte[b] = sp.pte[b]
  BY SetPteFacts
<1>4. CASE c.bad = None
  <2>1. PICK g : Safe(c, g, sp) /\ m = AcquireRef(AcquireRef(g, sp.dir), t) BY <1>4 DEF HeldTwo
  <2>2. PICK T, d : T = Put(c.S, c.q, sp) /\ d = sp.dir OBVIOUS
  <2>3. /\ T[c.q] = sp /\ g \in MemT /\ g.fail = "none" /\ Used(g) /\ Good(g, T, {})
        /\ d \in Frame /\ t \in Frame /\ f \in Frame /\ d # f /\ t # f /\ d # t
        /\ g.ref[d].there /\ g.ref[t].there /\ g.ref[f].there /\ g.ref[f].count # 0
        /\ Counted(g, sp)
    <3>1. /\ T[c.q] = sp /\ g \in MemT /\ g.fail = "none" /\ Used(g) /\ Good(g, T, {})
          /\ \A h \in G : h \in Frame /\ g.ref[h].there
          /\ g.ref[f].count # 0 /\ t # d /\ f # d /\ f # t
      BY <1>2, <1>4, <2>1, <2>2, SafeKinds
    <3>2. Counted(g, sp) BY <1>4, <2>1 DEF Safe
    <3> QED BY <1>2, <2>2, <3>1, <3>2
  <2>4. PICK h : h = ReleaseRef(g, f) OBVIOUS
  <2>5. /\ Good(h, Put(T, c.q, s), {}) /\ Used(h) /\ h.fail = g.fail
        /\ \A e \in Frame : e # f => h.ref[e] = g.ref[e]
    <3>1. PICK E : E = {} OBVIOUS
    <3>2. Good(g, T, E) /\ Used(g) /\ T[c.q].pte[a] # None /\ f = T[c.q].pte[a].frame
          /\ s = SetPte(T[c.q], a, None)
      BY <1>1, <2>3, <3>1
    <3>3. c.q \in Proc BY DEF Case
    <3>4. /\ Good(h, Put(T, c.q, s), E) /\ Used(h) /\ h.fail = g.fail
          /\ \A e \in Frame : e # f => h.ref[e] = g.ref[e]
      BY ONLY SMTT(60), a \in Page, <2>4, <3>2, <3>3, UnmapGood
    <3> QED BY <3>1, <3>4
  <2>6. Put(T, c.q, s) = Put(c.S, c.q, s) BY <2>2, PutFacts DEF Case
  <2>7. Counted(h, s)
    <3>1. ASSUME NEW j \in Table, sp.table[j] # None PROVE h.ref[sp.table[j]].count # 0
      <4>1. sp.table[j] \in G /\ At(sp, a) # sp.table[j]
        BY <1>4, <2>1, <3>1, SafeKinds
      <4> QED BY <1>2, <2>3, <2>5, <3>1, <4>1, Frames DEF Counted
    <3> QED BY <1>3, <3>1 DEF Counted
  <2>8. Safe(c, h, s) BY <1>4, <2>3, <2>5, <2>6, <2>7 DEF Safe, Fit
  <2>9. h \in MemT /\ h.ref[d] = g.ref[d] /\ h.ref[t] = g.ref[t] BY <2>3, <2>5 DEF Good
  <2>10. n = AcquireRef(AcquireRef(h, d), t)
    <3>1. ReleaseRef(AcquireRef(AcquireRef(g, d), t), f) = AcquireRef(AcquireRef(h, d), t)
      BY <2>3, <2>4, <2>9, Shed
    <3> QED BY <1>1, <2>1, <2>2, <3>1
  <2> QED BY <1>3, <1>4, <2>2, <2>8, <2>10 DEF HeldTwo
<1>5. CASE c.bad # None
  <2>1. PICK bad, j : bad = c.bad /\ j = IF t = bad THEN 1 ELSE 0 OBVIOUS
  <2>2. Doomed(m, bad, j, sp) /\ bad \in G /\ Clear(bad, sp) /\ j \in {0, 1}
    BY <1>5, <2>1 DEF HeldTwo, Case, Doomed
  <2>3. f # bad BY <1>2, <2>2 DEF Clear
  <2>4. n = ReleaseRef(m, f) /\ j = IF f = bad THEN 0 ELSE j BY <1>1, <2>3
  <2>5. Doomed(n, bad, j, sp) BY ZenonT(60), <1>2, <2>2, <2>4, DoomedRelease
  <2>6. Clear(bad, s)
    <3>1. \A b \in Page : At(s, b) # bad
      <4>1. bad # None BY <2>2, Frames
      <4> QED BY <1>3, <2>2, <4>1 DEF Clear, At
    <3> QED BY <1>3, <2>2, <3>1 DEF Clear
  <2>7. Doomed(n, bad, j, s) BY <1>3, <2>5, <2>6 DEF Doomed
  <2> QED BY <1>5, <2>1, <2>7 DEF HeldTwo
<1> QED BY <1>4, <1>5

\* An entry is released while its directory and its table are held.
LEMMA EntryReleased ==
    ASSUME NEW c, Case(c), NEW m, NEW sp, sp.dir \in G, sp \in SpaceT, Held(c, m, sp),
           NEW a \in Page, sp.pte[a] # None, NEW k \in Table, NEW t, t = sp.table[k], t # None,
           NEW x, x = ReleaseRef(AcquireRef(m, t), sp.pte[a].frame),
           NEW n, n = ReleaseRef(x, t),
           NEW s, s = SetPte(sp, a, None)
    PROVE  Held(c, n, s) /\ s \in SpaceT
<1>1. t \in G BY SpaceFacts
<1>2. PICK y : y = AcquireRef(m, t) OBVIOUS
<1>3. HeldTwo(c, y, sp, t) BY <1>1, <1>2, HoldTable
<1>4. HeldTwo(c, x, s, t) BY <1>2, <1>3, EntryShed
<1>5. s \in SpaceT
  <2>1. s = SetPte(sp, a, None) /\ sp \in SpaceT /\ a \in Page OBVIOUS
  <2> QED BY <2>1 DEF SetPte, SpaceT
<1>6. s.dir \in G /\ t = s.table[k] BY SetPteFacts
<1>7. Held(c, n, s) BY <1>1, <1>4, <1>6, LetTable
<1> QED BY <1>5, <1>7

\* A table is taken out and loses its reference while the directory is mapped.
LEMMA TableDropped ==
    ASSUME NEW c, Case(c), NEW m, NEW sp, sp.dir \in G, sp \in SpaceT, Held(c, m, sp),
           NEW k \in Table, NEW t, t = sp.table[k], t # None, NEW n, n = ReleaseRef(m, t),
           NEW s, s = SetRoot(sp, k, None)
    PROVE  Held(c, n, s) /\ s \in SpaceT
<1>1. t \in G BY SpaceFacts
<1>2. s \in SpaceT /\ s.dir = sp.dir /\ s.pte = sp.pte /\ s.table[k] = None
      /\ \A j \in Table : j # k => s.table[j] = sp.table[j]
  <2>1. k # -1 /\ k \in Slot
    <3>1. NbTables - 1 \in Nat BY PagesOfTables
    <3> QED BY <3>1 DEF Table, Slot
  <2>2. s = [sp EXCEPT !.table[k] = None] BY <2>1 DEF SetRoot
  <2> QED BY <2>2 DEF SpaceT
<1>3. CASE c.bad = None
  <2>1. PICK g : Safe(c, g, sp) /\ m = AcquireRef(g, sp.dir) BY <1>3 DEF Held
  <2>2. PICK T, d : T = Put(c.S, c.q, sp) /\ d = sp.dir OBVIOUS
  <2>3. /\ T[c.q] = sp /\ g \in MemT /\ g.fail = "none" /\ Used(g) /\ Good(g, T, {})
        /\ d \in Frame /\ t \in Frame /\ t # d
        /\ g.ref[d].there /\ g.ref[t].there /\ g.ref[t].count = 1
    BY <1>1, <1>3, <2>1, <2>2, SafeKinds, Frames
  <2>4. PICK h : h = ReleaseRef(g, t) OBVIOUS
  <2>5. /\ Good(h, Put(T, c.q, s), {}) /\ Used(h) /\ h.fail = g.fail
        /\ \A e \in Frame : e # t => h.ref[e] = g.ref[e]
    <3>1. PICK E : E = {} OBVIOUS
    <3>2. k \in Slot /\ t = Root(T[c.q], k) /\ s = SetRoot(T[c.q], k, None)
      <4>1. NbTables - 1 \in Nat BY PagesOfTables
      <4> QED BY <2>3, <4>1 DEF Slot, Table, Root
    <3>3. c.q \in Proc BY DEF Case
    <3>4. Good(g, T, E) /\ Used(g) BY <2>3, <3>1
    <3>5. h = FreeFrames(g, t, 1) \/ (h = ReleaseRef(g, t) /\ g.ref[t].count = 1) BY <2>3, <2>4
    <3>6. /\ Good(h, Put(T, c.q, s), E) /\ Used(h) /\ h.fail = g.fail
          /\ \A e \in Frame : e # t => h.ref[e] = g.ref[e]
      BY ONLY t \in G, <1>1, <3>2, <3>3, <3>4, <3>5, DropGood
    <3> QED BY <3>1, <3>6
  <2>6. Put(T, c.q, s) = Put(c.S, c.q, s) BY <2>2, PutFacts DEF Case
  <2>7. Counted(h, s)
    <3>1. \A j \in Table : j # k /\ sp.table[j] # None => sp.table[j] # t
      <4>1. PICK E : E = {} OBVIOUS
      <4>2. Good(g, T, E) /\ sp = T[c.q] /\ c.q \in Proc BY <2>3, <4>1 DEF Case
      <4>3. \A i, j \in Slot : Root(sp, i) \in G /\ Root(sp, i) = Root(sp, j) => i = j
        BY ONLY <4>2, Kinds
      <4>4. \A j \in Table : j \in Slot /\ Root(sp, j) = sp.table[j]
        <5>1. NbTables - 1 \in Nat BY PagesOfTables
        <5> QED BY <5>1 DEF Slot, Table, Root
      <4> QED BY <1>1, <4>3, <4>4
    <3>2. \A j \in Table : sp.table[j] \in G \cup {None} BY SpaceFacts
    <3>3. Counted(g, sp) BY <1>3, <2>1 DEF Safe
    <3>4. ASSUME NEW j \in Table, s.table[j] # None PROVE h.ref[s.table[j]].count # 0
      <4>1. j # k /\ s.table[j] = sp.table[j] BY <1>2, <3>4
      <4>2. sp.table[j] \in Frame /\ sp.table[j] # t BY <3>1, <3>2, <3>4, <4>1, Frames
      <4>3. g.ref[sp.table[j]].count # 0 BY <3>3, <3>4, <4>1 DEF Counted
      <4> QED BY <2>5, <4>1, <4>2, <4>3
    <3> QED BY <3>4 DEF Counted
  <2>8. Safe(c, h, s) BY <1>3, <2>3, <2>5, <2>6, <2>7 DEF Safe, Fit
  <2>9. n = AcquireRef(h, d)
    <3>1. h \in MemT BY <2>5 DEF Good
    <3> QED BY <2>1, <2>2, <2>3, <2>4, <3>1, Commute
  <2> QED BY <1>2, <1>3, <2>2, <2>8, <2>9 DEF Held
<1>4. CASE c.bad # None
  <2>1. PICK bad, z : bad = c.bad /\ z = 0 OBVIOUS
  <2>2. z \in {0, 1} /\ bad \in G /\ Doomed(m, bad, z, sp) /\ z = IF t = bad THEN 0 ELSE z
    BY <1>4, <2>1 DEF Held, Safe, Case
  <2>3. Doomed(n, bad, z, sp) /\ (t = bad /\ z = 0 => n.fail # "none")
    BY ONLY <1>1, <2>2, n = ReleaseRef(m, t), DoomedRelease
  <2>4. Clear(bad, s) BY <1>2, <2>3 DEF Doomed, Clear, At
  <2>5. Doomed(n, bad, z, s) BY <1>2, <2>1, <2>3, <2>4 DEF Doomed
  <2> QED BY <1>2, <1>4, <2>1, <2>5 DEF Held, Safe
<1> QED BY <1>3, <1>4

--------------------------------------------------------------------------------
\* What is promised of a space says nothing of its free pages.
LEMMA SafeSwap ==
    ASSUME NEW c, Case(c), NEW m, NEW sp, Safe(c, m, sp), NEW s \in SpaceT,
           s.dir = sp.dir, s.table = sp.table, s.pte = sp.pte
    PROVE  Safe(c, m, s)
<1>1. CASE c.bad = None
  <2>1. PICK T, E : T = Put(c.S, c.q, sp) /\ E = {} OBVIOUS
  <2>2. T[c.q] = sp /\ Put(T, c.q, s) = Put(c.S, c.q, s) BY <2>1, PutFacts DEF Case
  <2>3. Fit(m, T, E) /\ c.q \in Proc /\ s.dir = T[c.q].dir /\ s.table = T[c.q].table
        /\ s.pte = T[c.q].pte
    BY <1>1, <2>1, <2>2 DEF Safe, Case
  <2>4. Fit(m, Put(T, c.q, s), E) BY ONLY s \in SpaceT, <2>3, PagesSwap
  <2>5. Counted(m, s) BY <1>1 DEF Safe, Counted
  <2> QED BY <1>1, <2>1, <2>2, <2>4, <2>5 DEF Safe
<1>2. CASE c.bad # None
  <2>1. Clear(c.bad, s) BY <1>2 DEF Safe, Doomed, Clear, At
  <2> QED BY <1>2, <2>1 DEF Safe, Doomed
<1> QED BY <1>1, <1>2

\* Neither does it while the directory is held.
LEMMA HeldSwap ==
    ASSUME NEW c, Case(c), NEW m, NEW sp, Held(c, m, sp), NEW s \in SpaceT,
           s.dir = sp.dir, s.table = sp.table, s.pte = sp.pte
    PROVE  Held(c, m, s)
<1>1. CASE c.bad = None
  <2>1. PICK g : Safe(c, g, sp) /\ m = AcquireRef(g, sp.dir) BY <1>1 DEF Held
  <2>2. Safe(c, g, s) BY <2>1, SafeSwap
  <2> QED BY <1>1, <2>1, <2>2 DEF Held
<1>2. CASE c.bad # None
  <2>1. Safe(c, m, s) BY <1>2, SafeSwap DEF Held
  <2> QED BY <1>2, <2>1 DEF Held
<1> QED BY <1>1, <1>2

\* One page of the data of a process is released and given back.
LEMMA DataPage ==
    ASSUME NEW c, Case(c), NEW w, DOMAIN w = {"mem", "sp"}, w.sp \in SpaceT, w.sp.dir \in G,
           Held(c, w.mem, w.sp), PagesOK(w.sp), NEW a \in Page, a \notin FreeOf(w.sp),
           w.sp.pte[a] # None, NEW v, v = FreeProcessPage(w, a)
    PROVE  DOMAIN v = {"mem", "sp"} /\ Held(c, v.mem, v.sp) /\ Given(w.sp, v.sp, a, 1)
<1>1. PICK t, k, m : t = w.sp.table[TableOf(a)] /\ k = TableOf(a) /\ m = w.mem OBVIOUS
<1>2. k \in Table /\ t = w.sp.table[k] /\ t # None BY <1>1, PagesOfTables DEF PagesOK, Tabled
<1>3. PICK x : x = ReleaseRef(AcquireRef(m, t), w.sp.pte[a].frame) OBVIOUS
<1>4. PICK s : s = SetPte(w.sp, a, None) OBVIOUS
<1>5. PICK n : n = ReleaseRef(x, t) OBVIOUS
<1>6. Held(c, n, s) /\ s \in SpaceT
  <2>1. Held(c, m, w.sp) BY <1>1
  <2> QED BY ONLY Case(c), w.sp \in SpaceT, w.sp.dir \in G, a \in Page, w.sp.pte[a] # None,
                  <1>2, <1>3, <1>4, <1>5, <2>1, EntryReleased
<1>7. s.dir = w.sp.dir /\ s.table = w.sp.table /\ s.pages = w.sp.pages /\ s.pte[a] = None
      /\ \A b \in Page : b # a => s.pte[b] = w.sp.pte[b]
  BY <1>4, SetPteFacts
<1>8. PICK y : y = [w EXCEPT !.mem = x, !.sp = s] OBVIOUS
<1>9. DOMAIN y = {"mem", "sp"} /\ y.mem = x /\ y.sp = s BY <1>8
<1>10. PagesOK(s)
  <2>1. Tabled(s) BY <1>7 DEF PagesOK, Tabled
  <2>2. \A b \in FreeOf(s) : b \in Page /\ s.pte[b] = None BY <1>7 DEF PagesOK, FreeOf
  <2> QED BY <1>7, <2>1, <2>2 DEF PagesOK
<1>11. PICK u, o : o = 1 /\ u = FreePages(y, a, o) OBVIOUS
<1>12. a \in Int /\ a .. a + o - 1 = {a} /\ o \in Nat \ {0} BY <1>11, PagesOfTables
<1>13. /\ DOMAIN u = {"mem", "sp"} /\ u.mem = x /\ u.sp \in SpaceT
       /\ u.sp.dir = s.dir /\ u.sp.table = s.table /\ u.sp.pte = s.pte
       /\ PagesOK(u.sp)
       /\ \A b : b \in FreeOf(u.sp) <=> b \in FreeOf(s) \/ b \in a .. a + o - 1
  <2>1. \A b \in a .. a + o - 1 : b \in Page /\ b \notin FreeOf(y.sp) /\ y.sp.pte[b] = None
    BY <1>7, <1>9, <1>12 DEF FreeOf
  <2>2. y.sp \in SpaceT /\ PagesOK(y.sp) /\ u = FreePages(y, a, o) BY <1>6, <1>9, <1>10, <1>11
  <2>3. Idle(y, a, o) BY <1>9, <2>1, <2>2 DEF Idle
  <2>4. GivenBack(y, u, a, o) BY ONLY <1>12, <2>2, <2>3, GivePages
  <2> QED BY <1>9, <2>4 DEF GivenBack
<1>14. v = [u EXCEPT !.mem = n]
  <2>1. y = [w EXCEPT !.mem = ReleaseRef(MapTemp(w.mem, t), w.sp.pte[a].frame), !.sp.pte[a] = None]
    BY <1>1, <1>3, <1>4, <1>8 DEF MapTemp, SetPte
  <2>2. v = [FreePages(y, a, 1) EXCEPT !.mem = UnmapTemp(@, t)]
    BY <1>1, <1>2, <2>1 DEF FreeProcessPage
  <2> QED BY <1>5, <1>11, <1>13, <2>2 DEF UnmapTemp
<1>15. DOMAIN v = {"mem", "sp"} /\ v.mem = n /\ v.sp = u.sp BY <1>13, <1>14
<1>16. Held(c, n, u.sp) BY <1>6, <1>13, HeldSwap
<1>17. Given(w.sp, u.sp, a, o) BY <1>7, <1>12, <1>13 DEF Given, FreeOf
<1> QED BY <1>11, <1>15, <1>16, <1>17

--------------------------------------------------------------------------------
\* memory_free_process_data: e holds its arguments and the space before it.
DataTurn(e, v, i) == FreeProcessPage(v, e.a + i)

\* What the loop over the pages of the data keeps.
DataKeeps(e, i, v) ==
    DOMAIN v = {"mem", "sp"} /\ Held(e.c, v.mem, v.sp) /\ Given(e.sp, v.sp, e.a, i)

\* The loop over the pages of the data.
Data == INSTANCE LoopProofs WITH Step <- DataTurn, Keeps <- DataKeeps

\* The same as a fold.
FreeDataPages(w, a, n) == FoldLeft(LAMBDA x, i : FreeProcessPage(x, a + i), w, UpTo(n))

\* The data of a process is released page by page.
LEMMA FreeProcessDataGood ==
    ASSUME NEW c, Case(c), NEW w, DOMAIN w = {"mem", "sp"}, w.sp \in SpaceT, w.sp.dir \in G,
           Safe(c, w.mem, w.sp), PagesOK(w.sp), NEW a \in Int, NEW n \in Nat,
           \A b \in a .. a + n - 1 : b \in Page /\ b \notin FreeOf(w.sp) /\ w.sp.pte[b] # None,
           NEW v, v = FreeProcessData(w, a, n)
    PROVE  DOMAIN v = {"mem", "sp"} /\ Safe(c, v.mem, v.sp) /\ Given(w.sp, v.sp, a, n)
<1>1. PICK e : e = [a |-> a, c |-> c, sp |-> w.sp] OBVIOUS
<1>2. e.a = a /\ e.c = c /\ e.sp = w.sp BY <1>1
<1>3. PICK u : u = UpTo(n) OBVIOUS
<1>4. DOMAIN u = 1 .. n /\ (\A i \in 0 .. n - 1 : u[i + 1] = i) BY <1>3, UpToIs
<1>5. PICK w1 : w1 = [w EXCEPT !.mem = AcquireRef(w.mem, w.sp.dir)] OBVIOUS
<1>6. DOMAIN w1 = {"mem", "sp"} /\ w1.mem = AcquireRef(w.mem, w.sp.dir) /\ w1.sp = w.sp BY <1>5
<1>7. PICK y : y = FreeDataPages(w1, a, n) OBVIOUS
<1>8. y = Data!Fold(e, w1, u)
  <2>1. Data!Fold(e, w1, u) = FoldLeft(LAMBDA x, i : FreeProcessPage(x, a + i), w1, u)
    BY <1>2 DEF Data!Fold, DataTurn, FoldLeft, Data!Largest, MapThenFoldSet, Max
  <2> QED BY <1>3, <1>7, <2>1 DEF FreeDataPages
<1>9. DataKeeps(e, 0, w1)
  <2>1. a .. a + 0 - 1 = {} OBVIOUS
  <2>2. Given(w.sp, w.sp, a, 0) BY <2>1 DEF Given
  <2>3. PICK d, m, h : d = w.sp.dir /\ m = w.mem /\ h = AcquireRef(m, d) OBVIOUS
  <2>4. Held(c, h, w.sp) BY <2>3, HoldDir
  <2> QED BY <1>2, <1>6, <2>2, <2>3, <2>4 DEF DataKeeps
<1>10. ASSUME NEW i \in 0 .. n - 1, NEW x, DataKeeps(e, i, x)
       PROVE  DataKeeps(e, i + 1, DataTurn(e, x, u[i + 1]))
  <2>1. PICK z : z = DataTurn(e, x, u[i + 1]) OBVIOUS
  <2>2. PICK b : b = a + i OBVIOUS
  <2>3. z = FreeProcessPage(x, b) BY <1>2, <1>4, <2>1, <2>2 DEF DataTurn
  <2>4. i \in Int /\ b \in a .. a + n - 1 /\ b \notin a .. a + i - 1 BY <2>2
  <2>5. /\ DOMAIN x = {"mem", "sp"} /\ Held(c, x.mem, x.sp) /\ Given(w.sp, x.sp, a, i)
    BY <1>2, <1>10 DEF DataKeeps
  <2>6. /\ b \in Page /\ x.sp \in SpaceT /\ x.sp.dir \in G /\ PagesOK(x.sp)
        /\ b \notin FreeOf(x.sp) /\ x.sp.pte[b] # None
    BY <2>4, <2>5 DEF Given
  <2>7. DOMAIN z = {"mem", "sp"} /\ Held(c, z.mem, z.sp) /\ Given(x.sp, z.sp, b, 1)
    BY <2>3, <2>5, <2>6, DataPage
  <2>8. Given(w.sp, z.sp, a, i + 1)
    <3>1. b \in Int /\ b .. b + 1 - 1 = {b} BY <2>2, <2>4
    <3>2. \A g : g \in a .. a + (i + 1) - 1 <=> g \in a .. a + i - 1 \/ g = b BY <2>2, <2>4
    <3>3. /\ z.sp \in SpaceT /\ PagesOK(z.sp) /\ z.sp.dir = x.sp.dir
          /\ \A g \in Page : g # b => z.sp.pte[g] = x.sp.pte[g]
          /\ \A g : g \in FreeOf(z.sp) <=> g \in FreeOf(x.sp) \/ g = b
      BY <2>7, <3>1 DEF Given
    <3>4. /\ x.sp.dir = w.sp.dir
          /\ \A g \in Page : g \notin a .. a + i - 1 => x.sp.pte[g] = w.sp.pte[g]
          /\ \A g : g \in FreeOf(x.sp) <=> g \in FreeOf(w.sp) \/ g \in a .. a + i - 1
      BY <2>5 DEF Given
    <3>5. \A g \in Page : g \notin a .. a + (i + 1) - 1 => z.sp.pte[g] = w.sp.pte[g]
      BY <3>2, <3>3, <3>4
    <3>6. \A g : g \in FreeOf(z.sp) <=> g \in FreeOf(w.sp) \/ g \in a .. a + (i + 1) - 1
      BY <3>2, <3>3, <3>4
    <3> QED BY <3>3, <3>4, <3>5, <3>6 DEF Given
  <2> QED BY <1>2, <2>1, <2>7, <2>8 DEF DataKeeps
<1>11. DataKeeps(e, n, y)
  <2>1. \A i \in 0 .. n - 1 : \A x : DataKeeps(e, i, x) => DataKeeps(e, i + 1, DataTurn(e, x, u[i + 1]))
    BY <1>10
  <2>2. n \in Nat /\ DOMAIN u = 1 .. n BY <1>4
  <2>0. Data!Climbs(n)
    <3>1. n \in Nat BY <2>2
    <3> QED BY <3>1, Climb DEF Data!Climbs
  <2>3. DataKeeps(e, n, Data!Fold(e, w1, u)) BY ONLY <2>0, <1>9, <2>1, <2>2, Data!LoopRule
  <2> QED BY <1>8, <2>3
<1>12. DOMAIN y = {"mem", "sp"} /\ Held(c, y.mem, y.sp) /\ Given(w.sp, y.sp, a, n)
  BY <1>2, <1>11 DEF DataKeeps
<1>13. v = [y EXCEPT !.mem = ReleaseRef(y.mem, w.sp.dir)]
  <2>1. w1 = [w EXCEPT !.mem = MapTemp(@, w.sp.dir)] BY <1>5 DEF MapTemp
  <2>2. v = [y EXCEPT !.mem = UnmapTemp(@, w.sp.dir)] BY <1>7, <2>1 DEF FreeProcessData, FreeDataPages
  <2> QED BY <2>2 DEF UnmapTemp
<1>14. DOMAIN v = {"mem", "sp"} /\ v.mem = ReleaseRef(y.mem, w.sp.dir) /\ v.sp = y.sp
  BY <1>12, <1>13
<1>15. Safe(c, v.mem, y.sp)
  <2>1. PICK m, n2 : m = y.mem /\ n2 = ReleaseRef(m, w.sp.dir) OBVIOUS
  <2>2. y.sp.dir = w.sp.dir BY <1>12 DEF Given
  <2>3. Safe(c, n2, y.sp) BY <1>12, <2>1, <2>2, LetDir
  <2> QED BY <1>14, <2>1, <2>3
<1> QED BY <1>12, <1>14, <1>15

--------------------------------------------------------------------------------
\* The stacks of one thread: those of the others stay.
LEMMA FreeThreadGood ==
    ASSUME NEW c, Case(c), NEW w, DOMAIN w = {"mem", "sp"}, w.sp \in SpaceT, w.sp.dir \in G,
           Safe(c, w.mem, w.sp), PagesOK(w.sp), NEW T, StacksOK(w.sp, T), NEW t \in T,
           NEW y, y = FreeThread(w, t)
    PROVE  /\ DOMAIN y = {"mem", "sp"} /\ y.sp \in SpaceT /\ y.sp.dir = w.sp.dir
           /\ Safe(c, y.mem, y.sp) /\ PagesOK(y.sp) /\ StacksOK(y.sp, T \ {t})
<1>1. t \in StackT BY DEF StacksOK
<1>2. PICK a, k : a = t.stack /\ k = t.kstack OBVIOUS
<1>3. PICK U : U = T \ {t} OBVIOUS
<1>4. \A u \in U : u \in T /\ u # t BY <1>3
<1>5. IsFiniteSet(U) /\ U \subseteq StackT
  <2>1. IsFiniteSet(T \ {t}) BY FS_RemoveElement DEF StacksOK
  <2> QED BY <1>3, <2>1 DEF StacksOK
<1>6. CASE a = None
  <2>1. y = w BY <1>2, <1>6 DEF FreeThread
  <2>2. StacksOK(w.sp, U) BY <1>4, <1>5 DEF StacksOK
  <2> QED BY <1>3, <2>1, <2>2
<1>7. CASE a # None
  <2>1. a \in Int /\ k \in Int /\ StackPages \in Nat /\ KStackPages \in Nat
    BY <1>1, <1>2, <1>7, StackSizes
  <2>2. User(t) = a .. a + StackPages - 1 /\ Kernel(t) = k .. k + KStackPages - 1
    BY <1>2, <1>7 DEF User, Kernel
  <2>3. \A b \in User(t) : b \in Page /\ b \notin FreeOf(w.sp) /\ w.sp.pte[b] # None /\ w.sp.pte[b].mode # "private"
    BY DEF StacksOK
  <2>4. \A b \in Kernel(t) : b \in Page /\ b \notin FreeOf(w.sp) /\ w.sp.pte[b] # None /\ w.sp.pte[b].mode = "private"
    BY DEF StacksOK
  <2>5. PICK v : v = FreeProcessData(w, a, StackPages) OBVIOUS
  <2>6. DOMAIN v = {"mem", "sp"} /\ Safe(c, v.mem, v.sp) /\ Given(w.sp, v.sp, a, StackPages)
    <3>1. PICK n : n = StackPages OBVIOUS
    <3>2. \A b \in a .. a + n - 1 : b \in Page /\ b \notin FreeOf(w.sp) /\ w.sp.pte[b] # None
      BY <2>2, <2>3, <3>1
    <3>3. n \in Nat /\ a \in Int /\ v = FreeProcessData(w, a, n) BY <2>1, <2>5, <3>1
    <3>4. DOMAIN v = {"mem", "sp"} /\ Safe(c, v.mem, v.sp) /\ Given(w.sp, v.sp, a, n)
      BY <3>2, <3>3, FreeProcessDataGood
    <3> QED BY <3>1, <3>4
  <2>7. /\ v.sp \in SpaceT /\ PagesOK(v.sp) /\ v.sp.dir = w.sp.dir
        /\ \A b \in Page : b \notin User(t) => v.sp.pte[b] = w.sp.pte[b]
        /\ \A b : b \in FreeOf(v.sp) <=> b \in FreeOf(w.sp) \/ b \in User(t)
    BY <2>2, <2>6 DEF Given
  <2>8. \A b \in Kernel(t) : b \in Page /\ b \notin FreeOf(v.sp) /\ v.sp.pte[b] # None
    BY <2>3, <2>4, <2>7
  <2>9. y = FreeProcessData(v, k, KStackPages) BY <1>2, <1>7, <2>5 DEF FreeThread
  <2>10. DOMAIN y = {"mem", "sp"} /\ Safe(c, y.mem, y.sp) /\ Given(v.sp, y.sp, k, KStackPages)
    <3>1. PICK n : n = KStackPages OBVIOUS
    <3>2. \A b \in k .. k + n - 1 : b \in Page /\ b \notin FreeOf(v.sp) /\ v.sp.pte[b] # None
      BY <2>2, <2>8, <3>1
    <3>3. n \in Nat /\ k \in Int /\ y = FreeProcessData(v, k, n) BY <2>1, <2>9, <3>1
    <3>4. v.sp \in SpaceT /\ v.sp.dir \in G /\ PagesOK(v.sp) /\ DOMAIN v = {"mem", "sp"}
          /\ Safe(c, v.mem, v.sp)
      BY <2>6, <2>7
    <3>5. DOMAIN y = {"mem", "sp"} /\ Safe(c, y.mem, y.sp) /\ Given(v.sp, y.sp, k, n)
      BY <3>2, <3>3, <3>4, FreeProcessDataGood
    <3> QED BY <3>1, <3>5
  <2>11. /\ y.sp \in SpaceT /\ PagesOK(y.sp) /\ y.sp.dir = v.sp.dir
         /\ \A b \in Page : b \notin Kernel(t) => y.sp.pte[b] = v.sp.pte[b]
         /\ \A b : b \in FreeOf(y.sp) <=> b \in FreeOf(v.sp) \/ b \in Kernel(t)
    BY <2>2, <2>10 DEF Given
  <2>12. StacksOK(y.sp, U)
    <3>2. ASSUME NEW u \in U, NEW b \in Kernel(u)
          PROVE  b \in Page /\ b \notin FreeOf(y.sp) /\ y.sp.pte[b] = w.sp.pte[b]
                 /\ w.sp.pte[b] # None /\ w.sp.pte[b].mode = "private"
      <4>1. /\ b \in Page /\ b \notin FreeOf(w.sp) /\ w.sp.pte[b] # None /\ w.sp.pte[b].mode = "private"
            /\ b \notin Kernel(t)
        BY <1>4 DEF StacksOK
      <4>2. b \notin User(t) BY <2>3, <4>1
      <4> QED BY <2>7, <2>11, <4>1, <4>2
    <3>3. ASSUME NEW u \in U, NEW b \in User(u)
          PROVE  b \in Page /\ b \notin FreeOf(y.sp) /\ y.sp.pte[b] = w.sp.pte[b]
                 /\ w.sp.pte[b] # None /\ w.sp.pte[b].mode # "private"
      <4>1. /\ b \in Page /\ b \notin FreeOf(w.sp) /\ w.sp.pte[b] # None /\ w.sp.pte[b].mode # "private"
            /\ b \notin User(t)
        BY <1>4 DEF StacksOK
      <4>2. b \notin Kernel(t) BY <2>4, <4>1
      <4> QED BY <2>7, <2>11, <4>1, <4>2
    <3>4. \A x, z \in U : x # z => Kernel(x) \cap Kernel(z) = {} /\ User(x) \cap User(z) = {}
      BY <1>4 DEF StacksOK
    <3>5. \A u \in U : \A b \in Kernel(u) :
              b \in Page /\ b \notin FreeOf(y.sp) /\ y.sp.pte[b] # None /\ y.sp.pte[b].mode = "private"
      BY <3>2
    <3>6. \A u \in U : \A b \in User(u) :
              b \in Page /\ b \notin FreeOf(y.sp) /\ y.sp.pte[b] # None /\ y.sp.pte[b].mode # "private"
      BY <3>3
    <3> QED BY <1>5, <3>4, <3>5, <3>6 DEF StacksOK
  <2> QED BY <1>3, <2>7, <2>10, <2>11, <2>12
<1> QED BY <1>6, <1>7

--------------------------------------------------------------------------------
\* The threads of a process in the order of its list: e holds the space and the
\* threads before.
ThreadTurn(e, v, t) == FreeThread(v, t)

\* The threads whose stacks are still there after i rounds.
Left(e, i) == e.T \ {e.order[j] : j \in 1 .. i}

\* What the loop over the threads keeps.
ThreadsKeep(e, i, v) ==
    /\ DOMAIN v = {"mem", "sp"} /\ v.sp \in SpaceT /\ v.sp.dir = e.sp.dir
    /\ Safe(e.c, v.mem, v.sp) /\ PagesOK(v.sp) /\ StacksOK(v.sp, Left(e, i))

\* The loop over the threads.
EachThread == INSTANCE LoopProofs WITH Step <- ThreadTurn, Keeps <- ThreadsKeep

\* The threads of a process can be listed, each once.
LEMMA ThreadOrder ==
    ASSUME NEW T, IsFiniteSet(T), NEW q, q = SetToSeq(T)
    PROVE  \E n \in Nat : /\ q \in [1 .. n -> T]
                          /\ \A i, j \in 1 .. n : q[i] = q[j] => i = j
<1>1. PICK n : n = Cardinality(T) OBVIOUS
<1>2. n \in Nat /\ ExistsBijection(1 .. n, T) BY <1>1, FS_CardinalityType
<1>3. \E f \in [1 .. n -> T] : IsInjective(f)
  <2>1. PICK f \in [1 .. n -> T] : \A a, b \in 1 .. n : f[a] = f[b] => a = b
    BY <1>2 DEF ExistsBijection, Bijection, Injection, IsInjective
  <2>2. IsInjective(f) BY <2>1 DEF IsInjective
  <2> QED BY <2>1, <2>2
<1>4. q = CHOOSE g \in [1 .. n -> T] : IsInjective(g) BY <1>1 DEF SetToSeq
<1>5. q \in [1 .. n -> T] /\ IsInjective(q) BY <1>3, <1>4
<1> QED BY <1>2, <1>5 DEF IsInjective

\* The stacks of all threads of a process are released.
LEMMA FreeThreadsGood ==
    ASSUME NEW c, Case(c), NEW w, DOMAIN w = {"mem", "sp"}, w.sp \in SpaceT, w.sp.dir \in G,
           Safe(c, w.mem, w.sp), PagesOK(w.sp), NEW T, StacksOK(w.sp, T),
           NEW y, y = FoldLeft(FreeThread, w, SetToSeq(T))
    PROVE  /\ DOMAIN y = {"mem", "sp"} /\ y.sp \in SpaceT /\ y.sp.dir = w.sp.dir
           /\ Safe(c, y.mem, y.sp) /\ PagesOK(y.sp)
<1>1. PICK u : u = SetToSeq(T) OBVIOUS
<1>2. PICK n \in Nat : u \in [1 .. n -> T] /\ \A i, j \in 1 .. n : u[i] = u[j] => i = j
  BY <1>1, ThreadOrder DEF StacksOK
<1>3. PICK e : e = [T |-> T, order |-> u, sp |-> w.sp, c |-> c] OBVIOUS
<1>4. e.T = T /\ e.order = u /\ e.sp = w.sp /\ e.c = c BY <1>3
<1>5. y = EachThread!Fold(e, w, u)
  BY <1>1 DEF EachThread!Fold, ThreadTurn, FoldLeft, EachThread!Largest, MapThenFoldSet, Max
<1>6. ThreadsKeep(e, 0, w)
  <2>1. Left(e, 0) = T BY <1>4 DEF Left
  <2> QED BY <1>4, <2>1 DEF ThreadsKeep
<1>7. ASSUME NEW i \in 0 .. n - 1, NEW x, ThreadsKeep(e, i, x)
      PROVE  ThreadsKeep(e, i + 1, ThreadTurn(e, x, u[i + 1]))
  <2>1. PICK t : t = u[i + 1] OBVIOUS
  <2>2. PICK z : z = FreeThread(x, t) OBVIOUS
  <2>3. PICK L : L = Left(e, i) OBVIOUS
  <2>4. i + 1 \in 1 .. n /\ \A j \in 1 .. i : j \in 1 .. n /\ j # i + 1 OBVIOUS
  <2>5. t \in L BY <1>2, <1>4, <2>1, <2>3, <2>4 DEF Left
  <2>6. Left(e, i + 1) = L \ {t}
    <3>1. \A j : j \in 1 .. i + 1 <=> j \in 1 .. i \/ j = i + 1 OBVIOUS
    <3> QED BY <1>4, <2>1, <2>3, <3>1 DEF Left
  <2>7. /\ DOMAIN x = {"mem", "sp"} /\ x.sp \in SpaceT /\ x.sp.dir = w.sp.dir /\ x.sp.dir \in G
        /\ Safe(c, x.mem, x.sp) /\ PagesOK(x.sp) /\ StacksOK(x.sp, L)
    BY <1>4, <1>7, <2>3 DEF ThreadsKeep
  <2>8. /\ DOMAIN z = {"mem", "sp"} /\ z.sp \in SpaceT /\ z.sp.dir = x.sp.dir
        /\ Safe(c, z.mem, z.sp) /\ PagesOK(z.sp) /\ StacksOK(z.sp, L \ {t})
    BY <2>2, <2>5, <2>7, FreeThreadGood
  <2> QED BY <1>4, <2>1, <2>2, <2>6, <2>7, <2>8 DEF ThreadsKeep, ThreadTurn
<1>8. ThreadsKeep(e, n, y)
  <2>1. \A i \in 0 .. n - 1 : \A x : ThreadsKeep(e, i, x) => ThreadsKeep(e, i + 1, ThreadTurn(e, x, u[i + 1]))
    BY <1>7
  <2>2. n \in Nat /\ DOMAIN u = 1 .. n BY <1>2
  <2>0. EachThread!Climbs(n)
    <3>1. n \in Nat BY <2>2
    <3> QED BY <3>1, Climb DEF EachThread!Climbs
  <2>3. ThreadsKeep(e, n, EachThread!Fold(e, w, u)) BY ONLY <2>0, <1>6, <2>1, <2>2, EachThread!LoopRule
  <2> QED BY <1>5, <2>3
<1> QED BY <1>4, <1>8 DEF ThreadsKeep

--------------------------------------------------------------------------------
\* The pages of one table: e holds the case, the table, its number, the space that the
\* code reads and what was left of it before this table.
LetPage(e, m, i) ==
    LET a == e.org.pte[e.k * TableSize + i] IN IF a = None THEN m ELSE ReleaseRef(m, a.frame)

\* The loop that releases the entries of a table.
LetPages(m, sp, k) ==
    FoldLeft(LAMBDA n, i : LET a == sp.pte[k * TableSize + i]
                           IN  IF a = None THEN n ELSE ReleaseRef(n, a.frame),
             m, UpTo(TableSize))

\* The first i entries from f on are gone.
PagesGone(sp, s, f, i) ==
    /\ s \in SpaceT /\ s.dir = sp.dir /\ s.table = sp.table
    /\ \A b \in Page : s.pte[b] = IF b \in f .. f + i - 1 THEN None ELSE sp.pte[b]

\* What the loop keeps.
LetPagesKeep(e, i, m) ==
    \E s : PagesGone(e.sp, s, e.k * TableSize, i) /\ HeldTwo(e.c, m, s, e.t)

\* The loop over the entries of a table.
TablePages == INSTANCE LoopProofs WITH Step <- LetPage, Keeps <- LetPagesKeep

\* The entries of one table are released.
LEMMA LetPagesGood ==
    ASSUME NEW c, Case(c), NEW m, NEW sp, sp.dir \in G, sp \in SpaceT, NEW k \in Table,
           NEW t, t = sp.table[k], t # None, HeldTwo(c, m, sp, t), NEW f, f = k * TableSize,
           NEW org, \A b \in f .. f + TableSize - 1 : org.pte[b] = sp.pte[b],
           NEW n, n = LetPages(m, org, k)
    PROVE  \E s : PagesGone(sp, s, f, TableSize) /\ HeldTwo(c, n, s, t)
<1>1. PICK e : e = [sp |-> sp, c |-> c, t |-> t, k |-> k, org |-> org] OBVIOUS
<1>2. e.sp = sp /\ e.c = c /\ e.t = t /\ e.k = k /\ e.org = org BY <1>1
<1>3. PICK z : z = TableSize OBVIOUS
<1>4. PICK u : u = UpTo(z) OBVIOUS
<1>5. z \in Nat BY <1>3, MemoryAssumption
<1>6. DOMAIN u = 1 .. z /\ (\A i \in 0 .. z - 1 : u[i + 1] = i) BY <1>4, <1>5, UpToIs
<1>7. n = TablePages!Fold(e, m, u)
  <2>1. TablePages!Fold(e, m, u) =
            FoldLeft(LAMBDA x, i : LET a == org.pte[k * TableSize + i]
                                   IN  IF a = None THEN x ELSE ReleaseRef(x, a.frame), m, u)
    BY <1>2 DEF TablePages!Fold, LetPage, FoldLeft, TablePages!Largest, MapThenFoldSet, Max
  <2> QED BY <1>3, <1>4, <2>1 DEF LetPages
<1>8. f \in Int /\ \A i \in 0 .. z - 1 : f + i \in Page /\ org.pte[f + i] = sp.pte[f + i]
  <2>1. f \in Int /\ \A b \in f .. f + z - 1 : b \in Page BY <1>3, TableRange
  <2>2. \A i \in 0 .. z - 1 : f + i \in f .. f + z - 1 BY <1>5, <2>1
  <2> QED BY <1>3, <2>1, <2>2
<1>9. LetPagesKeep(e, 0, m)
  <2>1. f .. f + 0 - 1 = {} BY <1>8
  <2>2. PagesGone(sp, sp, f, 0) BY <2>1 DEF PagesGone
  <2> QED BY <1>2, <2>2 DEF LetPagesKeep
<1>10. ASSUME NEW i \in 0 .. z - 1, NEW x, LetPagesKeep(e, i, x)
       PROVE  LetPagesKeep(e, i + 1, LetPage(e, x, u[i + 1]))
  <2>1. PICK s : PagesGone(sp, s, f, i) /\ HeldTwo(c, x, s, t) BY <1>2, <1>10 DEF LetPagesKeep
  <2>2. PICK a : a = f + i OBVIOUS
  <2>3. PICK y : y = LetPage(e, x, u[i + 1]) OBVIOUS
  <2>4. a \in Page /\ i \in Int /\ a \notin f .. f + i - 1 /\ u[i + 1] = i BY <1>6, <1>8, <2>2
  <2>5. s.pte[a] = sp.pte[a] /\ org.pte[a] = sp.pte[a] BY <1>8, <2>1, <2>2, <2>4 DEF PagesGone
  <2>9. y = IF org.pte[a] = None THEN x ELSE ReleaseRef(x, org.pte[a].frame)
    BY <1>2, <2>2, <2>3, <2>4 DEF LetPage
  <2>6. \A b : b \in f .. f + (i + 1) - 1 <=> b \in f .. f + i - 1 \/ b = a BY <1>8, <2>2, <2>4
  <2>7. CASE sp.pte[a] = None
    <3>1. y = x BY <2>5, <2>7, <2>9
    <3>2. PagesGone(sp, s, f, i + 1) BY <2>1, <2>5, <2>6, <2>7 DEF PagesGone
    <3> QED BY <1>2, <2>1, <2>3, <3>1, <3>2 DEF LetPagesKeep
  <2>8. CASE sp.pte[a] # None
    <3>1. y = ReleaseRef(x, s.pte[a].frame) BY <2>5, <2>8, <2>9
    <3>2. PICK v : v = SetPte(s, a, None) OBVIOUS
    <3>3. s \in SpaceT /\ s.dir \in G /\ t = s.table[k] BY <2>1 DEF PagesGone
    <3>4. HeldTwo(c, y, v, t) BY <2>1, <2>4, <2>5, <2>8, <3>1, <3>2, <3>3, EntryShed
    <3>5. v \in SpaceT
      <4>1. a \in Page /\ s \in SpaceT BY <2>4, <3>3
      <4> QED BY <3>2, <4>1 DEF SetPte, SpaceT
    <3>6. v.dir = s.dir /\ v.table = s.table /\ v.pte[a] = None
          /\ \A b \in Page : b # a => v.pte[b] = s.pte[b]
      BY <2>4, <3>2, <3>3, SetPteFacts
    <3>7. PagesGone(sp, v, f, i + 1)
      <4>1. s.dir = sp.dir /\ s.table = sp.table BY <2>1 DEF PagesGone
      <4>2. ASSUME NEW b \in Page
            PROVE  v.pte[b] = IF b \in f .. f + (i + 1) - 1 THEN None ELSE sp.pte[b]
        <5>1. s.pte[b] = IF b \in f .. f + i - 1 THEN None ELSE sp.pte[b] BY <2>1 DEF PagesGone
        <5> QED BY <2>6, <3>6, <5>1
      <4> QED BY <3>5, <3>6, <4>1, <4>2 DEF PagesGone
    <3> QED BY <1>2, <2>3, <3>4, <3>7 DEF LetPagesKeep
  <2> QED BY <2>7, <2>8
<1>11. LetPagesKeep(e, z, n)
  <2>1. \A i \in 0 .. z - 1 : \A x : LetPagesKeep(e, i, x) => LetPagesKeep(e, i + 1, LetPage(e, x, u[i + 1]))
    BY <1>10
  <2>2. z \in Nat /\ DOMAIN u = 1 .. z BY <1>5, <1>6
  <2>0. TablePages!Climbs(z)
    <3>1. z \in Nat BY <2>2
    <3> QED BY <3>1, Climb DEF TablePages!Climbs
  <2>3. LetPagesKeep(e, z, TablePages!Fold(e, m, u)) BY ONLY <2>0, <1>9, <2>1, <2>2, TablePages!LoopRule
  <2> QED BY <1>7, <2>3
<1> QED BY <1>2, <1>3, <1>11 DEF LetPagesKeep

--------------------------------------------------------------------------------
\* The tables below number i and their pages are gone.
TablesGone(sp, s, i) ==
    /\ s \in SpaceT /\ s.dir = sp.dir
    /\ \A k \in Table : s.table[k] = IF k < i THEN None ELSE sp.table[k]
    /\ \A b \in Page : s.pte[b] = IF TableOf(b) < i THEN None ELSE sp.pte[b]

\* One table is released after its entries.
LEMMA CleanTableGood ==
    ASSUME NEW c, Case(c), NEW m, NEW sp, sp.dir \in G, sp \in SpaceT, Tabled(sp),
           NEW k \in Table, NEW s, TablesGone(sp, s, k), Held(c, m, s),
           NEW n, n = CleanTable(m, sp, k)
    PROVE  \E v : TablesGone(sp, v, k + 1) /\ Held(c, n, v)
<1>1. PICK t, f : t = sp.table[k] /\ f = k * TableSize OBVIOUS
<1>2. /\ s \in SpaceT /\ s.dir = sp.dir
      /\ \A j \in Table : s.table[j] = IF j < k THEN None ELSE sp.table[j]
      /\ \A b \in Page : s.pte[b] = IF TableOf(b) < k THEN None ELSE sp.pte[b]
  BY DEF TablesGone
<1>3. k \in Int /\ f \in Int /\ \A j \in Table : j \in Int BY <1>1, TableRange DEF Table
<1>4. \A b \in Page : TableOf(b) \in Table /\ (TableOf(b) = k <=> b \in f .. f + TableSize - 1)
  BY <1>1, TableRange, PagesOfTables
<1>5. CASE t = None
  <2>1. n = m BY <1>1, <1>5 DEF CleanTable
  <2>2. \A b \in Page : TableOf(b) = k => sp.pte[b] = None BY <1>1, <1>5 DEF Tabled
  <2>3. TablesGone(sp, s, k + 1)
    <3>1. ASSUME NEW j \in Table PROVE s.table[j] = IF j < k + 1 THEN None ELSE sp.table[j]
      <4>1. j < k + 1 <=> j < k \/ j = k BY <1>3
      <4>2. s.table[j] = IF j < k THEN None ELSE sp.table[j] BY <1>2
      <4> QED BY <1>1, <1>5, <4>1, <4>2
    <3>2. ASSUME NEW b \in Page PROVE s.pte[b] = IF TableOf(b) < k + 1 THEN None ELSE sp.pte[b]
      <4>1. PICK j : j = TableOf(b) OBVIOUS
      <4>2. j \in Int BY <1>3, <1>4, <4>1
      <4> QED BY <1>2, <1>3, <2>2, <4>1, <4>2
    <3> QED BY <1>2, <3>1, <3>2 DEF TablesGone
  <2> QED BY <2>1, <2>3
<1>6. CASE t # None
  <2>1. s.table[k] = t /\ t \in G /\ s.dir \in G BY <1>1, <1>2, <1>3, <1>6, SpaceFacts
  <2>2. PICK x : x = AcquireRef(m, t) OBVIOUS
  <2>3. HeldTwo(c, x, s, t) BY <2>1, <2>2, HoldTable
  <2>4. PICK y : y = LetPages(x, sp, k) OBVIOUS
  <2>5. PICK v : PagesGone(s, v, f, TableSize) /\ HeldTwo(c, y, v, t)
    <3>1. \A b \in f .. f + TableSize - 1 : sp.pte[b] = s.pte[b]
      <4>1. \A b \in f .. f + TableSize - 1 : b \in Page BY <1>1, TableRange
      <4> QED BY <1>2, <1>3, <1>4, <4>1
    <3>2. PICK o : o = sp OBVIOUS
    <3>3. \A b \in f .. f + TableSize - 1 : o.pte[b] = s.pte[b] BY <3>1, <3>2
    <3>4. y = LetPages(x, o, k) /\ f = k * TableSize /\ s \in SpaceT /\ t = s.table[k]
      BY <1>1, <1>2, <2>1, <2>4, <3>2
    <3> QED BY ONLY Case(c), k \in Table, <1>6, <2>1, <2>3, <3>3, <3>4, LetPagesGood
  <2>6. /\ v \in SpaceT /\ v.dir = s.dir /\ v.table = s.table
        /\ \A b \in Page : v.pte[b] = IF b \in f .. f + TableSize - 1 THEN None ELSE s.pte[b]
    BY <2>5 DEF PagesGone
  <2>7. PICK g : g = ReleaseRef(y, t) OBVIOUS
  <2>8. Held(c, g, v) BY <2>1, <2>5, <2>6, <2>7, LetTable
  <2>9. PICK h, r : h = ReleaseRef(g, t) /\ r = SetRoot(v, k, None) OBVIOUS
  <2>10. Held(c, h, r) /\ r \in SpaceT BY <1>6, <2>1, <2>6, <2>8, <2>9, TableDropped
  <2>11. r.dir = v.dir /\ r.pte = v.pte /\ r.table[k] = None
         /\ \A j \in Table : j # k => r.table[j] = v.table[j]
    <3>1. k # -1 BY DEF Table
    <3>2. r = [v EXCEPT !.table[k] = None] BY <2>9, <3>1 DEF SetRoot
    <3> QED BY <2>6, <3>2 DEF SpaceT
  <2>12. n = h
    BY <1>1, <1>6, <2>2, <2>4, <2>7, <2>9 DEF CleanTable, MapTemp, UnmapTemp, LetPages
  <2>13. TablesGone(sp, r, k + 1)
    <3>1. ASSUME NEW j \in Table PROVE r.table[j] = IF j < k + 1 THEN None ELSE sp.table[j]
      <4>1. j \in Int BY <1>3
      <4> QED BY <1>2, <1>3, <2>6, <2>11, <4>1
    <3>2. ASSUME NEW b \in Page PROVE r.pte[b] = IF TableOf(b) < k + 1 THEN None ELSE sp.pte[b]
      <4>1. PICK j : j = TableOf(b) OBVIOUS
      <4>2. j \in Int /\ (j = k <=> b \in f .. f + TableSize - 1) BY <1>3, <1>4, <4>1
      <4>3. r.pte[b] = IF j = k THEN None ELSE s.pte[b] BY <2>6, <2>11, <4>2
      <4>4. s.pte[b] = IF j < k THEN None ELSE sp.pte[b] BY <1>2, <4>1
      <4> QED BY <1>3, <4>1, <4>2, <4>3, <4>4
    <3> QED BY <1>2, <2>6, <2>10, <2>11, <3>1, <3>2 DEF TablesGone
  <2> QED BY <2>10, <2>12, <2>13
<1> QED BY <1>5, <1>6

--------------------------------------------------------------------------------
\* memory_clean_process_memory: e holds the case and the space.
CleanTurn(e, m, k) == CleanTable(m, e.sp, k)

\* What the loop over the tables keeps.
CleanKeeps(e, i, m) == \E s : TablesGone(e.sp, s, i) /\ Held(e.c, m, s)

\* The loop over the tables.
AllTables == INSTANCE LoopProofs WITH Step <- CleanTurn, Keeps <- CleanKeeps

\* The same as a fold.
CleanTables(m, sp) == FoldLeft(LAMBDA x, t : CleanTable(x, sp, t), m, UpTo(NbTables))

\* All tables are released.
LEMMA CleanTablesGood ==
    ASSUME NEW c, Case(c), NEW m, NEW sp, sp.dir \in G, sp \in SpaceT, Tabled(sp),
           Held(c, m, sp), NEW n, n = CleanTables(m, sp)
    PROVE  \E s : TablesGone(sp, s, NbTables) /\ Held(c, n, s)
<1>1. PICK e : e = [sp |-> sp, c |-> c] OBVIOUS
<1>2. e.sp = sp /\ e.c = c BY <1>1
<1>3. PICK z : z = NbTables OBVIOUS
<1>4. PICK u : u = UpTo(z) OBVIOUS
<1>5. z \in Nat /\ Table = 0 .. z - 1 BY <1>3, MemoryAssumption DEF Table
<1>6. DOMAIN u = 1 .. z /\ (\A i \in 0 .. z - 1 : u[i + 1] = i) BY <1>4, <1>5, UpToIs
<1>7. n = AllTables!Fold(e, m, u)
  <2>1. AllTables!Fold(e, m, u) = FoldLeft(LAMBDA x, t : CleanTable(x, sp, t), m, u)
    BY <1>2 DEF AllTables!Fold, CleanTurn, FoldLeft, AllTables!Largest, MapThenFoldSet, Max
  <2> QED BY <1>3, <1>4, <2>1 DEF CleanTables
<1>8. CleanKeeps(e, 0, m)
  <2>1. \A k \in Table : ~(k < 0) BY <1>5
  <2>2. \A b \in Page : ~(TableOf(b) < 0) BY <2>1, PagesOfTables
  <2>3. TablesGone(sp, sp, 0) BY <2>1, <2>2 DEF TablesGone
  <2> QED BY <1>2, <2>3 DEF CleanKeeps
<1>9. ASSUME NEW i \in 0 .. z - 1, NEW x, CleanKeeps(e, i, x)
      PROVE  CleanKeeps(e, i + 1, CleanTurn(e, x, u[i + 1]))
  <2>1. PICK s : TablesGone(sp, s, i) /\ Held(c, x, s) BY <1>2, <1>9 DEF CleanKeeps
  <2>2. PICK y : y = CleanTable(x, sp, i) OBVIOUS
  <2>3. i \in Table BY <1>5
  <2>4. \E v : TablesGone(sp, v, i + 1) /\ Held(c, y, v) BY <2>1, <2>2, <2>3, CleanTableGood
  <2>5. CleanTurn(e, x, u[i + 1]) = y BY <1>2, <1>6, <2>2 DEF CleanTurn
  <2> QED BY <1>2, <2>4, <2>5 DEF CleanKeeps
<1>10. CleanKeeps(e, z, n)
  <2>1. \A i \in 0 .. z - 1 : \A x : CleanKeeps(e, i, x) => CleanKeeps(e, i + 1, CleanTurn(e, x, u[i + 1]))
    BY <1>9
  <2>2. z \in Nat /\ DOMAIN u = 1 .. z BY <1>5, <1>6
  <2>0. AllTables!Climbs(z)
    <3>1. z \in Nat BY <2>2
    <3> QED BY <3>1, Climb DEF AllTables!Climbs
  <2>3. CleanKeeps(e, z, AllTables!Fold(e, m, u)) BY ONLY <2>0, <1>8, <2>1, <2>2, AllTables!LoopRule
  <2> QED BY <1>7, <2>3
<1> QED BY <1>2, <1>3, <1>10 DEF CleanKeeps

\* A process that does not exist maps nothing and has no free page.
LEMMA NoSpaceIs ==
    /\ NoSpace \in SpaceT /\ NoSpace.dir = None /\ NoSpace.pages = << >>
    /\ \A t \in Table : NoSpace.table[t] = None
    /\ \A a \in Page : NoSpace.pte[a] = None /\ At(NoSpace, a) = None
    /\ \A j \in Slot : Root(NoSpace, j) = None
<1>1. << >> \in Seq(Rng) OBVIOUS
<1>2. NoSpace \in SpaceT BY <1>1 DEF NoSpace, SpaceT
<1>3. \A j \in Slot : j # -1 => j \in Table BY DEF Slot, Table
<1> QED BY <1>2, <1>3 DEF NoSpace, At, Root

\* Nothing remains of the space of a process that had one.
LEMMA CleanGood ==
    ASSUME NEW c, Case(c), NEW m, NEW sp, sp.dir \in G, sp \in SpaceT, Tabled(sp),
           Safe(c, m, sp), NEW n, n = CleanProcessMemory(m, sp)
    PROVE  /\ c.bad = None => Fit(n, Put(c.S, c.q, NoSpace), {})
           /\ c.bad # None => n.fail \in {"released_free", "freed_twice"}
<1>1. PICK x, d : x = AcquireRef(m, d) /\ d = sp.dir OBVIOUS
<1>2. Held(c, x, sp) BY <1>1, HoldDir
<1>3. PICK y : y = CleanTables(x, sp) OBVIOUS
<1>4. PICK s : TablesGone(sp, s, NbTables) /\ Held(c, y, s) BY <1>2, <1>3, CleanTablesGood
<1>5. s \in SpaceT /\ s.dir = d /\ d \in G
      /\ (\A k \in Table : s.table[k] = None) /\ (\A b \in Page : s.pte[b] = None)
  <2>1. \A k \in Table : k < NbTables BY MemoryAssumption DEF Table
  <2>2. \A b \in Page : TableOf(b) < NbTables BY <2>1, PagesOfTables
  <2> QED BY <1>1, <1>4, <2>1, <2>2 DEF TablesGone
<1>6. PICK g : g = ReleaseRef(y, d) OBVIOUS
<1>7. Safe(c, g, s) BY <1>4, <1>5, <1>6, LetDir
<1>8. n = ReleaseRef(g, d)
  BY <1>1, <1>3, <1>6 DEF CleanProcessMemory, CleanTables, MapTemp, UnmapTemp
<1>9. CASE c.bad = None
  <2>1. PICK T : T = Put(c.S, c.q, s) OBVIOUS
  <2>2. T[c.q] = s /\ g \in MemT /\ g.fail = "none" /\ Used(g) /\ Good(g, T, {}) /\ g.ref[d].count = 1
    BY <1>5, <1>7, <1>9, <2>1, SafeKinds
  <2>3. PICK r : r = SetRoot(s, -1, None) OBVIOUS
  <2>4. r \in SpaceT /\ r.dir = None /\ r.table = s.table /\ r.pte = s.pte
    BY <1>5, <2>3 DEF SetRoot, SpaceT
  <2>5. Good(n, Put(T, c.q, r), {}) /\ Used(n) /\ n.fail = g.fail
    <3>1. PICK E, j : E = {} /\ j = -1 OBVIOUS
    <3>2. j \in Slot /\ d = Root(T[c.q], j) /\ r = SetRoot(T[c.q], j, None) /\ c.q \in Proc
      <4>1. NbTables - 1 \in Nat BY PagesOfTables
      <4> QED BY <1>5, <2>2, <2>3, <3>1, <4>1 DEF Slot, Root, Case
    <3>3. Good(g, T, E) /\ Used(g) BY <2>2, <3>1
    <3>4. n = FreeFrames(g, d, 1) \/ (n = ReleaseRef(g, d) /\ g.ref[d].count = 1) BY <1>8, <2>2
    <3>5. Good(n, Put(T, c.q, r), E) /\ Used(n) /\ n.fail = g.fail
      BY ONLY <1>5, <3>2, <3>3, <3>4, DropGood
    <3> QED BY <3>1, <3>5
  <2>6. PICK R, E : R = Put(T, c.q, r) /\ E = {} OBVIOUS
  <2>7. Fit(n, R, E) BY <2>2, <2>5, <2>6 DEF Fit
  <2>8. R[c.q] = r /\ Put(R, c.q, NoSpace) = Put(c.S, c.q, NoSpace)
    BY <2>1, <2>6 DEF Put, Case
  <2>9. NoSpace.dir = r.dir /\ NoSpace.table = r.table /\ NoSpace.pte = r.pte
    BY <1>5, <2>4 DEF NoSpace, SpaceT
  <2>10. Fit(n, Put(R, c.q, NoSpace), E)
    <3>1. PICK o : o = NoSpace OBVIOUS
    <3>2. o \in SpaceT /\ o.dir = R[c.q].dir /\ o.table = R[c.q].table /\ o.pte = R[c.q].pte
          /\ c.q \in Proc
      BY <2>8, <2>9, <3>1, NoSpaceIs DEF Case
    <3>3. Fit(n, Put(R, c.q, o), E) BY ONLY <2>7, <3>2, PagesSwap
    <3> QED BY <3>1, <3>3
  <2> QED BY <1>9, <2>6, <2>8, <2>10
<1>10. CASE c.bad # None
  <2>1. PICK bad, z : bad = c.bad /\ z = 0 OBVIOUS
  <2>2. z \in {0, 1} /\ bad \in G /\ Doomed(g, bad, z, s) /\ z = IF d = bad THEN 0 ELSE z
    BY <1>7, <1>10, <2>1 DEF Safe, Case
  <2>3. Doomed(n, bad, z, s) BY ONLY <1>5, <1>8, <2>2, DoomedRelease
  <2>4. bad # None BY <2>2, Frames
  <2>5. n.fail # "none" BY <1>5, <2>3, <2>4 DEF Doomed
  <2> QED BY <1>10, <2>3, <2>5 DEF Doomed, Weak
<1> QED BY <1>9, <1>10

--------------------------------------------------------------------------------
\* The free pages and the stacks of a process are sound.
Sound(sp, T) == PagesOK(sp) /\ StacksOK(sp, T)

\* A process that is gone has no space, one that is not has a directory.
Lives(sp, T, st) ==
    /\ st = "none" => sp = NoSpace /\ T = {}
    /\ st # "none" => sp.dir # None

\* Nothing but the boot process exists until the first frame is taken.
Fresh ==
    /\ Untouched(mem)
    /\ \A p \in Proc : threads[p] = {} /\ (p # Main => status[p] = "none")

\* The states of a process.
Status == {"none", "alive", "dead"}

\* The fields have the values the code gives them.
Shape ==
    /\ mem.fail \in Causes
    /\ threads \in [Proc -> SUBSET StackT]
    /\ status \in [Proc -> Status] /\ status[Main] = "alive"
    /\ parent \in [Proc -> Proc] /\ data \in [Frame -> Value] /\ lastTid \in 0 .. MaxTid

\* The books of the frames and the spaces of the processes are in order.
Books ==
    /\ Good(mem, space, {})
    /\ Used(mem) \/ Fresh
    /\ \A p \in Proc : Sound(space[p], threads[p]) /\ Lives(space[p], threads[p], status[p])
    /\ \A p \in Proc : p # Main => space[p].dir \in G \cup {None}

\* The inductive invariant.
IInv == Shape /\ Books /\ KnownPanics

\* What a panic leaves alone.
rest == <<space, threads, status, parent, data, lastTid>>

\* A process was waited for while it had a table without a reference.
Doom ==
    \E q \in Proc, t \in Table :
        status[q] = "dead" /\ space[q].table[t] # None /\ mem.ref[space[q].table[t]].count = 0

\* A panic for a cause that is known, or that a wrong count explains, keeps the invariant.
LEMMA StoppedKeeps ==
    ASSUME IInv, NEW x, mem' = [mem EXCEPT !.fail = x], UNCHANGED rest,
           x \in {"no_memory", "page_fault"} \/ (x \in {"released_free", "freed_twice"} /\ Doom)
    PROVE  IInv'
<1>1. mem \in MemT /\ Good(mem, space, {}) BY DEF IInv, Books, Good
<1>2. PICK n : n = mem' OBVIOUS
<1>3. n.free = mem.free /\ n.avail = mem.avail /\ n.ref = mem.ref /\ n.fail = x /\ x \in Causes
      /\ n \in MemT
  BY <1>1, <1>2 DEF MemT, Causes
<1>4. Free(n) = Free(mem) BY <1>3 DEF Free
<1>5. ListOK(n) /\ Static(n) BY <1>1, <1>3, <1>4 DEF Good, ListOK, Static
<1>6. Good(n, space, {}) BY <1>1, <1>3, <1>4, <1>5 DEF Good
<1>7. Used(mem) <=> Used(n) BY <1>3, <1>4 DEF Used
<1>8. Untouched(mem) <=> Untouched(n) BY <1>3, <1>4 DEF Untouched
<1>9. /\ mem' = n /\ space' = space /\ threads' = threads /\ status' = status
      /\ parent' = parent /\ data' = data /\ lastTid' = lastTid
  BY <1>2 DEF rest
<1>10. Shape' BY <1>3, <1>9 DEF IInv, Shape
<1>11. Books' BY <1>6, <1>7, <1>8, <1>9 DEF IInv, Books, Fresh
<1>12. KnownPanics'
  <2>1. x \in {"released_free", "freed_twice"} =>
            \E q \in Proc, t \in Table :
                status[q] = "dead" /\ space[q].table[t] # None /\ n.ref[space[q].table[t]].count = 0
    BY <1>3 DEF Doom
  <2>2. x \notin {"no_reference", "remapped", "unmapped"} OBVIOUS
  <2> QED BY <1>3, <1>9, <2>1, <2>2 DEF KnownPanics
<1> QED BY <1>10, <1>11, <1>12 DEF IInv

\* What is left to show of a step that goes on.
LEMMA SettledKeeps ==
    ASSUME Shape', Fit(mem', space', {}),
           \A p \in Proc : Sound(space'[p], threads'[p]) /\ Lives(space'[p], threads'[p], status'[p]),
           \A p \in Proc : p # Main => space'[p].dir \in G \cup {None}
    PROVE  IInv'
<1>1. Books' BY DEF Books, Fit
<1>2. KnownPanics' BY DEF Fit, KnownPanics
<1> QED BY <1>1, <1>2 DEF IInv

--------------------------------------------------------------------------------
\* A round of the sum over the ranges of a list.
AddLength(e, n, r) == n + r.limit - r.base
Anything(e, i, x) == TRUE
Lengths == INSTANCE LoopProofs WITH Step <- AddLength, Keeps <- Anything

\* What one range has available is its length.
LEMMA AvailableOne ==
    ASSUME NEW r \in Rng PROVE Available(<<r>>) = r.limit - r.base
<1>1. PICK q, z : q = <<r>> /\ z = 0 OBVIOUS
<1>2. PICK n : n = 1 OBVIOUS
<1>3. DOMAIN q = 1 .. n /\ n \in Nat /\ q[1] = r BY <1>1, <1>2
<1>4. Available(q) = Lengths!Fold(z, z, q)
  BY <1>1 DEF Available, Lengths!Fold, AddLength, FoldLeft, Lengths!Largest, MapThenFoldSet, Max
<1>0. Lengths!Climbs(n) BY <1>3, Climb DEF Lengths!Climbs
<1>5. PICK v : /\ v[0] = z
               /\ \A i \in 0 .. n - 1 : v[i + 1] = AddLength(z, v[i], q[i + 1])
               /\ Lengths!Fold(z, z, q) = v[n]
  BY ONLY <1>0, <1>3, Lengths!Unroll
<1>6. v[0 + 1] = AddLength(z, v[0], q[0 + 1]) BY <1>2, <1>5
<1>7. v[n] = 0 + r.limit - r.base BY <1>1, <1>2, <1>3, <1>5, <1>6 DEF AddLength
<1> QED BY <1>1, <1>4, <1>5, <1>7 DEF Rng

\* One list with one range.
LEMMA OneRange ==
    ASSUME NEW b \in Int, NEW l \in Int, b < l, NEW k \in Int, NEW q, q = << Range3(b, l, k) >>
    PROVE  /\ Apart(q) /\ Ordered(q) /\ Len(q) = 1 /\ q \in Seq(Rng)
           /\ FreeCells(q) = b .. l - 1
<1>1. PICK r : r = Range3(b, l, k) OBVIOUS
<1>2. r \in Rng /\ r.base = b /\ r.limit = l BY <1>1 DEF Range3, Rng
<1>3. /\ Apart(q) /\ Ordered(q) /\ Len(q) = 1
      /\ \A x : x \in FreeCells(q) <=> x \in Int /\ Holds(r, x)
  <2>1. q = <<r>> /\ r.base < r.limit BY <1>1, <1>2
  <2> QED BY <1>2, <2>1, SingleApart
<1>4. FreeCells(q) = b .. l - 1
  <2>1. \A x : x \in FreeCells(q) <=> x \in Int /\ b <= x /\ x < l BY <1>2, <1>3 DEF Holds
  <2>2. \A x : x \in b .. l - 1 <=> x \in Int /\ b <= x /\ x < l OBVIOUS
  <2>3. \A x : x \in FreeCells(q) <=> x \in b .. l - 1 BY ONLY <2>1, <2>2
  <2> QED BY ONLY <2>3
<1> QED BY <1>3, <1>4 DEF Apart

\* The memory when the start-up of the manager is done.
LEMMA BootMemory ==
    ASSUME Init
    PROVE  /\ mem \in MemT /\ mem.fail = "none" /\ ListOK(mem) /\ Static(mem) /\ Untouched(mem)
           /\ \A f \in G : mem.ref[f].count = Extra(f) /\ f \in Free(mem)
<1>1. PICK limit \in KernelEnd + 1 .. FrameLimit :
          /\ MemStart < KernelEnd
          /\ DetectMemory(MemMap) = <<Range3(MemStart, limit, MemStart)>>
          /\ \A f \in MemStart + 1 .. FrameLimit - 1 :
                  InitFrameRefs(MemMap)[f].there <=> f < limit
  BY MemMapAssumption
<1>2. /\ MemStart \in Int /\ KernelEnd \in Int /\ FrameLimit \in Int /\ limit \in Int
      /\ MemStart < KernelEnd /\ KernelEnd < limit /\ limit <= FrameLimit /\ 0 <= MemStart
  BY <1>1, MemoryAssumption DEF Frame
<1>3. PICK r, d : r = Range3(MemStart, limit, MemStart) /\ d = <<r>> OBVIOUS
<1>4. d = DetectMemory(MemMap) BY <1>1, <1>3
<1>5. mem = [free  |-> SetupMemTable(d), avail |-> Available(d) - (KernelEnd - MemStart),
             ref   |-> InitFrameRefs(MemMap), fail  |-> "none"]
  BY <1>4 DEF Init
<1>6. SetupMemTable(d) = << Range3(KernelEnd, limit, MemStart) >>
  <2>1. DOMAIN d = 1 .. 1 /\ d[1] = r BY <1>3
  <2>2. [r EXCEPT !.base = KernelEnd] = Range3(KernelEnd, limit, MemStart)
    BY <1>3 DEF Range3
  <2>3. SetupMemTable(d) = [d EXCEPT ![1] = Range3(KernelEnd, limit, MemStart)]
    BY <2>1, <2>2 DEF SetupMemTable
  <2> QED BY <1>3, <2>3
<1>7. PICK q : q = << Range3(KernelEnd, limit, MemStart) >> OBVIOUS
<1>8. /\ Apart(q) /\ Ordered(q) /\ Len(q) = 1 /\ q \in Seq(Rng)
      /\ FreeCells(q) = KernelEnd .. limit - 1
  BY <1>2, <1>7, OneRange
<1>9. Available(d) = limit - MemStart
  <2>1. r \in Rng /\ r.base = MemStart /\ r.limit = limit BY <1>2, <1>3 DEF Range3, Rng
  <2> QED BY <1>3, <2>1, AvailableOne
<1>10. PICK ref : ref = InitFrameRefs(MemMap) OBVIOUS
<1>11. /\ mem.free = q /\ mem.avail = limit - KernelEnd /\ mem.ref = ref /\ mem.fail = "none"
       /\ DOMAIN mem = {"free", "avail", "ref", "fail"}
  <2>1. limit - MemStart - (KernelEnd - MemStart) = limit - KernelEnd BY <1>2
  <2> QED BY <1>5, <1>6, <1>7, <1>9, <1>10, <2>1
<1>12. ref \in [Frame -> RefT]
       /\ \A f \in Frame : ref[f].there => /\ (ref[f].hw <=> f <= MemStart)
                                           /\ ref[f].count = IF MemStart < f /\ f < KernelEnd + 1 THEN 1 ELSE 0
  <2>1. PICK managed : ref = [f \in Frame |->
            IF f \notin managed THEN Absent
            ELSE [there |-> TRUE, hw |-> f <= MemStart,
                  count |-> IF MemStart < f /\ f < KernelEnd + 1 THEN 1 ELSE 0]]
    BY <1>10 DEF InitFrameRefs
  <2>2. Absent \in RefT /\ ~Absent.there BY DEF Absent, RefT
  <2>3. ASSUME NEW f \in Frame
        PROVE  /\ ref[f] \in RefT
               /\ ref[f].there => /\ (ref[f].hw <=> f <= MemStart)
                                  /\ ref[f].count = IF MemStart < f /\ f < KernelEnd + 1 THEN 1 ELSE 0
    <3>1. CASE f \notin managed
      <4>1. ref[f] = Absent BY <2>1, <3>1
      <4> QED BY <2>2, <4>1
    <3>2. CASE f \in managed
      <4>1. PICK c : c = IF MemStart < f /\ f < KernelEnd + 1 THEN 1 ELSE 0 OBVIOUS
      <4>2. c \in Nat BY <4>1
      <4>3. ref[f] = [there |-> TRUE, hw |-> f <= MemStart, count |-> c] BY <2>1, <3>2, <4>1
      <4>4. (f <= MemStart) \in BOOLEAN OBVIOUS
      <4>5. ref[f] \in RefT BY <4>2, <4>3, <4>4 DEF RefT
      <4>6. ref[f].hw <=> f <= MemStart
        <5>1. \A b : ref[f] = [there |-> TRUE, hw |-> b, count |-> c] => ref[f].hw = b OBVIOUS
        <5>2. ref[f].hw = (f <= MemStart) BY <4>3, <5>1, Zenon
        <5> QED BY <4>4, <5>2, Zenon
      <4>7. ref[f].count = c BY <4>3
      <4> QED BY <4>1, <4>5, <4>6, <4>7
    <3> QED BY <3>1, <3>2
  <2>4. ref \in [Frame -> RefT] BY <2>1, <2>3
  <2> QED BY <2>3, <2>4
<1>13. \A f \in Frame : KernelEnd <= f => f \in Int /\ MemStart < f /\ (ref[f].there <=> f < limit)
  <2>1. \A f \in Frame : KernelEnd <= f => f \in MemStart + 1 .. FrameLimit - 1 BY <1>2 DEF Frame
  <2> QED BY <1>1, <1>2, <1>10, <2>1
<1>14. G = KernelEnd .. limit - 1
  <2>1. \A f \in KernelEnd .. limit - 1 : f \in Frame BY <1>2 DEF Frame
  <2>2. \A f : f \in G <=> f \in Frame /\ KernelEnd <= f /\ ref[f].there BY <1>10 DEF G
  <2>3. ASSUME NEW f \in G PROVE f \in KernelEnd .. limit - 1
    <3>1. f \in Int /\ KernelEnd <= f /\ f < limit BY <1>13, <2>2, <2>3
    <3> QED BY <1>2, <3>1
  <2>4. ASSUME NEW f \in KernelEnd .. limit - 1 PROVE f \in G
    <3>1. f \in Frame /\ KernelEnd <= f /\ f < limit BY <1>2, <2>1
    <3> QED BY <1>13, <2>2, <3>1
  <2> QED BY <2>3, <2>4
<1>15. mem \in MemT
  <2>1. mem.avail \in Int /\ mem.fail \in Causes BY <1>2, <1>11 DEF Causes
  <2>2. mem = [free |-> q, avail |-> mem.avail, ref |-> ref, fail |-> mem.fail]
    BY <1>5, <1>6, <1>7, <1>10
  <2> QED BY <1>8, <1>12, <2>1, <2>2 DEF MemT
<1>16. Free(mem) = G /\ KernelEnd \in G BY <1>2, <1>8, <1>11, <1>14 DEF Free
<1>17. ListOK(mem)
  <2>1. Cardinality(KernelEnd .. limit - 1) = limit - KernelEnd
    <3>1. PICK a, b : a = KernelEnd /\ b = limit - 1 OBVIOUS
    <3>2. a \in Int /\ b \in Int /\ a <= b BY <1>2, <3>1
    <3>3. Cardinality(a .. b) = b - a + 1 BY <3>2, FS_Interval
    <3> QED BY <1>2, <3>1, <3>3
  <2> QED BY <1>8, <1>11, <1>14, <1>16, <2>1 DEF ListOK
<1>18. Static(mem)
  <2>1. ASSUME NEW f \in Frame, KernelEnd <= f
        PROVE  (mem.ref[f].there /\ ~mem.ref[f].hw) <=> f \in G
    <3>1. f \in Int /\ MemStart < f /\ (ref[f].there <=> f < limit) BY <1>13, <2>1
    <3>2. ref[f].there => ~ref[f].hw
      <4>1. ~(f <= MemStart) BY <1>2, <3>1
      <4> QED BY <1>12, <4>1
    <3> QED BY <1>2, <1>11, <1>14, <2>1, <3>1, <3>2
  <2> QED BY <2>1 DEF Static
<1>19. Untouched(mem) BY <1>8, <1>11, <1>16 DEF Untouched
<1>20. ASSUME NEW f \in G PROVE mem.ref[f].count = Extra(f)
  <2>1. f \in Frame /\ f \in Int /\ KernelEnd <= f /\ MemStart < f /\ ref[f].there
    BY <1>2, <1>13, <1>14, Frames
  <2>2. ref[f].count = IF MemStart < f /\ f < KernelEnd + 1 THEN 1 ELSE 0 BY <1>12, <2>1
  <2>3. f < KernelEnd + 1 <=> f = KernelEnd BY <1>2, <2>1
  <2> QED BY <1>11, <2>1, <2>2, <2>3 DEF Extra
<1> QED BY <1>11, <1>15, <1>16, <1>17, <1>18, <1>19, <1>20

\* A process that does not exist is sound.
LEMMA NoSpaceSound == Sound(NoSpace, {})
<1>1. PICK q : q = << >> OBVIOUS
<1>2. q \in Seq(Rng) /\ DOMAIN q = {} BY <1>1
<1>3. FreeCells(q) = {} BY <1>2 DEF FreeCells
<1>4. Apart(q)
  <2>1. \A r : ~Contains(q, r) BY <1>1, <1>2 DEF Contains
  <2>2. IsInjective(q) BY <1>2 DEF IsInjective
  <2> QED BY <1>2, <2>1, <2>2 DEF Apart
<1>5. NoSpace.pages = q /\ \A a \in Page : NoSpace.pte[a] = None BY <1>1, NoSpaceIs
<1>6. PagesOK(NoSpace) BY <1>3, <1>4, <1>5 DEF PagesOK, Tabled, FreeOf
<1>7. StacksOK(NoSpace, {}) BY FS_EmptySet DEF StacksOK
<1> QED BY <1>6, <1>7 DEF Sound

\* The memory after the boot satisfies the invariant.
LEMMA InitIInv == Init => IInv
<1> SUFFICES ASSUME Init PROVE IInv OBVIOUS
<1>1. /\ mem \in MemT /\ mem.fail = "none" /\ ListOK(mem) /\ Static(mem) /\ Untouched(mem)
      /\ \A f \in G : mem.ref[f].count = Extra(f) /\ f \in Free(mem)
  BY BootMemory
<1>2. PICK k, m : k = KernelEnd - 1 /\ m = [NoSpace EXCEPT !.dir = k, !.pages = CreateFreePageTable]
  OBVIOUS
<1>3. space = [p \in Proc |-> IF p = Main THEN m ELSE NoSpace] /\ Main \in Proc
  BY <1>2, MemoryAssumption DEF Init
<1>4. CreateFreePageTable \in Seq(Rng) /\ Apart(CreateFreePageTable)
      /\ FreeCells(CreateFreePageTable) = Page
  <2>1. PICK n, q, z : n = NbTables * TableSize /\ q = << Range3(z, n, z) >> /\ z = 0 OBVIOUS
  <2>2. z \in Int /\ n \in Int /\ z < n BY <2>1, MemoryAssumption
  <2>3. Apart(q) /\ q \in Seq(Rng) /\ FreeCells(q) = z .. n - 1 BY <2>1, <2>2, OneRange
  <2> QED BY <2>1, <2>3 DEF CreateFreePageTable, Page
<1>5. m \in SpaceT /\ m.dir = k /\ m.pages = CreateFreePageTable /\ m.table = NoSpace.table
      /\ m.pte = NoSpace.pte /\ k \in Frame /\ k \notin G
  <2>1. k \in Frame /\ k \notin G
    <3>1. MemStart \in Int /\ KernelEnd \in Int /\ MemStart < KernelEnd /\ 0 <= MemStart
          /\ FrameLimit \in Int /\ KernelEnd < FrameLimit
      BY MemoryAssumption, MemMapAssumption DEF Frame
    <3> QED BY <1>2, <3>1, Frames DEF Frame
  <2> QED BY <1>2, <1>4, <2>1, NoSpaceIs DEF SpaceT
<1>6. space \in [Proc -> SpaceT] BY <1>3, <1>5, NoSpaceIs
<1>7. \A p \in Proc : /\ \A b \in Page : space[p].pte[b] = None /\ At(space[p], b) = None
                      /\ \A j \in Slot : Root(space[p], j) \notin G
  <2>1. \A b \in Page : m.pte[b] = None /\ At(m, b) = None BY <1>5, NoSpaceIs DEF At
  <2>2. \A j \in Slot : Root(m, j) \notin G
    <3>1. \A j \in Slot : j # -1 => Root(m, j) = Root(NoSpace, j) BY <1>5 DEF Root
    <3>2. Root(m, -1) = k BY <1>5 DEF Root
    <3> QED BY <1>5, <3>1, <3>2, NoSpaceIs, Frames
  <2> QED BY <1>3, <2>1, <2>2, NoSpaceIs, Frames
<1>8. Good(mem, space, {})
  <2>1. ASSUME NEW f \in G
        PROVE  State(f, mem.ref[f].count, Count(space, f), KeptBy(space, f), f \in Free(mem) \/ f \in {})
    <3>1. MapsOf(space, f) = {}
      <4>1. f # None BY Frames
      <4> QED BY <1>7, <4>1 DEF MapsOf
    <3>2. Count(space, f) = 0 BY <3>1, FS_EmptySet DEF Count
    <3>3. KeptBy(space, f) = {} BY <1>7 DEF KeptBy
    <3>4. mem.ref[f].count = Extra(f) /\ f \in Free(mem) BY <1>1
    <3>5. mem.ref[f].count = 0 + Extra(f) BY <3>4 DEF Extra
    <3> QED BY <3>2, <3>3, <3>4, <3>5 DEF State
  <2> QED BY <1>1, <1>6, <2>1 DEF Good
<1>9. \A p \in Proc : threads[p] = {} /\ status[p] = IF p = Main THEN "alive" ELSE "none"
  BY DEF Init
<1>10. Fresh BY <1>1, <1>9 DEF Fresh
<1>11. ASSUME NEW p \in Proc PROVE Sound(space[p], threads[p])
  <2>1. CASE p # Main BY <1>3, <1>9, <2>1, NoSpaceSound
  <2>2. CASE p = Main
    <3>1. StacksOK(space[p], {}) BY FS_EmptySet DEF StacksOK
    <3>2. Tabled(space[p]) BY <1>7 DEF Tabled
    <3>3. Apart(space[p].pages) /\ FreeOf(space[p]) = Page BY <1>3, <1>4, <1>5, <2>2 DEF FreeOf
    <3>4. PagesOK(space[p]) BY <1>7, <3>2, <3>3 DEF PagesOK
    <3> QED BY <1>9, <3>1, <3>4 DEF Sound
  <2> QED BY <2>1, <2>2
<1>12. \A p \in Proc : Lives(space[p], threads[p], status[p])
  BY <1>3, <1>5, <1>9, Frames DEF Lives
<1>13. \A p \in Proc : p # Main => space[p].dir \in G \cup {None} BY <1>3, NoSpaceIs
<1>14. Books BY <1>8, <1>10, <1>11, <1>12, <1>13 DEF Books
<1>15. Shape
  <2>1. mem.fail \in Causes BY <1>1 DEF Causes
  <2>2. /\ threads \in [Proc -> SUBSET StackT] /\ status \in [Proc -> Status]
        /\ parent \in [Proc -> Proc] /\ data \in [Frame -> Value]
        /\ lastTid \in 0 .. MaxTid
    BY <1>3, MemoryAssumption DEF Init, Status
  <2> QED BY <1>3, <1>9, <2>1, <2>2 DEF Shape
<1>16. KnownPanics BY <1>1 DEF KnownPanics
<1> QED BY <1>14, <1>15, <1>16 DEF IInv

--------------------------------------------------------------------------------
\* A step that changes the space and the stacks of one process.
LEMMA OneChanged ==
    ASSUME IInv, Shape', NEW p \in Proc, status[p] = "alive", NEW sp,
           Fit(mem', Put(space, p, sp), {}), space' = Put(space, p, sp),
           sp.dir = space[p].dir, NEW T, Sound(sp, T), threads'[p] = T,
           \A q \in Proc : q # p => threads'[q] = threads[q], status' = status
    PROVE  IInv'
<1>1. space \in [Proc -> SpaceT] BY DEF IInv, Books, Good
<1>2. space'[p] = sp /\ \A q \in Proc : q # p => space'[q] = space[q] BY <1>1, PutFacts
<1>3. \A q \in Proc : Sound(space'[q], threads'[q]) BY <1>2 DEF IInv, Books
<1>4. \A q \in Proc : Lives(space'[q], threads'[q], status'[q])
  <2>1. Lives(space'[p], threads'[p], status'[p]) BY <1>2 DEF IInv, Books, Lives
  <2> QED BY <1>2, <2>1 DEF IInv, Books
<1>5. \A q \in Proc : q # Main => space'[q].dir \in G \cup {None} BY <1>2 DEF IInv, Books
<1>6. Fit(mem', space', {}) OBVIOUS
<1> QED BY <1>3, <1>4, <1>5, <1>6, SettledKeeps

\* What the three allocations share: the pages are placed, or the memory is out.
LEMMA Allocated ==
    ASSUME IInv, Running, NEW p \in Proc, NEW n, n \in Nat \ {0}, NEW start, NEW mode \in Mode,
           NEW w, w = AllocMapped(World(p), n, start, mode),
           NEW a, a = PageAddress(World(p), n, start)
    PROVE  \/ Stuck(w.mem, "no_memory")
           \/ /\ w.mem.fail = "none" /\ Fit(w.mem, Put(space, p, w.sp), {})
              /\ Placed(space[p], w.sp, a, n, mode)
<1>1. PICK x, S, m : x = World(p) /\ S = space /\ m = mem OBVIOUS
<1>2. DOMAIN x = {"mem", "sp"} /\ x.sp = S[p] /\ x.mem = m BY <1>1 DEF World
<1>3. Good(m, S, {}) /\ (Used(m) \/ Untouched(m)) /\ m.fail = "none" /\ PagesOK(S[p])
  BY <1>1 DEF IInv, Books, Fresh, Running, Sound
<1>4. \/ Stuck(w.mem, "no_memory")
      \/ Fit(w.mem, Put(S, p, w.sp), {}) /\ Placed(S[p], w.sp, a, n, mode)
  <2>1. PICK E : E = {} OBVIOUS
  <2>2. Good(x.mem, S, {}) /\ (Used(x.mem) \/ Untouched(x.mem)) /\ x.mem.fail = "none"
    BY <1>2, <1>3
  <2>3. w = AllocMapped(x, n, start, mode) /\ a = PageAddress(x, n, start) BY <1>1
  <2> QED BY ONLY p \in Proc, n \in Nat \ {0}, mode \in Mode, <1>2, <1>3, <2>2, <2>3, AllocMappedGood
<1> QED BY <1>1, <1>4 DEF Fit

\* kernel_palloc keeps the invariant.
LEMMA AllocPageKeeps ==
    ASSUME IInv, NEW p \in Proc, NEW n \in Requests, AllocPage(p, n) PROVE IInv'
<1>1. PICK w : w = AllocMapped(World(p), n, "BEGINING", "regular") OBVIOUS
<1>2. PICK a : a = PageAddress(World(p), n, "BEGINING") OBVIOUS
<1>3. /\ Running /\ status[p] = "alive"
      /\ Commit(w.mem, /\ space' = [space EXCEPT ![p] = w.sp]
                       /\ UNCHANGED <<threads, status, parent, data, lastTid>>)
  BY <1>1 DEF AllocPage, Runs
<1>4. \/ Stuck(w.mem, "no_memory")
      \/ /\ w.mem.fail = "none" /\ Fit(w.mem, Put(space, p, w.sp), {})
         /\ Placed(space[p], w.sp, a, n, "regular")
  <2>1. n \in Nat \ {0} /\ "regular" \in Mode BY MemoryAssumption DEF Mode
  <2> QED BY <1>1, <1>2, <1>3, <2>1, Allocated
<1>5. CASE w.mem.fail # "none"
  <2>1. mem' = [mem EXCEPT !.fail = w.mem.fail] /\ UNCHANGED rest BY <1>3, <1>5 DEF Commit, rest
  <2>2. w.mem.fail = "no_memory" BY <1>4, <1>5 DEF Stuck
  <2> QED BY <2>1, <2>2, StoppedKeeps
<1>6. CASE w.mem.fail = "none"
  <2>1. /\ mem' = w.mem /\ space' = Put(space, p, w.sp) /\ threads' = threads /\ status' = status
        /\ parent' = parent /\ data' = data /\ lastTid' = lastTid
    BY <1>3, <1>6 DEF Commit, Put
  <2>2. Fit(w.mem, Put(space, p, w.sp), {}) /\ Placed(space[p], w.sp, a, n, "regular")
    BY <1>4, <1>6 DEF Stuck
  <2>3. Sound(w.sp, threads[p]) /\ w.sp.dir = space[p].dir
    <3>1. StacksOK(space[p], threads[p]) BY DEF IInv, Books, Sound
    <3>2. StacksOK(w.sp, threads[p]) BY <2>2, <3>1, PlacedKeeps
    <3> QED BY <2>2, <3>2 DEF Placed, Sound
  <2>4. Shape' BY <1>6, <2>1 DEF IInv, Shape, Causes
  <2> QED BY <1>3, <2>1, <2>2, <2>3, <2>4, OneChanged
<1> QED BY <1>5, <1>6

\* Allocating a kernel stack keeps the invariant.
LEMMA AllocKStackKeeps ==
    ASSUME IInv, NEW p \in Proc, AllocKStack(p) PROVE IInv'
<1>1. PICK w : w = AllocMapped(World(p), KStackPages, "END", "private") OBVIOUS
<1>2. PICK a : a = PageAddress(World(p), KStackPages, "END") OBVIOUS
<1>3. PICK t : t = [kstack |-> a, stack |-> None] OBVIOUS
<1>4. /\ Running /\ status[p] = "alive" /\ lastTid < MaxTid
      /\ Commit(w.mem, /\ space' = [space EXCEPT ![p] = w.sp]
                       /\ threads' = [threads EXCEPT ![p] = @ \cup {t}]
                       /\ lastTid' = lastTid + 1
                       /\ UNCHANGED <<status, parent, data>>)
  BY <1>1, <1>2, <1>3 DEF AllocKStack
<1>5. \/ Stuck(w.mem, "no_memory")
      \/ /\ w.mem.fail = "none" /\ Fit(w.mem, Put(space, p, w.sp), {})
         /\ Placed(space[p], w.sp, a, KStackPages, "private")
  <2>1. KStackPages \in Nat \ {0} /\ "private" \in Mode BY StackSizes DEF Mode
  <2> QED BY <1>1, <1>2, <1>4, <2>1, Allocated
<1>6. CASE w.mem.fail # "none"
  <2>1. mem' = [mem EXCEPT !.fail = w.mem.fail] /\ UNCHANGED rest BY <1>4, <1>6 DEF Commit, rest
  <2>2. w.mem.fail = "no_memory" BY <1>5, <1>6 DEF Stuck
  <2> QED BY <2>1, <2>2, StoppedKeeps
<1>7. CASE w.mem.fail = "none"
  <2>1. /\ mem' = w.mem /\ space' = Put(space, p, w.sp) /\ status' = status
        /\ threads' = [threads EXCEPT ![p] = threads[p] \cup {t}]
        /\ parent' = parent /\ data' = data /\ lastTid' = lastTid + 1
    BY <1>4, <1>7 DEF Commit, Put, IInv, Shape
  <2>2. Fit(w.mem, Put(space, p, w.sp), {}) /\ Placed(space[p], w.sp, a, KStackPages, "private")
    BY <1>5, <1>7 DEF Stuck
  <2>3. Sound(w.sp, threads[p] \cup {t}) /\ w.sp.dir = space[p].dir
    <3>1. StacksOK(space[p], threads[p]) BY DEF IInv, Books, Sound
    <3>2. StacksOK(w.sp, threads[p] \cup {t}) BY <1>3, <2>2, <3>1, KStackPlaced
    <3> QED BY <2>2, <3>2 DEF Placed, Sound
  <2>4. /\ threads'[p] = threads[p] \cup {t} /\ \A q \in Proc : q # p => threads'[q] = threads[q]
        /\ threads' \in [Proc -> SUBSET StackT]
    BY <2>1, <2>3 DEF IInv, Shape, Sound, StacksOK
  <2>5. lastTid + 1 \in 0 .. MaxTid BY <1>4, MemoryAssumption DEF IInv, Shape
  <2>6. Shape' BY <1>7, <2>1, <2>4, <2>5 DEF IInv, Shape, Causes
  <2> QED BY <1>4, <2>1, <2>2, <2>3, <2>4, <2>6, OneChanged
<1> QED BY <1>6, <1>7

\* Allocating a stack keeps the invariant.
LEMMA AllocStackKeeps ==
    ASSUME IInv, NEW p \in Proc, NEW t \in threads[p], AllocStack(p, t) PROVE IInv'
<1>1. PICK w : w = AllocMapped(World(p), StackPages, "END", "regular") OBVIOUS
<1>2. PICK a : a = PageAddress(World(p), StackPages, "END") OBVIOUS
<1>3. PICK u : u = [t EXCEPT !.stack = a] OBVIOUS
<1>4. /\ Running /\ status[p] = "alive" /\ t.stack = None
      /\ Commit(w.mem, /\ space' = [space EXCEPT ![p] = w.sp]
                       /\ threads' = [threads EXCEPT ![p] = (@ \ {t}) \cup {u}]
                       /\ UNCHANGED <<status, parent, data, lastTid>>)
  BY <1>1, <1>2, <1>3 DEF AllocStack
<1>5. \/ Stuck(w.mem, "no_memory")
      \/ /\ w.mem.fail = "none" /\ Fit(w.mem, Put(space, p, w.sp), {})
         /\ Placed(space[p], w.sp, a, StackPages, "regular")
  <2>1. StackPages \in Nat \ {0} /\ "regular" \in Mode BY StackSizes DEF Mode
  <2> QED BY <1>1, <1>2, <1>4, <2>1, Allocated
<1>6. CASE w.mem.fail # "none"
  <2>1. mem' = [mem EXCEPT !.fail = w.mem.fail] /\ UNCHANGED rest BY <1>4, <1>6 DEF Commit, rest
  <2>2. w.mem.fail = "no_memory" BY <1>5, <1>6 DEF Stuck
  <2> QED BY <2>1, <2>2, StoppedKeeps
<1>7. CASE w.mem.fail = "none"
  <2>1. PICK T : T = (threads[p] \ {t}) \cup {u} OBVIOUS
  <2>2. /\ mem' = w.mem /\ space' = Put(space, p, w.sp) /\ status' = status
        /\ threads' = [threads EXCEPT ![p] = T]
        /\ parent' = parent /\ data' = data /\ lastTid' = lastTid
    BY <1>4, <1>7, <2>1 DEF Commit, Put, IInv, Shape
  <2>3. Fit(w.mem, Put(space, p, w.sp), {}) /\ Placed(space[p], w.sp, a, StackPages, "regular")
    BY <1>5, <1>7 DEF Stuck
  <2>4. Sound(w.sp, T) /\ w.sp.dir = space[p].dir
    <3>1. StacksOK(space[p], threads[p]) BY DEF IInv, Books, Sound
    <3>2. StacksOK(w.sp, T) BY <1>3, <1>4, <2>1, <2>3, <3>1, StackPlaced
    <3> QED BY <2>3, <3>2 DEF Placed, Sound
  <2>5. /\ threads'[p] = T /\ \A q \in Proc : q # p => threads'[q] = threads[q]
        /\ threads' \in [Proc -> SUBSET StackT]
    BY <2>2, <2>4 DEF IInv, Shape, Sound, StacksOK
  <2>6. Shape' BY <1>7, <2>2, <2>5 DEF IInv, Shape, Causes
  <2> QED BY <1>4, <2>2, <2>3, <2>4, <2>5, <2>6, OneChanged
<1> QED BY <1>6, <1>7

--------------------------------------------------------------------------------
\* Some process has a thread: the first frame is taken.
LEMMA Busy ==
    ASSUME IInv, Running, NEW p \in Proc, threads[p] # {} \/ (status[p] # "none" /\ p # Main)
    PROVE  Fit(mem, space, {})
BY DEF IInv, Books, Fresh, Fit, Running

\* What frames hold stays typed when free frames are forgotten.
LEMMA ForgetType == ASSUME data \in [Frame -> Value], NEW m PROVE Forget(m, data) \in [Frame -> Value]
BY MemoryAssumption DEF Forget

\* Freeing the stacks of a thread keeps the invariant.
LEMMA FreeStacksKeeps ==
    ASSUME IInv, NEW p \in Proc, NEW t \in threads[p], FreeStacks(p, t) PROVE IInv'
<1>1. PICK x, S : x = World(p) /\ S = space OBVIOUS
<1>2. PICK v : v = FreePages(UnmapPages(x, t.stack, StackPages), t.stack, StackPages) OBVIOUS
<1>3. PICK w : w = FreePages(UnmapPages(v, t.kstack, KStackPages), t.kstack, KStackPages) OBVIOUS
<1>4. /\ Running /\ status[p] = "alive" /\ t.stack # None
      /\ Commit(w.mem, /\ space' = [space EXCEPT ![p] = w.sp]
                       /\ threads' = [threads EXCEPT ![p] = @ \ {t}]
                       /\ data' = Forget(w.mem, data)
                       /\ UNCHANGED <<status, parent, lastTid>>)
  BY <1>1, <1>2, <1>3 DEF FreeStacks
<1>5. DOMAIN x = {"mem", "sp"} /\ x.mem = mem /\ x.sp = S[p] BY <1>1 DEF World
<1>6. Sound(S[p], threads[p]) /\ S \in [Proc -> SpaceT] BY <1>1 DEF IInv, Books, Good
<1>7. PICK E : E = {} OBVIOUS
<1>8. Fit(x.mem, Put(S, p, x.sp), E)
  <2>1. Fit(mem, space, {}) BY <1>4, Busy
  <2>2. Put(S, p, S[p]) = S BY <1>6, PutFacts
  <2> QED BY <1>1, <1>5, <1>7, <2>1, <2>2
<1>9. PICK T : T = threads[p] OBVIOUS
<1>10. /\ DOMAIN w = {"mem", "sp"} /\ Fit(w.mem, Put(S, p, w.sp), E) /\ PagesOK(w.sp)
       /\ StacksOK(w.sp, T \ {t}) /\ w.sp.dir = x.sp.dir
  <2>1. PagesOK(x.sp) /\ StacksOK(x.sp, T) /\ t \in T BY <1>5, <1>6, <1>9 DEF Sound
  <2>2. Fit(x.mem, Put(S, p, x.sp), {}) BY <1>7, <1>8
  <2>3. /\ DOMAIN w = {"mem", "sp"} /\ Fit(w.mem, Put(S, p, w.sp), {}) /\ PagesOK(w.sp)
        /\ StacksOK(w.sp, T \ {t}) /\ w.sp.dir = x.sp.dir
    <3>1. S \in [Proc -> SpaceT] BY <1>6
    <3>2. DOMAIN x = {"mem", "sp"} BY <1>5
    <3>3. PagesOK(x.sp) BY <2>1
    <3>4. StacksOK(x.sp, T) BY <2>1
    <3>5. t \in T BY <2>1
    <3>6. t.stack # None BY <1>4
    <3> QED BY ONLY p \in Proc, <1>2, <1>3, <2>2, <3>1, <3>2, <3>3, <3>4, <3>5, <3>6,
                    FreeStacksGood, SMTT(60)
  <2> QED BY <1>7, <2>3
<1>11. w.mem.fail = "none" BY <1>10 DEF Fit
<1>12. PICK U : U = T \ {t} OBVIOUS
<1>13. /\ mem' = w.mem /\ space' = Put(space, p, w.sp) /\ status' = status
       /\ threads' = [threads EXCEPT ![p] = U]
       /\ parent' = parent /\ data' = Forget(w.mem, data) /\ lastTid' = lastTid
  BY <1>4, <1>9, <1>11, <1>12 DEF Commit, Put
<1>14. Sound(w.sp, U) BY <1>10, <1>12 DEF Sound
<1>15. /\ threads'[p] = U /\ \A q \in Proc : q # p => threads'[q] = threads[q]
       /\ threads' \in [Proc -> SUBSET StackT]
  BY <1>13, <1>14 DEF IInv, Shape, Sound, StacksOK
<1>16. Shape'
  <2>1. data' \in [Frame -> Value] BY <1>13, ForgetType DEF IInv, Shape
  <2> QED BY <1>11, <1>13, <1>15, <2>1 DEF IInv, Shape, Causes
<1>17. Fit(mem', Put(space, p, w.sp), {}) /\ w.sp.dir = space[p].dir
  BY <1>1, <1>5, <1>7, <1>10, <1>13
<1> QED BY <1>4, <1>13, <1>14, <1>15, <1>16, <1>17, OneChanged

\* fork keeps the invariant.
LEMMA ForkKeeps ==
    ASSUME IInv, NEW p \in Proc, NEW q \in Proc, NEW t \in threads[p], Fork(p, q, t) PROVE IInv'
<1>1. PICK w : w = CopySelfMapping(p, t) OBVIOUS
<1>2. /\ Running /\ status[p] = "alive" /\ status[q] = "none" /\ lastTid < MaxTid
      /\ Commit(w.mem, /\ space' = [space EXCEPT ![p] = w.sp, ![q] = w.child]
                       /\ threads' = [threads EXCEPT ![q] = {t}]
                       /\ status' = [status EXCEPT ![q] = "alive"]
                       /\ parent' = [parent EXCEPT ![q] = p]
                       /\ data' = w.data
                       /\ lastTid' = lastTid + 1)
  BY <1>1 DEF Fork
<1>3. p # q /\ q # Main BY <1>2 DEF IInv, Shape
<1>4. Fit(mem, space, {}) /\ space \in [Proc -> SpaceT] BY <1>2, Busy DEF Fit, Good
<1>5. space[q] = NoSpace /\ Sound(space[p], threads[p]) BY <1>2 DEF IInv, Books, Lives
<1>6. PICK T : T = threads[p] OBVIOUS
<1>7. Stuck(w.mem, "no_memory") \/ Forked(space, p, q, T, t, w)
  <2>1. data \in [Frame -> Value] BY DEF IInv, Shape
  <2>2. PagesOK(space[p]) /\ StacksOK(space[p], T) /\ t \in T BY <1>5, <1>6 DEF Sound
  <2> QED BY ONLY p \in Proc, q \in Proc, <1>1, <1>3, <1>4, <1>5, <2>1, <2>2, ForkGood
<1>8. CASE w.mem.fail # "none"
  <2>1. mem' = [mem EXCEPT !.fail = w.mem.fail] /\ UNCHANGED rest BY <1>2, <1>8 DEF Commit, rest
  <2>2. w.mem.fail = "no_memory" BY <1>7, <1>8 DEF Stuck, Forked, Fit
  <2> QED BY <2>1, <2>2, StoppedKeeps
<1>9. CASE w.mem.fail = "none"
  <2>1. Forked(space, p, q, T, t, w) BY <1>7, <1>9 DEF Stuck
  <2>2. /\ mem' = w.mem /\ threads' = [threads EXCEPT ![q] = {t}]
        /\ space' = [space EXCEPT ![p] = w.sp, ![q] = w.child]
        /\ status' = [status EXCEPT ![q] = "alive"] /\ parent' = [parent EXCEPT ![q] = p]
        /\ data' = w.data /\ lastTid' = lastTid + 1
    BY <1>2, <1>9 DEF Commit
  <2>3. space' = Two(space, p, q, w.sp, w.child) BY <2>2 DEF Two, Put
  <2>4. space'[p] = w.sp /\ space'[q] = w.child
        /\ \A r \in Proc : r # p /\ r # q => space'[r] = space[r]
    BY <1>3, <1>4, <2>2
  <2>5. /\ threads'[q] = {t} /\ \A r \in Proc : r # q => threads'[r] = threads[r]
        /\ threads' \in [Proc -> SUBSET StackT]
    BY <2>2 DEF IInv, Shape
  <2>6. status'[q] = "alive" /\ (\A r \in Proc : r # q => status'[r] = status[r])
        /\ status' \in [Proc -> Status]
    BY <2>2 DEF IInv, Shape, Status
  <2>7. Shape'
    <3>1. lastTid + 1 \in 0 .. MaxTid BY <1>2, MemoryAssumption DEF IInv, Shape
    <3>2. parent' \in [Proc -> Proc] BY <2>2 DEF IInv, Shape
    <3>3. data' \in [Frame -> Value] BY <2>1, <2>2 DEF Forked
    <3>4. status'[Main] = "alive" BY <1>3, <2>6, MemoryAssumption DEF IInv, Shape
    <3>5. mem'.fail \in Causes BY <1>9, <2>2 DEF Causes
    <3> QED BY <2>2, <2>5, <2>6, <3>1, <3>2, <3>3, <3>4, <3>5 DEF Shape
  <2>8. Fit(mem', space', {}) BY <2>1, <2>2, <2>3 DEF Forked
  <2>9. ASSUME NEW r \in Proc
        PROVE  Sound(space'[r], threads'[r]) /\ Lives(space'[r], threads'[r], status'[r])
    <3>1. CASE r = p
      <4>1. Sound(w.sp, T) /\ w.sp.dir = space[p].dir BY <2>1 DEF Forked, Sound
      <4>2. space[p].dir # None BY <1>2 DEF IInv, Books, Lives
      <4> QED BY <1>2, <1>3, <1>6, <2>4, <2>5, <2>6, <3>1, <4>1, <4>2 DEF Lives
    <3>2. CASE r = q
      <4>1. Sound(w.child, {t}) /\ w.child.dir # None BY <2>1, Frames DEF Forked, Sound
      <4> QED BY <2>4, <2>5, <2>6, <3>2, <4>1 DEF Lives
    <3>3. CASE r # p /\ r # q BY <2>4, <2>5, <2>6, <3>3 DEF IInv, Books
    <3> QED BY <3>1, <3>2, <3>3
  <2>10. \A r \in Proc : r # Main => space'[r].dir \in G \cup {None}
    BY <2>1, <2>4 DEF Forked, IInv, Books
  <2> QED BY <2>7, <2>8, <2>9, <2>10, SettledKeeps
<1> QED BY <1>8, <1>9

\* The end of a process keeps the invariant.
LEMMA ExitKeeps == ASSUME IInv, NEW p \in Proc, Exit(p) PROVE IInv'
<1>1. /\ Running /\ status[p] = "alive" /\ p # Main /\ threads[p] # {}
      /\ status' = [status EXCEPT ![p] = "dead"]
      /\ mem' = mem /\ space' = space /\ threads' = threads /\ parent' = parent
      /\ data' = data /\ lastTid' = lastTid
  BY DEF Exit, Runs
<1>2. Fit(mem, space, {}) BY <1>1, Busy
<1>3. status'[p] = "dead" /\ (\A r \in Proc : r # p => status'[r] = status[r])
      /\ status' \in [Proc -> Status] /\ status'[Main] = "alive"
  BY <1>1, MemoryAssumption DEF IInv, Shape, Status
<1>4. Shape' BY <1>1, <1>3 DEF IInv, Shape
<1>5. \A r \in Proc : Lives(space'[r], threads'[r], status'[r])
  BY <1>1, <1>3 DEF IInv, Books, Lives
<1>6. \A r \in Proc : Sound(space'[r], threads'[r]) BY <1>1 DEF IInv, Books
<1>7. \A r \in Proc : r # Main => space'[r].dir \in G \cup {None} BY <1>1 DEF IInv, Books
<1>8. Fit(mem', space', {}) BY <1>1, <1>2
<1> QED BY <1>4, <1>5, <1>6, <1>7, <1>8, SettledKeeps

\* Declaring a hardware region keeps the invariant.
LEMMA DeclareHwKeeps == ASSUME IInv, NEW region, DeclareHw(region) PROVE IInv'
<1>1. PICK cells : cells = region.base .. region.base + region.size - 1 OBVIOUS
<1>2. PICK ref : ref = [f \in Frame |-> IF f \in cells THEN [there |-> TRUE, hw |-> TRUE, count |-> 0]
                                                     ELSE mem.ref[f]]
  OBVIOUS
<1>3. mem \in MemT /\ Good(mem, space, {}) BY DEF IInv, Books, Good
<1>4. /\ mem' = [mem EXCEPT !.ref = ref] /\ space' = space /\ threads' = threads
      /\ status' = status /\ parent' = parent /\ data' = data /\ lastTid' = lastTid
      /\ \A f \in cells : ~mem.ref[f].there
      /\ mem.fail = "none"
  BY <1>1, <1>2, <1>3 DEF DeclareHw, Running, MemT
<1>5. PICK n : n = mem' OBVIOUS
<1>6. ref \in [Frame -> RefT]
  <2>1. [there |-> TRUE, hw |-> TRUE, count |-> 0] \in RefT BY DEF RefT
  <2> QED BY <1>2, <1>3, <2>1 DEF MemT
<1>7. n \in MemT /\ n.free = mem.free /\ n.avail = mem.avail /\ n.ref = ref /\ n.fail = "none"
  BY <1>3, <1>4, <1>5, <1>6 DEF MemT
<1>8. Free(n) = Free(mem) BY <1>7 DEF Free
<1>9. \A f \in G : f \notin cells /\ f \in Frame /\ ref[f] = mem.ref[f]
  <2>1. \A f \in G : f \in Frame /\ mem.ref[f].there BY <1>3, Frames DEF Good, Static
  <2> QED BY <1>2, <1>4, <2>1
<1>10. Static(n)
  <2>1. ASSUME NEW f \in Frame, KernelEnd <= f PROVE (ref[f].there /\ ~ref[f].hw) <=> f \in G
    <3>1. CASE f \in cells BY <1>2, <1>9, <3>1
    <3>2. CASE f \notin cells BY <1>2, <1>3, <2>1, <3>2 DEF Good, Static
    <3> QED BY <3>1, <3>2
  <2> QED BY <1>7, <2>1 DEF Static
<1>11. Good(n, space, {}) BY <1>3, <1>7, <1>8, <1>9, <1>10 DEF Good, ListOK
<1>12. (Used(mem) <=> Used(n)) /\ (Untouched(mem) <=> Untouched(n))
  BY <1>7, <1>8 DEF Used, Untouched
<1>13. Shape' BY <1>4, <1>5, <1>7 DEF IInv, Shape, Causes
<1>14. Books' BY <1>4, <1>5, <1>11, <1>12 DEF IInv, Books, Fresh
<1>15. KnownPanics' BY <1>5, <1>7 DEF KnownPanics
<1> QED BY <1>13, <1>14, <1>15 DEF IInv

--------------------------------------------------------------------------------
\* A write, with the page fault it may raise, keeps the invariant.
LEMMA WriteKeeps ==
    ASSUME IInv, NEW p \in Proc, NEW a \in Page, NEW v \in Value \ {0}, Write(p, a, v) PROVE IInv'
<1>1. PICK w : w = IF space[p].pte[a].mode = "cow" THEN InvocateCow(World(p), a) ELSE World(p)
  OBVIOUS
<1>2. /\ Running /\ status[p] = "alive" /\ threads[p] # {} /\ space[p].pte[a] # None
      /\ Commit(w.mem, /\ space' = [space EXCEPT ![p] = w.sp]
                       /\ data' = [data EXCEPT ![w.sp.pte[a].frame] = v]
                       /\ UNCHANGED <<threads, status, parent, lastTid>>)
  BY <1>1 DEF Write, Runs
<1>3. PICK x : x = World(p) OBVIOUS
<1>4. x = [mem |-> mem, sp |-> space[p]] /\ DOMAIN x = {"mem", "sp"} /\ x.mem = mem /\ x.sp = space[p]
  BY <1>3 DEF World
<1>5. Fit(mem, space, {}) /\ space \in [Proc -> SpaceT] /\ mem \in MemT /\ mem.fail = "none"
  BY <1>2, Busy DEF Fit, Good
<1>6. PICK e, f : e = space[p].pte[a] /\ f = e.frame OBVIOUS
<1>7. e \in [frame : G, mode : Mode] /\ f \in G /\ space[p] \in SpaceT BY <1>2, <1>5, <1>6, SpaceFacts
<1>8. Sound(space[p], threads[p]) BY DEF IInv, Books
\* What is left to show of the step that writes.
<1>9. ASSUME w.mem = mem, Fit(mem, Put(space, p, w.sp), {}), w.sp.dir = space[p].dir,
             Sound(w.sp, threads[p])
      PROVE  IInv'
  <2>1. /\ mem' = w.mem /\ space' = Put(space, p, w.sp) /\ threads' = threads /\ status' = status
        /\ parent' = parent /\ lastTid' = lastTid
        /\ data' = [data EXCEPT ![w.sp.pte[a].frame] = v]
    BY <1>2, <1>5, <1>9 DEF Commit, Put
  <2>2. data' \in [Frame -> Value] BY <2>1 DEF IInv, Shape
  <2>3. Shape' BY <1>5, <1>9, <2>1, <2>2 DEF IInv, Shape, Causes
  <2>4. Fit(mem', Put(space, p, w.sp), {}) BY <1>9, <2>1
  <2> QED BY <1>2, <1>9, <2>1, <2>3, <2>4, OneChanged
<1>10. CASE e.mode # "cow"
  <2>1. w = x BY <1>1, <1>3, <1>6, <1>10
  <2>2. Put(space, p, space[p]) = space BY <1>5, PutFacts
  <2>3. Fit(mem, Put(space, p, w.sp), {}) BY <1>4, <1>5, <2>1, <2>2
  <2> QED BY <1>4, <1>8, <1>9, <2>1, <2>3
<1>11. CASE e.mode = "cow" /\ mem.ref[f].count > 1
  <2>1. PICK o : o = AllocFrames(mem, 1) OBVIOUS
  <2>2. w = [x EXCEPT !.mem = Fail(o, "page_fault")]
    BY <1>1, <1>3, <1>4, <1>6, <1>11, <2>1 DEF InvocateCow
  <2>3. w.mem = Fail(o, "page_fault") BY <1>4, <2>2
  <2>4. o.fail = "none" \/ o.fail = "no_memory"
    BY <1>5, <2>1 DEF AllocFrames, Fail, MemT
  <2>5. DOMAIN o = {"free", "avail", "ref", "fail"} BY <1>5, <2>1 DEF AllocFrames, Fail, MemT
  <2>6. w.mem.fail \in {"no_memory", "page_fault"} BY <2>3, <2>4, <2>5 DEF Fail
  <2>7. mem' = [mem EXCEPT !.fail = w.mem.fail] /\ UNCHANGED rest BY <1>2, <2>6 DEF Commit, rest
  <2> QED BY <2>6, <2>7, StoppedKeeps
<1>12. CASE e.mode = "cow" /\ ~(mem.ref[f].count > 1)
  <2>1. PICK h : h = [e EXCEPT !.mode = "regular"] OBVIOUS
  <2>2. h \in [frame : G, mode : Mode] /\ h.frame = f /\ h.mode = "regular"
    BY <1>6, <1>7, <2>1 DEF Mode
  <2>3. PICK s : s = SetPte(space[p], a, h) OBVIOUS
  <2>4. w = [x EXCEPT !.sp = s]
    BY <1>1, <1>3, <1>4, <1>6, <1>12, <2>1, <2>3 DEF InvocateCow, SetPte
  <2>5. w.mem = mem /\ w.sp = s BY <1>4, <2>4
  <2>6. Good(mem, Put(space, p, s), {}) /\ s \in SpaceT
    <3>1. PICK E, S : E = {} /\ S = space OBVIOUS
    <3>2. Good(mem, S, E) /\ S[p].pte[a] # None /\ h.frame = S[p].pte[a].frame /\ s = SetPte(S[p], a, h)
      BY <1>2, <1>5, <1>6, <2>2, <2>3, <3>1 DEF Fit
    <3>3. Good(mem, Put(S, p, s), E) /\ s \in SpaceT
      BY ONLY p \in Proc, a \in Page, <2>2, <3>2, ModeGood
    <3> QED BY <3>1, <3>3
  <2>7. Alike(s, space[p]) /\ s.dir = space[p].dir
    <3>1. /\ s.dir = space[p].dir /\ s.table = space[p].table /\ s.pages = space[p].pages
          /\ s.pte[a] = h /\ \A b \in Page : b # a => s.pte[b] = space[p].pte[b]
      BY <1>7, <2>3, SetPteFacts
    <3>2. h # None BY <2>2, <1>7, Frames, MemoryAssumption DEF Entry, Mode
    <3>3. "regular" # "private" /\ e.mode # "private" BY <1>12
    <3> QED BY <1>2, <1>6, <2>2, <3>1, <3>2, <3>3 DEF Alike
  <2>8. Sound(s, threads[p])
    <3>1. StacksOK(space[p], threads[p]) /\ PagesOK(space[p]) BY <1>8 DEF Sound
    <3> QED BY <2>7, <3>1, AlikeKeeps DEF Sound
  <2> QED BY <1>5, <1>9, <2>5, <2>6, <2>7, <2>8 DEF Fit
<1> QED BY <1>10, <1>11, <1>12

--------------------------------------------------------------------------------
\* The release of the space of q: all is given back, or a table without a reference
\* stops the kernel.
LEMMA Released ==
    ASSUME IInv, Running, NEW q \in Proc, status[q] = "dead",
           NEW w, w = FoldLeft(FreeThread, [mem |-> mem, sp |-> space[q]], SetToSeq(threads[q])),
           NEW m, m = CleanProcessMemory(w.mem, w.sp)
    PROVE  \/ Fit(m, Put(space, q, NoSpace), {})
           \/ m.fail \in {"released_free", "freed_twice"} /\ Doom
<1>1. PICK sp, x : sp = space[q] /\ x = [mem |-> mem, sp |-> space[q]] OBVIOUS
<1>2. DOMAIN x = {"mem", "sp"} /\ x.mem = mem /\ x.sp = sp BY <1>1
<1>3. q # Main /\ sp.dir \in G BY <1>1 DEF IInv, Shape, Books, Lives
<1>4. Fit(mem, space, {}) BY <1>3, Busy
<1>5. space \in [Proc -> SpaceT] /\ sp \in SpaceT /\ Good(mem, space, {}) /\ mem.fail = "none"
  BY <1>1, <1>4 DEF Fit, Good
<1>6. PagesOK(sp) /\ StacksOK(sp, threads[q]) BY <1>1 DEF IInv, Books, Sound
<1>7. ASSUME NEW c, Case(c), Safe(c, mem, sp), c.S = space, c.q = q
      PROVE  /\ c.bad = None => Fit(m, Put(space, q, NoSpace), {})
             /\ c.bad # None => m.fail \in {"released_free", "freed_twice"}
  <2>1. PICK T : T = threads[q] OBVIOUS
  <2>2. /\ DOMAIN w = {"mem", "sp"} /\ w.sp \in SpaceT /\ w.sp.dir = x.sp.dir
        /\ Safe(c, w.mem, w.sp) /\ PagesOK(w.sp)
    <3>1. /\ x.sp \in SpaceT /\ x.sp.dir \in G /\ Safe(c, x.mem, x.sp) /\ PagesOK(x.sp)
          /\ StacksOK(x.sp, T) /\ w = FoldLeft(FreeThread, x, SetToSeq(T))
      BY <1>1, <1>2, <1>3, <1>5, <1>6, <1>7, <2>1
    <3> QED BY ONLY <1>2, <1>7, <3>1, FreeThreadsGood
  <2>3. PICK s, o : s = w.sp /\ o = w.mem OBVIOUS
  <2>4. s.dir \in G /\ s \in SpaceT /\ Tabled(s) /\ Safe(c, o, s) /\ m = CleanProcessMemory(o, s)
    BY <1>2, <1>3, <2>2, <2>3 DEF PagesOK
  <2>5. /\ c.bad = None => Fit(m, Put(c.S, c.q, NoSpace), {})
        /\ c.bad # None => m.fail \in {"released_free", "freed_twice"}
    BY ONLY <1>7, <2>4, CleanGood
  <2> QED BY <1>7, <2>5
<1>8. CASE \A k \in Table : sp.table[k] # None => mem.ref[sp.table[k]].count # 0
  <2>1. PICK c : c = [S |-> space, q |-> q, bad |-> None] OBVIOUS
  <2>2. c.S = space /\ c.q = q /\ c.bad = None BY <2>1
  <2>3. Case(c) BY <1>5, <2>2 DEF Case
  <2>4. Put(space, q, sp) = space BY <1>1, <1>5, PutFacts
  <2>5. Counted(mem, sp) BY <1>8 DEF Counted
  <2>6. Safe(c, mem, sp) BY <1>4, <2>2, <2>4, <2>5 DEF Safe
  <2> QED BY <1>7, <2>2, <2>3, <2>6
<1>9. CASE \E k \in Table : sp.table[k] # None /\ mem.ref[sp.table[k]].count = 0
  <2>1. PICK k \in Table : sp.table[k] # None /\ mem.ref[sp.table[k]].count = 0 BY <1>9
  <2>2. PICK bad : bad = sp.table[k] OBVIOUS
  <2>3. bad \in G /\ bad # None /\ mem.ref[bad].count = 0 BY <1>5, <2>1, <2>2, SpaceFacts
  <2>4. PICK c : c = [S |-> space, q |-> q, bad |-> bad] OBVIOUS
  <2>5. c.S = space /\ c.q = q /\ c.bad = bad BY <2>4
  <2>6. Case(c) BY <1>5, <2>3, <2>5 DEF Case
  <2>7. Clear(bad, sp)
    <3>1. k \in Slot /\ k # -1 /\ -1 \in Slot /\ Root(sp, k) = bad /\ Root(sp, -1) = sp.dir
      <4>1. NbTables - 1 \in Nat BY PagesOfTables
      <4> QED BY <2>2, <4>1 DEF Slot, Table, Root
    <3>2. /\ \A j \in Slot : Root(sp, j) \in G => \A a \in Page : At(sp, a) # Root(sp, j)
          /\ \A i, j \in Slot : Root(sp, i) \in G /\ Root(sp, i) = Root(sp, j) => i = j
      <4>1. PICK S, E, n : S = space /\ E = {} /\ n = mem OBVIOUS
      <4>2. Good(n, S, E) /\ sp = S[q] BY <1>1, <1>5, <4>1
      <4> QED BY ONLY q \in Proc, <4>2, Kinds
    <3> QED BY <2>3, <3>1, <3>2 DEF Clear
  <2>8. Weak(mem, bad, 0)
    BY <1>5, <2>3, Frames DEF Weak, Good, MemT, Static
  <2>9. Safe(c, mem, sp) BY <2>1, <2>2, <2>3, <2>5, <2>7, <2>8 DEF Safe, Doomed
  <2>10. Doom BY <1>1, <2>1 DEF Doom
  <2> QED BY <1>7, <2>3, <2>5, <2>6, <2>9, <2>10
<1> QED BY <1>8, <1>9

\* waitpid, which frees the space of the child, keeps the invariant.
LEMMA WaitPidKeeps == ASSUME IInv, NEW p \in Proc, NEW q \in Proc, WaitPid(p, q) PROVE IInv'
<1>1. PICK w : w = FoldLeft(FreeThread, [mem |-> mem, sp |-> space[q]], SetToSeq(threads[q]))
  OBVIOUS
<1>2. PICK m : m = CleanProcessMemory(w.mem, w.sp) OBVIOUS
<1>3. /\ Running /\ status[p] = "alive" /\ status[q] = "dead" /\ parent[q] = p
      /\ Commit(m, /\ space' = [space EXCEPT ![q] = NoSpace]
                   /\ threads' = [threads EXCEPT ![q] = {}]
                   /\ status' = [status EXCEPT ![q] = "none"]
                   /\ parent' = [r \in Proc |-> IF parent[r] = q THEN Main ELSE parent[r]]
                   /\ data' = Forget(m, data)
                   /\ UNCHANGED lastTid)
  BY <1>1, <1>2 DEF WaitPid
<1>4. \/ Fit(m, Put(space, q, NoSpace), {})
      \/ m.fail \in {"released_free", "freed_twice"} /\ Doom
  BY <1>1, <1>2, <1>3, Released
<1>5. CASE m.fail # "none"
  <2>1. mem' = [mem EXCEPT !.fail = m.fail] /\ UNCHANGED rest BY <1>3, <1>5 DEF Commit, rest
  <2>2. m.fail \in {"released_free", "freed_twice"} /\ Doom BY <1>4, <1>5 DEF Fit
  <2> QED BY <2>1, <2>2, StoppedKeeps
<1>6. CASE m.fail = "none"
  <2>1. Fit(m, Put(space, q, NoSpace), {}) BY <1>4, <1>6
  <2>2. /\ mem' = m /\ space' = Put(space, q, NoSpace) /\ threads' = [threads EXCEPT ![q] = {}]
        /\ status' = [status EXCEPT ![q] = "none"]
        /\ parent' = [r \in Proc |-> IF parent[r] = q THEN Main ELSE parent[r]]
        /\ data' = Forget(m, data) /\ lastTid' = lastTid
    BY <1>3, <1>6 DEF Commit, Put
  <2>3. space'[q] = NoSpace /\ \A r \in Proc : r # q => space'[r] = space[r]
    BY <2>2, PutFacts DEF IInv, Books, Good
  <2>4. /\ threads'[q] = {} /\ (\A r \in Proc : r # q => threads'[r] = threads[r])
        /\ threads' \in [Proc -> SUBSET StackT]
    BY <2>2 DEF IInv, Shape
  <2>5. /\ status'[q] = "none" /\ (\A r \in Proc : r # q => status'[r] = status[r])
        /\ status' \in [Proc -> Status]
    BY <2>2 DEF IInv, Shape, Status
  <2>6. q # Main BY <1>3 DEF IInv, Shape
  <2>7. Shape'
    <3>1. parent' \in [Proc -> Proc] BY <2>2, MemoryAssumption DEF IInv, Shape
    <3>2. data' \in [Frame -> Value] BY <2>2, ForgetType DEF IInv, Shape
    <3>3. status'[Main] = "alive" BY <2>5, <2>6, MemoryAssumption DEF IInv, Shape
    <3> QED BY <1>6, <2>2, <2>4, <2>5, <3>1, <3>2, <3>3 DEF IInv, Shape, Causes
  <2>8. ASSUME NEW r \in Proc
        PROVE  Sound(space'[r], threads'[r]) /\ Lives(space'[r], threads'[r], status'[r])
    <3>1. CASE r = q
      <4>1. Sound(NoSpace, {}) BY NoSpaceSound
      <4> QED BY <2>3, <2>4, <2>5, <3>1, <4>1 DEF Lives
    <3>2. CASE r # q BY <2>3, <2>4, <2>5, <3>2 DEF IInv, Books
    <3> QED BY <3>1, <3>2
  <2>9. \A r \in Proc : r # Main => space'[r].dir \in G \cup {None}
    BY <2>3, NoSpaceIs DEF IInv, Books
  <2>10. Fit(mem', space', {}) BY <2>1, <2>2
  <2> QED BY <2>7, <2>8, <2>9, <2>10, SettledKeeps
<1> QED BY <1>5, <1>6

--------------------------------------------------------------------------------
\* Every action keeps the invariant.
LEMMA NextIInv == IInv /\ [Next]_vars => IInv'
<1> SUFFICES ASSUME IInv, [Next]_vars PROVE IInv' OBVIOUS
<1>1. ASSUME NEW p \in Proc, NEW n \in Requests, AllocPage(p, n) PROVE IInv'
  BY <1>1, AllocPageKeeps
<1>2. ASSUME NEW p \in Proc, AllocKStack(p) PROVE IInv' BY <1>2, AllocKStackKeeps
<1>3. ASSUME NEW p \in Proc, NEW t \in threads[p], AllocStack(p, t) PROVE IInv'
  BY <1>3, AllocStackKeeps
<1>4. ASSUME NEW p \in Proc, NEW t \in threads[p], FreeStacks(p, t) PROVE IInv'
  BY <1>4, FreeStacksKeeps
<1>5. ASSUME NEW p \in Proc, NEW q \in Proc, NEW t \in threads[p], Fork(p, q, t) PROVE IInv'
  BY <1>5, ForkKeeps
<1>6. ASSUME NEW p \in Proc, NEW a \in Page, NEW v \in Value \ {0}, Write(p, a, v) PROVE IInv'
  BY <1>6, WriteKeeps
<1>7. ASSUME NEW p \in Proc, Exit(p) PROVE IInv' BY <1>7, ExitKeeps
<1>8. ASSUME NEW p \in Proc, NEW q \in Proc, WaitPid(p, q) PROVE IInv' BY <1>8, WaitPidKeeps
<1>9. ASSUME NEW r \in HwRegions, DeclareHw(r) PROVE IInv' BY <1>9, DeclareHwKeeps
<1>10. CASE UNCHANGED vars
  <2>1. /\ mem' = mem /\ space' = space /\ threads' = threads /\ status' = status
        /\ parent' = parent /\ data' = data /\ lastTid' = lastTid
    BY <1>10 DEF vars
  <2>2. Shape' BY <2>1 DEF IInv, Shape
  <2>3. Books' BY <2>1 DEF IInv, Books, Fresh
  <2>4. KnownPanics' BY <2>1 DEF IInv, KnownPanics
  <2> QED BY <2>2, <2>3, <2>4 DEF IInv
<1> QED BY <1>1, <1>2, <1>3, <1>4, <1>5, <1>6, <1>7, <1>8, <1>9, <1>10 DEF Next

--------------------------------------------------------------------------------
\* The invariant in the words of the properties: mappings, directories, tables and counts.
LEMMA Handed ==
    ASSUME IInv
    PROVE  /\ Managed = G
           /\ \A f : /\ Mappings(f) = MapsOf(space, f)
                     /\ \A p, j : <<p, j>> \in KeptBy(space, f) <=>
                            \/ j = -1 /\ p \in Dirs(f)
                            \/ j # -1 /\ <<p, j>> \in Tables(f)
           /\ \A f \in G : State(f, mem.ref[f].count, Count(space, f), KeptBy(space, f), f \in Free(mem))
<1>1. Good(mem, space, {}) BY DEF IInv, Books
<1>2. Static(mem) BY <1>1 DEF Good
<1>3. Managed = G
  <2>1. \A f \in G : f \in Frame /\ KernelEnd <= f BY Frames
  <2>2. \A f : f \in Managed <=> f \in G BY <1>2, <2>1 DEF Managed, Static
  <2> QED BY ONLY <2>2
<1>4. ASSUME NEW f PROVE Mappings(f) = MapsOf(space, f)
  BY DEF Mappings, MapsOf, FrameAt, At
<1>5. ASSUME NEW f, NEW p, NEW j
      PROVE  <<p, j>> \in KeptBy(space, f) <=>
                            \/ j = -1 /\ p \in Dirs(f)
                            \/ j # -1 /\ <<p, j>> \in Tables(f)
  <2>1. j \in Slot <=> j = -1 \/ j \in Table
    <3>1. NbTables \in Nat /\ -1 \in Int /\ NbTables - 1 \in Int BY MemoryAssumption
    <3> QED BY <3>1 DEF Slot, Table
  <2>2. -1 \notin Table BY DEF Table
  <2>3. <<p, j>> \in KeptBy(space, f) <=> p \in Proc /\ j \in Slot /\ Root(space[p], j) = f
    BY DEF KeptBy
  <2>4. <<p, j>> \in Tables(f) <=> p \in Proc /\ j \in Table /\ space[p].table[j] = f
    BY DEF Tables
  <2>5. p \in Dirs(f) <=> p \in Proc /\ space[p].dir = f BY DEF Dirs
  <2> QED BY <2>1, <2>2, <2>3, <2>4, <2>5 DEF Root
<1>6. ASSUME NEW f \in G
      PROVE  State(f, mem.ref[f].count, Count(space, f), KeptBy(space, f), f \in Free(mem))
  <2>1. State(f, mem.ref[f].count, Count(space, f), KeptBy(space, f), f \in Free(mem) \/ f \in {})
    BY <1>1 DEF Good
  <2> QED BY <2>1 DEF State
<1> QED BY <1>3, <1>4, <1>5, <1>6

\* A frame kept as a directory or as a table is kept once.
LEMMA KeptOnce ==
    ASSUME IInv, NEW f \in G
    PROVE  /\ Tables(f) \cup Dirs(f) = {} <=> KeptBy(space, f) = {}
           /\ Tables(f) \cup Dirs(f) # {} => Cardinality(Tables(f)) + Cardinality(Dirs(f)) = 1
<1>1. PICK K : K = KeptBy(space, f) OBVIOUS
<1>2. \A p, j : <<p, j>> \in K <=> \/ j = -1 /\ p \in Dirs(f)
                                   \/ j # -1 /\ <<p, j>> \in Tables(f)
  BY <1>1, Handed
<1>3. (\A h \in K : h = <<h[1], h[2]>>) /\ (\A h \in Tables(f) : h = <<h[1], h[2]>> /\ h[2] # -1)
  <2>1. \A h \in K : h = <<h[1], h[2]>> BY <1>1 DEF KeptBy
  <2>2. -1 \notin Table BY DEF Table
  <2>3. \A h \in Tables(f) : h = <<h[1], h[2]>> /\ h[2] # -1 BY <2>2 DEF Tables
  <2> QED BY <2>1, <2>3
<1>4. Tables(f) \cup Dirs(f) = {} <=> K = {}
  <2>1. ASSUME NEW h \in K PROVE Tables(f) \cup Dirs(f) # {}
    <3>1. <<h[1], h[2]>> \in K BY <1>3, <2>1
    <3> QED BY <1>2, <3>1
  <2>2. ASSUME NEW h \in Tables(f) PROVE K # {}
    <3>1. <<h[1], h[2]>> \in Tables(f) /\ h[2] # -1 BY <1>3, <2>2
    <3> QED BY <1>2, <3>1
  <2>3. ASSUME NEW p \in Dirs(f) PROVE K # {} BY <1>2, <2>3
  <2> QED BY <2>1, <2>2, <2>3
<1>5. \A h, k \in K : h = k BY <1>1, Handed DEF State
<1>6. ASSUME K # {} PROVE Cardinality(Tables(f)) + Cardinality(Dirs(f)) = 1
  <2>1. PICK h \in K : TRUE BY <1>6
  <2>2. PICK p, j : p = h[1] /\ j = h[2] OBVIOUS
  <2>3. h = <<p, j>> /\ <<p, j>> \in K BY <1>3, <2>1, <2>2
  <2>4. \A q, i : <<q, i>> \in K => q = p /\ i = j BY <1>5, <2>3
  <2>5. Cardinality({}) = 0 BY FS_EmptySet
  <2>6. CASE j = -1
    <3>1. Tables(f) = {}
      <4>1. ASSUME NEW k \in Tables(f) PROVE FALSE
        <5>1. <<k[1], k[2]>> \in Tables(f) /\ k[2] # -1 BY <1>3, <4>1
        <5>2. <<k[1], k[2]>> \in K BY <1>2, <5>1
        <5> QED BY <2>4, <2>6, <5>1, <5>2
      <4> QED BY <4>1
    <3>2. \A q : q \in Dirs(f) <=> q = p
      <4>1. p \in Dirs(f) BY <1>2, <2>3, <2>6
      <4>2. \A q : q \in Dirs(f) => <<q, -1>> \in K BY <1>2
      <4> QED BY <2>4, <4>1, <4>2
    <3>3. Dirs(f) = {p} BY <3>2
    <3>4. Cardinality(Dirs(f)) = 1 BY <3>3, FS_Singleton
    <3> QED BY <2>5, <3>1, <3>4
  <2>7. CASE j # -1
    <3>1. Dirs(f) = {}
      <4>1. \A q : q \in Dirs(f) => <<q, -1>> \in K BY <1>2
      <4> QED BY <2>4, <2>7, <4>1
    <3>2. \A k : k \in Tables(f) <=> k = <<p, j>>
      <4>1. <<p, j>> \in Tables(f) BY <1>2, <2>3, <2>7
      <4>2. ASSUME NEW k \in Tables(f) PROVE k = <<p, j>>
        <5>1. k = <<k[1], k[2]>> /\ <<k[1], k[2]>> \in Tables(f) /\ k[2] # -1 BY <1>3, <4>2
        <5>2. <<k[1], k[2]>> \in K BY <1>2, <5>1
        <5> QED BY <2>4, <5>1, <5>2
      <4> QED BY <4>1, <4>2
    <3>3. PICK pair : pair = <<p, j>> OBVIOUS
    <3>4. Tables(f) = {pair} BY <3>2, <3>3
    <3>5. Cardinality(Tables(f)) = 1 BY <3>4, FS_Singleton
    <3> QED BY <2>5, <3>1, <3>5
  <2> QED BY <2>6, <2>7
<1> QED BY <1>1, <1>4, <1>6

\* The counts are exact while the kernel runs.
LEMMA IInvRefsExact == IInv => RefsExact
<1> SUFFICES ASSUME IInv PROVE RefsExact OBVIOUS
<1>1. ASSUME NEW f \in Managed, NEW extra, extra = (IF f = KernelEnd THEN 1 ELSE 0)
      PROVE  IF Tables(f) \cup Dirs(f) = {} THEN mem.ref[f].count = Cardinality(Mappings(f)) + extra
             ELSE /\ Cardinality(Mappings(f)) = 0
                  /\ Cardinality(Tables(f)) + Cardinality(Dirs(f)) = 1
                  /\ mem.ref[f].count \in extra .. extra + 1
  <2>1. f \in G BY Handed
  <2>2. State(f, mem.ref[f].count, Count(space, f), KeptBy(space, f), f \in Free(mem))
    BY <2>1, Handed
  <2>3. Cardinality(Mappings(f)) = Count(space, f) BY Handed DEF Count
  <2>4. /\ Tables(f) \cup Dirs(f) = {} <=> KeptBy(space, f) = {}
        /\ Tables(f) \cup Dirs(f) # {} => Cardinality(Tables(f)) + Cardinality(Dirs(f)) = 1
    BY <2>1, KeptOnce
  <2>5. CASE KeptBy(space, f) = {}
    BY <1>1, <2>2, <2>3, <2>4, <2>5 DEF State, Extra
  <2>6. CASE KeptBy(space, f) # {}
    <3>1. Count(space, f) = 0 /\ f # KernelEnd /\ mem.ref[f].count \in {0, 1} BY <2>2, <2>6 DEF State
    <3>2. mem.ref[f].count \in extra .. extra + 1 BY <1>1, <3>1
    <3> QED BY <2>3, <2>4, <2>6, <3>1, <3>2
  <2> QED BY <2>5, <2>6
<1> QED BY <1>1 DEF RefsExact

--------------------------------------------------------------------------------
\* The fields have their types.
LEMMA IInvTypeOK == IInv => TypeOK
<1> SUFFICES ASSUME IInv PROVE TypeOK OBVIOUS
<1>1. mem \in MemT /\ ListOK(mem) /\ space \in [Proc -> SpaceT] BY DEF IInv, Books, Good
<1>2. mem.ref \in [Frame -> [there : BOOLEAN, hw : BOOLEAN, count : Nat]] /\ mem.fail \in Causes
  BY <1>1 DEF MemT, RefT
<1>3. mem.avail \in 0 .. FrameLimit
  <2>1. PICK a, b : a = 0 /\ b = FrameLimit - 1 OBVIOUS
  <2>2. FrameLimit \in Nat /\ FrameLimit # 0
    <3>1. KernelEnd \in Frame /\ FrameLimit \in Nat BY MemoryAssumption
    <3> QED BY <3>1 DEF Frame
  <2>3. a \in Int /\ b \in Int /\ a <= b BY <2>1, <2>2
  <2>4. Cardinality(a .. b) = b - a + 1 /\ IsFiniteSet(a .. b) BY <2>3, FS_Interval
  <2>5. Cardinality(Frame) = FrameLimit /\ IsFiniteSet(Frame) BY <2>1, <2>2, <2>4 DEF Frame
  <2>6. Free(mem) \subseteq Frame /\ mem.avail = Cardinality(Free(mem)) BY <1>1, Frames DEF ListOK
  <2>7. Cardinality(Free(mem)) \in Nat /\ Cardinality(Free(mem)) <= Cardinality(Frame)
    <3>1. IsFiniteSet(Free(mem)) BY <2>5, <2>6, FS_Subset
    <3> QED BY <2>5, <2>6, <3>1, FS_Subset, FS_CardinalityType
  <2> QED BY <2>2, <2>5, <2>6, <2>7
<1>4. ASSUME NEW p \in Proc
      PROVE  /\ space[p].dir \in Frame \cup {None}
             /\ space[p].table \in [Table -> Frame \cup {None}]
             /\ \A a \in Page : space[p].pte[a] # None => space[p].pte[a] \in Entry
             /\ \A t \in threads[p] : t.kstack \in Page /\ t.stack \in Page \cup {None}
  <2>1. space[p] \in SpaceT BY <1>1
  <2>2. space[p].dir \in Frame \cup {None} /\ space[p].table \in [Table -> Frame \cup {None}]
    BY <2>1, Frames DEF SpaceT
  <2>3. ASSUME NEW a \in Page, space[p].pte[a] # None PROVE space[p].pte[a] \in Entry
    <3>1. space[p].pte[a] \in [frame : G, mode : Mode] BY <2>1, <2>3, SpaceFacts
    <3> QED BY <3>1, Frames DEF Entry, Mode
  <2>4. \A t \in threads[p] : t.kstack \in Page /\ t.stack \in Page \cup {None}
    BY DEF IInv, Shape, StackT
  <2> QED BY <2>2, <2>3, <2>4
<1>5. /\ status \in [Proc -> {"none", "alive", "dead"}] /\ parent \in [Proc -> Proc]
      /\ data \in [Frame -> Value] /\ lastTid \in 0 .. MaxTid
  BY DEF IInv, Shape, Status
<1> QED BY <1>2, <1>3, <1>4, <1>5 DEF TypeOK, Causes

\* A frame is free or in use, never both.
LEMMA IInvFramesAccounted == IInv => FramesAccounted
<1> SUFFICES ASSUME IInv PROVE FramesAccounted OBVIOUS
<1>1. mem \in MemT /\ ListOK(mem) BY DEF IInv, Books, Good
<1>2. RangesDisjoint(mem.free) BY <1>1, ApartDisjoint DEF ListOK
<1>3. RangesMerged(mem.free)
  <2>1. mem.free \in Seq(Rng) /\ Ordered(mem.free) BY <1>1 DEF ListOK, MemT
  <2> QED BY <2>1, OrderedMerged
<1>4. mem.avail = Cardinality(FreeCells(mem.free)) BY <1>1 DEF ListOK, Free
<1>5. ASSUME NEW f \in Managed, NEW used,
             used <=> (Mappings(f) # {} \/ Tables(f) # {} \/ Dirs(f) # {})
      PROVE  /\ used => f \notin FreeCells(mem.free)
             /\ ~used /\ f # KernelEnd => f \in FreeCells(mem.free)
  <2>1. f \in G BY Handed
  <2>2. State(f, mem.ref[f].count, Count(space, f), KeptBy(space, f), f \in Free(mem))
    BY <2>1, Handed
  <2>3. Mappings(f) = {} <=> Count(space, f) = 0
    <3>1. IsFiniteSet(MapsOf(space, f)) /\ Mappings(f) = MapsOf(space, f) BY Finite, Handed
    <3> QED BY <3>1, FS_EmptySet DEF Count
  <2>4. Tables(f) \cup Dirs(f) = {} <=> KeptBy(space, f) = {} BY <2>1, KeptOnce
  <2>5. used <=> (Count(space, f) # 0 \/ KeptBy(space, f) # {}) BY <1>5, <2>3, <2>4
  <2> QED BY <2>2, <2>5 DEF State, Free
<1> QED BY <1>2, <1>3, <1>4, <1>5 DEF FramesAccounted

\* A free page is not mapped.
LEMMA IInvFreePages == IInv => FreePagesUnmapped
<1> SUFFICES ASSUME IInv PROVE FreePagesUnmapped OBVIOUS
<1>1. ASSUME NEW p \in Proc, NEW free, free = FreeCells(space[p].pages)
      PROVE  /\ RangesDisjoint(space[p].pages)
             /\ \A a \in free : space[p].pte[a] = None
             /\ \A t \in threads[p] :
                 /\ \A i \in 0 .. KStackPages - 1 :
                     t.kstack + i \notin free /\ space[p].pte[t.kstack + i].mode = "private"
                 /\ t.stack # None => \A i \in 0 .. StackPages - 1 : t.stack + i \notin free
  <2>1. PagesOK(space[p]) /\ StacksOK(space[p], threads[p]) BY DEF IInv, Books, Sound
  <2>2. free = FreeOf(space[p]) BY <1>1 DEF FreeOf
  <2>3. RangesDisjoint(space[p].pages) BY <2>1, ApartDisjoint DEF PagesOK
  <2>4. \A a \in free : space[p].pte[a] = None BY <2>1, <2>2 DEF PagesOK
  <2>5. ASSUME NEW t \in threads[p], NEW i \in 0 .. KStackPages - 1
        PROVE  t.kstack + i \notin free /\ space[p].pte[t.kstack + i].mode = "private"
    <3>1. t \in StackT /\ KStackPages \in Nat /\ t.kstack \in Int
      BY <2>1, StackSizes DEF StacksOK
    <3>2. t.kstack + i \in Kernel(t) BY <2>5, <3>1 DEF Kernel
    <3> QED BY <2>1, <2>2, <3>2 DEF StacksOK
  <2>6. ASSUME NEW t \in threads[p], t.stack # None, NEW i \in 0 .. StackPages - 1
        PROVE  t.stack + i \notin free
    <3>1. t \in StackT /\ StackPages \in Nat /\ t.stack \in Int
      BY <2>1, <2>6, StackSizes DEF StacksOK
    <3>2. t.stack + i \in User(t) BY <2>6, <3>1 DEF User
    <3> QED BY <2>1, <2>2, <3>2 DEF StacksOK
  <2> QED BY <2>3, <2>4, <2>5, <2>6
<1> QED BY <1>1 DEF FreePagesUnmapped

--------------------------------------------------------------------------------
\* The inductive invariant: the fields have the values the code gives them, the books of
\* the frames and the spaces are in order, and no other assertion has failed.
THEOREM Invariant == Spec => []IInv
<1>1. Init => IInv BY InitIInv
<1>2. IInv /\ [Next]_vars => IInv' BY NextIInv
<1> QED BY <1>1, <1>2, PTL DEF Spec

\* The count of every frame is the number of pages mapped to it, for every history of
\* allocations, forks, writes and exits.
THEOREM RefsExactHolds == Spec => []RefsExact
<1>1. IInv => RefsExact BY IInvRefsExact
<1> QED BY <1>1, Invariant, PTL

\* No frame and no page is lost, handed out twice or free while it is used.
THEOREM FreeListsSoundHolds == Spec => []FreeListsSound
<1>1. IInv => FreeListsSound
  BY IInvTypeOK, IInvFramesAccounted, IInvFreePages DEF FreeListsSound
<1> QED BY <1>1, Invariant, PTL

\* No assertion of the memory manager fails but the three the model names: the memory is
\* out, a shared page is written, or a table without a reference is released.
THEOREM KnownPanicsHolds == Spec => []KnownPanics
<1>1. IInv => KnownPanics BY DEF IInv
<1> QED BY <1>1, Invariant, PTL
================================================================================
