---------------------------- MODULE KQueueSeqProofs ----------------------------
(***************************************************************************)
(* What the queue operators preserve, for every queue: they stay           *)
(* sequences, they link a node once, and they add or remove exactly the    *)
(* node they are given.                                                    *)
(***************************************************************************)
EXTENDS KQueueSeq, FiniteSetTheorems, SequenceTheorems, TLAPS

\* kqueue_push adds its node and duplicates nothing.
LEMMA PushProperties ==
    ASSUME NEW S, NEW q \in Seq(S), NEW n \in S
    PROVE  /\ Push(q, n) \in Seq(S)
           /\ \A x : Contains(Push(q, n), x) <=> x = n \/ Contains(q, x)
           /\ IsInjective(q) /\ ~Contains(q, n) => IsInjective(Push(q, n))
<1> DEFINE p == <<n>> \o q
<1>1. /\ p \in Seq(S) /\ Len(p) = Len(q) + 1 /\ p[1] = n
      /\ \A i \in 1 .. Len(q) : p[i + 1] = q[i]
      /\ DOMAIN p = 1 .. Len(q) + 1 /\ DOMAIN q = 1 .. Len(q)
  OBVIOUS
<1>2. \A i \in 2 .. Len(q) + 1 : i - 1 \in 1 .. Len(q) /\ p[i] = q[i - 1]
  BY <1>1
<1> HIDE DEF p
<1>3. \A x : Contains(p, x) <=> x = n \/ Contains(q, x)
  <2> TAKE x
  <2>1. ASSUME NEW i \in 1 .. Len(p), p[i] = x PROVE x = n \/ Contains(q, x)
    BY <1>1, <1>2, <2>1, i = 1 \/ i \in 2 .. Len(q) + 1 DEF Contains
  <2>2. x = n => Contains(p, x)
    BY <1>1, 1 \in 1 .. Len(p) DEF Contains
  <2>3. ASSUME NEW i \in 1 .. Len(q), q[i] = x PROVE Contains(p, x)
    BY <1>1, <2>3, i + 1 \in 1 .. Len(p) DEF Contains
  <2> QED BY <2>1, <2>2, <2>3 DEF Contains
<1>4. ASSUME IsInjective(q), ~Contains(q, n) PROVE IsInjective(p)
  <2> SUFFICES ASSUME NEW i \in 1 .. Len(q) + 1, NEW j \in 1 .. Len(q) + 1, p[i] = p[j]
               PROVE  i = j
    BY <1>1 DEF IsInjective
  <2>1. CASE i = 1
    BY <1>1, <1>2, <1>4, <2>1 DEF Contains
  <2>2. CASE j = 1
    BY <1>1, <1>2, <1>4, <2>2 DEF Contains
  <2>3. CASE i # 1 /\ j # 1
    <3>1. i - 1 \in DOMAIN q /\ j - 1 \in DOMAIN q /\ q[i - 1] = q[j - 1]
      BY <1>1, <1>2, <2>3
    <3> QED BY <3>1, <1>4 DEF IsInjective
  <2> QED BY <2>1, <2>2, <2>3
<1> QED BY <1>1, <1>3, <1>4 DEF p, Push

\* Linking one queue in front of another: no node is lost or duplicated.
LEMMA ConcatQueues ==
    ASSUME NEW S, NEW p \in Seq(S), NEW q \in Seq(S)
    PROVE  /\ p \o q \in Seq(S)
           /\ \A x : Contains(p \o q, x) <=> Contains(p, x) \/ Contains(q, x)
           /\ IsInjective(p) /\ IsInjective(q) /\ (\A x \in S : ~(Contains(p, x) /\ Contains(q, x)))
                  => IsInjective(p \o q)
<1> DEFINE r == p \o q
<1>1. /\ r \in Seq(S) /\ Len(r) = Len(p) + Len(q)
      /\ \A i \in 1 .. Len(p) : r[i] = p[i]
      /\ \A i \in Len(p) + 1 .. Len(p) + Len(q) : i - Len(p) \in 1 .. Len(q) /\ r[i] = q[i - Len(p)]
      /\ DOMAIN r = 1 .. Len(p) + Len(q) /\ DOMAIN q = 1 .. Len(q) /\ DOMAIN p = 1 .. Len(p)
      /\ Len(p) \in Nat /\ Len(q) \in Nat
  OBVIOUS
<1>2. \A i \in 1 .. Len(q) : i + Len(p) \in 1 .. Len(r) /\ r[i + Len(p)] = q[i]
  BY <1>1
<1>3. \A i \in 1 .. Len(p) : i \in 1 .. Len(r)
  BY <1>1
<1>4. \A i \in 1 .. Len(r) : i \in 1 .. Len(p) \/ i \in Len(p) + 1 .. Len(p) + Len(q)
  BY <1>1
<1> HIDE DEF r
<1>5. \A x : Contains(r, x) <=> Contains(p, x) \/ Contains(q, x)
  <2> TAKE x
  <2>1. ASSUME NEW i \in 1 .. Len(r), r[i] = x PROVE Contains(p, x) \/ Contains(q, x)
    BY <1>1, <1>4, <2>1 DEF Contains
  <2>2. ASSUME NEW i \in 1 .. Len(p), p[i] = x PROVE Contains(r, x)
    BY <1>1, <1>3, <2>2 DEF Contains
  <2>3. ASSUME NEW i \in 1 .. Len(q), q[i] = x PROVE Contains(r, x)
    BY <1>2, <2>3 DEF Contains
  <2> QED BY <2>1, <2>2, <2>3 DEF Contains
<1>6. ASSUME IsInjective(p), IsInjective(q), \A x \in S : ~(Contains(p, x) /\ Contains(q, x))
      PROVE  IsInjective(r)
  <2> SUFFICES ASSUME NEW i \in 1 .. Len(r), NEW j \in 1 .. Len(r), r[i] = r[j]
               PROVE  i = j
    BY <1>1 DEF IsInjective
  <2>1. CASE i \in 1 .. Len(p) /\ j \in 1 .. Len(p)
    BY <1>1, <1>6, <2>1 DEF IsInjective
  <2>2. CASE i \notin 1 .. Len(p) /\ j \notin 1 .. Len(p)
    <3>1. i - Len(p) \in DOMAIN q /\ j - Len(p) \in DOMAIN q /\ q[i - Len(p)] = q[j - Len(p)]
      BY <1>1, <1>4, <2>2
    <3>2. i - Len(p) = j - Len(p)
      BY <3>1, <1>6 DEF IsInjective
    <3>3. i \in Int /\ j \in Int /\ Len(p) \in Int
      BY <1>1
    <3> QED BY <3>2, <3>3
  <2>3. ASSUME NEW k \in 1 .. Len(p), NEW l \in Len(p) + 1 .. Len(p) + Len(q), r[k] = r[l]
        PROVE  FALSE
    <3>1. p[k] \in S /\ p[k] = q[l - Len(p)] /\ l - Len(p) \in 1 .. Len(q)
      BY <1>1, <2>3
    <3>2. Contains(p, p[k])
      BY DEF Contains
    <3>3. Contains(q, p[k])
      BY <3>1 DEF Contains
    <3> QED BY <3>1, <3>2, <3>3, <1>6
  <2> QED BY <1>4, <2>1, <2>2, <2>3
<1> QED BY <1>1, <1>5, <1>6 DEF r

\* Cutting a queue in two: each node is on exactly one side.
LEMMA CutQueue ==
    ASSUME NEW S, NEW q \in Seq(S), NEW n \in 0 .. Len(q)
    PROVE  /\ SubSeq(q, 1, n) \in Seq(S) /\ SubSeq(q, n + 1, Len(q)) \in Seq(S)
           /\ \A x : Contains(q, x) <=> \/ Contains(SubSeq(q, 1, n), x)
                                        \/ Contains(SubSeq(q, n + 1, Len(q)), x)
           /\ IsInjective(q) =>
                /\ IsInjective(SubSeq(q, 1, n)) /\ IsInjective(SubSeq(q, n + 1, Len(q)))
                /\ \A x : ~(/\ Contains(SubSeq(q, 1, n), x)
                            /\ Contains(SubSeq(q, n + 1, Len(q)), x))
<1> DEFINE a == SubSeq(q, 1, n)
           b == SubSeq(q, n + 1, Len(q))
<1>1. /\ a \in Seq(S) /\ Len(a) = n /\ DOMAIN a = 1 .. n
      /\ \A i \in 1 .. n : a[i] = q[i] /\ i \in DOMAIN q
      /\ DOMAIN q = 1 .. Len(q) /\ Len(q) \in Nat
  OBVIOUS
<1>2. /\ b \in Seq(S) /\ Len(b) = Len(q) - n /\ DOMAIN b = 1 .. Len(q) - n
      /\ \A i \in 1 .. Len(q) - n : b[i] = q[i + n] /\ i + n \in DOMAIN q
  OBVIOUS
<1> HIDE DEF a, b
<1>3. \A i \in n + 1 .. Len(q) : i - n \in 1 .. Len(b) /\ b[i - n] = q[i]
  BY <1>1, <1>2
<1>4. \A x : Contains(q, x) <=> Contains(a, x) \/ Contains(b, x)
  <2> TAKE x
  <2>1. ASSUME NEW i \in 1 .. Len(q), q[i] = x PROVE Contains(a, x) \/ Contains(b, x)
    BY <1>1, <1>3, <2>1, i \in 1 .. n \/ i \in n + 1 .. Len(q) DEF Contains
  <2>2. ASSUME NEW i \in 1 .. n, a[i] = x PROVE Contains(q, x)
    BY <1>1, <2>2 DEF Contains
  <2>3. ASSUME NEW i \in 1 .. Len(q) - n, b[i] = x PROVE Contains(q, x)
    BY <1>1, <1>2, <2>3 DEF Contains
  <2> QED BY <1>1, <1>2, <2>1, <2>2, <2>3 DEF Contains
<1>5. ASSUME IsInjective(q) PROVE IsInjective(a)
  BY <1>1, <1>5 DEF IsInjective
<1>6. ASSUME IsInjective(q) PROVE IsInjective(b)
  <2> SUFFICES ASSUME NEW i \in 1 .. Len(q) - n, NEW j \in 1 .. Len(q) - n, b[i] = b[j]
               PROVE  i = j
    BY <1>2 DEF IsInjective
  <2>1. i + n \in DOMAIN q /\ j + n \in DOMAIN q /\ q[i + n] = q[j + n]
    BY <1>2
  <2>2. i + n = j + n
    BY <2>1, <1>6 DEF IsInjective
  <2> QED BY <2>2
<1>7. ASSUME IsInjective(q), NEW x, Contains(a, x), Contains(b, x) PROVE FALSE
  <2>1. PICK i \in 1 .. n : a[i] = x
    BY <1>1, <1>7 DEF Contains
  <2>2. PICK j \in 1 .. Len(q) - n : b[j] = x
    BY <1>2, <1>7 DEF Contains
  <2>3. i \in DOMAIN q /\ j + n \in DOMAIN q /\ q[i] = q[j + n]
    BY <1>1, <1>2, <2>1, <2>2
  <2>4. i = j + n
    BY <1>7, <2>3 DEF IsInjective
  <2> QED BY <1>1, <2>4
<1> QED BY <1>1, <1>2, <1>4, <1>5, <1>6, <1>7 DEF a, b

\* Linking a node in the middle of a queue.
LEMMA InsertAtQueue ==
    ASSUME NEW S, NEW q \in Seq(S), NEW n \in S, NEW i \in 1 .. Len(q) + 1
    PROVE  /\ InsertAt(q, i, n) \in Seq(S)
           /\ \A x : Contains(InsertAt(q, i, n), x) <=> x = n \/ Contains(q, x)
           /\ IsInjective(q) /\ ~Contains(q, n) => IsInjective(InsertAt(q, i, n))
<1> DEFINE a == SubSeq(q, 1, i - 1)
           b == SubSeq(q, i, Len(q))
<1>1. /\ a \in Seq(S) /\ b \in Seq(S)
      /\ \A x : Contains(q, x) <=> Contains(a, x) \/ Contains(b, x)
      /\ IsInjective(q) => /\ IsInjective(a) /\ IsInjective(b)
                           /\ \A x : ~(Contains(a, x) /\ Contains(b, x))
  <2>1. i - 1 \in 0 .. Len(q) /\ i = (i - 1) + 1
    OBVIOUS
  <2> QED BY <2>1, CutQueue
<1>2. InsertAt(q, i, n) = a \o Push(b, n)
  <2> HIDE DEF a, b
  <2>1. <<n>> \in Seq(S)
    OBVIOUS
  <2>2. (a \o <<n>>) \o b = a \o (<<n>> \o b)
    BY ONLY <1>1, <2>1, ConcatAssociative
  <2> QED BY <2>2 DEF InsertAt, Push, a, b
<1> HIDE DEF a, b
<1>3. /\ Push(b, n) \in Seq(S)
      /\ \A x : Contains(Push(b, n), x) <=> x = n \/ Contains(b, x)
      /\ IsInjective(b) /\ ~Contains(b, n) => IsInjective(Push(b, n))
  BY <1>1, PushProperties
<1>4. /\ a \o Push(b, n) \in Seq(S)
      /\ \A x : Contains(a \o Push(b, n), x) <=> Contains(a, x) \/ Contains(Push(b, n), x)
      /\ /\ IsInjective(a) /\ IsInjective(Push(b, n))
         /\ \A x \in S : ~(Contains(a, x) /\ Contains(Push(b, n), x))
         => IsInjective(a \o Push(b, n))
  BY <1>1, <1>3, ConcatQueues
<1> QED BY ONLY <1>1, <1>2, <1>3, <1>4

\* Unlinking the node at a position.
LEMMA RemoveAtQueue ==
    ASSUME NEW S, NEW q \in Seq(S), NEW i \in 1 .. Len(q)
    PROVE  /\ RemoveAt(q, i) \in Seq(S)
           /\ \A x : Contains(RemoveAt(q, i), x) => Contains(q, x)
           /\ \A x : Contains(q, x) /\ x # q[i] => Contains(RemoveAt(q, i), x)
           /\ IsInjective(q) => /\ IsInjective(RemoveAt(q, i))
                                /\ ~Contains(RemoveAt(q, i), q[i])
<1> DEFINE a == SubSeq(q, 1, i - 1)
           b == SubSeq(q, i + 1, Len(q))
           c == SubSeq(q, i, Len(q))
           d == SubSeq(q, 1, i)
<1>1. /\ a \in Seq(S)
      /\ \A x : Contains(q, x) <=> Contains(a, x) \/ Contains(c, x)
      /\ IsInjective(q) => /\ IsInjective(a)
                           /\ \A x : ~(Contains(a, x) /\ Contains(c, x))
  <2>1. i - 1 \in 0 .. Len(q) /\ i = (i - 1) + 1
    OBVIOUS
  <2> QED BY <2>1, CutQueue
<1>2. /\ b \in Seq(S)
      /\ \A x : Contains(q, x) <=> Contains(d, x) \/ Contains(b, x)
      /\ IsInjective(q) => /\ IsInjective(b)
                           /\ \A x : ~(Contains(d, x) /\ Contains(b, x))
  <2>1. i \in 0 .. Len(q)
    OBVIOUS
  <2> QED BY <2>1, CutQueue
<1>3. Contains(d, q[i]) /\ \A x : Contains(d, x) => Contains(a, x) \/ x = q[i]
  <2>1. /\ Len(d) = i /\ Len(a) = i - 1
        /\ \A j \in 1 .. i : d[j] = q[j]
        /\ \A j \in 1 .. i - 1 : a[j] = q[j]
    OBVIOUS
  <2> HIDE DEF a, d
  <2>2. Contains(d, q[i])
    BY <2>1, i \in 1 .. Len(d) DEF Contains
  <2>3. ASSUME NEW x, NEW j \in 1 .. Len(d), d[j] = x PROVE Contains(a, x) \/ x = q[i]
    BY <2>1, <2>3, j = i \/ j \in 1 .. i - 1 DEF Contains
  <2> QED BY <2>2, <2>3 DEF Contains
<1>4. Contains(c, q[i])
  <2>1. Len(c) = Len(q) - i + 1 /\ c[1] = q[i] /\ 1 \in 1 .. Len(c)
    OBVIOUS
  <2> QED BY <2>1 DEF Contains
<1>5. \A x : Contains(b, x) => Contains(c, x)
  <2>1. /\ Len(c) = Len(q) - i + 1 /\ Len(b) = Len(q) - i
        /\ \A j \in 1 .. Len(b) : j + 1 \in 1 .. Len(c) /\ b[j] = c[j + 1]
    OBVIOUS
  <2> QED BY <2>1 DEF Contains
<1> HIDE DEF a, b, c, d
<1>6. /\ a \o b \in Seq(S)
      /\ \A x : Contains(a \o b, x) <=> Contains(a, x) \/ Contains(b, x)
      /\ IsInjective(a) /\ IsInjective(b) /\ (\A x \in S : ~(Contains(a, x) /\ Contains(b, x)))
            => IsInjective(a \o b)
  BY ONLY <1>1, <1>2, ConcatQueues
<1>7. RemoveAt(q, i) = a \o b
  BY DEF RemoveAt, a, b
<1> QED BY ONLY <1>1, <1>2, <1>3, <1>4, <1>5, <1>6, <1>7

\* A non-empty set of natural numbers has a least element.
LEMMA LeastNatural ==
    ASSUME NEW T \in SUBSET Nat, T # {}
    PROVE  \E x \in T : \A y \in T : x <= y
<1>1. PICK x \in T : \A y \in T : ~(<<y, x>> \in OpToRel(<, Nat))
  BY NatLessThanWellFounded, WFMin
<1>2. \A y \in T : ~(y < x)
  BY <1>1 DEF OpToRel
<1> QED BY <1>2

\* kqueue_remove unlinks its node and no other.
LEMMA UnlinkProperties ==
    ASSUME NEW S, NEW q \in Seq(S), NEW n
    PROVE  /\ Unlink(q, n) \in Seq(S)
           /\ \A x : Contains(Unlink(q, n), x) => Contains(q, x)
           /\ \A x : Contains(q, x) /\ x # n => Contains(Unlink(q, n), x)
           /\ IsInjective(q) => IsInjective(Unlink(q, n)) /\ ~Contains(Unlink(q, n), n)
<1>1. CASE ~\E i \in 1 .. Len(q) : q[i] = n
  <2>1. Unlink(q, n) = q
    BY <1>1 DEF Unlink, RemoveFirst
  <2> QED BY <2>1, <1>1 DEF Contains
<1>2. CASE \E i \in 1 .. Len(q) : q[i] = n
  <2> DEFINE I == {i \in 1 .. Len(q) : q[i] = n}
             m == CHOOSE x \in I : \A y \in I : x <= y
  <2>1. I # {} /\ I \in SUBSET Nat
    BY <1>2
  <2>2. m \in I
    BY <2>1, LeastNatural
  <2>3. Unlink(q, n) = RemoveAt(q, m)
    BY <1>2 DEF Unlink, RemoveFirst, SelectInSeq, Min
  <2>4. m \in 1 .. Len(q) /\ q[m] = n
    BY <2>2
  <2> HIDE DEF m
  <2> QED BY <2>3, <2>4, RemoveAtQueue
<1> QED BY <1>1, <1>2

\* The number of leading nodes counted by an election or an insertion.
LEMMA CountInQueue ==
    ASSUME NEW n \in Nat, NEW I \in SUBSET (1 .. n)
    PROVE  /\ IsFiniteSet(I)
           /\ Cardinality(I) \in 0 .. n
<1>1. IsFiniteSet(1 .. n) /\ Cardinality(1 .. n) = n
  BY FS_Interval
<1>2. IsFiniteSet(I) /\ Cardinality(I) <= n
  BY <1>1, FS_Subset
<1>3. Cardinality(I) \in Nat
  BY <1>2, FS_CardinalityType
<1> QED BY <1>2, <1>3

\* kqueue_push_prio adds its node and duplicates nothing.
LEMMA PushPrioProperties ==
    ASSUME NEW S, NEW q \in Seq(S), NEW n \in S, NEW key
    PROVE  /\ PushPrio(q, n, key) \in Seq(S)
           /\ \A x : Contains(PushPrio(q, n, key), x) <=> x = n \/ Contains(q, x)
           /\ IsInjective(q) /\ ~Contains(q, n) => IsInjective(PushPrio(q, n, key))
<1>1. NbGreater(q, key, key[n]) \in 0 .. Len(q)
  <2> DEFINE I == {i \in 1 .. Len(q) : \A j \in 1 .. i : key[q[j]] > key[n]}
  <2>1. Len(q) \in Nat /\ I \in SUBSET (1 .. Len(q))
    OBVIOUS
  <2> HIDE DEF I
  <2>2. Cardinality(I) \in 0 .. Len(q)
    BY <2>1, CountInQueue
  <2> QED BY <2>2 DEF NbGreater, I
<1>2. NbGreater(q, key, key[n]) + 1 \in 1 .. Len(q) + 1
  BY <1>1
<1> QED BY <1>2, InsertAtQueue DEF PushPrio

\* Counting from the front numbers the positions of a set one by one.
LEMMA RankOnto ==
    ASSUME NEW n \in Nat, NEW K \in SUBSET (1 .. n), NEW rank,
           rank = [i \in K |-> Cardinality({j \in K : j <= i})]
    PROVE  rank \in Bijection(K, 1 .. Cardinality(K))
<1> DEFINE upTo(i) == {j \in K : j <= i}
<1>1. IsFiniteSet(K) /\ Cardinality(K) \in Nat BY CountInQueue
<1>2. ASSUME NEW i \in K
      PROVE  /\ IsFiniteSet(upTo(i)) /\ Cardinality(upTo(i)) \in 1 .. Cardinality(K)
  <2>1. upTo(i) \in SUBSET K /\ upTo(i) # {} BY <1>2
  <2>2. IsFiniteSet(upTo(i)) /\ Cardinality(upTo(i)) <= Cardinality(K) BY <1>1, <2>1, FS_Subset
  <2>3. Cardinality(upTo(i)) \in Nat /\ Cardinality(upTo(i)) # 0
    BY <2>1, <2>2, FS_CardinalityType, FS_EmptySet
  <2> HIDE DEF upTo
  <2> QED BY <1>1, <2>2, <2>3
<1>3. ASSUME NEW i \in K, NEW j \in K, i < j
      PROVE  Cardinality(upTo(i)) < Cardinality(upTo(j))
  <2>1. upTo(i) \in SUBSET upTo(j) /\ j \in upTo(j) /\ j \notin upTo(i)
    <3>1. \A k \in K : k \in Int OBVIOUS
    <3>2. \A k \in K : k <= i => k <= j BY <1>3, <3>1
    <3>3. ~(j <= i) /\ j <= j BY <1>3, <3>1
    <3> QED BY <3>2, <3>3
  <2>2. Cardinality(upTo(i)) <= Cardinality(upTo(j))
        /\ Cardinality(upTo(i)) # Cardinality(upTo(j))
    <3> HIDE DEF upTo
    <3> QED BY <1>2, <2>1, FS_Subset
  <2>3. Cardinality(upTo(i)) \in Nat /\ Cardinality(upTo(j)) \in Nat
    <3> HIDE DEF upTo
    <3> QED BY <1>2, <1>1
  <2> HIDE DEF upTo
  <2> QED BY <2>2, <2>3
<1>4. \A i, j \in K : i # j => Cardinality(upTo(i)) # Cardinality(upTo(j))
  <2> SUFFICES ASSUME NEW i \in K, NEW j \in K, i # j
               PROVE  Cardinality(upTo(i)) # Cardinality(upTo(j))
    OBVIOUS
  <2>1. i < j \/ j < i OBVIOUS
  <2>2. Cardinality(upTo(i)) \in Nat /\ Cardinality(upTo(j)) \in Nat
    <3> HIDE DEF upTo
    <3> QED BY <1>1, <1>2
  <2> HIDE DEF upTo
  <2> QED BY <1>3, <2>1, <2>2
<1>5. rank \in Injection(K, 1 .. Cardinality(K))
  <2>1. \A i \in K : rank[i] = Cardinality(upTo(i)) OBVIOUS
  <2>2. rank \in [K -> 1 .. Cardinality(K)]
    <3>1. rank = [i \in K |-> Cardinality(upTo(i))] OBVIOUS
    <3> HIDE DEF upTo
    <3> QED BY <1>2, <3>1
  <2>3. DOMAIN rank = K BY <2>2
  <2>4. \A i, j \in K : rank[i] = rank[j] => i = j
    <3> HIDE DEF upTo
    <3> QED BY <1>4, <2>1
  <2> QED BY <2>2, <2>3, <2>4 DEF Injection, IsInjective
<1>6. IsFiniteSet(1 .. Cardinality(K)) /\ Cardinality(1 .. Cardinality(K)) = Cardinality(K)
  BY <1>1, FS_Interval
<1>7. rank \in Surjection(K, 1 .. Cardinality(K))
  BY <1>5, <1>6, FS_Injection
<1> QED BY <1>5, <1>7 DEF Bijection

\* A walk over a queue finds the nodes it looks for and no others, each as often as
\* it is in the queue.
LEMMA KeepProperties ==
    ASSUME NEW S, NEW q \in Seq(S), NEW T
    PROVE  /\ Keep(q, T) \in Seq(S)
           /\ \A x : Contains(Keep(q, T), x) <=> Contains(q, x) /\ x \in T
           /\ IsInjective(q) => IsInjective(Keep(q, T))
<1> DEFINE K == {i \in 1 .. Len(q) : q[i] \in T}
           rank == [i \in K |-> Cardinality({j \in K : j <= i})]
           m == Cardinality(K)
           at(k) == CHOOSE i \in K : rank[i] = k
           r == [k \in 1 .. m |-> q[at(k)]]
<1>1. Keep(q, T) = r BY DEF Keep
<1>2. Len(q) \in Nat /\ K \in SUBSET (1 .. Len(q)) OBVIOUS
<1>3. rank \in Bijection(K, 1 .. m) /\ m \in Nat
  <2>1. rank = [i \in K |-> Cardinality({j \in K : j <= i})] OBVIOUS
  <2> HIDE DEF K, rank
  <2>2. rank \in Bijection(K, 1 .. Cardinality(K)) BY <1>2, <2>1, RankOnto
  <2>3. Cardinality(K) \in Nat BY <1>2, CountInQueue
  <2> QED BY <2>2, <2>3
<1>4. /\ \A i \in K : rank[i] \in 1 .. m
      /\ \A i, j \in K : rank[i] = rank[j] => i = j
      /\ \A k \in 1 .. m : \E i \in K : rank[i] = k
  <2> HIDE DEF K, rank, m
  <2> QED BY <1>3 DEF Bijection, Injection, Surjection, IsInjective
<1>5. \A k \in 1 .. m : at(k) \in K /\ rank[at(k)] = k
  <2> HIDE DEF K, rank, m
  <2> QED BY <1>4
<1>6. \A i \in K : rank[i] \in 1 .. m /\ at(rank[i]) = i
  <2> HIDE DEF K, rank, m
  <2> QED BY <1>4, <1>5
<1>7. \A i \in K : i \in 1 .. Len(q) /\ q[i] \in T /\ q[i] \in S OBVIOUS
<1>8. \A i \in 1 .. Len(q) : q[i] \in T => i \in K OBVIOUS
<1> HIDE DEF K, rank, m, at
<1>9. r \in Seq(S) /\ Len(r) = m /\ \A k \in 1 .. m : r[k] = q[at(k)]
  BY <1>3, <1>5, <1>7
<1> HIDE DEF r
<1>10. ASSUME NEW x PROVE Contains(r, x) <=> Contains(q, x) /\ x \in T
  <2>1. ASSUME Contains(r, x) PROVE Contains(q, x) /\ x \in T
    BY <2>1, <1>5, <1>7, <1>9 DEF Contains
  <2>2. ASSUME Contains(q, x), x \in T PROVE Contains(r, x)
    BY <2>2, <1>6, <1>8, <1>9 DEF Contains
  <2> QED BY <2>1, <2>2
<1>11. ASSUME IsInjective(q) PROVE IsInjective(r)
  <2>1. DOMAIN r = 1 .. m /\ DOMAIN q = 1 .. Len(q) BY <1>9, <1>3
  <2>2. \A k, l \in 1 .. m : r[k] = r[l] => k = l
    BY <1>5, <1>7, <1>9, <1>11, <2>1 DEF IsInjective
  <2> QED BY <2>1, <2>2 DEF IsInjective
<1> QED BY <1>1, <1>9, <1>10, <1>11

\* The first of the nodes a walk finds: what a wake of one thread takes.
FirstOf(q) == {q[i] : i \in DOMAIN q \cap 1 .. 1}

\* There is one when the walk finds any.
LEMMA FirstKept ==
    ASSUME NEW S, NEW q \in Seq(S), NEW T, NEW y \in T, Contains(q, y),
           NEW kept, kept = Keep(q, T)
    PROVE  \E u \in S : Contains(q, u) /\ FirstOf(kept) = {u}
<1>1. /\ kept \in Seq(S) /\ Contains(kept, y)
      /\ \A x : Contains(kept, x) => Contains(q, x)
  BY KeepProperties
<1>2. Len(kept) \in Nat /\ Len(kept) >= 1 /\ DOMAIN kept = 1 .. Len(kept)
  BY <1>1 DEF Contains
<1>3. FirstOf(kept) = {kept[1]} BY <1>2 DEF FirstOf
<1>4. kept[1] \in S /\ Contains(kept, kept[1]) BY <1>1, <1>2 DEF Contains
<1> QED BY <1>1, <1>3, <1>4

\* A queue is empty when it has no nodes.
LEMMA EmptyQueue ==
    ASSUME NEW S, NEW q \in Seq(S)
    PROVE  q = <<>> <=> \A x \in S : ~Contains(q, x)
<1>1. Len(q) \in Nat /\ (q = <<>> <=> Len(q) = 0) OBVIOUS
<1>2. Len(q) > 0 => q[1] \in S /\ Contains(q, q[1]) BY <1>1 DEF Contains
<1>3. Len(q) = 0 => \A x \in S : ~Contains(q, x) BY DEF Contains
<1> QED BY <1>1, <1>2, <1>3

\* What is left of a queue without its head.
LEMMA TailQueue ==
    ASSUME NEW S, NEW q \in Seq(S), q # <<>>
    PROVE  /\ Head(q) \in S /\ Contains(q, Head(q)) /\ Tail(q) \in Seq(S)
           /\ \A x : Contains(Tail(q), x) => Contains(q, x)
           /\ IsInjective(q) =>
                /\ IsInjective(Tail(q))
                /\ \A x : Contains(Tail(q), x) <=> (x # Head(q) /\ Contains(q, x))
<1> DEFINE r == Tail(q)
<1>1. /\ r \in Seq(S) /\ Len(q) \in Nat /\ Len(q) >= 1 /\ Len(r) = Len(q) - 1
      /\ \A i \in 1 .. Len(r) : r[i] = q[i + 1]
      /\ Head(q) = q[1] /\ q[1] \in S
      /\ DOMAIN r = 1 .. Len(r) /\ DOMAIN q = 1 .. Len(q)
  OBVIOUS
<1> HIDE DEF r
<1>2. Contains(q, Head(q)) BY <1>1 DEF Contains
<1>3. ASSUME NEW x, Contains(r, x) PROVE \E i \in 2 .. Len(q) : q[i] = x
  <2>1. PICK i \in 1 .. Len(r) : r[i] = x BY <1>3 DEF Contains
  <2>2. i + 1 \in 2 .. Len(q) /\ q[i + 1] = x BY <1>1, <2>1
  <2> QED BY <2>2
<1>4. ASSUME NEW i \in 2 .. Len(q) PROVE Contains(r, q[i])
  <2>1. i - 1 \in 1 .. Len(r) /\ (i - 1) + 1 = i BY <1>1
  <2>2. r[i - 1] = q[i] BY <1>1, <2>1
  <2> QED BY <2>1, <2>2 DEF Contains
<1>5. \A x : Contains(r, x) => Contains(q, x) BY <1>1, <1>3 DEF Contains
<1>6. ASSUME IsInjective(q) PROVE IsInjective(r)
  <2> SUFFICES ASSUME NEW a \in 1 .. Len(r), NEW b \in 1 .. Len(r), r[a] = r[b] PROVE a = b
    BY <1>1 DEF IsInjective
  <2>1. q[a + 1] = q[b + 1] /\ a + 1 \in 1 .. Len(q) /\ b + 1 \in 1 .. Len(q) BY <1>1
  <2>2. a + 1 = b + 1 BY <1>1, <1>6, <2>1 DEF IsInjective
  <2> QED BY <2>2
<1>7. ASSUME IsInjective(q), NEW x PROVE Contains(r, x) <=> (x # Head(q) /\ Contains(q, x))
  <2>1. Contains(r, x) => x # Head(q) BY <1>1, <1>3, <1>7 DEF IsInjective
  <2>2. x # Head(q) /\ Contains(q, x) => Contains(r, x)
    <3> SUFFICES ASSUME x # Head(q), NEW i \in 1 .. Len(q), q[i] = x PROVE Contains(r, x)
      BY DEF Contains
    <3>1. i \in 2 .. Len(q) BY <1>1
    <3> QED BY <1>4, <3>1
  <2> QED BY <1>5, <2>1, <2>2
<1> QED BY <1>1, <1>2, <1>5, <1>6, <1>7 DEF r

\* Where the elements of a concatenation come from.
LEMMA ConcatEffect ==
    ASSUME NEW S, NEW a \in Seq(S), NEW b \in Seq(S), NEW m, NEW n, m = Len(a), n = Len(b),
           NEW r, r = a \o b
    PROVE  /\ r \in Seq(S) /\ Len(r) = m + n
           /\ \A j \in 1 .. m : r[j] = a[j]
           /\ \A j \in m + 1 .. m + n : r[j] = b[j - m]
OBVIOUS

\* What InsertAt makes of a sequence.
LEMMA InsertEffect ==
    ASSUME NEW S, NEW l \in Seq(S), NEW i \in 1 .. Len(l) + 1, NEW x \in S,
           NEW r, r = InsertAt(l, i, x)
    PROVE  /\ r \in Seq(S) /\ Len(r) = Len(l) + 1 /\ r[i] = x
           /\ \A j \in 1 .. i - 1 : r[j] = l[j]
           /\ \A j \in i .. Len(l) : r[j + 1] = l[j]
<1> DEFINE a == SubSeq(l, 1, i - 1)
           b == SubSeq(l, i, Len(l))
<1>1. /\ a \in Seq(S) /\ Len(a) = i - 1 /\ \A j \in 1 .. i - 1 : a[j] = l[j]
      /\ b \in Seq(S) /\ Len(b) = Len(l) - i + 1 /\ \A j \in 1 .. Len(l) - i + 1 : b[j] = l[i + j - 1]
  OBVIOUS
<1> HIDE DEF a, b
<1>2. PICK c : c = a \o <<x>> OBVIOUS
<1>3. c \in Seq(S) /\ Len(c) = i /\ c[i] = x /\ \A j \in 1 .. i - 1 : c[j] = l[j] BY <1>1, <1>2
<1>4. r = c \o b BY <1>2 DEF InsertAt, a, b
<1>5. /\ r \in Seq(S) /\ Len(r) = i + (Len(l) - i + 1)
      /\ \A j \in 1 .. i : r[j] = c[j]
      /\ \A j \in i + 1 .. i + (Len(l) - i + 1) : r[j] = b[j - i]
  BY ONLY <1>1, <1>3, <1>4, ConcatEffect
<1>6. ASSUME NEW j \in i .. Len(l) PROVE r[j + 1] = l[j]
  <2>1. PICK k \in 1 .. Len(l) - i + 1 : k = j + 1 - i OBVIOUS
  <2>2. j + 1 \in i + 1 .. i + (Len(l) - i + 1) /\ (j + 1) - i = k /\ i + k - 1 = j BY <2>1
  <2>3. r[j + 1] = b[(j + 1) - i] BY <1>5, <2>2
  <2>4. b[k] = l[i + k - 1] BY <1>1
  <2> QED BY <2>2, <2>3, <2>4
<1> QED BY <1>3, <1>5, <1>6

\* What RemoveAt makes of a sequence.
LEMMA RemoveEffect ==
    ASSUME NEW S, NEW l \in Seq(S), NEW i \in 1 .. Len(l), NEW r, r = RemoveAt(l, i)
    PROVE  /\ r \in Seq(S) /\ Len(r) = Len(l) - 1
           /\ \A j \in 1 .. i - 1 : r[j] = l[j]
           /\ \A j \in i .. Len(l) - 1 : r[j] = l[j + 1]
<1> DEFINE a == SubSeq(l, 1, i - 1)
           b == SubSeq(l, i + 1, Len(l))
<1>1. PICK m, n : m = i - 1 /\ n = Len(l) - i OBVIOUS
<1>2. /\ a \in Seq(S) /\ Len(a) = m /\ \A j \in 1 .. m : a[j] = l[j]
      /\ b \in Seq(S) /\ Len(b) = n /\ \A j \in 1 .. n : b[j] = l[i + j]
  BY <1>1
<1>3. r = a \o b BY DEF RemoveAt
<1> HIDE DEF a, b
<1>4. /\ r \in Seq(S) /\ Len(r) = m + n
      /\ \A j \in 1 .. m : r[j] = a[j]
      /\ \A j \in m + 1 .. m + n : r[j] = b[j - m]
  <2>1. a \in Seq(S) /\ b \in Seq(S) /\ m = Len(a) /\ n = Len(b) BY <1>2
  <2> QED BY ONLY <2>1, <1>3, ConcatEffect
<1>5. ASSUME NEW j \in i .. Len(l) - 1 PROVE r[j] = l[j + 1]
  <2>1. PICK k \in 1 .. n : k = j - m BY <1>1
  <2>2. j \in m + 1 .. m + n /\ j - m = k /\ i + k = j + 1 BY <1>1, <2>1
  <2>3. r[j] = b[j - m] BY <1>4, <2>2
  <2>4. b[k] = l[i + k] BY <1>2
  <2> QED BY <2>2, <2>3, <2>4
<1> QED BY <1>1, <1>2, <1>4, <1>5

================================================================================
