------------------------------ MODULE DataProofs ------------------------------
(***************************************************************************)
(* The data structures that the rest of the kernel is built on.            *)
(*                                                                         *)
(* The doubly linked lists of core/src/kqueue.c are sequences: whatever    *)
(* nodes and queues are allocated, linked, unlinked and freed, the two     *)
(* directions of every list agree, the field enlisted tells the truth, and *)
(* each operation does to the list what KQueueSpec says it does.           *)
(*                                                                         *)
(* The heap stays sound after every sequence of requests and releases, for *)
(* every size of the heap, width of its integers and set of requests.      *)
(***************************************************************************)
EXTENDS KQueue, Heap, KQueueSeqProofs

--------------------------------------------------------------------------------
(***************************************************************************)
(* The kernel queues.                                                      *)
(***************************************************************************)

\* The node at a place of the list s, Null in front of its head and behind its tail.
Nth(s, i) == IF i \in 1 .. Len(s) THEN s[i] ELSE Null

\* The list s is what the links nx and pv make of the ends h and t.
Linked(s, h, t, nx, pv) ==
    /\ s \in Seq(Node) /\ IsInjective(s)
    /\ h = Nth(s, 1) /\ t = Nth(s, Len(s))
    /\ \A i \in 1 .. Len(s) : nx[s[i]] = Nth(s, i + 1) /\ pv[s[i]] = Nth(s, i - 1)

\* A list is what a walk from its head meets.
LEMMA ChainFound ==
    ASSUME NEW s, NEW h, NEW t, NEW nx, NEW pv, Linked(s, h, t, nx, pv)
    PROVE  Chain(h, nx) = s
<1> DEFINE n == Cardinality(Node)
           f == Steps(h, nx)
           Walks(g) == g = [i \in 1 .. n |->
                              IF i = 1 THEN h
                              ELSE IF g[i - 1] = Null THEN Null ELSE nx[g[i - 1]]]
           g == [i \in 1 .. n |-> Nth(s, i)]
<1>1. /\ s \in Seq(Node) /\ Len(s) \in Nat /\ DOMAIN s = 1 .. Len(s)
      /\ \A i \in 1 .. Len(s) : s[i] \in Node /\ s[i] # Null
  BY ConstantsAssumption DEF Linked
<1>2. n \in Nat /\ Len(s) <= n
  <2>1. IsFiniteSet(Node) BY ConstantsAssumption
  <2>2. s \in Injection(1 .. Len(s), Node)
    <3>1. s \in [1 .. Len(s) -> Node] BY <1>1
    <3>2. \A i, j \in 1 .. Len(s) : s[i] = s[j] => i = j BY <1>1 DEF Linked, IsInjective
    <3> QED BY <3>1, <3>2 DEF Injection, IsInjective
  <2>3. Cardinality(1 .. Len(s)) <= n BY <2>1, <2>2, FS_Injection
  <2>4. Cardinality(1 .. Len(s)) = Len(s) BY <1>1, FS_Interval
  <2> QED BY <2>1, <2>3, <2>4, FS_CardinalityType
<1> HIDE DEF n
<1>3. \A i \in 1 .. n : g[i] = Nth(s, i) OBVIOUS
<1>4. h = Nth(s, 1) /\ \A i \in 1 .. Len(s) : nx[s[i]] = Nth(s, i + 1) BY DEF Linked
<1>5. ASSUME NEW i \in 2 .. n
      PROVE  Nth(s, i) = IF Nth(s, i - 1) = Null THEN Null ELSE nx[Nth(s, i - 1)]
  <2>1. i - 1 \in 1 .. n /\ (i - 1) + 1 = i BY <1>2
  <2>2. CASE i - 1 \in 1 .. Len(s) BY <1>1, <1>4, <2>1, <2>2 DEF Nth
  <2>3. CASE i - 1 \notin 1 .. Len(s)
    <3>1. i \notin 1 .. Len(s) BY <1>1, <2>1, <2>3
    <3> QED BY <2>3, <3>1 DEF Nth
  <2> QED BY <2>2, <2>3
<1>6. Walks(g)
  <2>1. \A i \in 1 .. n :
           Nth(s, i) = IF i = 1 THEN h
                       ELSE IF g[i - 1] = Null THEN Null ELSE nx[g[i - 1]]
    <3> SUFFICES ASSUME NEW i \in 1 .. n
                 PROVE  Nth(s, i) = IF i = 1 THEN h
                                    ELSE IF g[i - 1] = Null THEN Null ELSE nx[g[i - 1]]
      OBVIOUS
    <3>1. CASE i = 1 BY <1>4, <3>1
    <3>2. CASE i # 1
      <4>1. i \in 2 .. n /\ i - 1 \in 1 .. n BY <1>2, <3>2
      <4> HIDE DEF g
      <4> QED BY <1>3, <1>5, <3>2, <4>1
    <3> QED BY <3>1, <3>2
  <2> QED BY <2>1
<1>7. Walks(f)
  <2> HIDE DEF g
  <2>1. f = CHOOSE e : Walks(e) BY DEF Steps, n
  <2> HIDE DEF f, Walks
  <2> QED BY <1>6, <2>1
<1>8. \A i \in 1 .. n : f[i] = IF i = 1 THEN h
                               ELSE IF f[i - 1] = Null THEN Null ELSE nx[f[i - 1]]
  <2> HIDE DEF f
  <2> QED BY <1>7
<1> HIDE DEF f, g
<1>9. \A i \in 1 .. n : f[i] = Nth(s, i)
  <2> DEFINE bad == {i \in 1 .. n : f[i] # Nth(s, i)}
  <2> SUFFICES ASSUME bad # {} PROVE FALSE OBVIOUS
  <2>1. bad \in SUBSET Nat OBVIOUS
  <2>2. PICK i \in bad : \A j \in bad : i <= j
    <3> HIDE DEF bad
    <3> QED BY <2>1, LeastNatural
  <2>3. i \in 1 .. n /\ f[i] # Nth(s, i) OBVIOUS
  <2>4. i # 1 BY <1>4, <1>8, <2>3
  <2>5. i \in 2 .. n /\ i - 1 \in 1 .. n /\ ~(i <= i - 1) BY <1>2, <2>3, <2>4
  <2>6. f[i - 1] = Nth(s, i - 1) BY <2>2, <2>5
  <2> QED BY <1>5, <1>8, <2>3, <2>4, <2>5, <2>6
<1>10. {i \in 1 .. n : f[i] # Null} = 1 .. Len(s)
  <2>1. \A i \in 1 .. Len(s) : i \in 1 .. n /\ Nth(s, i) # Null BY <1>1, <1>2 DEF Nth
  <2>2. \A i \in 1 .. n : Nth(s, i) # Null => i \in 1 .. Len(s) BY DEF Nth
  <2> QED BY <1>9, <2>1, <2>2
<1>11. Cardinality(1 .. Len(s)) = Len(s) BY <1>1, FS_Interval
<1>12. Chain(h, nx) = [i \in 1 .. Len(s) |-> f[i]] BY <1>10, <1>11 DEF Chain, f, n
<1>13. \A i \in 1 .. Len(s) : f[i] = s[i] BY <1>1, <1>2, <1>9 DEF Nth
<1> QED BY <1>1, <1>12, <1>13

\* Seen from its tail a list is linked backwards.
LEMMA LinkedBackwards ==
    ASSUME NEW s, NEW h, NEW t, NEW nx, NEW pv, Linked(s, h, t, nx, pv)
    PROVE  Linked(Reverse(s), t, h, pv, nx)
<1> DEFINE r == Reverse(s)
           m == Len(s)
<1>1. /\ s \in Seq(Node) /\ m \in Nat /\ DOMAIN s = 1 .. m /\ IsInjective(s)
      /\ h = Nth(s, 1) /\ t = Nth(s, m)
      /\ \A i \in 1 .. m : nx[s[i]] = Nth(s, i + 1) /\ pv[s[i]] = Nth(s, i - 1)
  BY DEF Linked
<1>2. \A i \in 1 .. m : (m - i) + 1 \in 1 .. m /\ s[(m - i) + 1] \in Node BY <1>1
<1>3. r \in Seq(Node) /\ Len(r) = m /\ \A i \in 1 .. m : r[i] = s[(m - i) + 1]
  BY <1>1, <1>2 DEF Reverse
<1>4. DOMAIN r = 1 .. m BY <1>3
<1> HIDE DEF r, m
<1>5. \A i \in 0 .. m + 1 : Nth(r, i) = Nth(s, (m - i) + 1)
  <2> TAKE i \in 0 .. m + 1
  <2>1. CASE i \in 1 .. m BY <1>2, <1>3, <2>1 DEF Nth, m
  <2>2. CASE i \notin 1 .. m
    <3>1. (m - i) + 1 \notin 1 .. m BY <1>1, <2>2
    <3> QED BY <1>3, <2>2, <3>1 DEF Nth, m
  <2> QED BY <2>1, <2>2
<1>6. IsInjective(r)
  <2> SUFFICES ASSUME NEW i \in 1 .. m, NEW j \in 1 .. m, r[i] = r[j] PROVE i = j
    BY <1>4 DEF IsInjective
  <2>1. (m - i) + 1 = (m - j) + 1 BY <1>1, <1>2, <1>3 DEF IsInjective
  <2> QED BY <1>1, <2>1
<1>7. t = Nth(r, 1) /\ h = Nth(r, m)
  <2>1. 1 \in 0 .. m + 1 /\ m \in 0 .. m + 1 /\ (m - 1) + 1 = m /\ (m - m) + 1 = 1 BY <1>1
  <2> QED BY <1>1, <1>5, <2>1
<1>8. ASSUME NEW i \in 1 .. m PROVE pv[r[i]] = Nth(r, i + 1) /\ nx[r[i]] = Nth(r, i - 1)
  <2>1. PICK j : j = (m - i) + 1 OBVIOUS
  <2>2. /\ j \in 1 .. m /\ i + 1 \in 0 .. m + 1 /\ i - 1 \in 0 .. m + 1
        /\ (m - (i + 1)) + 1 = j - 1 /\ (m - (i - 1)) + 1 = j + 1
    BY <1>1, <2>1
  <2>3. Nth(r, i + 1) = Nth(s, j - 1) /\ Nth(r, i - 1) = Nth(s, j + 1) BY <1>5, <2>2
  <2>4. r[i] = s[j] BY <1>3, <2>1
  <2> QED BY <1>1, <2>2, <2>3, <2>4
<1> QED BY <1>3, <1>6, <1>7, <1>8 DEF Linked, r

--------------------------------------------------------------------------------
\* The node n is linked between p and c, of which one or both may be Null.
Inserted(n, p, c, nx, nx2, pv, pv2) ==
    \A m \in Node :
        /\ nx2[m] = IF m = n THEN c ELSE IF m = p THEN n ELSE nx[m]
        /\ pv2[m] = IF m = n THEN p ELSE IF m = c THEN n ELSE pv[m]

\* The node n is unlinked from between p and c.
Removed(n, p, c, nx, nx2, pv, pv2) ==
    \A m \in Node :
        /\ nx2[m] = IF m = n THEN Null ELSE IF m = p THEN c ELSE nx[m]
        /\ pv2[m] = IF m = n THEN Null ELSE IF m = c THEN p ELSE pv[m]

\* Inserting a node into a list.
LEMMA InsertLinked ==
    ASSUME NEW s, NEW h, NEW t, NEW nx, NEW pv, Linked(s, h, t, nx, pv),
           NEW n \in Node, ~Contains(s, n), NEW k \in 1 .. Len(s) + 1,
           NEW p, p = Nth(s, k - 1), NEW c, c = Nth(s, k),
           NEW nx2, NEW pv2, Inserted(n, p, c, nx, nx2, pv, pv2),
           NEW r, r = InsertAt(s, k, n)
    PROVE  Linked(r, IF p = Null THEN n ELSE h, IF c = Null THEN n ELSE t, nx2, pv2)
<1>1. /\ s \in Seq(Node) /\ Len(s) \in Nat /\ DOMAIN s = 1 .. Len(s) /\ IsInjective(s)
      /\ h = Nth(s, 1) /\ t = Nth(s, Len(s)) /\ n # Null
      /\ \A i \in 1 .. Len(s) : nx[s[i]] = Nth(s, i + 1) /\ pv[s[i]] = Nth(s, i - 1)
  BY ConstantsAssumption DEF Linked
<1>2. \A i \in 1 .. Len(s) : s[i] \in Node /\ s[i] # Null /\ s[i] # n
  BY <1>1, ConstantsAssumption DEF Contains
<1>3. PICK m : m = Len(s) OBVIOUS
<1>4. k \in 1 .. m + 1 /\ m \in Nat BY <1>1, <1>3
<1>5. /\ r \in Seq(Node) /\ Len(r) = m + 1 /\ r[k] = n
      /\ \A j \in 1 .. k - 1 : r[j] = s[j]
      /\ \A j \in k .. m : r[j + 1] = s[j]
  BY <1>1, <1>3, InsertEffect
<1>6. \A j \in k + 1 .. m + 1 : r[j] = s[j - 1]
  <2> TAKE j \in k + 1 .. m + 1
  <2>1. j - 1 \in k .. m /\ (j - 1) + 1 = j BY <1>4
  <2> QED BY <1>5, <2>1
<1>7. IsInjective(r) BY <1>1, InsertAtQueue
<1>8. /\ \A j \in 0 .. k - 1 : Nth(r, j) = Nth(s, j)
      /\ Nth(r, k) = n
      /\ \A j \in k + 1 .. m + 2 : Nth(r, j) = Nth(s, j - 1)
  <2>1. ASSUME NEW j \in 0 .. k - 1 PROVE Nth(r, j) = Nth(s, j)
    <3>1. j = 0 \/ j \in 1 .. k - 1 BY <1>4
    <3>2. 0 \notin 1 .. m /\ 0 \notin 1 .. m + 1 OBVIOUS
    <3>3. j \in 1 .. k - 1 => j \in 1 .. m /\ j \in 1 .. m + 1 BY <1>4
    <3> QED BY <1>3, <1>5, <3>1, <3>2, <3>3 DEF Nth
  <2>2. Nth(r, k) = n BY <1>4, <1>5 DEF Nth
  <2>3. ASSUME NEW j \in k + 1 .. m + 2 PROVE Nth(r, j) = Nth(s, j - 1)
    <3>1. CASE j = m + 2
      <4>1. j \notin 1 .. m + 1 /\ j - 1 \notin 1 .. m BY <1>4, <3>1
      <4> QED BY <1>3, <1>5, <4>1 DEF Nth
    <3>2. CASE j # m + 2
      <4>1. j \in k + 1 .. m + 1 /\ j \in 1 .. m + 1 /\ j - 1 \in 1 .. m BY <1>4, <3>2
      <4> QED BY <1>3, <1>5, <1>6, <4>1 DEF Nth
    <3> QED BY <3>1, <3>2
  <2> QED BY <2>1, <2>2, <2>3
<1>9. /\ p = Null <=> k = 1
      /\ c = Null <=> k = m + 1
  <2>1. k - 1 \in 1 .. m <=> k # 1 BY <1>4
  <2>2. k \in 1 .. m <=> k # m + 1 BY <1>4
  <2> QED BY <1>2, <1>3, <2>1, <2>2 DEF Nth
<1>10. Nth(r, 1) = IF p = Null THEN n ELSE h
  <2>1. CASE k = 1 BY <1>8, <1>9, <2>1
  <2>2. CASE k # 1
    <3>1. 1 \in 0 .. k - 1 BY <1>4, <2>2
    <3> QED BY <1>1, <1>8, <1>9, <2>2, <3>1
  <2> QED BY <2>1, <2>2
<1>11. Nth(r, m + 1) = IF c = Null THEN n ELSE t
  <2>1. CASE k = m + 1 BY <1>8, <1>9, <2>1
  <2>2. CASE k # m + 1
    <3>1. m + 1 \in k + 1 .. m + 2 /\ (m + 1) - 1 = m BY <1>4, <2>2
    <3> QED BY <1>1, <1>3, <1>8, <1>9, <2>2, <3>1
  <2> QED BY <2>1, <2>2
<1>12. \A i \in 1 .. m : (s[i] = p <=> i = k - 1) /\ (s[i] = c <=> i = k)
  <2> TAKE i \in 1 .. m
  <2>1. \A j : j \in 1 .. m /\ s[i] = s[j] => i = j BY <1>1, <1>3 DEF IsInjective
  <2>2. s[i] # Null BY <1>2, <1>3
  <2> QED BY <1>3, <2>1, <2>2 DEF Nth
<1>13. ASSUME NEW i \in 1 .. m + 1
       PROVE  nx2[r[i]] = Nth(r, i + 1) /\ pv2[r[i]] = Nth(r, i - 1)
  <2>1. CASE i = k
    <3>1. nx2[n] = c /\ pv2[n] = p BY DEF Inserted
    <3>2. k + 1 \in k + 1 .. m + 2 /\ k - 1 \in 0 .. k - 1 /\ (k + 1) - 1 = k BY <1>4
    <3> QED BY <1>5, <1>8, <2>1, <3>1, <3>2
  <2>2. CASE i < k
    <3>1. i \in 1 .. k - 1 /\ i \in 1 .. m /\ i # k /\ i - 1 \in 0 .. k - 1 BY <1>4, <2>2
    <3>2. r[i] = s[i] /\ s[i] \in Node /\ s[i] # n /\ s[i] # c BY <1>2, <1>3, <1>5, <1>12, <3>1
    <3>3. pv2[s[i]] = pv[s[i]] BY <3>2 DEF Inserted
    <3>4. pv2[r[i]] = Nth(r, i - 1) BY <1>1, <1>3, <1>8, <3>1, <3>2, <3>3
    <3>5. CASE i = k - 1
      <4>1. nx2[s[i]] = n BY <1>12, <3>1, <3>2, <3>5 DEF Inserted
      <4>2. i + 1 = k BY <1>4, <3>5
      <4> QED BY <1>8, <3>2, <3>4, <4>1, <4>2
    <3>6. CASE i # k - 1
      <4>1. nx2[s[i]] = nx[s[i]] BY <1>12, <3>1, <3>2, <3>6 DEF Inserted
      <4>2. i + 1 \in 0 .. k - 1 BY <1>4, <3>1, <3>6
      <4> QED BY <1>1, <1>3, <1>8, <3>1, <3>2, <3>4, <4>1, <4>2
    <3> QED BY <3>5, <3>6
  <2>3. CASE i > k
    <3>1. PICK j : j = i - 1 OBVIOUS
    <3>2. /\ i \in k + 1 .. m + 1 /\ j \in 1 .. m /\ j # k - 1 /\ i + 1 \in k + 1 .. m + 2
          /\ (i + 1) - 1 = j + 1 /\ i = j + 1
      BY <1>4, <2>3, <3>1
    <3>3. r[i] = s[j] /\ s[j] \in Node /\ s[j] # n /\ s[j] # p
      BY <1>2, <1>3, <1>6, <1>12, <3>1, <3>2
    <3>4. nx2[s[j]] = nx[s[j]] BY <3>3 DEF Inserted
    <3>5. Nth(r, i + 1) = Nth(s, j + 1) BY <1>8, <3>2
    <3>6. nx2[r[i]] = Nth(r, i + 1) BY <1>1, <1>3, <3>2, <3>3, <3>4, <3>5
    <3>7. CASE j = k
      <4>1. pv2[s[j]] = n BY <1>12, <3>2, <3>3, <3>7 DEF Inserted
      <4> QED BY <1>8, <3>1, <3>3, <3>6, <3>7, <4>1
    <3>8. CASE j # k
      <4>1. pv2[s[j]] = pv[s[j]] BY <1>12, <3>2, <3>3, <3>8 DEF Inserted
      <4>2. j \in k + 1 .. m + 2 BY <1>4, <2>3, <3>1, <3>2, <3>8
      <4>3. Nth(r, j) = Nth(s, j - 1) BY <1>8, <4>2
      <4> QED BY <1>1, <1>3, <3>1, <3>2, <3>3, <3>6, <4>1, <4>3
    <3> QED BY <3>7, <3>8
  <2> QED BY <1>4, <2>1, <2>2, <2>3
<1> QED BY <1>5, <1>7, <1>10, <1>11, <1>13 DEF Linked

\* Removing a node from a list.
LEMMA RemoveLinked ==
    ASSUME NEW s, NEW h, NEW t, NEW nx, NEW pv, Linked(s, h, t, nx, pv),
           NEW k \in 1 .. Len(s), NEW n, n = s[k],
           NEW p, p = Nth(s, k - 1), NEW c, c = Nth(s, k + 1),
           NEW nx2, NEW pv2, Removed(n, p, c, nx, nx2, pv, pv2),
           NEW r, r = RemoveAt(s, k)
    PROVE  Linked(r, IF p = Null THEN c ELSE h, IF c = Null THEN p ELSE t, nx2, pv2)
<1>1. /\ s \in Seq(Node) /\ Len(s) \in Nat /\ DOMAIN s = 1 .. Len(s) /\ IsInjective(s)
      /\ h = Nth(s, 1) /\ t = Nth(s, Len(s))
      /\ \A i \in 1 .. Len(s) : nx[s[i]] = Nth(s, i + 1) /\ pv[s[i]] = Nth(s, i - 1)
  BY ConstantsAssumption DEF Linked
<1>2. \A i \in 1 .. Len(s) : s[i] \in Node /\ s[i] # Null
  BY <1>1, ConstantsAssumption
<1>3. PICK m : m = Len(s) OBVIOUS
<1>4. k \in 1 .. m /\ m \in Nat BY <1>1, <1>3
<1>5. /\ r \in Seq(Node) /\ Len(r) = m - 1
      /\ \A j \in 1 .. k - 1 : r[j] = s[j]
      /\ \A j \in k .. m - 1 : r[j] = s[j + 1]
  BY <1>1, <1>3, RemoveEffect, ZenonT(40)
<1>6. IsInjective(r) BY <1>1, RemoveAtQueue
<1>7. /\ \A j \in 0 .. k - 1 : Nth(r, j) = Nth(s, j)
      /\ \A j \in k .. m : Nth(r, j) = Nth(s, j + 1)
  <2>1. ASSUME NEW j \in 0 .. k - 1 PROVE Nth(r, j) = Nth(s, j)
    <3>1. j = 0 \/ j \in 1 .. k - 1 BY <1>4
    <3>2. 0 \notin 1 .. m /\ 0 \notin 1 .. m - 1 OBVIOUS
    <3>3. j \in 1 .. k - 1 => j \in 1 .. m /\ j \in 1 .. m - 1 BY <1>4
    <3> QED BY <1>3, <1>5, <3>1, <3>2, <3>3 DEF Nth
  <2>2. ASSUME NEW j \in k .. m PROVE Nth(r, j) = Nth(s, j + 1)
    <3>1. CASE j = m
      <4>1. j \notin 1 .. m - 1 /\ j + 1 \notin 1 .. m BY <1>4, <3>1
      <4> QED BY <1>3, <1>5, <4>1 DEF Nth
    <3>2. CASE j # m
      <4>1. j \in k .. m - 1 /\ j \in 1 .. m - 1 /\ j + 1 \in 1 .. m BY <1>4, <3>2
      <4> QED BY <1>3, <1>5, <4>1 DEF Nth
    <3> QED BY <3>1, <3>2
  <2> QED BY <2>1, <2>2
<1>8. (p = Null <=> k = 1) /\ (c = Null <=> k = m)
  <2>1. k - 1 \in 1 .. m <=> k # 1 BY <1>4
  <2>2. k + 1 \in 1 .. m <=> k # m BY <1>4
  <2> QED BY <1>2, <1>3, <2>1, <2>2 DEF Nth
<1>9. Nth(r, 1) = IF p = Null THEN c ELSE h
  <2>1. CASE k = 1
    <3>1. 1 \in k .. m BY <1>4, <2>1
    <3> QED BY <1>7, <1>8, <2>1, <3>1
  <2>2. CASE k # 1
    <3>1. 1 \in 0 .. k - 1 BY <1>4, <2>2
    <3> QED BY <1>1, <1>7, <1>8, <2>2, <3>1
  <2> QED BY <2>1, <2>2
<1>10. Nth(r, m - 1) = IF c = Null THEN p ELSE t
  <2>1. CASE k = m
    <3>1. m - 1 \in 0 .. k - 1 BY <1>4, <2>1
    <3> QED BY <1>7, <1>8, <2>1, <3>1
  <2>2. CASE k # m
    <3>1. m - 1 \in k .. m /\ (m - 1) + 1 = m BY <1>4, <2>2
    <3> QED BY <1>1, <1>3, <1>7, <1>8, <2>2, <3>1
  <2> QED BY <2>1, <2>2
<1>11. \A i \in 1 .. m :
          (s[i] = n <=> i = k) /\ (s[i] = p <=> i = k - 1) /\ (s[i] = c <=> i = k + 1)
  <2> TAKE i \in 1 .. m
  <2>1. \A j : j \in 1 .. m /\ s[i] = s[j] => i = j BY <1>1, <1>3 DEF IsInjective
  <2>2. s[i] # Null BY <1>2, <1>3
  <2> QED BY <1>3, <1>4, <2>1, <2>2 DEF Nth
<1>12. ASSUME NEW i \in 1 .. m - 1
       PROVE  nx2[r[i]] = Nth(r, i + 1) /\ pv2[r[i]] = Nth(r, i - 1)
  <2>1. CASE i < k
    <3>1. i \in 1 .. k - 1 /\ i \in 1 .. m /\ i # k /\ i # k + 1 /\ i - 1 \in 0 .. k - 1
      BY <1>4, <2>1
    <3>2. r[i] = s[i] /\ s[i] \in Node /\ s[i] # n /\ s[i] # c
      BY <1>2, <1>3, <1>5, <1>11, <3>1
    <3>3. pv2[s[i]] = pv[s[i]] BY <3>2 DEF Removed
    <3>4. pv2[r[i]] = Nth(r, i - 1) BY <1>1, <1>3, <1>7, <3>1, <3>2, <3>3
    <3>5. CASE i = k - 1
      <4>1. nx2[s[i]] = c BY <1>11, <3>1, <3>2, <3>5 DEF Removed
      <4>2. i + 1 = k /\ k \in k .. m BY <1>4, <3>5
      <4> QED BY <1>7, <3>2, <3>4, <4>1, <4>2
    <3>6. CASE i # k - 1
      <4>1. nx2[s[i]] = nx[s[i]] BY <1>11, <3>1, <3>2, <3>6 DEF Removed
      <4>2. i + 1 \in 0 .. k - 1 BY <1>4, <3>1, <3>6
      <4> QED BY <1>1, <1>3, <1>7, <3>1, <3>2, <3>4, <4>1, <4>2
    <3> QED BY <3>5, <3>6
  <2>2. CASE i >= k
    <3>1. PICK j : j = i + 1 OBVIOUS
    <3>2. /\ i \in k .. m - 1 /\ j \in 1 .. m /\ j # k /\ j # k - 1 /\ i + 1 \in k .. m
          /\ (i + 1) + 1 = j + 1 /\ i = j - 1
      BY <1>4, <2>2, <3>1
    <3>3. r[i] = s[j] /\ s[j] \in Node /\ s[j] # n /\ s[j] # p
      BY <1>2, <1>3, <1>5, <1>11, <3>1, <3>2
    <3>4. nx2[s[j]] = nx[s[j]] BY <3>3 DEF Removed
    <3>5. Nth(r, i + 1) = Nth(s, j + 1) BY <1>7, <3>2
    <3>6. nx2[r[i]] = Nth(r, i + 1) BY <1>1, <1>3, <3>2, <3>3, <3>4, <3>5
    <3>7. CASE j = k + 1
      <4>1. pv2[s[j]] = p BY <1>11, <3>2, <3>3, <3>7 DEF Removed
      <4>2. i - 1 = k - 1 /\ k - 1 \in 0 .. k - 1 BY <1>4, <3>1, <3>2, <3>7
      <4> QED BY <1>7, <3>3, <3>6, <4>1, <4>2
    <3>8. CASE j # k + 1
      <4>1. pv2[s[j]] = pv[s[j]] BY <1>11, <3>2, <3>3, <3>8 DEF Removed
      <4>2. i - 1 \in k .. m /\ (i - 1) + 1 = j - 1 BY <1>4, <2>2, <3>1, <3>2, <3>8
      <4>3. Nth(r, i - 1) = Nth(s, j - 1) BY <1>7, <4>2
      <4> QED BY <1>1, <1>3, <3>2, <3>3, <3>6, <4>1, <4>3
    <3> QED BY <3>7, <3>8
  <2> QED BY <1>4, <2>1, <2>2
<1> QED BY <1>5, <1>6, <1>9, <1>10, <1>12 DEF Linked

--------------------------------------------------------------------------------
\* Each queue has the list that its ends and the links make.
AllLinked(L, hd, tl, nx, pv) == \A q \in Queue : Linked(L[q], hd[q], tl[q], nx, pv)

\* A node is marked as enlisted exactly when it is in a list, which is the only one,
\* and nothing deleted is in a list or has one.
Placed(L, ns, qs, en) ==
    /\ \A q \in Queue, n \in Node : Contains(L[q], n) => q \in qs /\ n \in ns /\ en[n]
    /\ \A n \in Node : en[n] => \E q \in Queue : Contains(L[q], n)
    /\ \A q, r \in Queue, n \in Node : Contains(L[q], n) /\ Contains(L[r], n) => q = r

\* The head of q becomes `first' if nothing is in front, p, and its tail becomes
\* `last' if nothing is behind, c.
Ends(q, p, c, first, last, hd, hd2, tl, tl2) ==
    \A r \in Queue :
        /\ hd2[r] = IF r = q /\ p = Null THEN first ELSE hd[r]
        /\ tl2[r] = IF r = q /\ c = Null THEN last ELSE tl[r]

\* A list stays when the links of its nodes do.
LEMMA LinkedKept ==
    ASSUME NEW s, NEW h, NEW t, NEW nx, NEW pv, Linked(s, h, t, nx, pv), NEW nx2, NEW pv2,
           \A i \in 1 .. Len(s) : nx2[s[i]] = nx[s[i]] /\ pv2[s[i]] = pv[s[i]]
    PROVE  Linked(s, h, t, nx2, pv2)
BY DEF Linked

\* The walks from the heads meet the lists.
LEMMA WalksFound ==
    ASSUME NEW L \in [Queue -> Seq(Node)], NEW hd, NEW tl, NEW nx, NEW pv,
           AllLinked(L, hd, tl, nx, pv)
    PROVE  \A q \in Queue : Chain(hd[q], nx) = L[q]
BY ChainFound DEF AllLinked

\* In the lists M the node n is inserted at a place of q, or the place is removed.
InsertsAt(L, q, k, n, M) == M = [L EXCEPT ![q] = InsertAt(L[q], k, n)]
RemovesAt(L, q, k, M) == M = [L EXCEPT ![q] = RemoveAt(L[q], k)]

\* Inserting a node that is in no list into one of them leaves the others alone.
LEMMA InsertIntoOne ==
    ASSUME NEW L \in [Queue -> Seq(Node)], NEW hd, NEW tl, NEW nx, NEW pv,
           AllLinked(L, hd, tl, nx, pv),
           NEW ns, NEW qs, NEW en, Placed(L, ns, qs, en),
           NEW q \in Queue, NEW n \in Node, \A r \in Queue : ~Contains(L[r], n),
           NEW k \in 1 .. Len(L[q]) + 1,
           NEW p, p = Nth(L[q], k - 1), NEW c, c = Nth(L[q], k),
           NEW hd2, NEW tl2, NEW nx2, NEW pv2,
           Inserted(n, p, c, nx, nx2, pv, pv2), Ends(q, p, c, n, n, hd, hd2, tl, tl2),
           NEW M, InsertsAt(L, q, k, n, M)
    PROVE  AllLinked(M, hd2, tl2, nx2, pv2)
<1>1. M[q] = InsertAt(L[q], k, n) /\ \A r \in Queue : r # q => M[r] = L[r]
  BY DEF InsertsAt
<1>2. L[q] \in Seq(Node) /\ Len(L[q]) \in Nat OBVIOUS
<1>3. (p = Null \/ Contains(L[q], p)) /\ (c = Null \/ Contains(L[q], c)) BY DEF Nth, Contains
<1>4. SUFFICES ASSUME NEW r \in Queue PROVE Linked(M[r], hd2[r], tl2[r], nx2, pv2)
  BY DEF AllLinked
<1>5. CASE r = q
  <2>1. Linked(L[q], hd[q], tl[q], nx, pv) /\ ~Contains(L[q], n) BY DEF AllLinked
  <2>2. PICK s, h, t, m : s = L[q] /\ h = hd[q] /\ t = tl[q] /\ m = M[q] OBVIOUS
  <2>3. /\ Linked(s, h, t, nx, pv) /\ ~Contains(s, n) /\ k \in 1 .. Len(s) + 1
        /\ p = Nth(s, k - 1) /\ c = Nth(s, k) /\ m = InsertAt(s, k, n)
    BY <1>1, <2>1, <2>2
  <2>4. Linked(m, IF p = Null THEN n ELSE h, IF c = Null THEN n ELSE t, nx2, pv2)
    BY ONLY <2>3, n \in Node, Inserted(n, p, c, nx, nx2, pv, pv2), InsertLinked
  <2>5. /\ hd2[q] = IF p = Null THEN n ELSE h
        /\ tl2[q] = IF c = Null THEN n ELSE t
    BY <2>2 DEF Ends
  <2> QED BY <1>5, <2>2, <2>4, <2>5
<1>6. CASE r # q
  <2>1. Linked(L[r], hd[r], tl[r], nx, pv) BY DEF AllLinked
  <2>2. M[r] = L[r] /\ hd2[r] = hd[r] /\ tl2[r] = tl[r] BY <1>1, <1>6 DEF Ends
  <2>3. ASSUME NEW i \in 1 .. Len(L[r])
        PROVE  /\ L[r][i] \in Node /\ Contains(L[r], L[r][i])
               /\ L[r][i] # n /\ L[r][i] # p /\ L[r][i] # c
    <3>1. L[r][i] \in Node /\ Contains(L[r], L[r][i]) BY DEF Contains
    <3>2. L[r][i] # Null /\ ~Contains(L[q], L[r][i])
      BY <1>6, <3>1, ConstantsAssumption DEF Placed
    <3> QED BY <1>3, <3>1, <3>2
  <2>4. \A i \in 1 .. Len(L[r]) : nx2[L[r][i]] = nx[L[r][i]] /\ pv2[L[r][i]] = pv[L[r][i]]
    BY <2>3 DEF Inserted
  <2>5. Linked(L[r], hd[r], tl[r], nx2, pv2) BY <2>1, <2>4, LinkedKept
  <2> QED BY <2>2, <2>5
<1> QED BY <1>5, <1>6

\* Removing a node from its list leaves the others alone.
LEMMA RemoveFromOne ==
    ASSUME NEW L \in [Queue -> Seq(Node)], NEW hd, NEW tl, NEW nx, NEW pv,
           AllLinked(L, hd, tl, nx, pv),
           NEW ns, NEW qs, NEW en, Placed(L, ns, qs, en),
           NEW q \in Queue, NEW k \in 1 .. Len(L[q]), NEW n, n = L[q][k],
           NEW p, p = Nth(L[q], k - 1), NEW c, c = Nth(L[q], k + 1),
           NEW hd2, NEW tl2, NEW nx2, NEW pv2,
           Removed(n, p, c, nx, nx2, pv, pv2), Ends(q, p, c, c, p, hd, hd2, tl, tl2),
           NEW M, RemovesAt(L, q, k, M)
    PROVE  AllLinked(M, hd2, tl2, nx2, pv2)
<1>1. M[q] = RemoveAt(L[q], k) /\ \A r \in Queue : r # q => M[r] = L[r]
  BY DEF RemovesAt
<1>2. L[q] \in Seq(Node) /\ Len(L[q]) \in Nat OBVIOUS
<1>3. /\ p = Null \/ Contains(L[q], p)
      /\ c = Null \/ Contains(L[q], c)
      /\ Contains(L[q], n)
  BY DEF Nth, Contains
<1>4. SUFFICES ASSUME NEW r \in Queue PROVE Linked(M[r], hd2[r], tl2[r], nx2, pv2)
  BY DEF AllLinked
<1>5. CASE r = q
  <2>1. Linked(L[q], hd[q], tl[q], nx, pv) BY DEF AllLinked
  <2>2. PICK s, h, t, m : s = L[q] /\ h = hd[q] /\ t = tl[q] /\ m = M[q] OBVIOUS
  <2>3. /\ Linked(s, h, t, nx, pv) /\ k \in 1 .. Len(s) /\ n = s[k]
        /\ p = Nth(s, k - 1) /\ c = Nth(s, k + 1) /\ m = RemoveAt(s, k)
    BY <1>1, <2>1, <2>2
  <2>4. Linked(m, IF p = Null THEN c ELSE h, IF c = Null THEN p ELSE t, nx2, pv2)
    BY <2>3, RemoveLinked
  <2>5. /\ hd2[q] = IF p = Null THEN c ELSE h
        /\ tl2[q] = IF c = Null THEN p ELSE t
    BY <2>2 DEF Ends
  <2> QED BY <1>5, <2>2, <2>4, <2>5
<1>6. CASE r # q
  <2>1. Linked(L[r], hd[r], tl[r], nx, pv) BY DEF AllLinked
  <2>2. M[r] = L[r] /\ hd2[r] = hd[r] /\ tl2[r] = tl[r] BY <1>1, <1>6 DEF Ends
  <2>3. ASSUME NEW i \in 1 .. Len(L[r])
        PROVE  /\ L[r][i] \in Node /\ Contains(L[r], L[r][i])
               /\ L[r][i] # n /\ L[r][i] # p /\ L[r][i] # c
    <3>1. L[r][i] \in Node /\ Contains(L[r], L[r][i]) BY DEF Contains
    <3>2. L[r][i] # Null /\ ~Contains(L[q], L[r][i])
      BY <1>6, <3>1, ConstantsAssumption DEF Placed
    <3> QED BY <1>3, <3>1, <3>2
  <2>4. \A i \in 1 .. Len(L[r]) : nx2[L[r][i]] = nx[L[r][i]] /\ pv2[L[r][i]] = pv[L[r][i]]
    BY <2>3 DEF Removed
  <2>5. Linked(L[r], hd[r], tl[r], nx2, pv2) BY <2>1, <2>4, LinkedKept
  <2> QED BY <2>2, <2>5
<1> QED BY <1>5, <1>6

\* The node n, and no other, gets or loses the mark of an enlisted node.
Marked(n, en, en2) == \A m \in Node : en2[m] <=> en[m] \/ m = n
Unmarked(n, en, en2) == \A m \in Node : en2[m] <=> en[m] /\ m # n

\* The node linked into q is in it and nowhere else.
LEMMA PlacedInserted ==
    ASSUME NEW L \in [Queue -> Seq(Node)], NEW ns, NEW qs, NEW en, Placed(L, ns, qs, en),
           NEW q \in Queue, q \in qs, NEW n \in Node, n \in ns, ~en[n],
           NEW k \in 1 .. Len(L[q]) + 1,
           NEW M, InsertsAt(L, q, k, n, M),
           NEW en2, Marked(n, en, en2)
    PROVE  M \in [Queue -> Seq(Node)] /\ Placed(M, ns, qs, en2)
<1>1. L[q] \in Seq(Node) OBVIOUS
<1>2. /\ InsertAt(L[q], k, n) \in Seq(Node)
      /\ \A x : Contains(InsertAt(L[q], k, n), x) <=> x = n \/ Contains(L[q], x)
  BY <1>1, InsertAtQueue
<1>3. M \in [Queue -> Seq(Node)] BY <1>2 DEF InsertsAt
<1>4. \A r \in Queue, x \in Node : Contains(M[r], x) <=> Contains(L[r], x) \/ (r = q /\ x = n)
  <2> TAKE r \in Queue, x \in Node
  <2>1. M[r] = IF r = q THEN InsertAt(L[q], k, n) ELSE L[r] BY DEF InsertsAt
  <2> QED BY <1>2, <2>1
<1>5. \A r \in Queue : ~Contains(L[r], n) BY DEF Placed
<1>6. \A r \in Queue, x \in Node : Contains(M[r], x) => r \in qs /\ x \in ns /\ en2[x]
  BY <1>4 DEF Placed, Marked
<1>7. ASSUME NEW x \in Node, en2[x] PROVE \E r \in Queue : Contains(M[r], x)
  <2>1. CASE x = n BY <1>4, <2>1
  <2>2. CASE en[x]
    <3>1. PICK r \in Queue : Contains(L[r], x) BY <2>2 DEF Placed
    <3> QED BY <1>4, <3>1
  <2> QED BY <1>7, <2>1, <2>2 DEF Marked
<1>8. \A r, s \in Queue, x \in Node : Contains(M[r], x) /\ Contains(M[s], x) => r = s
  BY <1>4, <1>5 DEF Placed
<1> QED BY <1>3, <1>6, <1>7, <1>8 DEF Placed

\* The node unlinked from q is in no list any more.
LEMMA PlacedRemoved ==
    ASSUME NEW L \in [Queue -> Seq(Node)], NEW ns, NEW qs, NEW en, Placed(L, ns, qs, en),
           NEW q \in Queue, NEW k \in 1 .. Len(L[q]), NEW n, n = L[q][k], IsInjective(L[q]),
           NEW M, RemovesAt(L, q, k, M),
           NEW en2, Unmarked(n, en, en2)
    PROVE  M \in [Queue -> Seq(Node)] /\ Placed(M, ns, qs, en2)
<1>1. L[q] \in Seq(Node) /\ n \in Node /\ Contains(L[q], n) BY DEF Contains
<1>2. /\ RemoveAt(L[q], k) \in Seq(Node)
      /\ \A x : Contains(RemoveAt(L[q], k), x) <=> x # n /\ Contains(L[q], x)
  <2>1. PICK s, m : s = L[q] /\ m = RemoveAt(L[q], k) OBVIOUS
  <2>2. s \in Seq(Node) /\ k \in 1 .. Len(s) /\ m = RemoveAt(s, k) /\ IsInjective(s) /\ n = s[k]
    BY <1>1, <2>1
  <2>3. /\ m \in Seq(Node)
        /\ \A x : Contains(m, x) => Contains(s, x)
        /\ \A x : Contains(s, x) /\ x # s[k] => Contains(m, x)
        /\ ~Contains(m, s[k])
    BY ONLY <2>2, RemoveAtQueue
  <2> QED BY <2>1, <2>2, <2>3
<1>3. M \in [Queue -> Seq(Node)] BY <1>2 DEF RemovesAt
<1>4. \A r \in Queue, x \in Node : Contains(M[r], x) <=> Contains(L[r], x) /\ x # n
  <2> TAKE r \in Queue, x \in Node
  <2>1. M[r] = IF r = q THEN RemoveAt(L[q], k) ELSE L[r] BY DEF RemovesAt
  <2>2. r # q => ~Contains(L[r], n) BY <1>1 DEF Placed
  <2> QED BY <1>2, <2>1, <2>2
<1>5. \A r \in Queue, x \in Node : Contains(M[r], x) => r \in qs /\ x \in ns /\ en2[x]
  BY <1>4 DEF Placed, Unmarked
<1>6. ASSUME NEW x \in Node, en2[x] PROVE \E r \in Queue : Contains(M[r], x)
  <2>1. PICK r \in Queue : Contains(L[r], x) BY <1>6 DEF Placed, Unmarked
  <2> QED BY <1>4, <1>6, <2>1 DEF Unmarked
<1>7. \A r, s \in Queue, x \in Node : Contains(M[r], x) /\ Contains(M[s], x) => r = s
  BY <1>4 DEF Placed
<1> QED BY <1>3, <1>5, <1>6, <1>7 DEF Placed

--------------------------------------------------------------------------------
\* What KQueueSeq says of an insertion, in terms of places.
LEMMA PushPlace ==
    ASSUME NEW S, NEW s \in Seq(S), NEW n
    PROVE  InsertAt(s, 1, n) = Push(s, n)
<1>1. SubSeq(s, 1, 1 - 1) = <<>> /\ SubSeq(s, 1, Len(s)) = s OBVIOUS
<1>2. (<<>> \o <<n>>) = <<n>> OBVIOUS
<1> QED BY <1>1, <1>2 DEF InsertAt, Push

\* The places of s with priorities up to k, and what leaves its priorities alone.
Stops(s, ky, k) == {i \in DOMAIN s : ky[s[i]] <= k}
SameKeys(s, ky, ky2) == \A i \in 1 .. Len(s) : ky2[s[i]] = ky[s[i]]

\* kqueue_push_prio stops at the first place whose node has no greater priority, which
\* is where the count of the nodes with greater ones puts the node.
LEMMA CursorPlace ==
    ASSUME NEW s \in Seq(Node), NEW ky \in [Node -> Nat], NEW k \in Nat,
           NEW ky2, SameKeys(s, ky, ky2), NEW g, g = NbGreater(s, ky2, k) + 1,
           NEW stops, stops = Stops(s, ky, k)
    PROVE  /\ g \in 1 .. Len(s) + 1
           /\ stops = {} <=> g = Len(s) + 1
           /\ stops # {} => Min(stops) = g
<1> DEFINE above == {i \in 1 .. Len(s) : \A j \in 1 .. i : ky2[s[j]] > k}
<1>1. Len(s) \in Nat /\ DOMAIN s = 1 .. Len(s) /\ \A i \in 1 .. Len(s) : s[i] \in Node OBVIOUS
<1>2. \A i \in 1 .. Len(s) : ky2[s[i]] \in Nat /\ ((i \in stops) <=> ~(ky2[s[i]] > k))
  BY <1>1 DEF SameKeys, Stops
<1>3. stops \in SUBSET (1 .. Len(s)) BY <1>1 DEF Stops
<1>4. g = Cardinality(above) + 1 BY DEF NbGreater
<1>5. CASE stops = {}
  <2>1. above = 1 .. Len(s)
    <3>1. \A i \in 1 .. Len(s) : \A j \in 1 .. i : j \in 1 .. Len(s) BY <1>1
    <3> QED BY <1>2, <1>5, <3>1
  <2>2. PICK m \in Nat : m = Len(s) BY <1>1
  <2>3. Cardinality(1 .. m) = m BY ONLY m \in Nat, FS_Interval
  <2> HIDE DEF above
  <2>4. g = Len(s) + 1 BY ONLY <1>4, <2>1, <2>2, <2>3
  <2> QED BY ONLY <1>1, <1>5, <2>4
<1>6. CASE stops # {}
  <2>1. stops \in SUBSET Nat BY <1>3
  <2>2. \E x \in stops : \A y \in stops : x <= y
    <3> HIDE DEF above
    <3> QED BY <1>6, <2>1, LeastNatural
  <2>3. PICK m : m = Min(stops) OBVIOUS
  <2>4. m \in stops /\ \A y \in stops : m <= y BY <2>2, <2>3 DEF Min
  <2>5. m \in 1 .. Len(s) BY <1>3, <2>4
  <2>6. above = 1 .. m - 1
    <3>1. \A i \in above : i \in 1 .. m - 1
      <4> TAKE i \in above
      <4>1. i \in 1 .. Len(s) /\ \A j \in 1 .. i : ky2[s[j]] > k OBVIOUS
      <4>2. m \notin 1 .. i BY <1>2, <2>4, <2>5, <4>1
      <4> QED BY <1>1, <2>5, <4>1, <4>2
    <3>2. \A i \in 1 .. m - 1 : i \in above
      <4> SUFFICES ASSUME NEW i \in 1 .. m - 1, NEW j \in 1 .. i
                   PROVE  i \in 1 .. Len(s) /\ ky2[s[j]] > k
        OBVIOUS
      <4>1. i \in 1 .. Len(s) /\ j \in 1 .. Len(s) /\ ~(m <= j) BY <1>1, <2>5
      <4>2. j \notin stops BY <2>4, <4>1
      <4> QED BY <1>2, <4>1, <4>2
    <3> QED BY <3>1, <3>2
  <2>7. Cardinality(1 .. m - 1) = m - 1 BY <2>5, FS_Interval
  <2> HIDE DEF above
  <2>8. g = m BY ONLY <1>1, <1>4, <2>5, <2>6, <2>7
  <2> QED BY ONLY <1>1, <1>6, <2>3, <2>5, <2>8
<1> QED BY <1>5, <1>6

\* kqueue_pop removes at the last place.
LEMMA PopPlace ==
    ASSUME NEW S, NEW s \in Seq(S), s # <<>>
    PROVE  RemoveAt(s, Len(s)) = Front(s)
<1> DEFINE a == SubSeq(s, 1, Len(s) - 1)
<1>1. a \in Seq(S) /\ SubSeq(s, Len(s) + 1, Len(s)) = <<>> OBVIOUS
<1> HIDE DEF a
<1>2. a \o <<>> = a BY <1>1
<1> QED BY <1>1, <1>2 DEF RemoveAt, Front, a

\* kqueue_remove removes at the place of the node.
LEMMA UnlinkPlace ==
    ASSUME NEW S, NEW s \in Seq(S), IsInjective(s), NEW k \in 1 .. Len(s)
    PROVE  Unlink(s, s[k]) = RemoveAt(s, k)
<1>1. {i \in 1 .. Len(s) : s[i] = s[k]} = {k} BY DEF IsInjective
<1>2. Min({k}) = k
  <2>1. \A x : x \in {k} /\ (\A y \in {k} : x <= y) <=> x = k OBVIOUS
  <2> QED BY <2>1 DEF Min
<1>3. SelectInSeq(s, LAMBDA v : v = s[k]) = k BY <1>1, <1>2 DEF SelectInSeq
<1> QED BY <1>3 DEF Unlink, RemoveFirst

--------------------------------------------------------------------------------
(***************************************************************************)
(* The invariant of module KQueue, and what each operation does.           *)
(***************************************************************************)

walks == [q \in Queue |-> Walk(q)]

\* kqueue_remove leaves the size of its queue as it is: the size is only a bound.
KQueueInv ==
    /\ TypeOK
    /\ AllLinked(walks, head, tail, next, prev)
    /\ Placed(walks, nodes, queues, enlisted)
    /\ \A q \in Queue : Len(walks[q]) <= size[q]

\* What the invariant says of one queue.
LEMMA QueueFacts ==
    ASSUME KQueueInv, NEW q \in Queue
    PROVE  /\ walks \in [Queue -> Seq(Node)]
           /\ walks[q] = Walk(q) /\ walks[q] \in Seq(Node) /\ IsInjective(walks[q])
           /\ Len(walks[q]) \in Nat /\ Len(walks[q]) <= size[q] /\ size[q] \in 0 .. MaxSize
           /\ DOMAIN walks[q] = 1 .. Len(walks[q])
           /\ head[q] = Nth(walks[q], 1) /\ tail[q] = Nth(walks[q], Len(walks[q]))
           /\ head[q] = Null <=> walks[q] = <<>>
           /\ head[q] = Null <=> Len(walks[q]) = 0
           /\ \A i \in 1 .. Len(walks[q]) :
                /\ walks[q][i] \in Node /\ walks[q][i] # Null /\ enlisted[walks[q][i]]
                /\ next[walks[q][i]] = Nth(walks[q], i + 1)
                /\ prev[walks[q][i]] = Nth(walks[q], i - 1)
<1>1. /\ walks[q] = Walk(q) /\ Linked(walks[q], head[q], tail[q], next, prev)
  BY DEF KQueueInv, AllLinked, walks
<1>2. /\ walks \in [Queue -> Seq(Node)]
  <2>1. \A r \in Queue : walks[r] \in Seq(Node) BY DEF KQueueInv, AllLinked, Linked
  <2> QED BY <2>1 DEF walks
<1>3. PICK s : s = walks[q] OBVIOUS
<1>4. /\ s \in Seq(Node) /\ IsInjective(s) /\ Len(s) \in Nat /\ DOMAIN s = 1 .. Len(s)
      /\ head[q] = Nth(s, 1) /\ tail[q] = Nth(s, Len(s))
      /\ \A i \in 1 .. Len(s) : /\ s[i] \in Node /\ s[i] # Null
                                /\ next[s[i]] = Nth(s, i + 1) /\ prev[s[i]] = Nth(s, i - 1)
      /\ s = <<>> <=> Len(s) = 0
  BY <1>1, <1>3, ConstantsAssumption DEF Linked
<1>5. head[q] = Null <=> Len(s) = 0
  <2>1. 1 \in 1 .. Len(s) <=> Len(s) # 0 BY <1>4
  <2> QED BY <1>4, <2>1 DEF Nth
<1>6. \A i \in 1 .. Len(s) : enlisted[s[i]]
  BY <1>3, <1>4 DEF KQueueInv, Placed, Contains
<1>7. Len(s) <= size[q] /\ size[q] \in 0 .. MaxSize BY <1>3 DEF KQueueInv, TypeOK
<1> QED BY <1>1, <1>2, <1>3, <1>4, <1>5, <1>6, <1>7

\* The types of the links and the ends.
LinkTypes(nx, pv, hd, tl) ==
    /\ nx \in [Node -> Node \cup {Null}] /\ pv \in [Node -> Node \cup {Null}]
    /\ hd \in [Queue -> Node \cup {Null}] /\ tl \in [Queue -> Node \cup {Null}]

\* Linking a node at a place keeps the invariant.
LEMMA InsertStep ==
    ASSUME KQueueInv, NEW q \in Queue, NEW n \in Node, CanPush(q, n), Enlist(q, n),
           NEW k \in 1 .. Len(walks[q]) + 1,
           NEW p, p = Nth(walks[q], k - 1), NEW c, c = Nth(walks[q], k),
           Inserted(n, p, c, next, next', prev, prev'),
           Ends(q, p, c, n, n, head, head', tail, tail'),
           LinkTypes(next', prev', head', tail'), key' \in [Node -> 0 .. MaxKey]
    PROVE  KQueueInv' /\ walks' = [walks EXCEPT ![q] = InsertAt(walks[q], k, n)]
<1>1. PICK M : InsertsAt(walks, q, k, n, M) BY DEF InsertsAt
<1>2. /\ walks \in [Queue -> Seq(Node)] /\ AllLinked(walks, head, tail, next, prev)
      /\ Placed(walks, nodes, queues, enlisted)
      /\ enlisted \in [Node -> BOOLEAN] /\ size \in [Queue -> 0 .. MaxSize] /\ MaxSize \in Nat
  BY QueueFacts, ConstantsAssumption DEF KQueueInv, TypeOK
<1>3. q \in queues /\ n \in nodes /\ ~enlisted[n] /\ size[q] < MaxSize BY DEF CanPush
<1>4. Marked(n, enlisted, enlisted') BY <1>2 DEF Enlist, Marked
<1>5. M \in [Queue -> Seq(Node)] /\ Placed(M, nodes, queues, enlisted')
  BY ONLY q \in Queue, n \in Node, k \in 1 .. Len(walks[q]) + 1,
          <1>1, <1>2, <1>3, <1>4, PlacedInserted
<1>6. \A r \in Queue : ~Contains(walks[r], n) BY <1>2, <1>3 DEF Placed
<1>7. AllLinked(M, head', tail', next', prev') BY <1>1, <1>2, <1>6, InsertIntoOne
<1>8. walks' = M
  <2>1. \A r \in Queue : Chain(head'[r], next') = M[r]
    BY ONLY <1>5, <1>7, WalksFound
  <2> QED BY <1>5, <2>1 DEF walks, Walk
<1>9. \A r \in Queue : Len(M[r]) <= size'[r]
  <2> TAKE r \in Queue
  <2>1. walks[q] \in Seq(Node) /\ Len(walks[r]) <= size[r] /\ Len(walks[q]) \in Nat
    BY QueueFacts
  <2>2. Len(InsertAt(walks[q], k, n)) = Len(walks[q]) + 1 BY <2>1, InsertEffect
  <2>3. M[r] = IF r = q THEN InsertAt(walks[q], k, n) ELSE walks[r]
    BY <1>1, <1>2 DEF InsertsAt
  <2>4. size'[r] = IF r = q THEN size[q] + 1 ELSE size[r] BY <1>2 DEF Enlist
  <2>5. size[r] \in Nat BY <1>2
  <2> QED BY <2>1, <2>2, <2>3, <2>4, <2>5
<1>10. TypeOK'
  <2>1. size' \in [Queue -> 0 .. MaxSize]
    <3>1. size[q] + 1 \in 0 .. MaxSize BY <1>2, <1>3
    <3> QED BY <1>2, <3>1 DEF Enlist
  <2>2. enlisted' \in [Node -> BOOLEAN] BY <1>2 DEF Enlist
  <2>3. nodes' = nodes /\ queues' = queues BY DEF Enlist
  <2>4. nodes \subseteq Node /\ queues \subseteq Queue BY DEF KQueueInv, TypeOK
  <2> QED BY <2>1, <2>2, <2>3, <2>4 DEF TypeOK, LinkTypes
<1>11. nodes' = nodes /\ queues' = queues BY DEF Enlist
<1> QED BY <1>1, <1>5, <1>7, <1>8, <1>9, <1>10, <1>11 DEF KQueueInv, InsertsAt

\* Unlinking the node at a place keeps the invariant.
LEMMA RemoveStep ==
    ASSUME KQueueInv, NEW q \in Queue, NEW k \in 1 .. Len(walks[q]), NEW n, n = walks[q][k],
           NEW p, p = Nth(walks[q], k - 1), NEW c, c = Nth(walks[q], k + 1),
           Removed(n, p, c, next, next', prev, prev'),
           Ends(q, p, c, c, p, head, head', tail, tail'),
           LinkTypes(next', prev', head', tail'),
           enlisted' = [enlisted EXCEPT ![n] = FALSE], UNCHANGED <<nodes, queues, key>>,
           size' = size \/ size' = [size EXCEPT ![q] = @ - 1]
    PROVE  KQueueInv' /\ walks' = [walks EXCEPT ![q] = RemoveAt(walks[q], k)]
<1>1. PICK M : RemovesAt(walks, q, k, M) BY DEF RemovesAt
<1>2. /\ walks \in [Queue -> Seq(Node)] /\ AllLinked(walks, head, tail, next, prev)
      /\ Placed(walks, nodes, queues, enlisted)
      /\ enlisted \in [Node -> BOOLEAN] /\ size \in [Queue -> 0 .. MaxSize] /\ MaxSize \in Nat
      /\ IsInjective(walks[q]) /\ n \in Node
  BY QueueFacts, ConstantsAssumption DEF KQueueInv, TypeOK
<1>3. Unmarked(n, enlisted, enlisted') BY <1>2 DEF Unmarked
<1>4. M \in [Queue -> Seq(Node)] /\ Placed(M, nodes, queues, enlisted')
  BY ONLY q \in Queue, k \in 1 .. Len(walks[q]), n = walks[q][k],
          <1>1, <1>2, <1>3, PlacedRemoved
<1>5. AllLinked(M, head', tail', next', prev') BY <1>1, <1>2, RemoveFromOne
<1>6. walks' = M
  <2>1. \A r \in Queue : Chain(head'[r], next') = M[r]
    BY ONLY <1>4, <1>5, WalksFound
  <2> QED BY <1>4, <2>1 DEF walks, Walk
<1>7. \A r \in Queue : size'[r] \in 0 .. MaxSize /\ Len(M[r]) <= size'[r]
  <2> TAKE r \in Queue
  <2>1. /\ walks[q] \in Seq(Node) /\ Len(walks[r]) <= size[r] /\ Len(walks[r]) \in Nat
        /\ Len(walks[q]) \in Nat /\ size[r] \in 0 .. MaxSize /\ Len(walks[q]) <= size[q]
    BY QueueFacts
  <2>2. Len(RemoveAt(walks[q], k)) = Len(walks[q]) - 1 BY <2>1, RemoveEffect
  <2>3. M[r] = IF r = q THEN RemoveAt(walks[q], k) ELSE walks[r]
    BY <1>1, <1>2 DEF RemovesAt
  <2>4. size'[r] = size[r] \/ (r = q /\ size'[r] = size[r] - 1) BY <1>2
  <2>5. k \in 1 .. Len(walks[q]) OBVIOUS
  <2> QED BY ONLY <1>2, <2>1, <2>2, <2>3, <2>4, <2>5
<1>8. TypeOK'
  <2>1. size' \in [Queue -> 0 .. MaxSize]
    <3>1. DOMAIN size' = Queue /\ size' = [r \in Queue |-> size'[r]] BY <1>2
    <3> QED BY <1>7, <3>1
  <2>2. enlisted' \in [Node -> BOOLEAN] BY <1>2
  <2>3. nodes \subseteq Node /\ queues \subseteq Queue /\ key \in [Node -> 0 .. MaxKey]
    BY DEF KQueueInv, TypeOK
  <2> QED BY <2>1, <2>2, <2>3 DEF TypeOK, LinkTypes
<1> QED BY <1>1, <1>4, <1>5, <1>6, <1>7, <1>8 DEF KQueueInv, RemovesAt

\* Where the code links a node in front of another it is inserted.
LEMMA LinkBeforeInserts ==
    ASSUME KQueueInv, NEW q \in Queue, NEW n \in Node, NEW c \in Node, c # n,
           LinkBefore(q, n, c)
    PROVE  /\ Inserted(n, prev[c], c, next, next', prev, prev')
           /\ Ends(q, prev[c], c, n, n, head, head', tail, tail')
           /\ LinkTypes(next', prev', head', tail')
<1>1. /\ next \in [Node -> Node \cup {Null}] /\ prev \in [Node -> Node \cup {Null}]
      /\ head \in [Queue -> Node \cup {Null}] /\ tail \in [Queue -> Node \cup {Null}]
      /\ c # Null /\ prev[c] \in Node \cup {Null}
  BY ConstantsAssumption DEF KQueueInv, TypeOK
<1>2. /\ next' = [m \in Node |-> IF m = n THEN c ELSE IF m = prev[c] THEN n ELSE next[m]]
      /\ prev' = [prev EXCEPT ![n] = prev[c], ![c] = n]
      /\ head' = IF prev[c] = Null THEN [head EXCEPT ![q] = n] ELSE head
      /\ tail' = tail
  BY DEF LinkBefore
<1>3. Inserted(n, prev[c], c, next, next', prev, prev') BY <1>1, <1>2 DEF Inserted
<1>4. Ends(q, prev[c], c, n, n, head, head', tail, tail') BY <1>1, <1>2 DEF Ends
<1>5. LinkTypes(next', prev', head', tail') BY <1>1, <1>2 DEF LinkTypes
<1> QED BY <1>3, <1>4, <1>5

\* The links made at either end.
LEMMA LinkEndInserts ==
    ASSUME KQueueInv, NEW q \in Queue, NEW n \in Node
    PROVE  /\ LinkFirst(q, n) =>
                /\ Inserted(n, Null, Null, next, next', prev, prev')
                /\ Ends(q, Null, Null, n, n, head, head', tail, tail')
                /\ LinkTypes(next', prev', head', tail')
           /\ LinkLast(q, n) /\ tail[q] # Null /\ tail[q] # n =>
                /\ Inserted(n, tail[q], Null, next, next', prev, prev')
                /\ Ends(q, tail[q], Null, n, n, head, head', tail, tail')
                /\ LinkTypes(next', prev', head', tail')
<1>1. /\ next \in [Node -> Node \cup {Null}] /\ prev \in [Node -> Node \cup {Null}]
      /\ head \in [Queue -> Node \cup {Null}] /\ tail \in [Queue -> Node \cup {Null}]
      /\ Null \notin Node
  BY ConstantsAssumption DEF KQueueInv, TypeOK
<1>2. ASSUME LinkFirst(q, n)
      PROVE  /\ Inserted(n, Null, Null, next, next', prev, prev')
             /\ Ends(q, Null, Null, n, n, head, head', tail, tail')
             /\ LinkTypes(next', prev', head', tail')
  <2>1. Inserted(n, Null, Null, next, next', prev, prev') BY <1>1, <1>2 DEF Inserted, LinkFirst
  <2>2. Ends(q, Null, Null, n, n, head, head', tail, tail') BY <1>1, <1>2 DEF Ends, LinkFirst
  <2>3. LinkTypes(next', prev', head', tail') BY <1>1, <1>2 DEF LinkTypes, LinkFirst
  <2> QED BY <2>1, <2>2, <2>3
<1>3. ASSUME LinkLast(q, n), tail[q] # Null, tail[q] # n
      PROVE  /\ Inserted(n, tail[q], Null, next, next', prev, prev')
             /\ Ends(q, tail[q], Null, n, n, head, head', tail, tail')
             /\ LinkTypes(next', prev', head', tail')
  <2>1. tail[q] \in Node BY <1>1, <1>3
  <2>2. Inserted(n, tail[q], Null, next, next', prev, prev')
    BY <1>1, <1>3, <2>1 DEF Inserted, LinkLast
  <2>3. Ends(q, tail[q], Null, n, n, head, head', tail, tail')
    BY <1>1, <1>3 DEF Ends, LinkLast
  <2>4. LinkTypes(next', prev', head', tail') BY <1>1, <1>3, <2>1 DEF LinkTypes, LinkLast
  <2> QED BY <2>2, <2>3, <2>4
<1> QED BY <1>2, <1>3

\* The operators that KQueueSpec queues with are those of KQueueSeq.
LEMMA ListOperators ==
    ASSUME NEW s, NEW n, NEW ky
    PROVE  /\ Lists!Contains(s, n) <=> Contains(s, n)
           /\ Lists!Push(s, n) = Push(s, n)
           /\ Lists!PushPrio(s, n, ky) = PushPrio(s, n, ky)
           /\ Lists!Unlink(s, n) = Unlink(s, n)
           /\ Lists!Front(s) = Front(s)
<1>1. Lists!Contains(s, n) <=> Contains(s, n) BY DEF Lists!Contains, Contains
<1>2. Lists!Push(s, n) = Push(s, n) BY DEF Lists!Push, Push
<1>3. Lists!PushPrio(s, n, ky) = PushPrio(s, n, ky)
  BY DEF Lists!PushPrio, PushPrio, Lists!NbGreater, NbGreater, Lists!Cardinality, Cardinality,
         Lists!InsertAt, InsertAt
<1>4. Lists!Unlink(s, n) = Unlink(s, n)
  BY DEF Lists!Unlink, Unlink, Lists!RemoveFirst, RemoveFirst, Lists!RemoveAt, RemoveAt,
         Lists!SelectInSeq, SelectInSeq, Lists!Min, Min
<1>5. Lists!Front(s) = Front(s) BY DEF Lists!Front, Front
<1> QED BY <1>1, <1>2, <1>3, <1>4, <1>5

\* Where a push finds its node: in no list.
LEMMA PushedIsFree ==
    ASSUME KQueueInv, NEW n \in Node, n \notin nodes \/ ~enlisted[n]
    PROVE  /\ \A q \in Queue : ~Contains(walks[q], n)
           /\ Lists!Free(n)
<1>1. \A q \in Queue : ~Contains(walks[q], n) BY DEF KQueueInv, Placed
<1>2. \A q \in Queue : ~Contains(Walk(q), n) BY <1>1 DEF walks
<1>3. \A q \in Queue : ~Lists!Contains([r \in Queue |-> Walk(r)][q], n)
  BY <1>2, ListOperators
<1> QED BY <1>1, <1>3 DEF Lists!Free

\* kqueue_push.
LEMMA PushNodeStep ==
    ASSUME KQueueInv, NEW q \in Queue, NEW n \in Node, PushNode(q, n)
    PROVE  KQueueInv' /\ Lists!PushNode(q, n)
<1> DEFINE s == walks[q]
<1>1. /\ CanPush(q, n) /\ Enlist(q, n) /\ key' = key /\ key \in [Node -> 0 .. MaxKey]
      /\ n # Null
  BY ConstantsAssumption DEF PushNode, KQueueInv, TypeOK
<1>2. (\A r \in Queue : ~Contains(walks[r], n)) /\ Lists!Free(n)
  BY <1>1, PushedIsFree DEF CanPush
<1>3. /\ s \in Seq(Node) /\ Len(s) \in Nat /\ walks \in [Queue -> Seq(Node)]
      /\ head[q] = Nth(s, 1) /\ (head[q] = Null <=> Len(s) = 0)
      /\ \A i \in 1 .. Len(s) : s[i] \in Node /\ prev[s[i]] = Nth(s, i - 1)
  BY QueueFacts
<1> HIDE DEF s
<1>4. Nth(s, 1 - 1) = Null /\ 1 \in 1 .. Len(s) + 1 BY <1>3 DEF Nth
<1>5. /\ Inserted(n, Nth(s, 1 - 1), Nth(s, 1), next, next', prev, prev')
      /\ Ends(q, Nth(s, 1 - 1), Nth(s, 1), n, n, head, head', tail, tail')
      /\ LinkTypes(next', prev', head', tail')
  <2>1. CASE head[q] = Null
    <3>1. LinkFirst(q, n) BY <2>1 DEF PushNode
    <3> QED BY <1>3, <1>4, <2>1, <3>1, LinkEndInserts
  <2>2. CASE head[q] # Null
    <3>1. LinkBefore(q, n, head[q]) BY <2>2 DEF PushNode
    <3>2. 1 \in 1 .. Len(s) BY <1>3, <2>2
    <3>3. head[q] = s[1] /\ Contains(s, head[q]) BY <1>3, <3>2 DEF Nth, Contains
    <3>4. head[q] \in Node /\ head[q] # n /\ prev[head[q]] = Nth(s, 1 - 1)
      BY <1>2, <1>3, <3>2, <3>3 DEF s
    <3> QED BY <1>3, <3>1, <3>4, LinkBeforeInserts
  <2> QED BY <2>1, <2>2
<1>6. KQueueInv' /\ walks' = [walks EXCEPT ![q] = InsertAt(walks[q], 1, n)]
  BY <1>1, <1>4, <1>5, InsertStep DEF s
<1>7. InsertAt(walks[q], 1, n) = Lists!Push(walks[q], n)
  BY <1>3, PushPlace, ListOperators DEF s
<1>8. Lists!PushNode(q, n) BY <1>1, <1>2, <1>6, <1>7 DEF Lists!PushNode, walks
<1> QED BY <1>6, <1>8

\* kqueue_push_prio.
LEMMA PushPrioNodeStep ==
    ASSUME KQueueInv, NEW q \in Queue, NEW n \in Node, NEW k \in 0 .. MaxKey,
           PushPrioNode(q, n, k)
    PROVE  KQueueInv' /\ Lists!PushPrioNode(q, n, k)
<1> DEFINE s == walks[q]
           g == NbGreater(s, key', k) + 1
           stops == Stops(s, key, k)
<1>1. /\ CanPush(q, n) /\ Enlist(q, n) /\ key' = [key EXCEPT ![n] = k]
      /\ key \in [Node -> 0 .. MaxKey] /\ n # Null /\ MaxKey \in Nat
  BY ConstantsAssumption DEF PushPrioNode, KQueueInv, TypeOK
<1>2. (\A r \in Queue : ~Contains(walks[r], n)) /\ Lists!Free(n)
  BY <1>1, PushedIsFree DEF CanPush
<1>3. /\ s \in Seq(Node) /\ Len(s) \in Nat /\ walks \in [Queue -> Seq(Node)]
      /\ s = Walk(q) /\ head[q] = Nth(s, 1) /\ (head[q] = Null <=> Len(s) = 0)
      /\ tail[q] = Nth(s, Len(s)) /\ DOMAIN s = 1 .. Len(s)
      /\ \A i \in 1 .. Len(s) : s[i] \in Node /\ prev[s[i]] = Nth(s, i - 1)
  BY QueueFacts
<1>4. key' \in [Node -> 0 .. MaxKey] /\ key'[n] = k BY <1>1
<1>5. \A i \in 1 .. Len(s) : s[i] # n /\ key'[s[i]] = key[s[i]]
  <2>1. \A i \in 1 .. Len(s) : s[i] # n BY <1>2 DEF Contains
  <2> HIDE DEF s
  <2> QED BY <1>1, <1>3, <2>1
<1>6. /\ g \in 1 .. Len(s) + 1
      /\ stops = {} <=> g = Len(s) + 1
      /\ stops # {} => Min(stops) = g
  <2>1. key \in [Node -> Nat] /\ k \in Nat BY <1>1
  <2>2. SameKeys(s, key, key') BY <1>5 DEF SameKeys
  <2>3. g = NbGreater(s, key', k) + 1 /\ stops = Stops(s, key, k) OBVIOUS
  <2> HIDE DEF s, g, stops
  <2> QED BY ONLY <1>3, <2>1, <2>2, <2>3, CursorPlace, SMTT(60)
<1>7. Cursor(q, k) = IF stops = {} THEN Null ELSE s[Min(stops)] BY <1>3 DEF Cursor, Stops
<1> HIDE DEF s, g, stops
<1>8. Nth(s, g) = Cursor(q, k)
  <2>1. stops # {} => g \in 1 .. Len(s) BY <1>3, <1>6
  <2>2. stops = {} => g \notin 1 .. Len(s) BY <1>3, <1>6
  <2> QED BY <1>6, <1>7, <2>1, <2>2 DEF Nth
<1>9. /\ Inserted(n, Nth(s, g - 1), Nth(s, g), next, next', prev, prev')
      /\ Ends(q, Nth(s, g - 1), Nth(s, g), n, n, head, head', tail, tail')
      /\ LinkTypes(next', prev', head', tail')
  <2>1. CASE head[q] = Null
    <3>1. LinkFirst(q, n) BY <2>1 DEF PushPrioNode
    <3>2. Nth(s, g - 1) = Null /\ Nth(s, g) = Null BY <1>3, <1>6, <2>1 DEF Nth
    <3> QED BY <3>1, <3>2, LinkEndInserts
  <2>2. CASE head[q] # Null /\ Cursor(q, k) # Null
    <3>1. LinkBefore(q, n, Cursor(q, k)) BY <2>2 DEF PushPrioNode
    <3>2. g \in 1 .. Len(s) /\ Cursor(q, k) = s[g] BY <1>8, <2>2 DEF Nth
    <3>3. Cursor(q, k) \in Node /\ Cursor(q, k) # n /\ prev[Cursor(q, k)] = Nth(s, g - 1)
      BY <1>3, <1>5, <3>2
    <3> QED BY <1>8, <3>1, <3>3, LinkBeforeInserts
  <2>3. CASE head[q] # Null /\ Cursor(q, k) = Null
    <3>1. LinkLast(q, n) BY <2>3 DEF PushPrioNode
    <3>2. Len(s) # 0 /\ Len(s) \in 1 .. Len(s) BY <1>3, <2>3
    <3>3. g \notin 1 .. Len(s)
      <4> SUFFICES ASSUME g \in 1 .. Len(s) PROVE FALSE OBVIOUS
      <4>1. Nth(s, g) = s[g] /\ s[g] \in Node BY <1>3 DEF Nth
      <4> QED BY <1>8, <2>3, <4>1, ConstantsAssumption
    <3>4. g - 1 = Len(s) BY <1>3, <1>6, <3>3
    <3>5. tail[q] = Nth(s, g - 1) /\ tail[q] = s[Len(s)] BY <1>3, <3>2, <3>4 DEF Nth
    <3>6. tail[q] # Null /\ tail[q] # n BY <1>3, <1>5, <3>2, <3>5, ConstantsAssumption
    <3> QED BY <1>8, <2>3, <3>1, <3>5, <3>6, LinkEndInserts
  <2> QED BY <2>1, <2>2, <2>3
<1>10. KQueueInv' /\ walks' = [walks EXCEPT ![q] = InsertAt(walks[q], g, n)]
  BY <1>1, <1>4, <1>6, <1>9, InsertStep DEF s
<1>11. InsertAt(walks[q], g, n) = Lists!PushPrio(walks[q], n, key')
  <2>1. InsertAt(s, g, n) = PushPrio(s, n, key') BY <1>4 DEF PushPrio, g
  <2>2. Lists!PushPrio(s, n, key') = PushPrio(s, n, key') BY ListOperators
  <2> QED BY <2>1, <2>2 DEF s
<1>12. Lists!PushPrioNode(q, n, k)
  BY <1>1, <1>2, <1>10, <1>11 DEF Lists!PushPrioNode, walks
<1> QED BY <1>10, <1>12

\* kqueue_pop.
LEMMA PopNodeStep ==
    ASSUME KQueueInv, NEW q \in Queue, PopNode(q)
    PROVE  KQueueInv' /\ Lists!PopNode(q)
<1> DEFINE s == walks[q]
           m == Len(s)
           n == tail[q]
           p == prev[n]
<1>1. /\ head[q] # Null /\ tail' = [tail EXCEPT ![q] = p]
      /\ head' = IF p = Null THEN [head EXCEPT ![q] = Null] ELSE head
      /\ next' = [IF p = Null THEN next ELSE [next EXCEPT ![p] = Null] EXCEPT ![n] = Null]
      /\ prev' = [prev EXCEPT ![n] = Null]
      /\ enlisted' = [enlisted EXCEPT ![n] = FALSE] /\ UNCHANGED <<nodes, queues, key>>
      /\ size' = [size EXCEPT ![q] = @ - 1]
  BY DEF PopNode, ClearNode
<1>2. /\ s \in Seq(Node) /\ m \in Nat /\ walks \in [Queue -> Seq(Node)]
      /\ (head[q] = Null <=> m = 0) /\ (head[q] = Null <=> s = <<>>) /\ n = Nth(s, m)
      /\ \A i \in 1 .. m : s[i] \in Node /\ prev[s[i]] = Nth(s, i - 1)
  BY QueueFacts
<1> HIDE DEF s, m, n, p
<1>3. m \in 1 .. m /\ m + 1 \notin 1 .. m BY <1>1, <1>2
<1>4. n = s[m] /\ n \in Node /\ p = Nth(s, m - 1) /\ Nth(s, m + 1) = Null
  BY <1>2, <1>3 DEF Nth, m, p
<1>5. /\ next \in [Node -> Node \cup {Null}] /\ prev \in [Node -> Node \cup {Null}]
      /\ head \in [Queue -> Node \cup {Null}] /\ tail \in [Queue -> Node \cup {Null}]
      /\ Null \notin Node /\ p \in Node \cup {Null}
  BY <1>4, ConstantsAssumption DEF KQueueInv, TypeOK, p
<1>6. Removed(n, p, Null, next, next', prev, prev')
  <2>1. \A x \in Node : next'[x] = IF x = n THEN Null ELSE IF x = p THEN Null ELSE next[x]
    BY <1>1, <1>4, <1>5
  <2>2. \A x \in Node : prev'[x] = IF x = n THEN Null ELSE prev[x] BY <1>1, <1>4, <1>5
  <2> QED BY <1>5, <2>1, <2>2 DEF Removed
<1>7. Ends(q, p, Null, Null, p, head, head', tail, tail') BY <1>1, <1>5 DEF Ends
<1>8. LinkTypes(next', prev', head', tail')
  <2>1. next' \in [Node -> Node \cup {Null}] BY <1>1, <1>5
  <2>2. prev' \in [Node -> Node \cup {Null}] BY <1>1, <1>5
  <2>3. head' \in [Queue -> Node \cup {Null}] /\ tail' \in [Queue -> Node \cup {Null}]
    BY <1>1, <1>5
  <2> QED BY <2>1, <2>2, <2>3 DEF LinkTypes
<1>9. KQueueInv' /\ walks' = [walks EXCEPT ![q] = RemoveAt(walks[q], m)]
  BY <1>1, <1>3, <1>4, <1>6, <1>7, <1>8, RemoveStep DEF s, m
<1>10. RemoveAt(walks[q], m) = Lists!Front(walks[q])
  BY <1>1, <1>2, PopPlace, ListOperators DEF s, m
<1>11. Lists!PopNode(q) BY <1>1, <1>2, <1>9, <1>10 DEF Lists!PopNode, walks, s
<1> QED BY <1>9, <1>11

\* kqueue_remove.
LEMMA RemoveNodeStep ==
    ASSUME KQueueInv, NEW q \in Queue, NEW n \in Node, RemoveNode(q, n)
    PROVE  KQueueInv' /\ Lists!RemoveNode(q, n)
<1> DEFINE s == walks[q]
           m == Len(s)
           p == prev[n]
           c == next[n]
<1>1. /\ n \in ToSet(Walk(q))
      /\ head' = [head EXCEPT ![q] = IF p = Null THEN c ELSE head[q]]
      /\ tail' = [tail EXCEPT ![q] = IF c = Null THEN p ELSE tail[q]]
      /\ next' = [IF p = Null THEN next ELSE [next EXCEPT ![p] = c] EXCEPT ![n] = Null]
      /\ prev' = [IF c = Null THEN prev ELSE [prev EXCEPT ![c] = p] EXCEPT ![n] = Null]
      /\ enlisted' = [enlisted EXCEPT ![n] = FALSE] /\ UNCHANGED <<nodes, queues, key, size>>
  BY DEF RemoveNode, ClearNode, NewHead, NewTail
<1>2. /\ s \in Seq(Node) /\ m \in Nat /\ walks \in [Queue -> Seq(Node)] /\ s = Walk(q)
      /\ DOMAIN s = 1 .. m /\ IsInjective(s)
      /\ \A i \in 1 .. m : /\ prev[s[i]] = Nth(s, i - 1) /\ next[s[i]] = Nth(s, i + 1)
  BY QueueFacts
<1>3. PICK k \in 1 .. m : n = s[k] BY <1>1, <1>2 DEF ToSet
<1> HIDE DEF s, m, p, c
<1>4. p = Nth(s, k - 1) /\ c = Nth(s, k + 1) BY <1>2, <1>3 DEF p, c
<1>5. /\ next \in [Node -> Node \cup {Null}] /\ prev \in [Node -> Node \cup {Null}]
      /\ head \in [Queue -> Node \cup {Null}] /\ tail \in [Queue -> Node \cup {Null}]
      /\ Null \notin Node /\ p \in Node \cup {Null} /\ c \in Node \cup {Null}
  BY ConstantsAssumption DEF KQueueInv, TypeOK, p, c
<1>6. Removed(n, p, c, next, next', prev, prev')
  <2>1. \A x \in Node : next'[x] = IF x = n THEN Null ELSE IF x = p THEN c ELSE next[x]
    BY <1>1, <1>5
  <2>2. \A x \in Node : prev'[x] = IF x = n THEN Null ELSE IF x = c THEN p ELSE prev[x]
    BY <1>1, <1>5
  <2> QED BY <2>1, <2>2 DEF Removed
<1>7. Ends(q, p, c, c, p, head, head', tail, tail') BY <1>1, <1>5 DEF Ends
<1>8. LinkTypes(next', prev', head', tail')
  <2>1. next' \in [Node -> Node \cup {Null}] BY <1>1, <1>5
  <2>2. prev' \in [Node -> Node \cup {Null}] BY <1>1, <1>5
  <2>3. head' \in [Queue -> Node \cup {Null}] /\ tail' \in [Queue -> Node \cup {Null}]
    BY <1>1, <1>5
  <2> QED BY <2>1, <2>2, <2>3 DEF LinkTypes
<1>9. KQueueInv' /\ walks' = [walks EXCEPT ![q] = RemoveAt(walks[q], k)]
  BY <1>1, <1>3, <1>4, <1>6, <1>7, <1>8, RemoveStep DEF s, m
<1>10. RemoveAt(walks[q], k) = Lists!Unlink(walks[q], n)
  BY <1>2, <1>3, UnlinkPlace, ListOperators DEF s, m
<1>11. Lists!Contains(walks[q], n)
  BY <1>2, <1>3, ListOperators DEF Contains, s, m
<1>12. Lists!RemoveNode(q, n) BY <1>1, <1>9, <1>10, <1>11 DEF Lists!RemoveNode, walks
<1> QED BY <1>9, <1>12

\* An operation that leaves the links and the ends alone leaves the lists alone.
LEMMA WalksKept ==
    ASSUME UNCHANGED <<next, head>>
    PROVE  walks' = walks
BY DEF walks, Walk

\* kqueue_create_node and kqueue_delete_node: a node that is in no list.
LEMMA NodeStep ==
    ASSUME KQueueInv, NEW n \in Node
    PROVE  /\ CreateNode(n) => KQueueInv' /\ Lists!NewNode(n)
           /\ DeleteNode(n) => KQueueInv' /\ UNCHANGED <<walks, key>>
<1>1. /\ TypeOK /\ AllLinked(walks, head, tail, next, prev)
      /\ Placed(walks, nodes, queues, enlisted) /\ \A q \in Queue : Len(walks[q]) <= size[q]
      /\ 0 \in 0 .. MaxKey
  BY ConstantsAssumption DEF KQueueInv
<1>2. ASSUME CreateNode(n) PROVE KQueueInv' /\ Lists!NewNode(n)
  <2>1. /\ n \notin nodes /\ nodes' = nodes \cup {n} /\ key' = [key EXCEPT ![n] = 0]
        /\ UNCHANGED <<queues, next, prev, enlisted, head, tail, size>>
    BY <1>2 DEF CreateNode
  <2>2. walks' = walks BY <2>1, WalksKept
  <2>3. Placed(walks, nodes', queues, enlisted) BY <1>1, <2>1 DEF Placed
  <2>4. TypeOK' BY <1>1, <2>1 DEF TypeOK
  <2>5. KQueueInv' BY <1>1, <2>1, <2>2, <2>3, <2>4 DEF KQueueInv
  <2>6. Lists!Free(n) BY <2>1, PushedIsFree
  <2>7. Lists!NewNode(n) BY <2>1, <2>2, <2>6 DEF Lists!NewNode, walks
  <2> QED BY <2>5, <2>7
<1>3. ASSUME DeleteNode(n) PROVE KQueueInv' /\ UNCHANGED <<walks, key>>
  <2>1. /\ ~enlisted[n] /\ nodes' = nodes \ {n}
        /\ UNCHANGED <<queues, next, prev, enlisted, key, head, tail, size>>
    BY <1>3 DEF DeleteNode
  <2>2. walks' = walks BY <2>1, WalksKept
  <2>3. Placed(walks, nodes', queues, enlisted) BY <1>1, <2>1 DEF Placed
  <2>4. TypeOK' BY <1>1, <2>1 DEF TypeOK
  <2> QED BY <1>1, <2>1, <2>2, <2>3, <2>4 DEF KQueueInv
<1> QED BY <1>2, <1>3

\* kqueue_create_queue and kqueue_delete_queue: a queue that has no nodes.
LEMMA QueueStep ==
    ASSUME KQueueInv, NEW q \in Queue, CreateQueue(q) \/ DeleteQueue(q)
    PROVE  KQueueInv' /\ UNCHANGED <<walks, key>>
<1>1. /\ TypeOK /\ AllLinked(walks, head, tail, next, prev)
      /\ Placed(walks, nodes, queues, enlisted) /\ \A r \in Queue : Len(walks[r]) <= size[r]
      /\ MaxSize \in Nat
  BY ConstantsAssumption DEF KQueueInv
<1>2. walks' = walks BY WalksKept DEF CreateQueue, DeleteQueue
<1>3. walks[q] \in Seq(Node) /\ (head[q] = Null <=> walks[q] = <<>>) BY QueueFacts
<1>4. (walks[q] = <<>> <=> \A n \in Node : ~Contains(walks[q], n)) /\ Len(<<>>) = 0
  BY <1>3, EmptyQueue
<1>5. CASE CreateQueue(q)
  <2>1. /\ q \notin queues /\ queues' = queues \cup {q} /\ size' = [size EXCEPT ![q] = 0]
        /\ UNCHANGED <<nodes, next, prev, enlisted, key, head, tail>>
    BY <1>5 DEF CreateQueue
  <2>2. walks[q] = <<>> BY <1>1, <1>4, <2>1 DEF Placed
  <2>3. Placed(walks, nodes, queues', enlisted) BY <1>1, <2>1 DEF Placed
  <2>4. size \in [Queue -> 0 .. MaxSize] BY <1>1 DEF TypeOK
  <2>5. TypeOK' BY <1>1, <2>1, <2>4 DEF TypeOK
  <2>6. \A r \in Queue : Len(walks[r]) <= size'[r] BY <1>1, <1>4, <2>1, <2>2, <2>4
  <2> QED BY <1>1, <1>2, <2>1, <2>3, <2>5, <2>6 DEF KQueueInv
<1>6. CASE DeleteQueue(q)
  <2>1. /\ head[q] = Null /\ queues' = queues \ {q}
        /\ UNCHANGED <<nodes, next, prev, enlisted, key, head, tail, size>>
    BY <1>6 DEF DeleteQueue
  <2>2. \A n \in Node : ~Contains(walks[q], n) BY <1>3, <1>4, <2>1
  <2>3. Placed(walks, nodes, queues', enlisted) BY <1>1, <2>1, <2>2 DEF Placed
  <2>4. TypeOK' BY <1>1, <2>1 DEF TypeOK
  <2> QED BY <1>1, <1>2, <2>1, <2>3, <2>4 DEF KQueueInv
<1> QED BY <1>5, <1>6

\* At first every list is empty.
LEMMA KQueueInvInit ==
    ASSUME Init
    PROVE  KQueueInv /\ Lists!Init
<1>1. TypeOK BY ConstantsAssumption DEF Init, TypeOK
<1> DEFINE L == [q \in Queue |-> <<>>]
<1>2. L \in [Queue -> Seq(Node)] /\ \A q \in Queue : L[q] = <<>> /\ Len(L[q]) = 0 OBVIOUS
<1> HIDE DEF L
<1>3. AllLinked(L, head, tail, next, prev)
  <2> SUFFICES ASSUME NEW q \in Queue PROVE Linked(<<>>, Null, Null, next, prev)
    BY <1>2 DEF AllLinked, Init
  <2>1. Len(<<>>) = 0 /\ <<>> \in Seq(Node) /\ DOMAIN <<>> = {} OBVIOUS
  <2> QED BY <2>1 DEF Linked, Nth, IsInjective
<1>4. walks = L
  <2>1. \A q \in Queue : Chain(head[q], next) = L[q] BY ONLY <1>2, <1>3, WalksFound
  <2> QED BY <1>2, <2>1 DEF walks, Walk
<1>5. Placed(L, nodes, queues, enlisted)
  <2>1. \A q \in Queue, n \in Node : ~Contains(L[q], n) BY <1>2 DEF Contains
  <2>2. \A n \in Node : ~enlisted[n] BY DEF Init
  <2> QED BY <2>1, <2>2 DEF Placed
<1>6. \A q \in Queue : Len(L[q]) <= size[q] BY <1>2 DEF Init
<1>7. Lists!Init BY <1>4 DEF Lists!Init, Init, walks, L
<1> QED BY <1>1, <1>3, <1>4, <1>5, <1>6, <1>7 DEF KQueueInv

\* Every step keeps the invariant, and is a step of the sequences or none.
LEMMA KQueueInvNext ==
    ASSUME KQueueInv, [Next]_vars
    PROVE  KQueueInv' /\ [Lists!Next]_Lists!vars
<1>1. ASSUME NEW n \in Node, CreateNode(n) PROVE KQueueInv' /\ [Lists!Next]_Lists!vars
  BY <1>1, NodeStep DEF Lists!Next
<1>2. ASSUME NEW n \in Node, DeleteNode(n) PROVE KQueueInv' /\ [Lists!Next]_Lists!vars
  BY <1>2, NodeStep DEF Lists!vars, walks
<1>3. ASSUME NEW q \in Queue, CreateQueue(q) \/ DeleteQueue(q)
      PROVE  KQueueInv' /\ [Lists!Next]_Lists!vars
  BY <1>3, QueueStep DEF Lists!vars, walks
<1>4. ASSUME NEW q \in Queue, PopNode(q) PROVE KQueueInv' /\ [Lists!Next]_Lists!vars
  BY <1>4, PopNodeStep DEF Lists!Next
<1>5. ASSUME NEW q \in Queue, NEW n \in Node, PushNode(q, n)
      PROVE  KQueueInv' /\ [Lists!Next]_Lists!vars
  BY <1>5, PushNodeStep DEF Lists!Next
<1>6. ASSUME NEW q \in Queue, NEW n \in Node, RemoveNode(q, n)
      PROVE  KQueueInv' /\ [Lists!Next]_Lists!vars
  BY <1>6, RemoveNodeStep DEF Lists!Next
<1>7. ASSUME NEW q \in Queue, NEW n \in Node, NEW k \in 0 .. MaxKey, PushPrioNode(q, n, k)
      PROVE  KQueueInv' /\ [Lists!Next]_Lists!vars
  BY <1>7, PushPrioNodeStep DEF Lists!Next
<1>8. ASSUME UNCHANGED vars PROVE KQueueInv' /\ [Lists!Next]_Lists!vars
  <2>1. walks' = walks BY <1>8, WalksKept DEF vars
  <2>2. KQueueInv' BY <1>8, <2>1 DEF vars, KQueueInv, TypeOK
  <2> QED BY <1>8, <2>1, <2>2 DEF vars, Lists!vars, walks
<1> QED BY <1>1, <1>2, <1>3, <1>4, <1>5, <1>6, <1>7, <1>8 DEF Next

\* The invariant holds in every state.
THEOREM KQueueInvariant == Spec => []KQueueInv
<1>1. Init => KQueueInv BY KQueueInvInit
<1>2. KQueueInv /\ [Next]_vars => KQueueInv' BY KQueueInvNext
<1> QED BY <1>1, <1>2, PTL DEF Spec

\* The two directions of every list meet the same nodes, and the field enlisted tells
\* the truth: what kqueue.c does to the pointers never leaves a link that only one
\* neighbour knows, a cycle, or a list that reaches a deleted node.
THEOREM ListsAreSound == Spec => [](ListsMirror /\ EnlistedIsLinked)
<1>1. KQueueInv => ListsMirror
  <2> SUFFICES ASSUME KQueueInv, NEW q \in Queue
               PROVE  Chain(tail[q], prev) = Reverse(Walk(q))
    BY DEF ListsMirror
  <2>1. Linked(Walk(q), head[q], tail[q], next, prev) BY DEF KQueueInv, AllLinked, walks
  <2>2. Linked(Reverse(Walk(q)), tail[q], head[q], prev, next) BY <2>1, LinkedBackwards
  <2> QED BY <2>2, ChainFound
<1>2. KQueueInv => EnlistedIsLinked
  <2> SUFFICES ASSUME KQueueInv PROVE EnlistedIsLinked OBVIOUS
  <2>1. /\ Placed(walks, nodes, queues, enlisted) /\ TypeOK
        /\ \A q \in Queue : walks[q] = Walk(q) /\ walks[q] \in Seq(Node)
    BY QueueFacts DEF KQueueInv
  <2>2. \A n \in Node : enlisted[n] <=> \E q \in Queue : Contains(Walk(q), n)
    BY <2>1 DEF Placed, TypeOK
  <2>3. \A q \in Queue : \A x : x \in ToSet(Walk(q)) <=> x \in Node /\ Contains(Walk(q), x)
    <3> TAKE q \in Queue
    <3> TAKE x
    <3>1. PICK s : s = Walk(q) OBVIOUS
    <3>2. s \in Seq(Node) BY <2>1, <3>1
    <3>3. DOMAIN s = 1 .. Len(s) /\ \A i \in 1 .. Len(s) : s[i] \in Node BY <3>2
    <3> QED BY <3>1, <3>3 DEF ToSet, Contains
  <2>4. \A q \in Queue : ToSet(Walk(q)) \subseteq nodes BY <2>1, <2>3 DEF Placed
  <2>5. ASSUME NEW q \in Queue, q \notin queues PROVE Walk(q) = <<>>
    <3>1. \A n \in Node : ~Contains(walks[q], n) BY <2>1, <2>5 DEF Placed
    <3> QED BY <2>1, <3>1, EmptyQueue
  <2>6. \A q \in Queue : \A r \in Queue \ {q} : ToSet(Walk(q)) \cap ToSet(Walk(r)) = {}
    BY <2>1, <2>3 DEF Placed
  <2> QED BY <2>2, <2>4, <2>5, <2>6 DEF EnlistedIsLinked
<1> QED BY <1>1, <1>2, KQueueInvariant, PTL

\* The doubly linked lists are the sequences that Scheduler, Futex and the mutexes and
\* semaphores queue their threads with: kqueue_push links at the head, kqueue_pop
\* unlinks the tail, kqueue_push_prio goes in front of the first node of no greater
\* priority, kqueue_remove unlinks its node and no other.
THEOREM KQueueImplementsSequences == Spec => ImplementsSequences
<1>1. Init => Lists!Init BY KQueueInvInit
<1>2. KQueueInv /\ [Next]_vars => [Lists!Next]_Lists!vars BY KQueueInvNext
<1> QED BY <1>1, <1>2, KQueueInvariant, PTL DEF Spec, ImplementsSequences, Lists!Spec

--------------------------------------------------------------------------------
(***************************************************************************)
(* The heap.                                                               *)
(***************************************************************************)

(***************************************************************************)
(* Slots.                                                                  *)
(***************************************************************************)

\* Powers of two grow.
LEMMA PowersGrow ==
    /\ 2 ^ 0 = 1
    /\ \A n \in 0 .. Width : 2 ^ n \in Nat \ {0}
    /\ \A n \in 0 .. Width : \A m \in 0 .. n : 2 ^ m <= 2 ^ n
<1> DEFINE Good(n) == 2 ^ n \in Nat \ {0} /\ \A m \in 0 .. n : 2 ^ m <= 2 ^ n
           bad == {n \in 0 .. Width : ~Good(n)}
<1>1. Width \in Nat \ {0} BY HeapAssumption
<1>2. 2 ^ 0 = 1 OBVIOUS
<1>3. Good(0) BY <1>2
<1>4. ASSUME NEW n \in 0 .. Width - 1, Good(n) PROVE Good(n + 1)
  <2>1. n \in 0 .. Width - 1 /\ n + 1 \in Nat BY <1>1
  <2>2. 2 ^ (n + 1) = 2 * 2 ^ n BY <2>1, PowersAssumption
  <2>3. 2 ^ n \in Nat \ {0} /\ \A m \in 0 .. n : 2 ^ m <= 2 ^ n BY <1>4
  <2>4. PICK a, b : a = 2 ^ n /\ b = 2 ^ (n + 1) OBVIOUS
  <2>5. b \in Nat \ {0} /\ a <= b BY <2>2, <2>3, <2>4
  <2>6. \A m \in 0 .. n + 1 : m = n + 1 \/ m \in 0 .. n BY <2>1
  <2>7. \A m \in 0 .. n : m \in 0 .. Width BY <1>1
  <2>8. ASSUME NEW m \in 0 .. n PROVE 2 ^ m <= b
    <3>1. \A x \in Int : x <= a => x <= b BY <2>3, <2>4, <2>5
    <3>2. 2 ^ m <= a BY <2>3, <2>4
    <3> QED BY <2>2, <2>3, <2>4, <3>2
  <2> QED BY <2>4, <2>5, <2>6, <2>8
<1>5. bad = {}
  <2> SUFFICES ASSUME bad # {} PROVE FALSE OBVIOUS
  <2>1. bad \in SUBSET Nat BY <1>1
  <2>2. PICK n \in bad : \A m \in bad : n <= m BY <2>1, LeastNatural
  <2>3. n # 0 /\ n \in 0 .. Width BY <1>3, <2>2
  <2>4. n - 1 \in 0 .. Width - 1 /\ n - 1 \in 0 .. Width /\ n - 1 < n BY <1>1, <2>3
  <2>5. n - 1 \notin bad BY <2>2, <2>4
  <2>6. Good(n - 1) BY <2>4, <2>5
  <2>7. Good((n - 1) + 1) BY <1>4, <2>4, <2>6
  <2>8. (n - 1) + 1 = n BY <2>3, <1>1
  <2> QED BY <2>2, <2>7, <2>8
<1> QED BY <1>2, <1>5

\* Every size but zero has a slot.
LEMMA SlotFound ==
    ASSUME NEW bytes \in 1 .. 2 ^ Width - 1
    PROVE  /\ Slot(bytes) \in Slots
           /\ 2 ^ Slot(bytes) <= bytes /\ bytes < 2 ^ (Slot(bytes) + 1)
<1> DEFINE above == {n \in 0 .. Width : bytes < 2 ^ n}
<1>1. Width \in Nat \ {0} /\ 2 ^ Width \in Nat /\ bytes \in Nat \ {0}
  BY HeapAssumption, PowersGrow
<1>2. Width \in above /\ above \in SUBSET Nat BY <1>1
<1>3. PICK m \in above : \A n \in above : m <= n BY <1>2, LeastNatural
<1>4. m \in 0 .. Width /\ bytes < 2 ^ m BY <1>3
<1>5. m # 0
  <2> SUFFICES ASSUME m = 0 PROVE FALSE OBVIOUS
  <2>1. 2 ^ m = 1 BY PowersGrow, Zenon
  <2> QED BY <1>1, <1>4, <2>1
<1>6. m - 1 \in 0 .. Width /\ m - 1 \in Slots /\ (m - 1) + 1 = m BY <1>1, <1>4, <1>5 DEF Slots
<1>7. m - 1 \notin above BY <1>3, <1>4, <1>5, <1>6
<1>8. 2 ^ (m - 1) \in Nat /\ ~(bytes < 2 ^ (m - 1)) BY <1>6, <1>7, PowersGrow
<1>9. 2 ^ (m - 1) <= bytes BY <1>1, <1>8
<1>10. \E n \in Slots : 2 ^ n <= bytes /\ bytes < 2 ^ (n + 1) BY <1>4, <1>6, <1>9
<1> QED BY <1>1, <1>10 DEF Slot

\* The chunks in the lists from FirstSlot on are large enough.
LEMMA FirstSlotServes ==
    ASSUME NEW bytes \in 2 .. 2 ^ Width - 1, NEW n \in FirstSlot(bytes) .. Width - 1,
           NEW len \in 1 .. 2 ^ Width - 1, Slot(len) = n
    PROVE  n \in Slots /\ bytes <= len
<1>1. Width \in Nat \ {0} /\ 2 ^ Width \in Nat BY HeapAssumption, PowersGrow
<1>2. bytes - 1 \in 1 .. 2 ^ Width - 1 BY <1>1
<1>3. PICK k : k = Slot(bytes - 1) OBVIOUS
<1>4. k \in Slots /\ bytes - 1 < 2 ^ (k + 1) BY <1>2, <1>3, SlotFound
<1>5. k + 1 \in 0 .. n /\ n \in 0 .. Width /\ n \in Slots /\ k + 1 \in 0 .. Width
  BY <1>1, <1>3, <1>4 DEF FirstSlot, Slots
<1>6. 2 ^ (k + 1) <= 2 ^ n /\ 2 ^ n \in Nat /\ 2 ^ (k + 1) \in Nat BY <1>5, PowersGrow
<1>7. 2 ^ n <= len BY SlotFound
<1> QED BY <1>1, <1>4, <1>5, <1>6, <1>7

--------------------------------------------------------------------------------
(***************************************************************************)
(* The list of all chunks.                                                 *)
(***************************************************************************)

\* The chunks follow each other, none shorter than a free chunk, from the first to the last.
Tiled(l) ==
    /\ l \in Seq(Addr) /\ Len(l) >= 3
    /\ l[1] = FirstChunk /\ l[2] = CHUNK_SIZE /\ l[Len(l)] = LastChunk
    /\ \A i \in 1 .. Len(l) : \A j \in i + 1 .. Len(l) : l[j] - l[i] >= CHUNK_SIZE * (j - i)

\* Addresses are numbers, and sizes in the heap have slots.
LEMMA Addresses ==
    /\ Addr \subseteq Nat /\ 2 ^ Width \in Nat /\ HeapSize \in Nat
    /\ HeapSize < 2 ^ Width /\ HeapSize >= 60
    /\ \A a \in Addr : a < HeapSize
    /\ \A n \in 1 .. HeapSize : Slot(n) \in Slots
<1>1. Width \in Nat /\ 2 ^ Width \in Nat BY HeapAssumption, PowersGrow
<1>2. /\ HeapSize \in Nat /\ HeapSize < 2 ^ Width /\ HeapSize >= 60
  BY <1>1, HeapAssumption DEF CHUNK_SIZE, HEADER_SIZE, MIN_SIZE
<1>3. \A n \in 1 .. HeapSize : n \in 1 .. 2 ^ Width - 1 BY <1>1, <1>2
<1> QED BY <1>1, <1>2, <1>3, SlotFound DEF Addr

\* Every chunk is at an address of the heap.
LEMMA TiledAddress ==
    ASSUME NEW l, Tiled(l), NEW i \in 1 .. Len(l)
    PROVE  /\ Len(l) \in Nat /\ DOMAIN l = 1 .. Len(l)
           /\ l[i] \in Addr /\ l[i] \in Nat /\ l[i] < HeapSize
<1>1. l \in Seq(Addr) BY DEF Tiled
<1>2. Len(l) \in Nat /\ DOMAIN l = 1 .. Len(l) /\ l[i] \in Addr BY ONLY <1>1, i \in 1 .. Len(l)
<1>3. l[i] \in Nat /\ l[i] < HeapSize BY <1>2, Addresses
<1> QED BY <1>2, <1>3

\* A chunk is at one place of the list.
LEMMA TiledOnce ==
    ASSUME NEW l, Tiled(l), NEW i \in 1 .. Len(l), NEW j \in 1 .. Len(l), l[i] = l[j]
    PROVE  i = j
<1>1. l[i] \in Nat /\ l[j] \in Nat /\ Len(l) \in Nat BY TiledAddress
<1>2. CASE i < j BY <1>1, <1>2 DEF Tiled, CHUNK_SIZE
<1>3. CASE j < i BY <1>1, <1>3 DEF Tiled, CHUNK_SIZE
<1> QED BY <1>1, <1>2, <1>3

\* The neighbours of the chunk at a place, and its size.
LEMMA TiledPlace ==
    ASSUME NEW l, Tiled(l), NEW i \in 1 .. Len(l)
    PROVE  /\ Pos(l, l[i]) = i /\ l[i] \in ToSet(l) /\ l[i] \in Addr
           /\ i > 1 => PrevChunk(l, l[i]) = l[i - 1]
           /\ i < Len(l) => /\ NextChunk(l, l[i]) = l[i + 1]
                            /\ ChunkSize(l, l[i]) = l[i + 1] - l[i] - 12
                            /\ ChunkSize(l, l[i]) \in 8 .. HeapSize
                            /\ Slot(ChunkSize(l, l[i])) \in Slots
<1>1. l[i] \in Addr /\ l[i] \in Nat /\ Len(l) \in Nat /\ DOMAIN l = 1 .. Len(l)
  BY TiledAddress
<1>2. Pos(l, l[i]) = i BY TiledOnce DEF Pos
<1>3. ASSUME i < Len(l)
      PROVE  /\ NextChunk(l, l[i]) = l[i + 1]
             /\ ChunkSize(l, l[i]) = l[i + 1] - l[i] - 12
             /\ ChunkSize(l, l[i]) \in 8 .. HeapSize
  <2>1. i + 1 \in i + 1 .. Len(l) /\ i + 1 \in 1 .. Len(l) BY <1>1, <1>3
  <2>2. l[i + 1] \in Addr /\ l[i + 1] \in Nat /\ l[i + 1] < HeapSize /\ HeapSize \in Nat
    BY <2>1, TiledAddress, Addresses
  <2>3. l[i + 1] - l[i] >= 20 * ((i + 1) - i) BY <2>1 DEF Tiled, CHUNK_SIZE
  <2>4. l[i + 1] - l[i] >= 20 BY <1>1, <2>3
  <2>5. NextChunk(l, l[i]) = l[i + 1] BY <1>2 DEF NextChunk
  <2> QED BY <1>1, <2>2, <2>4, <2>5 DEF ChunkSize, HEADER_SIZE
<1>4. l[i] \in ToSet(l) BY <1>1 DEF ToSet
<1>5. i < Len(l) => Slot(ChunkSize(l, l[i])) \in Slots BY <1>3, Addresses
<1> QED BY <1>1, <1>2, <1>3, <1>4, <1>5 DEF PrevChunk

\* The headers fit in the heap.
LEMMA TiledLength ==
    ASSUME NEW l, Tiled(l)
    PROVE  Len(l) \in Nat /\ 20 * Len(l) <= HeapSize
<1>1. Len(l) \in Nat /\ 1 \in 1 .. Len(l) /\ Len(l) \in 1 + 1 .. Len(l) /\ HeapSize \in Nat
  BY Addresses DEF Tiled
<1>2. l[Len(l)] - l[1] >= 20 * (Len(l) - 1) BY <1>1 DEF Tiled, CHUNK_SIZE
<1>3. l[Len(l)] = HeapSize - 20 /\ l[1] = 0 BY DEF Tiled, LastChunk, FirstChunk, CHUNK_SIZE
<1> QED BY <1>1, <1>2, <1>3

\* No two neighbours in the list l are free, when the chunks in u are used.
Apart(l, u) == \A i \in 1 .. Len(l) - 1 : l[i] \in u \/ l[i + 1] \in u

\* x is a new chunk between the places i and i + 1.
Between(l, i, x) ==
    /\ Tiled(l) /\ i \in 2 .. Len(l) - 1
    /\ x \in Addr /\ x - l[i] >= CHUNK_SIZE /\ l[i + 1] - x >= CHUNK_SIZE

\* Where the chunks are after the cut.
LEMMA CutPlaces ==
    ASSUME NEW l, NEW i, NEW x, Between(l, i, x), NEW r, r = InsertAt(l, i + 1, x)
    PROVE  /\ r \in Seq(Addr) /\ Len(r) = Len(l) + 1 /\ r[i + 1] = x
           /\ \A j \in 1 .. i : r[j] = l[j]
           /\ \A j \in i + 1 .. Len(l) : r[j + 1] = l[j]
           /\ \A j \in i + 2 .. Len(l) + 1 : r[j] = l[j - 1]
<1>1. l \in Seq(Addr) /\ Len(l) \in Nat /\ i \in Nat BY DEF Between, Tiled
<1>2. i + 1 \in 1 .. Len(l) + 1 /\ x \in Addr /\ (i + 1) - 1 = i BY <1>1 DEF Between
<1>3. PICK k : k = i + 1 OBVIOUS
<1>4. /\ r \in Seq(Addr) /\ Len(r) = Len(l) + 1 /\ r[k] = x
      /\ \A j \in 1 .. k - 1 : r[j] = l[j]
      /\ \A j \in k .. Len(l) : r[j + 1] = l[j]
  <2>1. l \in Seq(Addr) /\ k \in 1 .. Len(l) + 1 /\ x \in Addr /\ r = InsertAt(l, k, x)
    BY <1>1, <1>2, <1>3
  <2> QED BY ONLY <2>1, InsertEffect
<1>5. ASSUME NEW j \in i + 2 .. Len(l) + 1 PROVE r[j] = l[j - 1]
  <2>1. j - 1 \in k .. Len(l) /\ (j - 1) + 1 = j BY <1>1, <1>3
  <2>2. r[(j - 1) + 1] = l[j - 1] BY <1>4, <2>1
  <2> QED BY <2>1, <2>2
<1> QED BY <1>1, <1>2, <1>3, <1>4, <1>5

\* A chunk that is cut leaves the heap tiled.
LEMMA CutTiled ==
    ASSUME NEW l, NEW i, NEW x, Between(l, i, x), NEW r, r = InsertAt(l, i + 1, x)
    PROVE  Tiled(r)
<1>1. /\ r \in Seq(Addr) /\ Len(r) = Len(l) + 1 /\ r[i + 1] = x
      /\ \A j \in 1 .. i : r[j] = l[j]
      /\ \A j \in i + 2 .. Len(l) + 1 : r[j] = l[j - 1]
  BY CutPlaces
<1>2. /\ Tiled(l) /\ i \in 2 .. Len(l) - 1 /\ x \in Nat /\ Len(l) \in Nat /\ i \in Nat
      /\ x - l[i] >= 20 /\ l[i + 1] - x >= 20
      /\ \A j \in 1 .. Len(l) : l[j] \in Nat
  <2>1. Tiled(l) /\ i \in 2 .. Len(l) - 1 /\ x - l[i] >= 20 /\ l[i + 1] - x >= 20 /\ x \in Addr
    BY DEF Between, CHUNK_SIZE
  <2>2. Len(l) \in Nat BY <2>1 DEF Tiled
  <2>3. \A j \in 1 .. Len(l) : l[j] \in Nat BY <2>1, TiledAddress
  <2> QED BY <2>1, <2>2, <2>3, Addresses
<1>3. \A j \in 1 .. Len(l) : \A k \in j + 1 .. Len(l) : l[k] - l[j] >= 20 * (k - j)
  BY <1>2 DEF Tiled, CHUNK_SIZE
<1>4. ASSUME NEW j \in 1 .. i PROVE x - l[j] >= 20 * ((i + 1) - j)
  <2>1. j \in 1 .. Len(l) /\ i \in 1 .. Len(l) BY <1>2
  <2>2. CASE j = i BY <1>2, <2>2
  <2>3. CASE j < i
    <3>1. i \in j + 1 .. Len(l) BY <1>2, <2>1, <2>3
    <3>2. l[i] - l[j] >= 20 * (i - j) BY <1>3, <2>1, <3>1
    <3> QED BY <1>2, <2>1, <3>2
  <2> QED BY <1>2, <2>2, <2>3
<1>5. ASSUME NEW j \in i + 1 .. Len(l) PROVE l[j] - x >= 20 * (j - i)
  <2>1. j \in 1 .. Len(l) /\ i + 1 \in 1 .. Len(l) BY <1>2
  <2>2. CASE j = i + 1 BY <1>2, <2>2
  <2>3. CASE j > i + 1
    <3>1. j \in (i + 1) + 1 .. Len(l) BY <1>2, <2>1, <2>3
    <3>2. l[j] - l[i + 1] >= 20 * (j - (i + 1)) BY <1>3, <2>1, <3>1
    <3> QED BY <1>2, <2>1, <3>2
  <2> QED BY <1>2, <2>2, <2>3
<1>6. ASSUME NEW j \in 1 .. Len(r), NEW k \in j + 1 .. Len(r) PROVE r[k] - r[j] >= 20 * (k - j)
  <2>1. j \in Nat /\ k \in Nat /\ j < k /\ k <= Len(l) + 1 BY <1>1, <1>2
  <2>2. CASE k <= i
    <3>1. j \in 1 .. i /\ k \in 1 .. i /\ j \in 1 .. Len(l) /\ k \in j + 1 .. Len(l)
      BY <1>2, <2>1, <2>2
    <3>2. r[j] = l[j] /\ r[k] = l[k] BY <1>1, <3>1
    <3> QED BY <1>3, <3>1, <3>2
  <2>3. CASE k = i + 1
    <3>1. j \in 1 .. i BY <1>2, <2>1, <2>3
    <3>2. r[j] = l[j] /\ r[k] = x BY <1>1, <2>3, <3>1
    <3> QED BY <1>4, <2>3, <3>1, <3>2
  <2>4. CASE k > i + 1
    <3>1. k - 1 \in i + 1 .. Len(l) /\ r[k] = l[k - 1] BY <1>1, <1>2, <2>1, <2>4
    <3>2. l[k - 1] - x >= 20 * ((k - 1) - i) BY <1>5, <3>1
    <3>3. CASE j <= i
      <4>1. r[j] = l[j] /\ x - l[j] >= 20 * ((i + 1) - j) BY <1>1, <1>4, <2>1, <3>3
      <4>2. l[j] \in Nat /\ l[k - 1] \in Nat BY <1>2, <2>1, <3>1, <3>3
      <4> QED BY <1>2, <2>1, <3>1, <3>2, <4>1, <4>2, SMTT(30)
    <3>4. CASE j = i + 1 BY <1>1, <1>2, <2>1, <3>1, <3>2, <3>4
    <3>5. CASE j > i + 1
      <4>1. j - 1 \in 1 .. Len(l) /\ k - 1 \in (j - 1) + 1 .. Len(l) BY <1>2, <2>1, <2>4, <3>5
      <4>2. r[j] = l[j - 1]
        <5>1. j \in i + 2 .. Len(l) + 1 BY <1>2, <2>1, <3>5
        <5> QED BY <1>1, <5>1
      <4>3. l[k - 1] - l[j - 1] >= 20 * ((k - 1) - (j - 1)) BY <1>3, <4>1
      <4> QED BY <2>1, <3>1, <4>2, <4>3
    <3> QED BY <1>2, <2>1, <3>3, <3>4, <3>5
  <2> QED BY <1>2, <2>1, <2>2, <2>3, <2>4
<1>7. r[1] = l[1] /\ r[2] = l[2] /\ r[Len(r)] = l[Len(l)] /\ Len(r) >= 3
  <2>1. Len(l) + 1 \in i + 2 .. Len(l) + 1 /\ (Len(l) + 1) - 1 = Len(l) BY <1>2
  <2>2. r[Len(l) + 1] = l[(Len(l) + 1) - 1] BY <1>1, <2>1
  <2> QED BY <1>1, <1>2, <2>1, <2>2, SMTT(30)
<1> QED BY <1>1, <1>2, <1>6, <1>7 DEF Tiled, CHUNK_SIZE

\* The chunks after the cut: x and the others, whose sizes stay but for the one that is cut.
LEMMA CutFacts ==
    ASSUME NEW l, NEW i, NEW x, Between(l, i, x), NEW r, r = InsertAt(l, i + 1, x)
    PROVE  /\ ToSet(r) = ToSet(l) \cup {x} /\ x \notin ToSet(l)
           /\ \A j \in 1 .. Len(l) - 1 : j # i => ChunkSize(r, l[j]) = ChunkSize(l, l[j])
           /\ ChunkSize(r, l[i]) = x - l[i] - 12
           /\ ChunkSize(r, x) = l[i + 1] - x - 12
           /\ Slot(ChunkSize(r, x)) \in Slots
           /\ \A u : Apart(l, u) /\ l[i] \notin u => Apart(r, u \cup {l[i]})
<1>1. Tiled(r) BY CutTiled
<1>2. /\ Len(r) = Len(l) + 1 /\ r[i + 1] = x
      /\ \A j \in 1 .. i : r[j] = l[j]
      /\ \A j \in i + 1 .. Len(l) : r[j + 1] = l[j]
      /\ \A j \in i + 2 .. Len(l) + 1 : r[j] = l[j - 1]
  BY CutPlaces
<1>3. Tiled(l) /\ i \in 2 .. Len(l) - 1 /\ Len(l) \in Nat BY DEF Between, Tiled
<1>4. DOMAIN l = 1 .. Len(l) /\ DOMAIN r = 1 .. Len(l) + 1
  <2>1. 1 \in 1 .. Len(l) /\ 1 \in 1 .. Len(r) BY <1>2, <1>3
  <2> QED BY <1>1, <1>2, <1>3, <2>1, TiledAddress
<1>5. ASSUME NEW j \in 1 .. Len(l) PROVE l[j] \in ToSet(r) /\ l[j] # x
  <2>1. CASE j <= i
    <3>1. j \in 1 .. i /\ j \in 1 .. Len(r) /\ i + 1 \in 1 .. Len(r) /\ j # i + 1 BY <1>2, <1>3, <2>1
    <3>2. r[j] = l[j] BY <1>2, <3>1
    <3>3. r[j] # r[i + 1] BY <1>1, <3>1, TiledOnce
    <3> QED BY <1>2, <1>4, <3>1, <3>2, <3>3 DEF ToSet
  <2>2. CASE j > i
    <3>1. /\ j \in i + 1 .. Len(l) /\ j + 1 \in 1 .. Len(r) /\ i + 1 \in 1 .. Len(r)
          /\ j + 1 # i + 1
      BY <1>2, <1>3, <2>2
    <3>2. r[j + 1] = l[j] BY <1>2, <3>1
    <3>3. r[j + 1] # r[i + 1] BY <1>1, <3>1, TiledOnce
    <3> QED BY <1>2, <1>4, <3>1, <3>2, <3>3 DEF ToSet
  <2> QED BY <1>3, <2>1, <2>2
<1>6. ASSUME NEW j \in 1 .. Len(r) PROVE r[j] = x \/ r[j] \in ToSet(l)
  <2>1. CASE j <= i
    <3>1. j \in 1 .. i /\ j \in 1 .. Len(l) BY <1>2, <1>3, <2>1
    <3> QED BY <1>2, <1>4, <3>1 DEF ToSet
  <2>2. CASE j > i + 1
    <3>1. j \in i + 2 .. Len(l) + 1 /\ j - 1 \in 1 .. Len(l) BY <1>2, <1>3, <2>2
    <3> QED BY <1>2, <1>4, <3>1 DEF ToSet
  <2> QED BY <1>2, <1>3, <2>1, <2>2
<1>7. ToSet(r) = ToSet(l) \cup {x} /\ x \notin ToSet(l)
  <2>1. x \in ToSet(r)
    <3>1. i + 1 \in 1 .. Len(l) + 1 BY <1>3
    <3> QED BY <1>2, <1>4, <3>1 DEF ToSet
  <2>2. ToSet(l) \subseteq ToSet(r) BY <1>4, <1>5 DEF ToSet
  <2>3. ToSet(r) \subseteq ToSet(l) \cup {x} BY <1>2, <1>4, <1>6 DEF ToSet
  <2>4. x \notin ToSet(l) BY <1>4, <1>5 DEF ToSet
  <2> QED BY <2>1, <2>2, <2>3, <2>4
<1>8. ASSUME NEW j \in 1 .. Len(l) - 1, j # i PROVE ChunkSize(r, l[j]) = ChunkSize(l, l[j])
  <2>1. j \in 1 .. Len(l) /\ j < Len(l) BY <1>3
  <2>2. ChunkSize(l, l[j]) = l[j + 1] - l[j] - 12 BY <1>3, <2>1, TiledPlace
  <2>3. CASE j < i
    <3>1. j \in 1 .. i /\ j + 1 \in 1 .. i /\ j \in 1 .. Len(r) /\ j < Len(r) BY <1>2, <1>3, <2>3
    <3>2. r[j] = l[j] /\ r[j + 1] = l[j + 1] BY <1>2, <3>1
    <3>3. ChunkSize(r, r[j]) = r[j + 1] - r[j] - 12 BY <1>1, <3>1, TiledPlace
    <3> QED BY <2>2, <3>2, <3>3
  <2>4. CASE j > i
    <3>1. /\ j \in i + 1 .. Len(l) /\ j + 1 \in i + 1 .. Len(l)
          /\ j + 1 \in 1 .. Len(r) /\ j + 1 < Len(r)
      BY <1>2, <1>3, <2>4
    <3>2. r[j + 1] = l[j] /\ r[(j + 1) + 1] = l[j + 1] BY <1>2, <3>1
    <3>3. ChunkSize(r, r[j + 1]) = r[(j + 1) + 1] - r[j + 1] - 12 BY <1>1, <3>1, TiledPlace
    <3> QED BY <2>2, <3>2, <3>3
  <2> QED BY <1>3, <1>8, <2>1, <2>3, <2>4
<1>9. /\ ChunkSize(r, l[i]) = x - l[i] - 12
      /\ ChunkSize(r, x) = l[i + 1] - x - 12
      /\ Slot(ChunkSize(r, x)) \in Slots
  <2>1. /\ i \in 1 .. Len(r) /\ i < Len(r) /\ i \in 1 .. i /\ i + 1 \in i + 1 .. Len(l)
        /\ i + 1 \in 1 .. Len(r) /\ i + 1 < Len(r)
    BY <1>2, <1>3
  <2>2. r[i] = l[i] /\ r[(i + 1) + 1] = l[i + 1] BY <1>2, <2>1
  <2>3. ChunkSize(r, r[i]) = r[i + 1] - r[i] - 12 BY <1>1, <2>1, TiledPlace
  <2>4. /\ ChunkSize(r, r[i + 1]) = r[(i + 1) + 1] - r[i + 1] - 12
        /\ Slot(ChunkSize(r, r[i + 1])) \in Slots
    BY <1>1, <2>1, TiledPlace
  <2> QED BY <1>2, <2>2, <2>3, <2>4
<1>10. ASSUME NEW u, Apart(l, u), l[i] \notin u PROVE Apart(r, u \cup {l[i]})
  <2> SUFFICES ASSUME NEW j \in 1 .. Len(r) - 1
               PROVE  \/ r[j] \in u \cup {l[i]}
                      \/ r[j + 1] \in u \cup {l[i]}
    BY DEF Apart
  <2>1. j \in Nat /\ j <= Len(l) BY <1>2, <1>3
  <2>2. CASE j < i
    <3>1. j \in 1 .. i /\ j + 1 \in 1 .. i /\ j \in 1 .. Len(l) - 1 BY <1>3, <2>1, <2>2
    <3>2. r[j] = l[j] /\ r[j + 1] = l[j + 1] BY <1>2, <3>1
    <3> QED BY <1>10, <3>1, <3>2 DEF Apart
  <2>3. CASE j = i
    <3>1. i \in 1 .. i BY <1>3
    <3> QED BY <1>2, <2>3, <3>1
  <2>4. CASE j > i
    <3>1. i \in 1 .. Len(l) - 1 /\ i + 1 \in i + 1 .. Len(l) BY <1>3
    <3>2. l[i + 1] \in u BY <1>10, <3>1 DEF Apart
    <3>3. CASE j = i + 1
      <4>1. r[j + 1] = l[i + 1] BY <1>2, <3>1, <3>3
      <4> QED BY <3>2, <4>1
    <3>4. CASE j > i + 1
      <4>1. /\ j - 1 \in i + 1 .. Len(l) /\ j - 1 \in 1 .. Len(l) - 1 /\ (j - 1) + 1 = j
            /\ j \in i + 1 .. Len(l)
        BY <1>3, <2>1, <3>4
      <4>2. r[j] = l[j - 1] /\ r[j + 1] = l[j]
        <5>1. r[(j - 1) + 1] = l[j - 1] /\ r[j + 1] = l[j] BY <1>2, <4>1
        <5> QED BY <4>1, <5>1
      <4>3. l[j - 1] \in u \/ l[(j - 1) + 1] \in u BY <1>10, <4>1 DEF Apart
      <4> QED BY <4>1, <4>2, <4>3
    <3> QED BY <1>3, <2>1, <2>4, <3>3, <3>4
  <2> QED BY <1>3, <2>1, <2>2, <2>3, <2>4
<1> QED BY <1>7, <1>8, <1>9, <1>10

\* The chunk at the place i, which is neither the first two nor the last.
Inner(l, i) == Tiled(l) /\ i \in 3 .. Len(l) - 1

\* Where the chunks are after one is merged into the chunk before it.
LEMMA JoinPlaces ==
    ASSUME NEW l, NEW i, Inner(l, i), NEW r, r = Unchain(l, l[i])
    PROVE  /\ r \in Seq(Addr) /\ Len(r) = Len(l) - 1
           /\ \A j \in 1 .. i - 1 : r[j] = l[j]
           /\ \A j \in i .. Len(l) - 1 : r[j] = l[j + 1]
<1>1. /\ Tiled(l) /\ l \in Seq(Addr) /\ Len(l) \in Nat /\ i \in 1 .. Len(l)
  BY DEF Inner, Tiled
<1>2. r = RemoveAt(l, i) BY <1>1, TiledPlace DEF Unchain
<1> QED BY ONLY <1>1, <1>2, RemoveEffect

\* A merge leaves the heap tiled.
LEMMA JoinTiled ==
    ASSUME NEW l, NEW i, Inner(l, i), NEW r, r = Unchain(l, l[i])
    PROVE  Tiled(r)
<1>1. /\ r \in Seq(Addr) /\ Len(r) = Len(l) - 1
      /\ \A j \in 1 .. i - 1 : r[j] = l[j]
      /\ \A j \in i .. Len(l) - 1 : r[j] = l[j + 1]
  <2>1. r \in Seq(Addr) BY JoinPlaces
  <2>2. /\ Len(r) = Len(l) - 1
        /\ \A j \in 1 .. i - 1 : r[j] = l[j]
        /\ \A j \in i .. Len(l) - 1 : r[j] = l[j + 1]
    BY JoinPlaces
  <2> QED BY <2>1, <2>2
<1>2. Tiled(l) /\ i \in 3 .. Len(l) - 1 /\ Len(l) \in Nat BY DEF Inner, Tiled
<1>3. \A j \in 1 .. Len(l) : \A k \in j + 1 .. Len(l) : l[k] - l[j] >= 20 * (k - j)
  BY <1>2 DEF Tiled, CHUNK_SIZE
<1>4. ASSUME NEW j \in 1 .. Len(r), NEW k \in j + 1 .. Len(r) PROVE r[k] - r[j] >= 20 * (k - j)
  <2>1. j \in Nat /\ k \in Nat /\ j >= 1 /\ j < k /\ k <= Len(l) - 1 BY <1>1, <1>2
  <2>2. CASE k < i
    <3>1. /\ j \in 1 .. i - 1 /\ k \in 1 .. i - 1 /\ j \in 1 .. Len(l) /\ k \in j + 1 .. Len(l)
      BY <1>2, <2>1, <2>2
    <3>2. r[j] = l[j] /\ r[k] = l[k] BY <1>1, <3>1
    <3> QED BY <1>3, <3>1, <3>2
  <2>3. CASE j < i /\ k >= i
    <3>1. /\ j \in 1 .. i - 1 /\ k \in i .. Len(l) - 1
          /\ j \in 1 .. Len(l) /\ k + 1 \in j + 1 .. Len(l) /\ k + 1 \in 1 .. Len(l)
      BY <1>2, <2>1, <2>3
    <3>2. r[j] = l[j] /\ r[k] = l[k + 1] BY <1>1, <3>1
    <3>3. l[k + 1] - l[j] >= 20 * ((k + 1) - j) BY <1>3, <3>1
    <3>4. l[j] \in Nat /\ l[k + 1] \in Nat BY <1>2, <3>1, TiledAddress
    <3> QED BY <2>1, <3>2, <3>3, <3>4
  <2>4. CASE j >= i
    <3>1. /\ j \in i .. Len(l) - 1 /\ k \in i .. Len(l) - 1
          /\ j + 1 \in 1 .. Len(l) /\ k + 1 \in (j + 1) + 1 .. Len(l)
      BY <1>2, <2>1, <2>4
    <3>2. r[j] = l[j + 1] /\ r[k] = l[k + 1] BY <1>1, <3>1
    <3>3. l[k + 1] - l[j + 1] >= 20 * ((k + 1) - (j + 1)) BY <1>3, <3>1
    <3> QED BY <2>1, <3>2, <3>3
  <2> QED BY <1>2, <2>1, <2>2, <2>3, <2>4
<1>5. r[1] = l[1] /\ r[2] = l[2] /\ r[Len(r)] = l[Len(l)] /\ Len(r) >= 3
  <2>1. 1 \in 1 .. i - 1 /\ 2 \in 1 .. i - 1 /\ Len(l) - 1 \in i .. Len(l) - 1
        /\ (Len(l) - 1) + 1 = Len(l) /\ Len(r) >= 3
    BY <1>1, <1>2
  <2>2. r[Len(l) - 1] = l[(Len(l) - 1) + 1] BY <1>1, <2>1
  <2> QED BY <1>1, <2>1, <2>2
<1> QED BY <1>1, <1>2, <1>4, <1>5 DEF Tiled, CHUNK_SIZE

\* The chunks after a merge: all but one, and only the chunk before it has another size.
LEMMA JoinFacts ==
    ASSUME NEW l, NEW i, Inner(l, i), NEW r, r = Unchain(l, l[i])
    PROVE  /\ ToSet(r) = ToSet(l) \ {l[i]}
           /\ \A j \in 1 .. Len(l) - 1 :
                j \notin {i - 1, i} => ChunkSize(r, l[j]) = ChunkSize(l, l[j])
           /\ \A u : Apart(l, u) /\ (l[i - 1] \in u \/ l[i + 1] \in u) => Apart(r, u)
<1>1. Tiled(r) BY JoinTiled
<1>2. /\ Len(r) = Len(l) - 1
      /\ \A j \in 1 .. i - 1 : r[j] = l[j]
      /\ \A j \in i .. Len(l) - 1 : r[j] = l[j + 1]
  BY JoinPlaces
<1>3. Tiled(l) /\ i \in 3 .. Len(l) - 1 /\ Len(l) \in Nat BY DEF Inner, Tiled
<1>4. DOMAIN l = 1 .. Len(l) /\ DOMAIN r = 1 .. Len(l) - 1
  <2>1. 1 \in 1 .. Len(l) /\ 1 \in 1 .. Len(r) BY <1>2, <1>3
  <2> QED BY <1>1, <1>2, <1>3, <2>1, TiledAddress
<1>5. ASSUME NEW j \in 1 .. Len(l), j # i PROVE l[j] \in ToSet(r)
  <2>1. CASE j < i
    <3>1. j \in 1 .. i - 1 /\ j \in 1 .. Len(l) - 1 BY <1>3, <2>1
    <3> QED BY <1>2, <1>4, <3>1 DEF ToSet
  <2>2. CASE j > i
    <3>1. j - 1 \in i .. Len(l) - 1 /\ j - 1 \in 1 .. Len(l) - 1 /\ (j - 1) + 1 = j
      BY <1>3, <2>2
    <3>2. r[j - 1] = l[(j - 1) + 1] BY <1>2, <3>1
    <3> QED BY <1>4, <3>1, <3>2 DEF ToSet
  <2> QED BY <1>3, <1>5, <2>1, <2>2
<1>6. ASSUME NEW j \in 1 .. Len(r) PROVE r[j] \in ToSet(l) /\ r[j] # l[i]
  <2>1. CASE j < i
    <3>1. j \in 1 .. i - 1 /\ j \in 1 .. Len(l) /\ i \in 1 .. Len(l) /\ j # i BY <1>3, <2>1
    <3>2. r[j] = l[j] /\ l[j] # l[i] BY <1>2, <1>3, <3>1, TiledOnce
    <3> QED BY <1>4, <3>1, <3>2 DEF ToSet
  <2>2. CASE j >= i
    <3>1. /\ j \in i .. Len(l) - 1 /\ j + 1 \in 1 .. Len(l) /\ i \in 1 .. Len(l)
          /\ j + 1 # i
      BY <1>2, <1>3, <2>2
    <3>2. r[j] = l[j + 1] /\ l[j + 1] # l[i] BY <1>2, <1>3, <3>1, TiledOnce
    <3> QED BY <1>4, <3>1, <3>2 DEF ToSet
  <2> QED BY <1>3, <2>1, <2>2
<1>7. ToSet(r) = ToSet(l) \ {l[i]}
  <2>1. ToSet(l) \ {l[i]} \subseteq ToSet(r) BY <1>4, <1>5 DEF ToSet
  <2>2. ToSet(r) \subseteq ToSet(l) \ {l[i]} BY <1>2, <1>4, <1>6 DEF ToSet
  <2> QED BY <2>1, <2>2
<1>8. ASSUME NEW j \in 1 .. Len(l) - 1, j \notin {i - 1, i}
      PROVE  ChunkSize(r, l[j]) = ChunkSize(l, l[j])
  <2>1. j \in 1 .. Len(l) /\ j < Len(l) BY <1>3
  <2>2. ChunkSize(l, l[j]) = l[j + 1] - l[j] - 12 BY <1>3, <2>1, TiledPlace
  <2>3. CASE j < i - 1
    <3>1. /\ j \in 1 .. i - 1 /\ j + 1 \in 1 .. i - 1
          /\ j \in 1 .. Len(r) /\ j < Len(r)
      BY <1>2, <1>3, <2>3
    <3>2. r[j] = l[j] /\ r[j + 1] = l[j + 1] BY <1>2, <3>1
    <3>3. ChunkSize(r, r[j]) = r[j + 1] - r[j] - 12 BY <1>1, <3>1, TiledPlace
    <3> QED BY <2>2, <3>2, <3>3
  <2>4. CASE j > i
    <3>1. /\ j - 1 \in i .. Len(l) - 1 /\ j \in i .. Len(l) - 1
          /\ j - 1 \in 1 .. Len(r) /\ j - 1 < Len(r) /\ (j - 1) + 1 = j
      BY <1>2, <1>3, <2>4
    <3>2. r[j - 1] = l[(j - 1) + 1] /\ r[j] = l[j + 1] BY <1>2, <3>1
    <3>3. ChunkSize(r, r[j - 1]) = r[(j - 1) + 1] - r[j - 1] - 12 BY <1>1, <3>1, TiledPlace
    <3> QED BY <2>2, <3>1, <3>2, <3>3
  <2> QED BY <1>3, <1>8, <2>1, <2>3, <2>4
<1>9. ASSUME NEW u, Apart(l, u), l[i - 1] \in u \/ l[i + 1] \in u PROVE Apart(r, u)
  <2> SUFFICES ASSUME NEW j \in 1 .. Len(r) - 1 PROVE r[j] \in u \/ r[j + 1] \in u
    BY DEF Apart
  <2>1. j \in Nat /\ j >= 1 /\ j <= Len(l) - 2 BY <1>2, <1>3
  <2>2. CASE j < i - 1
    <3>1. j \in 1 .. i - 1 /\ j + 1 \in 1 .. i - 1 /\ j \in 1 .. Len(l) - 1 BY <1>3, <2>1, <2>2
    <3>2. r[j] = l[j] /\ r[j + 1] = l[j + 1] BY <1>2, <3>1
    <3> QED BY <1>9, <3>1, <3>2 DEF Apart
  <2>3. CASE j = i - 1
    <3>1. i - 1 \in 1 .. i - 1 /\ i \in i .. Len(l) - 1 /\ (i - 1) + 1 = i BY <1>3
    <3>2. r[i - 1] = l[i - 1] /\ r[i] = l[i + 1] BY <1>2, <3>1
    <3> QED BY <1>9, <2>3, <3>1, <3>2
  <2>4. CASE j > i - 1
    <3>1. /\ j \in i .. Len(l) - 1 /\ j + 1 \in i .. Len(l) - 1
          /\ j + 1 \in 1 .. Len(l) - 1
      BY <1>3, <2>1, <2>4
    <3>2. r[j] = l[j + 1] /\ r[j + 1] = l[(j + 1) + 1] BY <1>2, <3>1
    <3>3. l[j + 1] \in u \/ l[(j + 1) + 1] \in u BY <1>9, <3>1 DEF Apart
    <3> QED BY <3>2, <3>3
  <2> QED BY <1>3, <2>1, <2>2, <2>3, <2>4
<1> QED BY <1>7, <1>8, <1>9

--------------------------------------------------------------------------------
(***************************************************************************)
(* The lists of free chunks.                                               *)
(***************************************************************************)

\* The slot of a chunk of the list l.
SlotOf(l, c) == Slot(ChunkSize(l, c))

\* The chunks F of the list l are linked once each, in the list of their size.
Filed(f, F, l) ==
    /\ f \in [Slots -> Seq(Addr)] /\ F \subseteq Addr
    /\ \A n \in Slots : IsInjective(f[n])
    /\ \A n \in Slots : \A x \in Addr : Contains(f[n], x) <=> (x \in F /\ SlotOf(l, x) = n)

\* Another list for one slot.
LEMMA FileChange ==
    ASSUME NEW f, NEW F, NEW l, Filed(f, F, l), NEW n \in Slots, NEW q \in Seq(Addr),
           IsInjective(q), NEW G \in SUBSET Addr,
           \A x \in Addr : Contains(q, x) <=> (x \in G /\ SlotOf(l, x) = n),
           \A x \in Addr : SlotOf(l, x) # n => (x \in G <=> x \in F),
           NEW g, g = [f EXCEPT ![n] = q]
    PROVE  Filed(g, G, l)
<1>1. f \in [Slots -> Seq(Addr)] BY DEF Filed
<1>2. g \in [Slots -> Seq(Addr)] /\ g[n] = q /\ \A m \in Slots \ {n} : g[m] = f[m] BY <1>1
<1>3. \A m \in Slots : IsInjective(g[m]) BY <1>2 DEF Filed
<1>4. ASSUME NEW m \in Slots, NEW x \in Addr
      PROVE  Contains(g[m], x) <=> (x \in G /\ SlotOf(l, x) = m)
  <2>1. CASE m = n BY <1>2, <2>1
  <2>2. CASE m # n
    <3>1. g[m] = f[m] BY <1>2, <2>2
    <3>2. Contains(f[m], x) <=> (x \in F /\ SlotOf(l, x) = m) BY DEF Filed
    <3> QED BY <2>2, <3>1, <3>2
  <2> QED BY <2>1, <2>2
<1> QED BY <1>2, <1>3, <1>4 DEF Filed

\* A chunk that is taken out of its list.
LEMMA FileOut ==
    ASSUME NEW f, NEW F, NEW l, Filed(f, F, l), NEW c \in F, SlotOf(l, c) \in Slots
    PROVE  Filed(RemoveFree(f, l, c), F \ {c}, l)
<1>1. PICK n \in Slots : n = SlotOf(l, c) OBVIOUS
<1>2. /\ f[n] \in Seq(Addr) /\ IsInjective(f[n]) /\ c \in Addr /\ F \subseteq Addr
      /\ Contains(f[n], c) /\ \A x \in Addr : Contains(f[n], x) <=> (x \in F /\ SlotOf(l, x) = n)
  BY <1>1 DEF Filed
<1>3. PICK i : i = Pos(f[n], c) OBVIOUS
<1>4. i \in 1 .. Len(f[n]) /\ f[n][i] = c BY <1>2, <1>3 DEF Pos, Contains
<1>5. PICK q : q = RemoveAt(f[n], i) OBVIOUS
<1>6. /\ q \in Seq(Addr) /\ IsInjective(q) /\ ~Contains(q, c)
      /\ \A x : Contains(q, x) => Contains(f[n], x)
      /\ \A x : Contains(f[n], x) /\ x # c => Contains(q, x)
  BY <1>2, <1>4, <1>5, RemoveAtQueue
<1>7. RemoveFree(f, l, c) = [f EXCEPT ![n] = q]
  BY <1>1, <1>3, <1>5 DEF RemoveFree, Unchain, SlotOf
<1>8. \A x \in Addr : Contains(q, x) <=> (x \in F \ {c} /\ SlotOf(l, x) = n) BY <1>2, <1>6
<1>9. \A x \in Addr : SlotOf(l, x) # n => (x \in F \ {c} <=> x \in F) BY <1>1
<1>10. F \ {c} \in SUBSET Addr BY <1>2
<1> QED BY <1>6, <1>7, <1>8, <1>9, <1>10, FileChange

\* A chunk that is pushed on the list of its size.
LEMMA FileIn ==
    ASSUME NEW f, NEW F, NEW l, Filed(f, F, l), NEW c \in Addr \ F, SlotOf(l, c) \in Slots
    PROVE  Filed(PushFree(f, l, c), F \cup {c}, l)
<1>1. PICK n \in Slots : n = SlotOf(l, c) OBVIOUS
<1>2. /\ f[n] \in Seq(Addr) /\ IsInjective(f[n]) /\ F \subseteq Addr /\ ~Contains(f[n], c)
      /\ \A x \in Addr : Contains(f[n], x) <=> (x \in F /\ SlotOf(l, x) = n)
  BY <1>1 DEF Filed
<1>3. PICK q : q = <<c>> \o f[n] OBVIOUS
<1>4. /\ q \in Seq(Addr) /\ IsInjective(q)
      /\ \A x : Contains(q, x) <=> (x = c \/ Contains(f[n], x))
  <2>1. q = Push(f[n], c) BY <1>3 DEF Push
  <2> QED BY <1>2, <2>1, PushProperties
<1>5. PushFree(f, l, c) = [f EXCEPT ![n] = q] BY <1>1, <1>3 DEF PushFree, SlotOf
<1>6. \A x \in Addr : Contains(q, x) <=> (x \in F \cup {c} /\ SlotOf(l, x) = n) BY <1>1, <1>2, <1>4
<1>7. \A x \in Addr : SlotOf(l, x) # n => (x \in F \cup {c} <=> x \in F) BY <1>1
<1>8. F \cup {c} \in SUBSET Addr BY <1>2
<1> QED BY <1>4, <1>5, <1>6, <1>7, <1>8, FileChange

\* The first chunk of a list that is not empty.
LEMMA FilePop ==
    ASSUME NEW f, NEW F, NEW l, Filed(f, F, l), NEW n \in Slots, f[n] # <<>>
    PROVE  /\ Head(f[n]) \in F /\ SlotOf(l, Head(f[n])) = n
           /\ Filed([f EXCEPT ![n] = Tail(@)], F \ {Head(f[n])}, l)
<1>1. /\ f[n] \in Seq(Addr) /\ IsInjective(f[n]) /\ F \subseteq Addr
      /\ \A x \in Addr : Contains(f[n], x) <=> (x \in F /\ SlotOf(l, x) = n)
  BY DEF Filed
<1>2. PICK q, c : q = Tail(f[n]) /\ c = Head(f[n]) OBVIOUS
<1>3. /\ q \in Seq(Addr) /\ IsInjective(q) /\ ~Contains(q, c) /\ c \in Addr
      /\ \A x : Contains(f[n], x) <=> (x = c \/ Contains(q, x))
  BY <1>1, <1>2, TailQueue
<1>4. c \in F /\ SlotOf(l, c) = n BY <1>1, <1>3
<1>5. \A x \in Addr : Contains(q, x) <=> (x \in F \ {c} /\ SlotOf(l, x) = n) BY <1>1, <1>3
<1>6. \A x \in Addr : SlotOf(l, x) # n => (x \in F \ {c} <=> x \in F) BY <1>4
<1>7. F \ {c} \in SUBSET Addr BY <1>1
<1>8. Filed([f EXCEPT ![n] = q], F \ {c}, l) BY <1>3, <1>5, <1>6, <1>7, FileChange
<1> QED BY <1>2, <1>4, <1>8

\* Cuts and merges that leave the free chunks their sizes.
LEMMA FileKept ==
    ASSUME NEW f, NEW F, NEW l, Filed(f, F, l), NEW r,
           \A x \in F : ChunkSize(r, x) = ChunkSize(l, x)
    PROVE  Filed(f, F, r)
<1>1. \A x \in F : SlotOf(r, x) = SlotOf(l, x) BY DEF SlotOf
<1> QED BY <1>1 DEF Filed

--------------------------------------------------------------------------------
(***************************************************************************)
(* The heap: chunks, free lists and flags together.                        *)
(***************************************************************************)
Sound(l, f, u) ==
    /\ Tiled(l) /\ u \subseteq ToSet(l) /\ FirstChunk \in u /\ LastChunk \in u
    /\ Filed(f, ToSet(l) \ u, l)
    /\ Apart(l, u)

\* A chunk is at some place of the list.
LEMMA PlaceOf ==
    ASSUME NEW l, Tiled(l), NEW c \in ToSet(l)
    PROVE  \E i \in 1 .. Len(l) : /\ c = l[i]
                                  /\ c # FirstChunk => i > 1
                                  /\ c # LastChunk => i < Len(l)
<1>1. 1 \in 1 .. Len(l) /\ l[1] = FirstChunk /\ l[Len(l)] = LastChunk /\ Len(l) \in Nat
  BY DEF Tiled
<1>2. PICK i \in 1 .. Len(l) : c = l[i] BY <1>1, TiledAddress DEF ToSet
<1> QED BY <1>1, <1>2

\* A chunk that is free has a slot.
LEMMA FreeSlot ==
    ASSUME NEW l, NEW f, NEW u, Sound(l, f, u), NEW c \in ToSet(l) \ u
    PROVE  \E i \in 2 .. Len(l) - 1 : c = l[i] /\ SlotOf(l, c) \in Slots
<1>1. Tiled(l) /\ c # FirstChunk /\ c # LastChunk /\ Len(l) \in Nat BY DEF Sound, Tiled
<1>2. PICK i \in 1 .. Len(l) : c = l[i] /\ i > 1 /\ i < Len(l) BY <1>1, PlaceOf
<1>3. i \in 2 .. Len(l) - 1 BY <1>1, <1>2
<1> QED BY <1>1, <1>2, <1>3, TiledPlace DEF SlotOf

\* c is the first chunk of the list n, and g is what is left of the lists.
Popped(f, n, c, g) == f[n] # <<>> /\ c = Head(f[n]) /\ g = [f EXCEPT ![n] = Tail(@)]

\* kmalloc hands out a whole chunk.
LEMMA TakeWhole ==
    ASSUME NEW l, NEW f, NEW u, Sound(l, f, u), NEW n \in Slots,
           NEW c, NEW g, Popped(f, n, c, g)
    PROVE  /\ c \in ToSet(l) \ u /\ SlotOf(l, c) = n
           /\ Filed(g, (ToSet(l) \ u) \ {c}, l)
           /\ Sound(l, g, u \cup {c})
<1>1. /\ c \in ToSet(l) \ u /\ SlotOf(l, c) = n
      /\ Filed(g, (ToSet(l) \ u) \ {c}, l)
  BY FilePop, ZenonT(40) DEF Sound, Popped
<1>2. (ToSet(l) \ u) \ {c} = ToSet(l) \ (u \cup {c}) OBVIOUS
<1>3. Apart(l, u \cup {c}) BY DEF Sound, Apart
<1> QED BY <1>1, <1>2, <1>3 DEF Sound

\* A chunk of y bytes from c cut at x, for a block of the given size.
LEMMA CutArithmetic ==
    ASSUME NEW c \in Nat, NEW bytes \in Nat, bytes >= 8, NEW y \in Nat, NEW x, x = c + 12 + bytes,
           bytes + 20 <= y - c - 12
    PROVE  /\ x \in Nat /\ x - c >= 20 /\ y - x >= 20 /\ x < y
           /\ x - c - 12 = bytes /\ y - x - 12 = (y - c - 12) - bytes - 12
OBVIOUS

\* The cut is aligned.
LEMMA CutAligned ==
    ASSUME NEW c \in Nat, NEW bytes \in Nat, c % 4 = 0, bytes % 4 = 0
    PROVE  (c + 12 + bytes) % 4 = 0
OBVIOUS

\* That chunk is cut at x for a block of the given size, r are the chunks then.
CutOff(l, f, n, c, g, bytes, x, r) ==
    /\ Popped(f, n, c, g)
    /\ bytes \in Nat /\ bytes >= 8 /\ bytes % 4 = 0 /\ bytes + 20 <= ChunkSize(l, c)
    /\ x = c + 12 + bytes /\ r = InsertAt(l, Pos(l, c) + 1, x)

\* What the cut does to the sizes.
CutSizes(l, u, c, bytes, x, r) ==
    /\ Len(r) = Len(l) + 1
    /\ ChunkSize(r, c) = bytes /\ ChunkSize(r, x) = ChunkSize(l, c) - bytes - 12
    /\ \A d \in u \ {LastChunk} : ChunkSize(r, d) = ChunkSize(l, d)

\* kmalloc cuts the chunk it hands out.
LEMMA TakeCut ==
    ASSUME NEW l, NEW f, NEW u, Sound(l, f, u), NEW n \in Slots, NEW c, NEW g,
           NEW bytes, NEW x, NEW r, CutOff(l, f, n, c, g, bytes, x, r)
    PROVE  /\ Sound(r, PushFree(g, r, x), u \cup {c})
           /\ CutSizes(l, u, c, bytes, x, r)
<1>0. /\ Popped(f, n, c, g) /\ bytes \in Nat /\ bytes >= 8 /\ bytes % 4 = 0
      /\ bytes + 20 <= ChunkSize(l, c)
      /\ x = c + 12 + bytes /\ r = InsertAt(l, Pos(l, c) + 1, x)
  BY DEF CutOff
<1>1. c \in ToSet(l) \ u /\ Filed(g, (ToSet(l) \ u) \ {c}, l) BY <1>0, TakeWhole
<1>2. Tiled(l) /\ Len(l) \in Nat BY DEF Sound, Tiled
<1>3. PICK i \in 2 .. Len(l) - 1 : c = l[i] BY <1>1, FreeSlot
<1>4. i \in 1 .. Len(l) /\ i < Len(l) /\ i + 1 \in 1 .. Len(l) BY <1>2, <1>3
<1>5. Pos(l, c) = i /\ ChunkSize(l, c) = l[i + 1] - c - 12 /\ c \in Addr
  BY <1>2, <1>3, <1>4, TiledPlace
<1>6. l[i + 1] \in Nat /\ l[i + 1] < HeapSize /\ HeapSize \in Nat /\ c \in Nat /\ c % 4 = 0
  BY <1>2, <1>4, <1>5, TiledAddress, Addresses DEF Addr, ALIGN
<1>7. /\ x \in Nat /\ x - l[i] >= 20 /\ l[i + 1] - x >= 20 /\ x < HeapSize
      /\ x - c - 12 = bytes /\ l[i + 1] - x - 12 = ChunkSize(l, c) - bytes - 12
  <2>1. PICK y : y = l[i + 1] OBVIOUS
  <2>2. y \in Nat /\ y < HeapSize /\ ChunkSize(l, c) = y - c - 12 BY <1>5, <1>6, <2>1
  <2>3. bytes + 20 <= y - c - 12 BY <1>0, <2>2
  <2>4. /\ x \in Nat /\ x - c >= 20 /\ y - x >= 20 /\ x < y
        /\ x - c - 12 = bytes /\ y - x - 12 = (y - c - 12) - bytes - 12
    BY ONLY <1>6, <2>2, <2>3, CutArithmetic, <1>0
  <2>5. x < HeapSize BY ONLY <1>6, <2>2, <2>4
  <2> QED BY ONLY <1>3, <2>1, <2>2, <2>4, <2>5
<1>8. x % 4 = 0 BY <1>0, <1>6, CutAligned
<1>9. x \in Addr BY <1>7, <1>8, <1>6 DEF Addr, ALIGN
<1>10. Between(l, i, x) /\ r = InsertAt(l, i + 1, x)
  BY <1>2, <1>3, <1>5, <1>7, <1>9, <1>0 DEF Between, CHUNK_SIZE
<1>11. Tiled(r) /\ Len(r) = Len(l) + 1 BY <1>10, CutTiled, CutPlaces
<1>12. /\ ToSet(r) = ToSet(l) \cup {x} /\ x \notin ToSet(l)
       /\ \A j \in 1 .. Len(l) - 1 : j # i => ChunkSize(r, l[j]) = ChunkSize(l, l[j])
       /\ ChunkSize(r, l[i]) = x - l[i] - 12
       /\ ChunkSize(r, x) = l[i + 1] - x - 12
       /\ Slot(ChunkSize(r, x)) \in Slots
       /\ (Apart(l, u) /\ l[i] \notin u => Apart(r, u \cup {l[i]}))
  BY <1>10, CutFacts
<1>13. ASSUME NEW d \in ToSet(l), d # c, d # LastChunk PROVE ChunkSize(r, d) = ChunkSize(l, d)
  <2>1. PICK j \in 1 .. Len(l) : d = l[j] /\ j < Len(l) BY <1>2, <1>13, PlaceOf
  <2>2. j \in 1 .. Len(l) - 1 /\ j # i BY <1>2, <1>3, <1>13, <2>1
  <2> QED BY <1>12, <2>1, <2>2
<1>14. Filed(g, (ToSet(l) \ u) \ {c}, r)
  <2>1. LastChunk \in u BY DEF Sound
  <2>2. \A d \in (ToSet(l) \ u) \ {c} : ChunkSize(r, d) = ChunkSize(l, d) BY <1>13, <2>1
  <2> QED BY <1>1, <2>2, FileKept
<1>15. Filed(PushFree(g, r, x), ((ToSet(l) \ u) \ {c}) \cup {x}, r)
  BY <1>9, <1>12, <1>14, FileIn DEF SlotOf
<1>16. /\ u \subseteq ToSet(l) /\ FirstChunk \in u /\ LastChunk \in u /\ Apart(l, u)
  BY DEF Sound
<1>17. ((ToSet(l) \ u) \ {c}) \cup {x} = ToSet(r) \ (u \cup {c}) BY <1>1, <1>12, <1>16
<1>18. Apart(r, u \cup {c}) BY <1>1, <1>3, <1>12, <1>16
<1>19. Sound(r, PushFree(g, r, x), u \cup {c})
  BY <1>1, <1>11, <1>12, <1>15, <1>16, <1>17, <1>18 DEF Sound
<1>20. ChunkSize(r, c) = bytes /\ ChunkSize(r, x) = ChunkSize(l, c) - bytes - 12
  BY ONLY <1>3, <1>7, <1>12
<1>21. \A d \in u \ {LastChunk} : ChunkSize(r, d) = ChunkSize(l, d) BY <1>1, <1>13, <1>16
<1> QED BY <1>11, <1>19, <1>20, <1>21 DEF CutSizes

\* The chunk at the place i of l is still there in r, and the one after it is used.
Follows(l, u, i, r) ==
    /\ i \in 2 .. Len(r) - 1
    /\ r[i] = l[i] /\ r[i - 1] = l[i - 1] /\ r[i + 1] \in u

\* The used chunks but c keep their sizes.
SizesKept(l, u, c, r) == \A d \in u \ {LastChunk, c} : ChunkSize(r, d) = ChunkSize(l, d)

\* kfree merges the chunk after the one it frees into it.
LEMMA MergeNext ==
    ASSUME NEW l, NEW f, NEW u, Sound(l, f, u), NEW i \in 2 .. Len(l) - 1,
           l[i] \in u, l[i + 1] \notin u,
           NEW r, r = Unchain(l, l[i + 1]), NEW g, g = RemoveFree(f, l, l[i + 1])
    PROVE  /\ Sound(r, g, u) /\ Len(r) = Len(l) - 1
           /\ Follows(l, u, i, r) /\ SizesKept(l, u, l[i], r)
<1>1. /\ Tiled(l) /\ Len(l) \in Nat /\ l[Len(l)] = LastChunk
      /\ u \subseteq ToSet(l) /\ FirstChunk \in u /\ LastChunk \in u
      /\ Filed(f, ToSet(l) \ u, l) /\ Apart(l, u)
  BY DEF Sound, Tiled
<1>2. i + 1 # Len(l) BY <1>1
<1>3. PICK k : k = i + 1 OBVIOUS
<1>4. /\ k \in 3 .. Len(l) - 1 /\ k - 1 = i /\ k \in 1 .. Len(l) /\ k < Len(l)
      /\ i \in 1 .. k - 1 /\ i - 1 \in 1 .. k - 1 /\ k \in k .. Len(l) - 1
      /\ k \in 1 .. Len(l) - 1
  BY <1>1, <1>2, <1>3
<1>5. Inner(l, k) /\ r = Unchain(l, l[k]) BY <1>1, <1>3, <1>4 DEF Inner
<1>6. Tiled(r) BY <1>5, JoinTiled
<1>7. /\ Len(r) = Len(l) - 1
      /\ \A j \in 1 .. k - 1 : r[j] = l[j]
      /\ \A j \in k .. Len(l) - 1 : r[j] = l[j + 1]
  BY <1>5, JoinPlaces
<1>8. /\ ToSet(r) = ToSet(l) \ {l[k]}
      /\ \A j \in 1 .. Len(l) - 1 : j \notin {k - 1, k} => ChunkSize(r, l[j]) = ChunkSize(l, l[j])
      /\ Apart(l, u) /\ (l[k - 1] \in u \/ l[k + 1] \in u) => Apart(r, u)
  BY <1>5, JoinFacts
<1>9. ASSUME NEW d \in ToSet(l), d \notin {l[i], l[k], LastChunk}
      PROVE  ChunkSize(r, d) = ChunkSize(l, d)
  <2>1. PICK j \in 1 .. Len(l) : d = l[j] /\ j < Len(l) BY <1>1, <1>9, PlaceOf
  <2>2. j \in 1 .. Len(l) - 1 /\ j \notin {k - 1, k} BY <1>1, <1>4, <1>9, <2>1
  <2> QED BY <1>8, <2>1, <2>2
<1>10. l[k] \in ToSet(l) \ u /\ SlotOf(l, l[k]) \in Slots
  BY <1>1, <1>3, <1>4, TiledPlace DEF SlotOf
<1>11. Filed(g, (ToSet(l) \ u) \ {l[k]}, l) BY <1>1, <1>3, <1>10, FileOut
<1>12. Filed(g, (ToSet(l) \ u) \ {l[k]}, r)
  <2>1. \A d \in (ToSet(l) \ u) \ {l[k]} : ChunkSize(r, d) = ChunkSize(l, d) BY <1>1, <1>9
  <2> QED BY <1>11, <2>1, FileKept
<1>13. (ToSet(l) \ u) \ {l[k]} = ToSet(r) \ u BY <1>8
<1>14. Apart(r, u) BY <1>1, <1>4, <1>8
<1>15. u \subseteq ToSet(r) BY <1>1, <1>8, <1>10
<1>16. Sound(r, g, u) BY <1>1, <1>6, <1>12, <1>13, <1>14, <1>15 DEF Sound
<1>17. r[i] = l[i] /\ r[i - 1] = l[i - 1] BY <1>4, <1>7
<1>18. r[i + 1] \in u
  <2>1. r[k] = l[k + 1] BY <1>4, <1>7
  <2>2. l[k + 1] \in u BY <1>1, <1>4, <1>10 DEF Apart
  <2> QED BY <1>3, <2>1, <2>2
<1>19. i \in 2 .. Len(r) - 1 BY <1>1, <1>4, <1>7
<1>20. \A d \in u \ {LastChunk, l[i]} : ChunkSize(r, d) = ChunkSize(l, d) BY <1>1, <1>9, <1>10
<1>21. Follows(l, u, i, r) BY <1>17, <1>18, <1>19 DEF Follows
<1> QED BY <1>7, <1>16, <1>20, <1>21 DEF SizesKept

\* The chunk at the place i is used, and the one after it.
Held(l, f, u, i) ==
    /\ Sound(l, f, u) /\ i \in 2 .. Len(l) - 1
    /\ l[i] \in u /\ l[i + 1] \in u

\* The lists r and g, made of l, once the chunk c is part of the free chunk home.
Freed(l, u, c, r, g, home) ==
    /\ Sound(r, g, u \ {c}) /\ SizesKept(l, u, c, r)
    /\ home \in ToSet(r) \ (u \ {c})

\* kfree merges the chunk it frees into the one before.
LEMMA MergePrev ==
    ASSUME NEW l, NEW f, NEW u, NEW i, Held(l, f, u, i), l[i - 1] \notin u,
           NEW r, r = Unchain(l, l[i]), NEW g, g = RemoveFree(f, l, l[i - 1])
    PROVE  /\ Freed(l, u, l[i], r, PushFree(g, r, l[i - 1]), l[i - 1])
           /\ Len(r) = Len(l) - 1
<1>0. /\ Sound(l, f, u) /\ i \in 2 .. Len(l) - 1 /\ l[i] \in u /\ l[i + 1] \in u
  BY DEF Held
<1>1. /\ Tiled(l) /\ Len(l) \in Nat /\ l[1] = FirstChunk /\ l[Len(l)] = LastChunk
      /\ u \subseteq ToSet(l) /\ FirstChunk \in u /\ LastChunk \in u
      /\ Filed(f, ToSet(l) \ u, l) /\ Apart(l, u)
  BY <1>0 DEF Sound, Tiled
<1>2. i # 2 BY <1>0, <1>1
<1>3. PICK k : k = i - 1 OBVIOUS
<1>4. /\ i \in 3 .. Len(l) - 1 /\ k \in 1 .. Len(l) /\ k < Len(l) /\ k \in 1 .. i - 1
      /\ 1 \in 1 .. Len(l) /\ i \in 1 .. Len(l) /\ Len(l) \in 1 .. Len(l)
  BY <1>0, <1>1, <1>2, <1>3
<1>5. Inner(l, i) BY <1>1, <1>4 DEF Inner
<1>6. Tiled(r) BY <1>5, JoinTiled
<1>7. /\ Len(r) = Len(l) - 1
      /\ \A j \in 1 .. i - 1 : r[j] = l[j]
      /\ \A j \in i .. Len(l) - 1 : r[j] = l[j + 1]
  BY <1>5, JoinPlaces
<1>8. /\ ToSet(r) = ToSet(l) \ {l[i]}
      /\ \A j \in 1 .. Len(l) - 1 : j \notin {i - 1, i} => ChunkSize(r, l[j]) = ChunkSize(l, l[j])
      /\ Apart(l, u) /\ (l[i - 1] \in u \/ l[i + 1] \in u) => Apart(r, u)
  BY <1>5, JoinFacts
<1>9. ASSUME NEW d \in ToSet(l), d \notin {l[k], l[i], LastChunk}
      PROVE  ChunkSize(r, d) = ChunkSize(l, d)
  <2>1. PICK j \in 1 .. Len(l) : d = l[j] /\ j < Len(l) BY <1>1, <1>9, PlaceOf
  <2>2. j \in 1 .. Len(l) - 1 /\ j \notin {i - 1, i} BY <1>1, <1>3, <1>9, <2>1
  <2> QED BY <1>8, <2>1, <2>2
<1>10. l[k] \in ToSet(l) \ u /\ SlotOf(l, l[k]) \in Slots /\ l[k] \in Addr
  BY <1>1, <1>3, <1>4, TiledPlace DEF SlotOf
<1>11. Filed(g, (ToSet(l) \ u) \ {l[k]}, l) BY <1>1, <1>3, <1>10, FileOut
<1>12. Filed(g, (ToSet(l) \ u) \ {l[k]}, r)
  <2>1. \A d \in (ToSet(l) \ u) \ {l[k]} : ChunkSize(r, d) = ChunkSize(l, d) BY <1>0, <1>1, <1>9
  <2> QED BY <1>11, <2>1, FileKept
<1>13. SlotOf(r, l[k]) \in Slots
  <2>1. k \in 1 .. Len(r) /\ k < Len(r) /\ r[k] = l[k] BY <1>1, <1>3, <1>4, <1>7
  <2>2. Slot(ChunkSize(r, r[k])) \in Slots BY <1>6, <2>1, TiledPlace
  <2> QED BY <2>1, <2>2 DEF SlotOf
<1>14. Filed(PushFree(g, r, l[k]), ((ToSet(l) \ u) \ {l[k]}) \cup {l[k]}, r)
  BY <1>10, <1>12, <1>13, FileIn
<1>15. ((ToSet(l) \ u) \ {l[k]}) \cup {l[k]} = ToSet(r) \ (u \ {l[i]}) BY <1>0, <1>8, <1>10
<1>16. Apart(r, u \ {l[i]})
  <2>1. Apart(r, u) BY <1>0, <1>1, <1>8
  <2>2. \A j \in 1 .. Len(r) : r[j] # l[i]
    <3>1. \A j \in 1 .. Len(r) : r[j] \in ToSet(r) BY <1>6, TiledPlace
    <3> QED BY <1>8, <3>1
  <2>3. \A j \in 1 .. Len(r) - 1 : j \in 1 .. Len(r) /\ j + 1 \in 1 .. Len(r) BY <1>1, <1>7
  <2> QED BY <2>1, <2>2, <2>3 DEF Apart
<1>17. /\ u \ {l[i]} \subseteq ToSet(r)
       /\ FirstChunk \in u \ {l[i]} /\ LastChunk \in u \ {l[i]}
  <2>1. l[i] # l[1] /\ l[i] # l[Len(l)]
    <3>1. i # 1 /\ i # Len(l) BY <1>1, <1>4
    <3> QED BY <1>1, <1>4, <3>1, TiledOnce
  <2> QED BY <1>1, <1>8, <2>1
<1>18. Sound(r, PushFree(g, r, l[k]), u \ {l[i]})
  BY <1>6, <1>14, <1>15, <1>16, <1>17 DEF Sound
<1>19. \A d \in u \ {LastChunk, l[i]} : ChunkSize(r, d) = ChunkSize(l, d) BY <1>0, <1>1, <1>9, <1>10
<1>20. l[k] \in ToSet(r) \ (u \ {l[i]}) BY <1>10, <1>15
<1> QED BY <1>3, <1>7, <1>18, <1>19, <1>20 DEF SizesKept, Freed

\* kfree frees a chunk between two that are used.
LEMMA FreeAlone ==
    ASSUME NEW l, NEW f, NEW u, Sound(l, f, u), NEW i \in 2 .. Len(l) - 1,
           l[i] \in u, l[i + 1] \in u, l[i - 1] \in u
    PROVE  Sound(l, PushFree(f, l, l[i]), u \ {l[i]})
<1>1. /\ Tiled(l) /\ Len(l) \in Nat /\ l[1] = FirstChunk /\ l[Len(l)] = LastChunk
      /\ u \subseteq ToSet(l) /\ FirstChunk \in u /\ LastChunk \in u
      /\ Filed(f, ToSet(l) \ u, l) /\ Apart(l, u)
  BY DEF Sound, Tiled
<1>2. /\ i \in 1 .. Len(l) /\ i - 1 \in 1 .. Len(l) /\ i + 1 \in 1 .. Len(l) /\ i < Len(l)
      /\ 1 \in 1 .. Len(l) /\ Len(l) \in 1 .. Len(l) /\ i # 1 /\ i # Len(l)
      /\ i # i + 1 /\ i # i - 1
  BY <1>1
<1>3. l[i] \in Addr /\ SlotOf(l, l[i]) \in Slots /\ l[i] \in ToSet(l)
  BY <1>1, <1>2, TiledPlace DEF SlotOf
<1>4. Filed(PushFree(f, l, l[i]), (ToSet(l) \ u) \cup {l[i]}, l) BY <1>1, <1>3, FileIn
<1>5. (ToSet(l) \ u) \cup {l[i]} = ToSet(l) \ (u \ {l[i]}) BY <1>1
<1>6. \A j \in 1 .. Len(l) : l[j] = l[i] => j = i BY <1>1, <1>2, TiledOnce
<1>7. Apart(l, u \ {l[i]})
  <2> SUFFICES ASSUME NEW j \in 1 .. Len(l) - 1
               PROVE  l[j] \in u \ {l[i]} \/ l[j + 1] \in u \ {l[i]}
    BY DEF Apart
  <2>1. j \in 1 .. Len(l) /\ j + 1 \in 1 .. Len(l) BY <1>1
  <2>2. CASE j = i BY <1>2, <1>6, <2>2
  <2>3. CASE j + 1 = i
    <3>1. j = i - 1 BY <1>1, <2>3
    <3> QED BY <1>2, <1>6, <3>1
  <2>4. CASE j # i /\ j + 1 # i
    <3>1. l[j] # l[i] /\ l[j + 1] # l[i] BY <1>6, <2>1, <2>4
    <3> QED BY <1>1, <3>1 DEF Apart
  <2> QED BY <2>2, <2>3, <2>4
<1>8. FirstChunk \in u \ {l[i]} /\ LastChunk \in u \ {l[i]} BY <1>1, <1>2, <1>6
<1> QED BY <1>1, <1>4, <1>5, <1>7, <1>8 DEF Sound

--------------------------------------------------------------------------------
(***************************************************************************)
(* The requests and the counters.                                          *)
(***************************************************************************)

\* The larger of two numbers.
LEMMA MaxOfTwo ==
    ASSUME NEW a \in Nat, NEW b \in Nat, NEW m, m = Max({a, b})
    PROVE  m \in {a, b} /\ m >= a /\ m >= b
<1>1. \E x \in {a, b} : \A y \in {a, b} : x >= y BY a >= b \/ b >= a
<1> QED BY <1>1 DEF Max

\* Rounding down to a multiple of four.
LEMMA Rounding ==
    ASSUME NEW n \in Nat
    PROVE  /\ (n \div 4) * 4 \in Nat /\ (n \div 4) * 4 <= n /\ ((n \div 4) * 4) % 4 = 0
           /\ n < (n \div 4) * 4 + 4
OBVIOUS

\* A wrapped number is one of Width bits; a number of Width bits does not wrap.
LEMMA WrapRange ==
    /\ \A n \in Int : Wrap(n) \in 0 .. 2 ^ Width - 1
    /\ \A n \in 0 .. 2 ^ Width - 1 : Wrap(n) = n
<1>1. PICK w : w = 2 ^ Width OBVIOUS
<1>2. w \in Nat \ {0} BY <1>1, HeapAssumption, PowersGrow
<1>3. \A n \in Int : n % w \in 0 .. w - 1 BY ONLY <1>2
<1>4. \A n \in 0 .. w - 1 : n % w = n BY ONLY <1>2
<1> QED BY <1>1, <1>3, <1>4 DEF Wrap

\* The size of a block: aligned, with room for the links of a free chunk.
LEMMA GrantedSize ==
    ASSUME NEW s \in Requests
    PROVE  /\ Granted(s) \in 8 .. 2 ^ Width - 1 /\ Granted(s) % 4 = 0
           /\ s + ALIGN - 1 < 2 ^ Width => Granted(s) >= s
<1>1. PICK w : w = 2 ^ Width OBVIOUS
<1>2. w \in Nat /\ 60 < w /\ s \in Nat
  BY <1>1, Addresses, HeapAssumption
<1>3. PICK v : v = Wrap(s + 3) OBVIOUS
<1>4. v \in 0 .. w - 1 /\ (s + 3 < w => v = s + 3)
  <2>1. s + 3 \in Int /\ (s + 3 < w => s + 3 \in 0 .. w - 1) BY <1>2
  <2> QED BY <1>1, <1>3, <2>1, WrapRange
<1>5. PICK a : a = (v \div 4) * 4 OBVIOUS
<1>6. a \in Nat /\ a <= v /\ a % 4 = 0 /\ v < a + 4
  <2>1. v \in Nat BY <1>2, <1>4
  <2> QED BY <1>5, <2>1, Rounding
<1>7. Granted(s) = Max({a, 8})
  <2>1. s + 4 - 1 = s + 3 BY <1>2
  <2> QED BY <1>3, <1>5, <2>1 DEF Granted, ALIGN, MIN_SIZE
<1>8. Granted(s) \in {a, 8} /\ Granted(s) >= a /\ Granted(s) >= 8
  <2>1. 8 \in Nat OBVIOUS
  <2> QED BY <1>6, <1>7, <2>1, MaxOfTwo
<1>9. 8 % 4 = 0 OBVIOUS
<1>10. PICK g : g = Granted(s) OBVIOUS
<1>11. g \in 8 .. w - 1 BY ONLY <1>2, <1>4, <1>6, <1>8, <1>10
<1>12. g % 4 = 0 BY ONLY <1>6, <1>8, <1>9, <1>10
<1>13. s + 4 - 1 < w => g >= s BY ONLY <1>2, <1>4, <1>6, <1>8, <1>10
<1> QED BY <1>1, <1>10, <1>11, <1>12, <1>13 DEF ALIGN

\* The list kmalloc takes the chunk from.
LEMMA ListChosen ==
    ASSUME NEW f, NEW k \in Int, NEW lists,
           lists = {n \in k .. Width - 1 : f[n] # <<>>}, lists # {}, k >= 0
    PROVE  Min(lists) \in Slots /\ Min(lists) >= k /\ f[Min(lists)] # <<>>
<1>1. lists \in SUBSET Nat /\ Width \in Nat BY HeapAssumption
<1>2. \E n \in lists : \A m \in lists : n <= m BY <1>1, LeastNatural
<1>3. Min(lists) \in lists BY <1>2 DEF Min
<1> QED BY <1>1, <1>3 DEF Slots

\* The place of a request among the lists.
LEMMA FirstSlotRange ==
    ASSUME NEW bytes \in 8 .. 2 ^ Width - 1
    PROVE  FirstSlot(bytes) \in Int /\ FirstSlot(bytes) >= 0
<1>1. bytes - 1 \in 1 .. 2 ^ Width - 1 BY Addresses
<1>2. Slot(bytes - 1) \in Slots BY <1>1, SlotFound
<1>3. \A k \in Slots : k \in Nat BY HeapAssumption DEF Slots
<1> QED BY <1>2, <1>3 DEF FirstSlot

\* What the headers of all chunks take is a number of Width bits.
LEMMA MetaFits ==
    ASSUME NEW l, Tiled(l)
    PROVE  40 + 12 * (Len(l) - 2) \in 0 .. 2 ^ Width - 1
<1>1. Len(l) \in Nat /\ 20 * Len(l) <= HeapSize /\ Len(l) >= 3 BY TiledLength DEF Tiled
<1> QED BY ONLY <1>1, Addresses

--------------------------------------------------------------------------------
(***************************************************************************)
(* The inductive invariant.  What clients hold are the used chunks between *)
(* the first and the last; kfree looks for the chunk it is given nowhere.  *)
(***************************************************************************)
Clients ==
    /\ DOMAIN asked \subseteq Addr
    /\ \A p \in DOMAIN asked : /\ asked[p] \in Requests
                               /\ ChunkOf(p) \in used \ {FirstChunk, LastChunk}

HeapInv ==
    /\ Sound(all, free, used)
    /\ MetaExact /\ memFree \in 0 .. 2 ^ Width - 1
    /\ Clients

\* The counters after a step that leaves n chunks.
LEMMA Counters ==
    ASSUME NEW l, Tiled(l), NEW m, m = 40 + 12 * (Len(l) - 2)
    PROVE  /\ m \in Nat /\ Wrap(m) = m
           /\ \A k \in Int : Wrap(k) \in 0 .. 2 ^ Width - 1
<1>1. m \in 0 .. 2 ^ Width - 1 BY MetaFits
<1>2. m \in Nat BY <1>1, Addresses
<1> QED BY <1>1, <1>2, WrapRange

\* What kmalloc does: one free chunk is handed out, large enough, and the others keep their sizes.
LEMMA KmallocEffect ==
    ASSUME HeapInv, NEW s \in Requests, Kmalloc(s)
    PROVE  \E c \in ToSet(all) \ used :
              /\ Sound(all', free', used') /\ used' = used \cup {c}
              /\ asked' = [p \in DOMAIN asked \cup {Data(c)} |->
                              IF p = Data(c) THEN s ELSE asked[p]]
              /\ ChunkSize(all', c) >= Granted(s)
              /\ \A d \in used \ {LastChunk} : ChunkSize(all', d) = ChunkSize(all, d)
              /\ MetaExact' /\ memFree' \in 0 .. 2 ^ Width - 1
<1> DEFINE bytes  == Granted(s)
           lists == {n \in FirstSlot(bytes) .. Width - 1 : free[n] # <<>>}
           n     == Min(lists)
           c     == Head(free[n])
           len   == ChunkSize(all, c)
           rest  == c + HEADER_SIZE + bytes
           cut   == InsertAt(all, Pos(all, c) + 1, rest)
           left  == [free EXCEPT ![n] = Tail(@)]
<1>1. /\ lists # {} /\ used' = used \cup {c}
      /\ asked' = [p \in DOMAIN asked \cup {Data(c)} |-> IF p = Data(c) THEN s ELSE asked[p]]
      /\ Splits(bytes, len) =>
            /\ all' = cut /\ free' = PushFree(left, cut, rest)
            /\ memMeta' = Wrap(memMeta + HEADER_SIZE)
            /\ memFree' = Wrap(memFree - len + ChunkSize(cut, rest))
      /\ ~Splits(bytes, len) =>
            /\ all' = all /\ free' = left
            /\ memMeta' = memMeta /\ memFree' = Wrap(memFree - len + 0)
  BY DEF Kmalloc
<1>2. bytes \in 8 .. 2 ^ Width - 1 /\ bytes % 4 = 0 BY GrantedSize
<1>3. 2 ^ Width \in Nat /\ 60 < 2 ^ Width /\ HeapSize < 2 ^ Width /\ HeapSize \in Nat BY Addresses
<1>4. bytes \in Nat /\ bytes >= 8 /\ bytes \in 2 .. 2 ^ Width - 1 BY <1>2, <1>3
<1>5. PICK k : k = FirstSlot(bytes) OBVIOUS
<1>6. k \in Int /\ k >= 0 BY <1>2, <1>5, FirstSlotRange
<1>7. n \in Slots /\ n >= k /\ free[n] # <<>>
  <2>1. lists = {m \in k .. Width - 1 : free[m] # <<>>} BY <1>5
  <2> QED BY ONLY <1>1, <1>6, <2>1, ListChosen
<1> HIDE DEF bytes, lists, n
<1>8. Sound(all, free, used) /\ Tiled(all) BY DEF HeapInv, Sound
<1>9. c \in ToSet(all) \ used /\ SlotOf(all, c) = n /\ Sound(all, left, used \cup {c})
  <2>1. PICK d, g, m : d = c /\ g = left /\ m = n OBVIOUS
  <2>2. m \in Slots /\ Popped(free, m, d, g)
    BY <1>7, <2>1 DEF Popped
  <2>3. /\ d \in ToSet(all) \ used /\ SlotOf(all, d) = m
        /\ Filed(g, (ToSet(all) \ used) \ {d}, all)
        /\ Sound(all, g, used \cup {d})
    BY ONLY <1>8, <2>2, TakeWhole
  <2> QED BY <2>1, <2>3
<1> HIDE DEF c
<1>10. PICK i \in 2 .. Len(all) - 1 : c = all[i] BY <1>8, <1>9, FreeSlot
<1>11. len \in 8 .. HeapSize
  <2>1. i \in 1 .. Len(all) /\ i < Len(all) BY <1>8, <1>10 DEF Tiled
  <2> QED BY <1>8, <1>10, <2>1, TiledPlace
<1>12. bytes <= len
  <2>1. len \in 1 .. 2 ^ Width - 1 BY <1>3, <1>11
  <2>2. n \in FirstSlot(bytes) .. Width - 1 BY <1>5, <1>6, <1>7, HeapAssumption DEF Slots
  <2>3. Slot(len) = n BY <1>9 DEF SlotOf
  <2> QED BY <1>4, <2>1, <2>2, <2>3, FirstSlotServes
<1>13. memFree \in Int /\ len \in Int /\ memFree - len \in Int
  <2>1. memFree \in 0 .. 2 ^ Width - 1 BY DEF HeapInv
  <2> QED BY <1>3, <1>11, <2>1
<1>14. memMeta = 40 + 12 * (Len(all) - 2) /\ Len(all) \in Nat
  BY <1>8 DEF HeapInv, MetaExact, Tiled, CHUNK_SIZE, HEADER_SIZE
<1> HIDE DEF len
<1>15. CASE Splits(bytes, len)
  <2>1. bytes + 20 <= ChunkSize(all, c) BY <1>15 DEF Splits, CHUNK_SIZE, len
  <2>2. rest = c + 12 + bytes BY DEF HEADER_SIZE
  <2>3. /\ Sound(cut, PushFree(left, cut, rest), used \cup {c}) /\ Len(cut) = Len(all) + 1
        /\ ChunkSize(cut, c) = bytes /\ ChunkSize(cut, rest) = ChunkSize(all, c) - bytes - 12
        /\ \A d \in used \ {LastChunk} : ChunkSize(cut, d) = ChunkSize(all, d)
    <3>1. PICK g, x, r : g = left /\ x = rest /\ r = cut OBVIOUS
    <3>2. /\ n \in Slots /\ Popped(free, n, c, g)
          /\ bytes \in Nat /\ bytes >= 8 /\ bytes % 4 = 0 /\ bytes + 20 <= ChunkSize(all, c)
          /\ x = c + 12 + bytes /\ r = InsertAt(all, Pos(all, c) + 1, x)
      BY <1>4, <1>2, <1>7, <2>1, <2>2, <3>1 DEF c, Popped
    <3>3. /\ Sound(r, PushFree(g, r, x), used \cup {c}) /\ Len(r) = Len(all) + 1
          /\ ChunkSize(r, c) = bytes /\ ChunkSize(r, x) = ChunkSize(all, c) - bytes - 12
          /\ \A d \in used \ {LastChunk} : ChunkSize(r, d) = ChunkSize(all, d)
      <4>1. CutOff(all, free, n, c, g, bytes, x, r) BY ONLY <3>2 DEF CutOff
      <4>2. Sound(r, PushFree(g, r, x), used \cup {c}) /\ CutSizes(all, used, c, bytes, x, r)
        BY ONLY <1>8, <3>2, <4>1, TakeCut
      <4> QED BY ONLY <4>2 DEF CutSizes
    <3> QED BY <3>1, <3>3
  <2>4. /\ all' = cut /\ free' = PushFree(left, cut, rest)
        /\ memMeta' = Wrap(memMeta + 12)
        /\ memFree' = Wrap(memFree - len + ChunkSize(cut, rest))
    BY <1>1, <1>15 DEF HEADER_SIZE
  <2> HIDE DEF cut, rest, left
  <2>5. Tiled(cut) BY <2>3 DEF Sound
  <2>6. memMeta + 12 = 40 + 12 * (Len(cut) - 2) BY <1>14, <2>3
  <2>7. memMeta' = 40 + 12 * (Len(all') - 2) BY <2>4, <2>5, <2>6, Counters
  <2>8. memFree' \in 0 .. 2 ^ Width - 1
    <3>1. ChunkSize(cut, rest) = len - bytes - 12 BY <2>3 DEF len
    <3>2. memFree - len + (len - bytes - 12) \in Int BY ONLY <1>4, <1>13
    <3> QED BY <2>4, <3>1, <3>2, WrapRange
  <2>9. MetaExact' BY <2>7 DEF MetaExact, CHUNK_SIZE, HEADER_SIZE
  <2>10. ChunkSize(all', c) >= bytes BY <1>4, <2>3, <2>4
  <2> QED BY <1>1, <1>9, <2>3, <2>4, <2>8, <2>9, <2>10 DEF bytes
<1>16. CASE ~Splits(bytes, len)
  <2>1. /\ all' = all /\ free' = left /\ memMeta' = memMeta /\ memFree' = Wrap(memFree - len + 0)
    BY <1>1, <1>16
  <2>2. MetaExact'
    <3>1. MetaExact BY DEF HeapInv
    <3> QED BY <2>1, <3>1 DEF MetaExact
  <2>3. memFree' \in 0 .. 2 ^ Width - 1
    <3>1. memFree - len + 0 \in Int BY ONLY <1>13
    <3> QED BY <2>1, <3>1, WrapRange
  <2>4. ChunkSize(all', c) >= Granted(s) BY <1>12, <2>1 DEF len, bytes
  <2>5. Sound(all', free', used') BY <1>1, <1>9, <2>1
  <2>6. \A d \in used \ {LastChunk} : ChunkSize(all', d) = ChunkSize(all, d) BY <2>1
  <2> QED BY <1>1, <1>9, <2>2, <2>3, <2>4, <2>5, <2>6
<1> QED BY <1>15, <1>16

\* The size of a free chunk.
LEMMA FreeSize ==
    ASSUME NEW l, NEW f, NEW u, Sound(l, f, u), NEW c \in ToSet(l) \ u
    PROVE  ChunkSize(l, c) \in Int
<1>1. PICK i \in 2 .. Len(l) - 1 : c = l[i] BY FreeSlot
<1>2. Tiled(l) /\ Len(l) \in Nat BY DEF Sound, Tiled
<1>3. i \in 1 .. Len(l) /\ i < Len(l) BY <1>1, <1>2
<1>4. ChunkSize(l, c) \in 8 .. HeapSize BY <1>1, <1>2, <1>3, TiledPlace
<1> QED BY <1>4, Addresses

\* The headers of the neighbours a chunk is merged with.
LEMMA MergedHeaders ==
    ASSUME NEW u, NEW a, NEW b, a # b, NEW m, m = {a, b} \ u
    PROVE  Headers(m) = 12 * ((IF a \in u THEN 0 ELSE 1) + (IF b \in u THEN 0 ELSE 1))
<1>1. \A x : Cardinality({x}) = 1 BY FS_Singleton
<1>2. Cardinality({a, b}) = 2
  <2>1. IsFiniteSet({a}) /\ Cardinality({a}) = 1 /\ b \notin {a} BY FS_Singleton
  <2>2. Cardinality({a} \cup {b}) = Cardinality({a}) + 1 BY <2>1, FS_AddElement
  <2>3. {a} \cup {b} = {a, b} OBVIOUS
  <2> QED BY <2>1, <2>2, <2>3
<1>3. CASE a \in u /\ b \in u
  <2>1. m = {} BY <1>3
  <2> QED BY <1>3, <2>1, FS_EmptySet DEF Headers, HEADER_SIZE
<1>4. CASE a \in u /\ b \notin u
  <2>1. m = {b} BY <1>4
  <2> QED BY <1>1, <1>4, <2>1 DEF Headers, HEADER_SIZE
<1>5. CASE a \notin u /\ b \in u
  <2>1. m = {a} BY <1>5
  <2> QED BY <1>1, <1>5, <2>1 DEF Headers, HEADER_SIZE
<1>6. CASE a \notin u /\ b \notin u
  <2>1. m = {a, b} BY <1>6
  <2> QED BY <1>2, <1>6, <2>1 DEF Headers, HEADER_SIZE
<1> QED BY <1>3, <1>4, <1>5, <1>6

\* kfree first looks at the chunk after the one it frees.
LEMMA FirstMerge ==
    ASSUME NEW l, NEW f, NEW u, Sound(l, f, u), NEW i \in 2 .. Len(l) - 1, l[i] \in u,
           NEW r, r = IF l[i + 1] \in u THEN l ELSE Unchain(l, l[i + 1]),
           NEW g, g = IF l[i + 1] \in u THEN f ELSE RemoveFree(f, l, l[i + 1])
    PROVE  /\ Sound(r, g, u) /\ Follows(l, u, i, r) /\ SizesKept(l, u, l[i], r)
           /\ Len(r) = Len(l) - (IF l[i + 1] \in u THEN 0 ELSE 1)
<1>1. CASE l[i + 1] \in u
  <2>1. r = l /\ g = f /\ Len(l) \in Nat BY <1>1 DEF Sound, Tiled
  <2>2. Follows(l, u, i, r) /\ SizesKept(l, u, l[i], r) BY <1>1, <2>1 DEF Follows, SizesKept
  <2> QED BY <1>1, <2>1, <2>2
<1>2. CASE l[i + 1] \notin u
  <2>1. r = Unchain(l, l[i + 1]) /\ g = RemoveFree(f, l, l[i + 1]) BY <1>2
  <2>2. /\ Sound(r, g, u) /\ Len(r) = Len(l) - 1
        /\ Follows(l, u, i, r) /\ SizesKept(l, u, l[i], r)
    BY <1>2, <2>1, MergeNext
  <2> QED BY <1>2, <2>2
<1> QED BY <1>1, <1>2

\* Then at the chunk before, and links the chunk they make, or the freed one.
LEMMA SecondMerge ==
    ASSUME NEW l, NEW f, NEW u, NEW i, Held(l, f, u, i),
           NEW r, r = IF l[i - 1] \in u THEN l ELSE Unchain(l, l[i]),
           NEW g, g = IF l[i - 1] \in u THEN f ELSE RemoveFree(f, l, l[i - 1]),
           NEW home, home = IF l[i - 1] \in u THEN l[i] ELSE l[i - 1]
    PROVE  /\ Freed(l, u, l[i], r, PushFree(g, r, home), home)
           /\ Len(r) = Len(l) - (IF l[i - 1] \in u THEN 0 ELSE 1)
<1>1. CASE l[i - 1] \in u
  <2>1. /\ r = l /\ g = f /\ home = l[i] /\ Len(l) \in Nat /\ u \subseteq ToSet(l)
        /\ Sound(l, f, u) /\ i \in 2 .. Len(l) - 1 /\ l[i] \in u /\ l[i + 1] \in u
    BY <1>1 DEF Sound, Tiled, Held
  <2>2. Sound(r, PushFree(g, r, home), u \ {l[i]}) BY <1>1, <2>1, FreeAlone
  <2>3. SizesKept(l, u, l[i], r) BY <2>1 DEF SizesKept
  <2> QED BY <1>1, <2>1, <2>2, <2>3 DEF Freed
<1>2. CASE l[i - 1] \notin u
  <2>1. r = Unchain(l, l[i]) /\ g = RemoveFree(f, l, l[i - 1]) /\ home = l[i - 1] BY <1>2
  <2>2. /\ Freed(l, u, l[i], r, PushFree(g, r, l[i - 1]), l[i - 1])
        /\ Len(r) = Len(l) - 1
    BY ONLY <1>2, <2>1, Held(l, f, u, i), MergePrev
  <2> QED BY <1>2, <2>1, <2>2
<1> QED BY <1>1, <1>2

\* What kfree does: the block's chunk is free, and those clients hold keep their sizes.
LEMMA KfreeEffect ==
    ASSUME HeapInv, NEW p \in Addr, Kfree(p)
    PROVE  /\ p \in DOMAIN asked
           /\ Sound(all', free', used') /\ used' = used \ {ChunkOf(p)}
           /\ asked' = [q \in DOMAIN asked \ {p} |-> asked[q]]
           /\ SizesKept(all, used, ChunkOf(p), all')
           /\ MetaExact' /\ memFree' \in 0 .. 2 ^ Width - 1
<1> DEFINE c     == ChunkOf(p)
           succ  == NextChunk(all, c)
           pred  == PrevChunk(all, c)
           m     == Merges(c)
           l1    == IF succ \in m THEN Unchain(all, succ) ELSE all
           f1    == IF succ \in m THEN RemoveFree(free, all, succ) ELSE free
           home  == IF pred \in m THEN pred ELSE c
           l2    == IF pred \in m THEN Unchain(l1, c) ELSE l1
           f2    == IF pred \in m THEN RemoveFree(f1, l1, pred) ELSE f1
           taken == (IF succ \in m THEN ChunkSize(all, succ) ELSE 0)
                        + (IF pred \in m THEN ChunkSize(l1, pred) ELSE 0)
<1>1. /\ p \in DOMAIN asked /\ used' = used \ {c}
      /\ asked' = [q \in DOMAIN asked \ {p} |-> asked[q]]
      /\ all' = l2 /\ free' = PushFree(f2, l2, home)
      /\ memMeta' = Wrap(memMeta - Headers(m))
      /\ memFree' = Wrap(memFree - taken + Headers(m) + ChunkSize(l2, home))
  BY DEF Kfree
<1>2. /\ Sound(all, free, used) /\ Tiled(all) /\ Len(all) \in Nat /\ used \subseteq ToSet(all)
      /\ MetaExact /\ memFree \in 0 .. 2 ^ Width - 1
  BY DEF HeapInv, Sound, Tiled
<1>3. c \in used \ {FirstChunk, LastChunk} BY <1>1 DEF HeapInv, Clients
<1>4. PICK i : i \in 2 .. Len(all) - 1 /\ c = all[i]
  <2>1. PICK i \in 1 .. Len(all) : c = all[i] /\ i > 1 /\ i < Len(all)
    BY <1>2, <1>3, PlaceOf
  <2> QED BY <1>2, <2>1
<1> HIDE DEF c
<1>5. succ = all[i + 1] /\ pred = all[i - 1] /\ succ \in ToSet(all) /\ pred # succ
  <2>1. /\ i \in 1 .. Len(all) /\ i > 1 /\ i < Len(all)
        /\ i + 1 \in 1 .. Len(all) /\ i - 1 \in 1 .. Len(all) /\ i - 1 # i + 1
    BY <1>2, <1>4
  <2>2. succ = all[i + 1] /\ pred = all[i - 1] BY <1>2, <1>4, <2>1, TiledPlace
  <2>3. all[i + 1] \in ToSet(all) BY <1>2, <2>1, TiledPlace
  <2>4. all[i - 1] # all[i + 1] BY <1>2, <2>1, TiledOnce
  <2> QED BY <2>2, <2>3, <2>4
<1>6. m = {succ, pred} \ used BY DEF Merges
<1>7. (succ \in m <=> succ \notin used) /\ (pred \in m <=> pred \notin used) BY <1>6
<1> HIDE DEF succ, pred, m
<1>8. /\ Sound(l1, f1, used) /\ Follows(all, used, i, l1) /\ SizesKept(all, used, c, l1)
      /\ Len(l1) = Len(all) - (IF succ \in used THEN 0 ELSE 1)
  <2>1. PICK r, g : r = l1 /\ g = f1 OBVIOUS
  <2>2. /\ all[i] \in used
        /\ r = IF all[i + 1] \in used THEN all ELSE Unchain(all, all[i + 1])
        /\ g = IF all[i + 1] \in used THEN free ELSE RemoveFree(free, all, all[i + 1])
    BY <1>3, <1>4, <1>5, <1>7, <2>1
  <2>3. /\ Sound(r, g, used) /\ Follows(all, used, i, r) /\ SizesKept(all, used, all[i], r)
        /\ Len(r) = Len(all) - (IF all[i + 1] \in used THEN 0 ELSE 1)
    BY ONLY <1>2, <1>4, <2>2, FirstMerge
  <2> QED BY <1>4, <1>5, <2>1, <2>3
<1>9. l1[i] = c /\ l1[i - 1] = pred /\ l1[i + 1] \in used /\ i \in 2 .. Len(l1) - 1
  BY <1>4, <1>5, <1>8 DEF Follows
<1>10. taken \in Int
  <2>1. succ \in m => ChunkSize(all, succ) \in Int BY <1>2, <1>5, <1>7, FreeSize
  <2>2. pred \in m => ChunkSize(l1, pred) \in Int
    <3>1. Tiled(l1) /\ i - 1 \in 1 .. Len(l1) BY <1>9, <1>8 DEF Sound, Tiled
    <3>2. pred \in ToSet(l1) BY <1>9, <3>1, TiledPlace
    <3> QED BY <1>7, <1>8, <3>2, FreeSize
  <2> QED BY <2>1, <2>2
<1> HIDE DEF l1, f1, taken
<1>11. /\ Sound(l2, PushFree(f2, l2, home), used \ {c}) /\ SizesKept(l1, used, c, l2)
       /\ home \in ToSet(l2) \ (used \ {c})
       /\ Len(l2) = Len(l1) - (IF pred \in used THEN 0 ELSE 1)
  <2>1. PICK l, f, r, g, h : l = l1 /\ f = f1 /\ r = l2 /\ g = f2 /\ h = home OBVIOUS
  <2>2. /\ Held(l, f, used, i)
        /\ r = IF l[i - 1] \in used THEN l ELSE Unchain(l, l[i])
        /\ g = IF l[i - 1] \in used THEN f ELSE RemoveFree(f, l, l[i - 1])
        /\ h = IF l[i - 1] \in used THEN l[i] ELSE l[i - 1]
    BY <1>3, <1>7, <1>8, <1>9, <2>1 DEF Held
  <2>3. /\ Freed(l, used, l[i], r, PushFree(g, r, h), h)
        /\ Len(r) = Len(l) - (IF l[i - 1] \in used THEN 0 ELSE 1)
    BY ONLY <2>2, SecondMerge
  <2> QED BY <1>9, <2>1, <2>3 DEF Freed
<1>12. Headers(m) = 12 * ((IF succ \in used THEN 0 ELSE 1) + (IF pred \in used THEN 0 ELSE 1))
  BY <1>5, <1>6, MergedHeaders
<1> HIDE DEF l2, f2, home
<1>13. SizesKept(all, used, c, l2) BY <1>8, <1>11 DEF SizesKept
<1>14. MetaExact'
  <2>1. memMeta = 40 + 12 * (Len(all) - 2) BY <1>2 DEF MetaExact, CHUNK_SIZE, HEADER_SIZE
  <2>2. PICK a, b : /\ a = (IF succ \in used THEN 0 ELSE 1)
                    /\ b = (IF pred \in used THEN 0 ELSE 1)
    OBVIOUS
  <2>3. a \in Nat /\ b \in Nat BY <2>2
  <2>4. Len(l2) = Len(all) - a - b /\ Headers(m) = 12 * (a + b) BY <1>2, <1>8, <1>11, <1>12, <2>2, <2>3
  <2>5. memMeta - Headers(m) = 40 + 12 * (Len(l2) - 2) BY ONLY <1>2, <2>1, <2>3, <2>4
  <2>6. Tiled(l2) BY <1>11 DEF Sound
  <2>7. memMeta' = 40 + 12 * (Len(all') - 2) BY <1>1, <2>5, <2>6, Counters
  <2> QED BY <2>7 DEF MetaExact, CHUNK_SIZE, HEADER_SIZE
<1>15. memFree' \in 0 .. 2 ^ Width - 1
  <2>1. ChunkSize(l2, home) \in Int BY <1>11, FreeSize
  <2>2. Headers(m) \in Int BY <1>12
  <2>3. memFree \in Int BY <1>2, Addresses
  <2>4. memFree - taken + Headers(m) + ChunkSize(l2, home) \in Int BY ONLY <1>10, <2>1, <2>2, <2>3
  <2> QED BY <1>1, <2>4, WrapRange
<1> QED BY <1>1, <1>11, <1>13, <1>14, <1>15 DEF c

--------------------------------------------------------------------------------
(***************************************************************************)
(* The invariant holds.                                                    *)
(***************************************************************************)

\* A chunk between the first and the last leaves its block room in the heap.
LEMMA ChunkInside ==
    ASSUME NEW l, Tiled(l), NEW c \in ToSet(l), c # LastChunk
    PROVE  /\ c \in Nat /\ ChunkSize(l, c) \in Nat
           /\ Data(c) \in Addr /\ ChunkOf(Data(c)) = c
           /\ Data(c) + ChunkSize(l, c) <= HeapSize
<1>1. PICK i \in 1 .. Len(l) : c = l[i] /\ i < Len(l) BY PlaceOf
<1>2. c \in Nat /\ c \in Addr /\ c % 4 = 0 /\ HeapSize \in Nat
  BY <1>1, TiledPlace, Addresses DEF Addr, ALIGN
<1>3. ChunkSize(l, c) = l[i + 1] - c - 12 /\ ChunkSize(l, c) \in 8 .. HeapSize
  BY <1>1, TiledPlace
<1>4. l[i + 1] \in Nat /\ l[i + 1] < HeapSize
  <2>1. i + 1 \in 1 .. Len(l) BY <1>1 DEF Tiled
  <2> QED BY <2>1, TiledAddress
<1>5. PICK n, y : n = ChunkSize(l, c) /\ y = l[i + 1] OBVIOUS
<1>6. n \in Nat /\ n >= 8 /\ n = y - c - 12 /\ y \in Nat /\ y < HeapSize BY <1>2, <1>3, <1>4, <1>5
<1>7. c + 12 + n <= HeapSize /\ c + 12 \in 0 .. HeapSize - 1 /\ (c + 12) - 12 = c
  BY ONLY <1>2, <1>6
<1>8. (c + 12) % 4 = 0 BY ONLY <1>2
<1> QED BY <1>2, <1>5, <1>6, <1>7, <1>8 DEF Data, ChunkOf, HEADER_SIZE, Addr, ALIGN

\* kheap_init.
LEMMA HeapInitInv == HeapInit => HeapInv
<1> SUFFICES ASSUME HeapInit PROVE HeapInv OBVIOUS
<1>1. /\ HeapSize \in Nat /\ HeapSize >= 60 /\ HeapSize < 2 ^ Width /\ 2 ^ Width \in Nat
      /\ HeapSize % 4 = 0
  BY Addresses, HeapAssumption DEF ALIGN
<1>2. PICK last : last = HeapSize - 20 OBVIOUS
<1>3. last \in Nat /\ last >= 40 /\ last < HeapSize BY ONLY <1>1, <1>2
<1>4. last % 4 = 0 BY ONLY <1>1, <1>2
<1>5. 0 \in Addr /\ 20 \in Addr /\ last \in Addr
  <2>1. 0 % 4 = 0 /\ 20 % 4 = 0 OBVIOUS
  <2>2. 0 \in 0 .. HeapSize - 1 /\ 20 \in 0 .. HeapSize - 1 /\ last \in 0 .. HeapSize - 1
    BY ONLY <1>1, <1>3
  <2> QED BY <1>4, <2>1, <2>2 DEF Addr, ALIGN
<1>6. LastChunk = last /\ FirstChunk = 0 BY <1>2 DEF LastChunk, FirstChunk, CHUNK_SIZE
<1>7. /\ all = <<0, 20, last>> /\ used = {0, last}
      /\ free = PushFree([n \in Slots |-> <<>>], all, 20)
      /\ memFree = ChunkSize(all, 20)
      /\ memMeta = 52 /\ DOMAIN asked = {}
  BY <1>6 DEF HeapInit, FirstChunk, CHUNK_SIZE, HEADER_SIZE
<1>8. /\ all \in Seq(Addr) /\ Len(all) = 3 /\ all[1] = 0 /\ all[2] = 20 /\ all[3] = last
      /\ DOMAIN all = 1 .. 3
  BY <1>5, <1>7
<1>9. Tiled(all)
  <2>1. \A i \in 1 .. 3 : \A j \in i + 1 .. 3 :
           (i = 1 /\ j = 2) \/ (i = 1 /\ j = 3) \/ (i = 2 /\ j = 3)
    OBVIOUS
  <2>2. all[2] - all[1] >= 20 * (2 - 1) /\ all[3] - all[1] >= 20 * (3 - 1)
        /\ all[3] - all[2] >= 20 * (3 - 2)
    BY ONLY <1>3, <1>8
  <2>3. \A i \in 1 .. 3 : \A j \in i + 1 .. 3 : all[j] - all[i] >= 20 * (j - i)
    BY <2>1, <2>2
  <2> QED BY <1>6, <1>8, <2>3 DEF Tiled, CHUNK_SIZE
<1>10. ToSet(all) = {0, 20, last}
  <2>1. \A i \in 1 .. 3 : i = 1 \/ i = 2 \/ i = 3 OBVIOUS
  <2> QED BY <1>8, <2>1 DEF ToSet
<1>11. 20 # 0 /\ 20 # last BY <1>3
<1>12. SlotOf(all, 20) \in Slots /\ ChunkSize(all, 20) \in 8 .. HeapSize
  <2>1. 2 \in 1 .. Len(all) /\ 2 < Len(all) BY <1>8
  <2> QED BY <1>8, <1>9, <2>1, TiledPlace DEF SlotOf
<1>13. PICK e : e = [n \in Slots |-> <<>>] OBVIOUS
<1>14. Filed(e, {}, all)
  <2>1. /\ e \in [Slots -> Seq(Addr)]
        /\ \A n \in Slots : e[n] = <<>>
    BY <1>13
  <2>2. IsInjective(<<>>) /\ \A x : ~Contains(<<>>, x) BY DEF IsInjective, Contains
  <2> QED BY <2>1, <2>2 DEF Filed
<1>15. Filed(PushFree(e, all, 20), {} \cup {20}, all) BY <1>5, <1>12, <1>14, FileIn
<1>16. {} \cup {20} = ToSet(all) \ used BY <1>7, <1>10, <1>11
<1>17. Apart(all, used)
  <2>1. \A i \in 1 .. 3 - 1 : i = 1 \/ i = 2 OBVIOUS
  <2>2. all[1] \in used /\ all[2 + 1] \in used BY <1>7, <1>8
  <2> QED BY <1>8, <2>1, <2>2 DEF Apart
<1>18. Sound(all, free, used)
  BY <1>6, <1>7, <1>9, <1>10, <1>13, <1>15, <1>16, <1>17 DEF Sound
<1>19. MetaExact BY <1>7, <1>8 DEF MetaExact, CHUNK_SIZE, HEADER_SIZE
<1>20. memFree \in 0 .. 2 ^ Width - 1
  <2>1. \A n \in 8 .. HeapSize : n \in 0 .. 2 ^ Width - 1 BY ONLY <1>1
  <2> QED BY <1>7, <1>12, <2>1
<1> QED BY <1>7, <1>18, <1>19, <1>20 DEF HeapInv, Clients

\* kmalloc keeps the invariant.
LEMMA KmallocInv ==
    ASSUME HeapInv, NEW s \in Requests, Kmalloc(s)
    PROVE  HeapInv'
<1>1. PICK c \in ToSet(all) \ used :
              /\ Sound(all', free', used') /\ used' = used \cup {c}
              /\ asked' = [p \in DOMAIN asked \cup {Data(c)} |->
                              IF p = Data(c) THEN s ELSE asked[p]]
              /\ MetaExact' /\ memFree' \in 0 .. 2 ^ Width - 1
  BY KmallocEffect
<1>2. /\ Tiled(all) /\ FirstChunk \in used /\ LastChunk \in used
      /\ DOMAIN asked \subseteq Addr
      /\ \A p \in DOMAIN asked : asked[p] \in Requests /\ ChunkOf(p) \in used \ {FirstChunk, LastChunk}
  BY DEF HeapInv, Sound, Clients
<1>3. Data(c) \in Addr /\ ChunkOf(Data(c)) = c BY <1>1, <1>2, ChunkInside
<1>4. DOMAIN asked' = DOMAIN asked \cup {Data(c)} BY <1>1
<1>5. ASSUME NEW p \in DOMAIN asked'
      PROVE  asked'[p] \in Requests /\ ChunkOf(p) \in used' \ {FirstChunk, LastChunk}
  <2>1. CASE p = Data(c) BY <1>1, <1>2, <1>3, <1>4, <2>1
  <2>2. CASE p # Data(c)
    <3>1. p \in DOMAIN asked /\ asked'[p] = asked[p] BY <1>1, <1>4, <2>2
    <3> QED BY <1>1, <1>2, <3>1
  <2> QED BY <2>1, <2>2
<1>6. Clients' BY <1>2, <1>3, <1>4, <1>5 DEF Clients
<1> QED BY <1>1, <1>6 DEF HeapInv

\* kfree keeps the invariant.
LEMMA KfreeInv ==
    ASSUME HeapInv, NEW p \in Addr, Kfree(p)
    PROVE  HeapInv'
<1>1. /\ p \in DOMAIN asked
      /\ Sound(all', free', used') /\ used' = used \ {ChunkOf(p)}
      /\ asked' = [q \in DOMAIN asked \ {p} |-> asked[q]]
      /\ MetaExact' /\ memFree' \in 0 .. 2 ^ Width - 1
  BY KfreeEffect
<1>2. /\ DOMAIN asked \subseteq Addr
      /\ \A q \in DOMAIN asked : asked[q] \in Requests /\ ChunkOf(q) \in used \ {FirstChunk, LastChunk}
  BY DEF HeapInv, Clients
<1>3. DOMAIN asked' = DOMAIN asked \ {p} BY <1>1
<1>4. ASSUME NEW q \in DOMAIN asked'
      PROVE  asked'[q] \in Requests /\ ChunkOf(q) \in used' \ {FirstChunk, LastChunk}
  <2>1. q \in DOMAIN asked /\ q # p /\ asked'[q] = asked[q] BY <1>1, <1>3
  <2>2. ChunkOf(q) # ChunkOf(p)
    <3>1. q \in Nat /\ p \in Nat BY <1>2, <2>1, Addresses
    <3> QED BY <2>1, <3>1 DEF ChunkOf, HEADER_SIZE
  <2> QED BY <1>1, <1>2, <2>1, <2>2
<1>5. Clients' BY <1>2, <1>3, <1>4 DEF Clients
<1> QED BY <1>1, <1>5 DEF HeapInv

\* The heap is in order after every sequence of requests and releases.
THEOREM HeapInvariant == HeapSpec => []HeapInv
<1>1. HeapInv /\ [HeapNext]_heapVars => HeapInv'
  <2> SUFFICES ASSUME HeapInv, [HeapNext]_heapVars PROVE HeapInv' OBVIOUS
  <2>1. ASSUME NEW s \in Requests, Kmalloc(s) PROVE HeapInv' BY <2>1, KmallocInv
  <2>2. ASSUME NEW p \in Addr, Kfree(p) PROVE HeapInv' BY <2>2, KfreeInv
  <2>3. CASE UNCHANGED heapVars
    BY <2>3 DEF HeapInv, Clients, MetaExact, heapVars
  <2> QED BY <2>1, <2>2, <2>3 DEF HeapNext
<1> QED BY <1>1, HeapInitInv, PTL DEF HeapSpec

\* What the lists of free chunks hold.
LEMMA FiledLists ==
    ASSUME NEW f, NEW F, NEW l, Filed(f, F, l)
    PROVE  /\ \A n \in Slots : \A i \in 1 .. Len(f[n]) :
                 f[n][i] \in F /\ SlotOf(l, f[n][i]) = n
           /\ \A c \in F : SlotOf(l, c) \in Slots => Contains(f[SlotOf(l, c)], c)
<1>1. ASSUME NEW n \in Slots, NEW i \in 1 .. Len(f[n])
      PROVE  f[n][i] \in F /\ SlotOf(l, f[n][i]) = n
  <2>1. f[n] \in Seq(Addr) BY DEF Filed
  <2>2. f[n][i] \in Addr /\ Contains(f[n], f[n][i]) BY <2>1 DEF Contains
  <2> QED BY <2>2 DEF Filed
<1> QED BY <1>1 DEF Filed

\* The invariant says what the heap is to be.
LEMMA InvSound == HeapInv => HeapSound
<1> SUFFICES ASSUME HeapInv PROVE HeapSound OBVIOUS
<1>1. /\ Sound(all, free, used) /\ Tiled(all) /\ used \subseteq ToSet(all)
      /\ FirstChunk \in used /\ LastChunk \in used
      /\ Filed(free, ToSet(all) \ used, all) /\ Apart(all, used)
      /\ MetaExact /\ memFree \in 0 .. 2 ^ Width - 1 /\ Clients
      /\ all \in Seq(Addr) /\ Len(all) >= 3 /\ Len(all) \in Nat
      /\ all[1] = FirstChunk /\ all[2] = 20 /\ all[Len(all)] = LastChunk
  BY DEF HeapInv, Sound, Tiled, CHUNK_SIZE
<1>2. FreeChunks = ToSet(all) \ used BY <1>1 DEF FreeChunks, Chunks
<1>3. HeapTypeOK
  <2>1. used \subseteq Addr
    <3>1. \A c \in ToSet(all) : c \in Addr
      <4> TAKE c \in ToSet(all)
      <4>1. PICK i \in 1 .. Len(all) : c = all[i] BY <1>1, PlaceOf
      <4> QED BY <1>1, <4>1, TiledAddress
    <3> QED BY <1>1, <3>1
  <2>2. memMeta \in 0 .. 2 ^ Width - 1
    <3>1. memMeta = 40 + 12 * (Len(all) - 2) BY <1>1 DEF MetaExact, CHUNK_SIZE, HEADER_SIZE
    <3> QED BY <1>1, <3>1, MetaFits
  <2>3. free \in [Slots -> Seq(Addr)] BY <1>1 DEF Filed
  <2> QED BY <1>1, <2>1, <2>2, <2>3 DEF HeapTypeOK, Clients
<1>4. ChunksTile
  <2>1. ChunkSize(all, FirstChunk) = 20 - 12
    <3>1. 1 \in 1 .. Len(all) /\ 1 < Len(all) /\ 1 + 1 = 2 BY <1>1
    <3>2. ChunkSize(all, all[1]) = all[1 + 1] - all[1] - 12 BY <1>1, <3>1, TiledPlace
    <3> QED BY <1>1, <3>1, <3>2 DEF FirstChunk
  <2>2. ASSUME NEW i \in 2 .. Len(all) - 1 PROVE ChunkSize(all, all[i]) >= 8
    <3>1. i \in 1 .. Len(all) /\ i < Len(all) BY <1>1
    <3>2. ChunkSize(all, all[i]) \in 8 .. HeapSize BY <1>1, <3>1, TiledPlace
    <3> QED BY <3>2, Addresses
  <2> QED BY <1>1, <2>1, <2>2 DEF ChunksTile, CHUNK_SIZE, HEADER_SIZE, MIN_SIZE
<1>5. FreeListsExact
  <2>1. \A n \in Slots : \A i \in 1 .. Len(free[n]) :
            free[n][i] \in FreeChunks /\ Slot(ChunkSize(all, free[n][i])) = n
    BY <1>1, <1>2, FiledLists DEF SlotOf
  <2>2. \A c \in FreeChunks : Contains(free[Slot(ChunkSize(all, c))], c)
    <3> TAKE c \in FreeChunks
    <3>1. SlotOf(all, c) \in Slots BY <1>1, <1>2, FreeSlot
    <3>2. Contains(free[SlotOf(all, c)], c) BY <1>1, <1>2, <3>1, FiledLists
    <3> QED BY <3>2 DEF SlotOf
  <2> QED BY <1>1, <2>1, <2>2 DEF FreeListsExact, Filed
<1>6. NoFreeNeighbours BY <1>1 DEF NoFreeNeighbours, Apart
<1> QED BY <1>1, <1>3, <1>4, <1>5, <1>6 DEF HeapSound

\* The lists are sound after every sequence of requests and releases.
THEOREM HeapIsSound == HeapSpec => []HeapSound
BY HeapInvariant, InvSound, PTL

--------------------------------------------------------------------------------
(***************************************************************************)
(* What the heap promises its clients.                                     *)
(***************************************************************************)

\* A chunk ends before any later one starts.
LEMMA ChunkBefore ==
    ASSUME NEW l, Tiled(l), NEW i \in 1 .. Len(l), NEW j \in 1 .. Len(l), i < j
    PROVE  /\ i + 1 \in 1 .. Len(l) /\ l[i + 1] \in Nat /\ l[i + 1] <= l[j]
<1>1. i + 1 \in 1 .. Len(l) /\ Len(l) \in Nat BY DEF Tiled
<1>2. PICK k : k = i + 1 OBVIOUS
<1>3. l[k] \in Nat /\ l[j] \in Nat BY <1>1, <1>2, TiledAddress
<1>4. CASE k = j BY <1>1, <1>2, <1>3, <1>4
<1>5. CASE k # j
  <2>1. k \in 1 .. Len(l) /\ j \in k + 1 .. Len(l) BY <1>1, <1>2, <1>5
  <2>2. l[j] - l[k] >= 20 * (j - k) BY <2>1 DEF Tiled, CHUNK_SIZE
  <2>3. j - k >= 0 BY <2>1
  <2>4. PICK x, y, t : x = l[j] /\ y = l[k] /\ t = j - k OBVIOUS
  <2>5. t \in Int BY <1>1, <2>1, <2>4
  <2>6. y <= x BY ONLY <1>3, <2>2, <2>3, <2>4, <2>5
  <2> QED BY <1>1, <1>2, <1>3, <2>4, <2>6
<1> QED BY <1>4, <1>5

\* Blocks of different chunks have no byte in common.
LEMMA BlocksApart ==
    ASSUME NEW l, Tiled(l), NEW c \in ToSet(l), NEW d \in ToSet(l),
           c # d, c # LastChunk, d # LastChunk,
           NEW m, m = ChunkSize(l, c), NEW n, n = ChunkSize(l, d)
    PROVE  (Data(c) .. Data(c) + m - 1) \cap (Data(d) .. Data(d) + n - 1) = {}
<1>1. PICK i \in 1 .. Len(l) : c = l[i] /\ i < Len(l) BY PlaceOf
<1>2. PICK j \in 1 .. Len(l) : d = l[j] /\ j < Len(l) BY PlaceOf
<1>3. c \in Nat /\ m \in Nat /\ m = l[i + 1] - c - 12
  <2>1. c \in Nat /\ m \in Nat BY ChunkInside
  <2>2. ChunkSize(l, l[i]) = l[i + 1] - l[i] - 12 BY <1>1, TiledPlace
  <2> QED BY <1>1, <2>1, <2>2
<1>4. d \in Nat /\ n \in Nat /\ n = l[j + 1] - d - 12
  <2>1. d \in Nat /\ n \in Nat BY ChunkInside
  <2>2. ChunkSize(l, l[j]) = l[j + 1] - l[j] - 12 BY <1>2, TiledPlace
  <2> QED BY <1>2, <2>1, <2>2
<1>5. i # j BY <1>1, <1>2
<1>6. CASE i < j
  <2>1. l[i + 1] \in Nat /\ l[i + 1] <= d BY <1>2, <1>6, ChunkBefore
  <2>2. PICK y : y = l[i + 1] OBVIOUS
  <2>3. c + 12 + m <= d BY ONLY <1>3, <1>4, <2>1, <2>2
  <2> QED BY <1>3, <1>4, <2>3, SMTT(30) DEF Data, HEADER_SIZE
<1>7. CASE j < i
  <2>1. l[j + 1] \in Nat /\ l[j + 1] <= c BY <1>1, <1>7, ChunkBefore
  <2>2. d + 12 + n <= c BY ONLY <1>3, <1>4, <2>1, SMTT(30)
  <2> QED BY <1>3, <1>4, <2>2, SMTT(30) DEF Data, HEADER_SIZE
<1> QED BY <1>1, <1>2, <1>5, <1>6, <1>7

\* The rounding of a request wraps for none of the sizes asked for.
NoWrap == \A s \in Requests : s + ALIGN - 1 < 2 ^ Width

\* What a client holds at p.
LEMMA BlockHeld ==
    /\ DOMAIN Blocks = DOMAIN asked
    /\ \A p \in DOMAIN asked : /\ Blocks[p].asked = asked[p]
                               /\ Blocks[p].len = ChunkSize(all, ChunkOf(p))
                               /\ Blocks[p] = [asked |-> asked[p], len |-> ChunkSize(all, ChunkOf(p))]
BY DEF Blocks

\* The chunk of a block is a chunk of the heap, and the block lies in the heap.
LEMMA BlockInside ==
    ASSUME HeapInv, NEW p \in DOMAIN asked
    PROVE  /\ ChunkOf(p) \in ToSet(all) /\ ChunkOf(p) \in used \ {LastChunk}
           /\ p = Data(ChunkOf(p)) /\ p \in Nat
<1>1. /\ p \in Addr /\ ChunkOf(p) \in used \ {LastChunk} /\ used \subseteq ToSet(all)
  BY DEF HeapInv, Clients, Sound
<1>2. p \in Nat BY <1>1, Addresses
<1> QED BY <1>1, <1>2 DEF Data, ChunkOf, HEADER_SIZE

\* kmalloc hands out a block as the allocator promises.
LEMMA KmallocAllocates ==
    ASSUME NoWrap, HeapInv, NEW s \in Requests, Kmalloc(s)
    PROVE  \E p \in 0 .. HeapSize - 1 : Promise!Alloc(p)
<1>1. PICK c \in ToSet(all) \ used :
              /\ Sound(all', free', used') /\ used' = used \cup {c}
              /\ asked' = [p \in DOMAIN asked \cup {Data(c)} |->
                              IF p = Data(c) THEN s ELSE asked[p]]
              /\ ChunkSize(all', c) >= Granted(s)
              /\ \A d \in used \ {LastChunk} : ChunkSize(all', d) = ChunkSize(all, d)
  BY KmallocEffect
<1>2. /\ Tiled(all') /\ c \in ToSet(all') /\ used \subseteq ToSet(all')
      /\ c # LastChunk /\ Tiled(all)
  BY <1>1 DEF Sound, HeapInv
<1>3. PICK l : l = all' OBVIOUS
<1>4. /\ c \in Nat /\ ChunkSize(l, c) \in Nat /\ Data(c) \in Addr /\ ChunkOf(Data(c)) = c
      /\ Data(c) + ChunkSize(l, c) <= HeapSize
  BY <1>2, <1>3, ChunkInside
<1>5. PICK p : p = Data(c) OBVIOUS
<1>6. p \in Nat /\ p \in 0 .. HeapSize - 1 BY <1>4, <1>5, Addresses DEF Addr
<1>7. p \notin DOMAIN asked
  <2>1. ASSUME p \in DOMAIN asked PROVE FALSE
    <3>1. ChunkOf(p) \in used BY <2>1, BlockInside
    <3> QED BY <1>1, <1>4, <1>5, <3>1
  <2> QED BY <2>1
<1>8. DOMAIN asked' = DOMAIN asked \cup {p} /\ asked'[p] = s BY <1>1, <1>5
<1>9. /\ DOMAIN Blocks' = DOMAIN asked'
      /\ \A q \in DOMAIN asked' : Blocks'[q] = [asked |-> asked'[q], len |-> ChunkSize(all', ChunkOf(q))]
  BY DEF Blocks
<1>10. Blocks'[p].asked = s /\ Blocks'[p].len = ChunkSize(l, c)
  <2>1. p \in DOMAIN asked' /\ ChunkOf(p) = c BY <1>4, <1>5, <1>8
  <2>2. Blocks'[p] = [asked |-> s, len |-> ChunkSize(l, c)] BY <1>3, <1>8, <1>9, <2>1
  <2> QED BY <2>2
<1>11. ASSUME NEW q \in DOMAIN asked PROVE Blocks'[q] = Blocks[q]
  <2>1. asked'[q] = asked[q] /\ q \in DOMAIN asked' BY <1>1, <1>5, <1>7, <1>8
  <2>2. ChunkSize(all', ChunkOf(q)) = ChunkSize(all, ChunkOf(q)) BY <1>1, BlockInside
  <2> QED BY <1>9, <2>1, <2>2, BlockHeld
<1>12. Blocks'[p].len >= s
  <2>1. Granted(s) >= s /\ Granted(s) \in Nat
    <3>1. s + ALIGN - 1 < 2 ^ Width BY DEF NoWrap
    <3>2. Granted(s) \in 8 .. 2 ^ Width - 1 BY GrantedSize
    <3> QED BY <3>1, <3>2, GrantedSize, Addresses
  <2>2. s \in Nat BY HeapAssumption, Addresses
  <2> QED BY <1>1, <1>3, <1>4, <1>10, <2>1, <2>2
<1>13. Promise!Bytes(p, Blocks'[p]) \subseteq 0 .. HeapSize - 1
  <2>1. Promise!Bytes(p, Blocks'[p]) = p .. p + ChunkSize(l, c) - 1 BY <1>10 DEF Promise!Bytes
  <2>2. PICK n : n = ChunkSize(l, c) OBVIOUS
  <2>3. p .. p + n - 1 \subseteq 0 .. HeapSize - 1 BY <1>4, <1>5, <1>6, <2>2, Addresses
  <2> QED BY <2>1, <2>2, <2>3
<1>14. ASSUME NEW q \in DOMAIN asked
       PROVE  Promise!Bytes(p, Blocks'[p]) \cap Promise!Bytes(q, Blocks[q]) = {}
  <2>1. PICK d : d = ChunkOf(q) OBVIOUS
  <2>2. d \in used \ {LastChunk} /\ q = Data(d) BY <2>1, BlockInside
  <2>3. d # c /\ d \in ToSet(l) /\ ChunkSize(l, d) = ChunkSize(all, d) BY <1>1, <1>2, <1>3, <2>2
  <2>4. PICK m, n : m = ChunkSize(l, c) /\ n = ChunkSize(l, d) OBVIOUS
  <2>5. (Data(c) .. Data(c) + m - 1) \cap (Data(d) .. Data(d) + n - 1) = {}
    BY <1>2, <1>3, <2>2, <2>3, <2>4, BlocksApart
  <2>6. Promise!Bytes(p, Blocks'[p]) = Data(c) .. Data(c) + m - 1
    BY <1>5, <1>10, <2>4 DEF Promise!Bytes
  <2>7. Promise!Bytes(q, Blocks[q]) = Data(d) .. Data(d) + n - 1
    BY <2>1, <2>2, <2>3, <2>4, BlockHeld DEF Promise!Bytes
  <2> QED BY <2>5, <2>6, <2>7
<1>15. Promise!Alloc(p)
  BY <1>7, <1>8, <1>9, <1>10, <1>11, <1>12, <1>13, <1>14, BlockHeld DEF Promise!Alloc
<1> QED BY <1>6, <1>15

\* kfree takes one block back and leaves the others alone.
LEMMA KfreeFrees ==
    ASSUME HeapInv, NEW p \in Addr, Kfree(p)
    PROVE  \E q \in 0 .. HeapSize - 1 : Promise!Free(q)
<1>1. /\ p \in DOMAIN asked
      /\ asked' = [q \in DOMAIN asked \ {p} |-> asked[q]]
      /\ SizesKept(all, used, ChunkOf(p), all')
  BY KfreeEffect
<1>2. p \in 0 .. HeapSize - 1 BY DEF Addr
<1>3. ASSUME NEW q \in DOMAIN asked \ {p}
      PROVE  [asked |-> asked'[q], len |-> ChunkSize(all', ChunkOf(q))] = Blocks[q]
  <2>1. ChunkOf(q) \in used \ {LastChunk} /\ q = Data(ChunkOf(q)) /\ p = Data(ChunkOf(p))
    BY <1>1, BlockInside
  <2>2. ChunkOf(q) # ChunkOf(p) BY <2>1
  <2>3. ChunkSize(all', ChunkOf(q)) = ChunkSize(all, ChunkOf(q)) BY <1>1, <2>1, <2>2 DEF SizesKept
  <2>4. asked'[q] = asked[q] BY <1>1
  <2> QED BY <2>3, <2>4, BlockHeld
<1>4. DOMAIN asked' = DOMAIN asked \ {p} BY <1>1
<1>5. Blocks' = [q \in DOMAIN asked \ {p} |-> Blocks[q]] BY <1>3, <1>4 DEF Blocks
<1>6. Promise!Free(p) BY <1>1, <1>5, BlockHeld DEF Promise!Free
<1> QED BY <1>2, <1>6

\* What clients hold is disjoint, at least as large as they asked, and untouched by what
\* others do, unless the rounding of a request wraps (the code checks for no overflow).
THEOREM HeapImplementsAllocator ==
    ASSUME NoWrap
    PROVE  HeapSpec => ImplementsAllocator
<1>1. HeapInit => Promise!Init BY BlockHeld DEF HeapInit, Promise!Init
<1>2. HeapInv /\ [HeapNext]_heapVars => [Promise!Next]_Blocks
  <2> SUFFICES ASSUME HeapInv, [HeapNext]_heapVars PROVE [Promise!Next]_Blocks OBVIOUS
  <2>1. ASSUME NEW s \in Requests, Kmalloc(s) PROVE Promise!Next
    BY <2>1, KmallocAllocates DEF Promise!Next
  <2>2. ASSUME NEW p \in Addr, Kfree(p) PROVE Promise!Next
    BY <2>2, KfreeFrees DEF Promise!Next
  <2>3. CASE UNCHANGED heapVars
    <3>1. all' = all /\ asked' = asked BY <2>3 DEF heapVars
    <3>2. Blocks' = Blocks BY <3>1 DEF Blocks
    <3> QED BY <3>2
  <2> QED BY <2>1, <2>2, <2>3 DEF HeapNext
<1> QED BY <1>1, <1>2, HeapInvariant, PTL DEF HeapSpec, ImplementsAllocator, Promise!Spec

================================================================================
