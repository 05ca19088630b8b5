------------------------------- MODULE LoopProofs -------------------------------
(***************************************************************************)
(* The rule for a loop over the elements of a sequence.  What the loop     *)
(* computes is a fold; the rule says that the fold keeps what every round  *)
(* keeps.  A module that has a loop instantiates this one with the round   *)
(* and with what it keeps, and shows that induction reaches the length.    *)
(***************************************************************************)
EXTENDS Integers, TLAPS

CONSTANTS
    Step(_, _, _),  \* a round: the context, the value so far and the element
    Keeps(_, _, _)  \* what holds of the value after so many rounds

\* Induction reaches n.
Climbs(n) == \A S : 0 \in S /\ (\A k \in 0 .. n - 1 : k \in S => k + 1 \in S) => n \in S

\* The element the fold of the library takes out of the indices that are left.
Largest(s) == CHOOSE x \in s : \A y \in s : x >= y

\* An upper bound in the set is the largest element.
LEMMA LargestIs ==
    ASSUME NEW k \in Int, NEW s \in SUBSET Int, k \in s, \A j \in s : j <= k
    PROVE  Largest(s) = k
<1>1. \A x \in s : (\A y \in s : x >= y) <=> x = k OBVIOUS
<1> QED BY <1>1 DEF Largest

\* FoldLeft of Step, as the library defines it.
Fold(c, w, q) ==
    LET iter[s \in SUBSET DOMAIN q] ==
            IF s = {} THEN w ELSE LET x == Largest(s) IN Step(c, iter[s \ {x}], q[x])
    IN  iter[DOMAIN q]

\* Taking the largest element out of 1 .. k + 1, or out of a part of it.
LEMMA SegmentFacts ==
    ASSUME NEW k \in Nat
    PROVE  /\ Largest(1 .. k + 1) = k + 1
           /\ 1 .. k + 1 \in SUBSET (1 .. k + 1) /\ k + 1 \in 1 .. k + 1
           /\ (1 .. k + 1) \ {k + 1} = 1 .. k
           /\ 1 .. 0 = {}
           /\ \A s \in SUBSET (1 .. k + 1) : k + 1 \notin s => s \in SUBSET (1 .. k)
           /\ \A s \in SUBSET (1 .. k + 1) : k + 1 \in s =>
                  /\ s \ {k + 1} \in SUBSET (1 .. k) /\ Largest(s) = k + 1
                  /\ k + 1 \notin s \ {k + 1}
           /\ \A s \in SUBSET (1 .. k) :
                  /\ s \ {Largest(s)} \in SUBSET (1 .. k) /\ k + 1 \notin s
                  /\ s \in SUBSET (1 .. k + 1)
<1>1. \A j \in 1 .. k + 1 : j # k + 1 => j \in 1 .. k OBVIOUS
<1>2. ASSUME NEW s \in SUBSET (1 .. k + 1), k + 1 \in s PROVE Largest(s) = k + 1
  BY <1>2, LargestIs
<1>3. \A j \in 1 .. k : j \in 1 .. k + 1 /\ j # k + 1 OBVIOUS
<1>4. (1 .. k + 1) \ {k + 1} = 1 .. k OBVIOUS
<1>5. 1 .. 0 = {} /\ k + 1 \in 1 .. k + 1 OBVIOUS
<1>6. \A s \in SUBSET (1 .. k + 1) : k + 1 \notin s => s \in SUBSET (1 .. k) BY ONLY <1>1, Zenon
<1>7. \A s \in SUBSET (1 .. k + 1) : k + 1 \in s => s \ {k + 1} \in SUBSET (1 .. k)
  BY ONLY <1>1, Zenon
<1>8. \A s \in SUBSET (1 .. k) :
          /\ s \ {Largest(s)} \in SUBSET (1 .. k) /\ k + 1 \notin s
          /\ s \in SUBSET (1 .. k + 1)
  BY ONLY <1>3, Zenon
<1>9. Largest(1 .. k + 1) = k + 1 BY <1>2, <1>5
<1> QED BY <1>2, <1>9, <1>4, <1>5, <1>6, <1>7, <1>8

\* g is the function of the fold on the parts of 1 .. k.
Iter(c, w, q, g, k) ==
    g = [s \in SUBSET (1 .. k) |->
            IF s = {} THEN w ELSE Step(c, g[s \ {Largest(s)}], q[Largest(s)])]

\* The fold is the last of the values that the rounds compute in turn.
LEMMA Unroll ==
    ASSUME NEW c, NEW w, NEW n \in Nat, Climbs(n), NEW q, DOMAIN q = 1 .. n
    PROVE  \E v : /\ v[0] = w
                  /\ \A i \in 0 .. n - 1 : v[i + 1] = Step(c, v[i], q[i + 1])
                  /\ Fold(c, w, q) = v[n]
<1>1. \E g : Iter(c, w, q, g, 0)
  <2> DEFINE g == [s \in SUBSET (1 .. 0) |-> w]
  <2>1. \A s \in SUBSET (1 .. 0) : s = {} OBVIOUS
  <2>2. Iter(c, w, q, g, 0) BY <2>1 DEF Iter
  <2> QED BY <2>2
<1>2. ASSUME NEW k \in 0 .. n - 1, NEW g, Iter(c, w, q, g, k) PROVE \E h : Iter(c, w, q, h, k + 1)
  <2> DEFINE h == [s \in SUBSET (1 .. k + 1) |->
                     IF k + 1 \in s THEN Step(c, g[s \ {k + 1}], q[k + 1]) ELSE g[s]]
  <2>0. k \in Nat OBVIOUS
  <2>1. ASSUME NEW s \in SUBSET (1 .. k + 1)
        PROVE  h[s] = IF s = {} THEN w ELSE Step(c, h[s \ {Largest(s)}], q[Largest(s)])
    <3>1. CASE k + 1 \in s
      <4>2. Largest(s) = k + 1 /\ s \ {k + 1} \in SUBSET (1 .. k + 1) /\ k + 1 \notin s \ {k + 1}
        BY <3>1, <2>0, SegmentFacts
      <4>3. h[s \ {k + 1}] = g[s \ {k + 1}] BY <4>2
      <4> QED BY <3>1, <4>2, <4>3
    <3>2. CASE k + 1 \notin s
      <4>1. s \in SUBSET (1 .. k) /\ s \ {Largest(s)} \in SUBSET (1 .. k + 1) /\ k + 1 \notin s \ {Largest(s)}
        BY <3>2, <2>0, SegmentFacts
      <4>2. h[s] = g[s] /\ h[s \ {Largest(s)}] = g[s \ {Largest(s)}] BY <3>2, <4>1
      <4>3. g[s] = IF s = {} THEN w ELSE Step(c, g[s \ {Largest(s)}], q[Largest(s)])
        BY <1>2, <4>1 DEF Iter
      <4> QED BY <4>2, <4>3
    <3> QED BY <3>1, <3>2
  <2>2. Iter(c, w, q, h, k + 1) BY <2>1 DEF Iter
  <2> QED BY <2>2
<1>3. PICK g : Iter(c, w, q, g, n)
  <2> DEFINE S == {k \in 0 .. n : \E g : Iter(c, w, q, g, k)}
  <2>1. 0 \in S BY <1>1
  <2>2. \A k \in 0 .. n - 1 : k \in S => k + 1 \in S BY <1>2
  <2> HIDE DEF S
  <2>3. n \in S BY <2>1, <2>2 DEF Climbs
  <2> QED BY <2>3 DEF S
<1> DEFINE b == CHOOSE b : Iter(c, w, q, b, n)
<1>4. Iter(c, w, q, b, n) BY <1>3, Zenon
<1>5. Fold(c, w, q) = b[1 .. n] BY DEF Fold, Iter
<1> HIDE DEF b
<1> DEFINE v == [i \in 0 .. n |-> b[1 .. i]]
<1>6. v[0] = w
  <2>1. 1 .. 0 = {} /\ 1 .. 0 \in SUBSET (1 .. n) /\ 0 \in 0 .. n OBVIOUS
  <2>2. b[1 .. 0] = w BY <1>4, <2>1 DEF Iter
  <2> QED BY <2>1, <2>2
<1>7. ASSUME NEW i \in 0 .. n - 1 PROVE v[i + 1] = Step(c, v[i], q[i + 1])
  <2>0. i \in Nat OBVIOUS
  <2>1. 1 .. i + 1 \in SUBSET (1 .. n) /\ 1 .. i + 1 # {} /\ i + 1 \in 0 .. n /\ i \in 0 .. n
    <3>1. i + 1 \in 1 .. i + 1 /\ i + 1 \in 0 .. n /\ i \in 0 .. n OBVIOUS
    <3>2. \A j \in 1 .. i + 1 : j \in 1 .. n OBVIOUS
    <3> QED BY <3>1, <3>2
  <2>2. Largest(1 .. i + 1) = i + 1 /\ (1 .. i + 1) \ {i + 1} = 1 .. i BY <2>0, SegmentFacts
  <2>3. b[1 .. i + 1] = Step(c, b[1 .. i], q[i + 1]) BY <1>4, <2>1, <2>2 DEF Iter
  <2> QED BY <2>1, <2>3
<1>8. v[n] = b[1 .. n] OBVIOUS
<1> HIDE DEF v
<1> QED BY <1>5, <1>6, <1>7, <1>8

\* What holds before the loop and is kept by each round holds after the last.
LEMMA LoopRule ==
    ASSUME NEW c, NEW w, NEW n \in Nat, Climbs(n), NEW q, DOMAIN q = 1 .. n, Keeps(c, 0, w),
           \A i \in 0 .. n - 1 : \A x : Keeps(c, i, x) => Keeps(c, i + 1, Step(c, x, q[i + 1]))
    PROVE  Keeps(c, n, Fold(c, w, q))
<1>1. PICK v : /\ v[0] = w
               /\ \A i \in 0 .. n - 1 : v[i + 1] = Step(c, v[i], q[i + 1])
               /\ Fold(c, w, q) = v[n]
  BY ONLY n \in Nat, Climbs(n), DOMAIN q = 1 .. n, Unroll
<1> DEFINE S == {i \in 0 .. n : Keeps(c, i, v[i])}
<1>2. 0 \in S BY <1>1
<1>3. \A k \in 0 .. n - 1 : k \in S => k + 1 \in S BY <1>1
<1> HIDE DEF S
<1>6. n \in S BY <1>2, <1>3 DEF Climbs
<1> QED BY <1>1, <1>6 DEF S
================================================================================
