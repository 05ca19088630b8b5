--------------------------------- MODULE Numbers ---------------------------------
(***************************************************************************)
(* The arithmetic of the C library (lib/libc/src/div64.c, udivmoddi4.c,    *)
(* uitoa.c, itoa.c): the 64 bit division the compiler calls on a 32 bit    *)
(* machine, in its two forms, and the numbers that are printed with it.    *)
(* __qdivrem is Knuth's program D in base 2^HALF_BITS; the words here have *)
(* four digits of a smaller base.                                          *)
(***************************************************************************)
EXTENDS Integers, Sequences, SequencesExt, FiniteSetsExt

CONSTANTS
    HalfBits,    \* bits of a digit: 16 in the code
    Digit,       \* the digits that occur in the operands
    Base,        \* bases asked for
    Trap         \* the outcome of a divide error

VARIABLES
    call,        \* the operands of the last call
    answer       \* what it returned
numberVars == <<call, answer>>

B     == 2 ^ HalfBits
Word  == 0 .. B ^ 4 - 1
Int64 == -(B ^ 4 \div 2) .. B ^ 4 \div 2 - 1

NumbersAssumption ==
    /\ HalfBits \in Nat \ {0} /\ Digit \subseteq 0 .. B - 1 /\ Base \subseteq Nat \ {0, 1}

--------------------------------------------------------------------------------
LHALF(x) == x % B
HHALF(x) == (x \div B) % B
COMBINE(a, b) == a * B + b

\* The digits of a word, the highest first, and the word of some digits.
Digits(w)  == [i \in 1 .. 4 |-> LHALF(w \div B ^ (4 - i))]
Number(ds) == FoldLeft(COMBINE, 0, ds)

\* The digits from the first that is not zero.
Significant(ds) == SubSeq(ds, Min({i \in DOMAIN ds : ds[i] # 0}), Len(ds))

Answer(quot, rem) == [quot |-> quot, rem |-> rem]

\* One digit of divisor: the schoolbook division, digit after digit.
ShortDivision(u, t) ==
    LET part[j \in 0 .. 4] == IF j = 0 THEN 0 ELSE COMBINE(part[j - 1] % t, u[j])
    IN  Answer(Number([j \in 1 .. 4 |-> LHALF(part[j] \div t)]), part[4] % t)

\* p shifted to the left in place: a digit takes the high bits of the next one.
shl(p, sh) ==
    [i \in DOMAIN p |->
        LHALF(p[i] * 2 ^ sh)
        + (IF i = Len(p) THEN 0 ELSE p[i + 1] \div 2 ^ (HalfBits - sh))]

\* The remainder, in the digits of u after the first m, shifted back.
Unshifted(u, m, sh) ==
    [i \in DOMAIN u |->
        IF sh = 0 \/ i <= m THEN u[i]
        ELSE IF i = m + 1 THEN 0
        ELSE u[i] \div 2 ^ sh + LHALF(u[i - 1] * 2 ^ (HalfBits - sh))]

\* D3: the digit of the quotient is guessed from two digits of the divisor. A
\* first digit as high as that of the divisor makes the guess B, which is too big.
QHat(uj0, uj1, uj2, v1, v2) ==
    LET nn       == COMBINE(uj0, uj1)
        first    == IF uj0 = v1 THEN B - 1 ELSE nn \div v1
        rhat(q)  == nn - q * v1
        fits(q)  == rhat(q) >= B \/ v2 * q <= COMBINE(rhat(q), uj2)
    IN  Max({q \in 0 .. first : fits(q)})

\* D4: qhat times the divisor is subtracted from the digits w, in 32 bits.
\* `left' holds the digits that are left, `borrow' whether one was borrowed.
Subtract(w, v, qhat) ==
    LET n == Len(v)
        \* before the digit i, from the last one
        diff[i \in 0 .. n] ==
            LET borrow == IF i = n THEN 0 ELSE (B - HHALF(diff[i + 1])) % B
            IN  (w[i + 1] - (IF i = 0 THEN 0 ELSE v[i] * qhat) - borrow) % (B * B)
    IN  [left |-> [i \in 1 .. n + 1 |-> LHALF(diff[i - 1])], borrow |-> HHALF(diff[0]) # 0]

\* Mutant: the carries are forgotten.
AddBack_NoCarry(w, v) ==
    [i \in 1 .. Len(v) + 1 |-> LHALF(w[i] + (IF i = 1 THEN 0 ELSE v[i - 1]))]

\* D6: the divisor is added back to the digits w.
AddBack(w, v) ==
    LET n == Len(v)
        sum[i \in 0 .. n] ==
            w[i + 1] + (IF i = 0 THEN 0 ELSE v[i]) + (IF i = n THEN 0 ELSE HHALF(sum[i + 1]))
    IN  [i \in 1 .. n + 1 |-> LHALF(sum[i - 1])]

\* D2 to D7 at the digit j: what is left of u, and the digit of the quotient.
Step(u, v, j) ==
    LET w    == SubSeq(u, j, j + Len(v))
        qhat == QHat(w[1], w[2], w[3], v[1], v[2])
        sub  == Subtract(w, v, qhat)
        end  == IF sub.borrow THEN AddBack(sub.left, v) ELSE sub.left
    IN  [u |-> [i \in DOMAIN u |-> IF i \in j .. j + Len(v) THEN end[i - j + 1] ELSE u[i]],
         q |-> LHALF(IF sub.borrow THEN qhat - 1 ELSE qhat)]

\* Program D. D1 shifts both operands until the first digit of v is B/2 or more;
\* the remainder is shifted back.
LongDivision(u, v) ==
    LET d    == Min({k \in 0 .. HalfBits : v[1] * 2 ^ k >= B \div 2})
        m    == Len(u) - Len(v)
        vd   == shl(v, d)
        at[j \in 0 .. m + 1] ==
            IF j = 0 THEN [u |-> shl(<<0>> \o u, d), q |-> <<>>]
            ELSE LET s == Step(at[j - 1].u, vd, j)
                 IN  [u |-> s.u, q |-> Append(at[j - 1].q, s.q)]
    IN  Answer(Number(at[m + 1].q), Number(Unshifted(at[m + 1].u, m, d)))

\* Nothing is divided by zero: the quotient is 0 and all of u remains.
qdivrem(uq, vq) ==
    IF vq = 0 \/ uq < vq THEN Answer(0, uq)
    ELSE LET v == Significant(Digits(vq))
         IN  IF Len(v) = 1 THEN ShortDivision(Digits(uq), v[1])
             ELSE LongDivision(Significant(Digits(uq)), v)

\* __udivmoddi4: the divisor is shifted to the left as far as it goes, and back
\* bit after bit.
udivmoddi4(num, den) ==
    LET shift == Min({k \in 0 .. 4 * HalfBits : den * 2 ^ k >= B ^ 4 \div 2})
        at[k \in 0 .. shift + 1] ==
            IF k = 0 THEN Answer(0, num)
            ELSE LET bit == shift + 1 - k
                     old == at[k - 1]
                 IN  IF den * 2 ^ bit <= old.rem
                     THEN Answer(old.quot + 2 ^ bit, old.rem - den * 2 ^ bit) ELSE old
    IN  IF den = 0 THEN Trap ELSE at[shift + 1]

\* uitoa: the digits are found from the last one, then copied backwards. A base
\* over 16 gives a zero.
uitoa(i, base) ==
    LET tmp[k \in Word] ==
            IF k = 0 THEN <<>>
            ELSE LET a == qdivrem(k, base) IN <<a.rem>> \o tmp[a.quot]
        top == Len(tmp[i])
    IN  IF i = 0 \/ base > 16 THEN <<0>> ELSE [opos \in 1 .. top |-> tmp[i][top + 1 - opos]]

\* itoa: a sign in base ten only; other bases print the two's complement, and a
\* base over 16 leaves the buffer as it is.
itoa(i, buf, base) ==
    IF base > 16 THEN buf
    ELSE IF base = 10 /\ i < 0 THEN <<"-">> \o uitoa(-i, base)
    ELSE uitoa(i % B ^ 4, base)

--------------------------------------------------------------------------------
Operand == {w \in Word : \A i \in 1 .. 4 : Digits(w)[i] \in Digit}

Init == call = <<"none">> /\ answer = <<>>

\* __udivdi3 and __umoddi3, which take one half of it each
Divide(uq, vq) ==
    /\ call' = <<"qdivrem", uq, vq>> /\ answer' = qdivrem(uq, vq)

\* __udivmoddi4
DivideBits(num, den) ==
    /\ call' = <<"udivmoddi4", num, den>> /\ answer' = udivmoddi4(num, den)

\* itoa, into an empty buffer
Convert(i, base) ==
    /\ call' = <<"itoa", i, base>> /\ answer' = itoa(i, <<>>, base)

\* One call is made: the next one finds nothing of it.
Next ==
    /\ call = <<"none">>
    /\ \/ \E uq, vq \in Operand : Divide(uq, vq)
       \/ \E num, den \in Operand : DivideBits(num, den)
       \/ \E i \in Int64, base \in Base : Convert(i, base)

Spec == Init /\ [][Next]_numberVars

--------------------------------------------------------------------------------
\* Quotient and remainder are those of the integers, in both forms of the
\* division; only division by zero tells them apart, where one of them traps and
\* the other goes on with a quotient of zero.
DivisionExact ==
    LET num == call[2]  den == call[3] IN
    call[1] \in {"qdivrem", "udivmoddi4"} =>
        answer = IF den # 0 THEN Answer(num \div den, num % den)
                 ELSE IF call[1] = "qdivrem" THEN Answer(0, num) ELSE Trap

\* Read back, the digits itoa prints are the number: without a leading zero, with
\* a sign in base ten, modulo the width of a word in the others.
ConversionExact ==
    LET i == call[2]  base == call[3]
        negative == base = 10 /\ i < 0
        shown == IF negative THEN Tail(answer) ELSE answer
        value == FoldLeft(LAMBDA v, d : v * base + d, 0, shown)
    IN  call[1] = "itoa" /\ base <= 16 =>
        /\ negative => Head(answer) = "-"
        /\ \A k \in DOMAIN shown : shown[k] \in 0 .. base - 1
        /\ shown[1] = 0 => Len(shown) = 1
        /\ value = IF negative THEN -i ELSE i % B ^ 4
================================================================================
