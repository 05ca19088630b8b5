------------------------------ MODULE KernelOutput ------------------------------
(***************************************************************************)
(* The formatted output of the kernel (io/src/kernel_output.c): formater   *)
(* reads a format one character at a time and keeps the modifiers of the   *)
(* directive it is in.                                                     *)
(*                                                                         *)
(* An argument has 8 bits where the code has 64, so that a length modifier *)
(* counts bits here and bytes there.  The numbers are those of the C       *)
(* library.                                                                *)
(***************************************************************************)
EXTENDS Integers, Sequences, SequencesExt, FiniteSetsExt

CONSTANTS
    Symbol,       \* characters of the formats
    Argument,     \* values of the arguments
    MaxDirective, \* bound on the characters of a directive
    None

VARIABLES
    modifier, length_mod, padding_mod, upper_mod, pad_char_mod,
    directive,    \* characters since the last % that opened a directive
    argument,     \* argument of the last conversion
    printed       \* what the last character that printed something printed
fmtVars == <<modifier, length_mod, padding_mod, upper_mod, pad_char_mod,
             directive, argument, printed>>

Value(digit) == CHOOSE v \in 0 .. 9 : ToString(v) = digit
Figure == {ToString(v) : v \in 0 .. 9}

KernelOutputAssumption ==
    /\ Argument \subseteq 0 .. 255 /\ MaxDirective \in Nat /\ Symbol \subseteq STRING

\* What uitoa of the C library prints (see Numbers): the digits, the highest first.
uitoa[v \in 0 .. 255, base \in {10, 16}] ==
    IF v < base THEN <<v>> ELSE Append(uitoa[v \div base, base], v % base)

--------------------------------------------------------------------------------
hex_table == <<"0", "1", "2", "3", "4", "5", "6", "7", "8", "9", "A", "B", "C", "D", "E", "F">>
lower     == <<"0", "1", "2", "3", "4", "5", "6", "7", "8", "9", "a", "b", "c", "d", "e", "f">>

\* GET_SEQ_VAL: lengths over 8 are 8, and those that are no length are 4.
Length(mod) == IF mod > 8 THEN 8 ELSE IF mod \in {1, 2, 4, 8} THEN mod ELSE 4
SeqVal(arg, mod) == arg % 2 ^ Length(mod)

\* The argument is widened without its sign, so that only the longest is negative.
Signed(v) == IF v >= 128 THEN v - 256 ELSE v
ShowUnsigned(v, base, table) ==
    LET ds == uitoa[v, base] IN [k \in DOMAIN ds |-> table[ds[k] + 1]]
ShowDecimal(v) ==
    IF Signed(v) < 0 THEN <<"-">> \o ShowUnsigned(-Signed(v), 10, lower)
    ELSE ShowUnsigned(v, 10, lower)

\* PAD_SEQ
Padded(seq, width, char) == [k \in 1 .. Max({0, width - Len(seq)}) |-> char] \o seq

\* Mutant: the width stays for the next directive.
Reinit_Width ==
    /\ length_mod' = 4 /\ upper_mod' = FALSE
    /\ pad_char_mod' = " " /\ modifier' = FALSE /\ UNCHANGED padding_mod

\* The modifiers of a new directive.
Reinit ==
    /\ length_mod' = 4 /\ padding_mod' = 0 /\ upper_mod' = FALSE
    /\ pad_char_mod' = " " /\ modifier' = FALSE
Continue(ch) == directive' = Append(directive, ch) /\ UNCHANGED <<argument, printed>>
Prints(ch, arg, seq) ==
    directive' = Append(directive, ch) /\ argument' = arg /\ printed' = seq /\ Reinit
SameModifiers == UNCHANGED <<length_mod, padding_mod, upper_mod, pad_char_mod>>

\* A % opens a directive, or prints itself inside of one.
Percent ==
    IF modifier
    THEN Prints("%", None, <<"%">>)
    ELSE /\ modifier' = TRUE /\ directive' = <<>>
         /\ SameModifiers /\ UNCHANGED <<argument, printed>>

Plain(ch) ==
    /\ ~modifier /\ ch # "%" /\ argument' = None /\ printed' = <<ch>> /\ directive' = <<>> /\ Reinit

LengthMod(ch) ==
    /\ modifier
    /\ \/ ch = "h" /\ length_mod' = length_mod \div 2
       \/ ch = "l" /\ length_mod' = (length_mod * 2) % 256
    /\ Continue(ch) /\ UNCHANGED <<modifier, padding_mod, upper_mod, pad_char_mod>>

\* A first zero is the padding character; the width has 8 bits.
PaddingMod(ch) ==
    /\ modifier /\ ch \in Figure
    /\ IF ch = "0" /\ padding_mod = 0
       THEN pad_char_mod' = "0" /\ UNCHANGED padding_mod
       ELSE padding_mod' = (padding_mod * 10 + Value(ch)) % 256 /\ UNCHANGED pad_char_mod
    /\ Continue(ch) /\ UNCHANGED <<modifier, length_mod, upper_mod>>

Decimal(ch, arg) ==
    /\ modifier /\ ch \in {"d", "i", "u"}
    /\ LET v == SeqVal(arg, length_mod)
           seq == IF ch = "u" THEN ShowUnsigned(v, 10, lower) ELSE ShowDecimal(v)
       IN  Prints(ch, arg, Padded(seq, padding_mod, pad_char_mod))

Hexadecimal(ch, arg) ==
    /\ modifier /\ ch \in {"x", "X"}
    /\ LET table == IF ch = "X" \/ upper_mod THEN hex_table ELSE lower
       IN  Prints(ch, arg, Padded(ShowUnsigned(SeqVal(arg, length_mod), 16, table),
                                  padding_mod, pad_char_mod))

\* A pointer has its own width, padding and length.
Pointer(ch, arg) ==
    /\ modifier /\ ch \in {"p", "P"}
    /\ LET table == IF ch = "P" \/ upper_mod THEN hex_table ELSE lower
       IN  Prints(ch, arg, Padded(ShowUnsigned(SeqVal(arg, 4), 16, table), 8, "0"))

\* Characters and strings come as they are, without padding.
Text(ch, arg) == modifier /\ ch \in {"c", "s"} /\ Prints(ch, arg, <<arg>>)

\* A character that means nothing is passed over, and the directive goes on.
UnknownMod(ch) ==
    /\ modifier
    /\ ch \notin Figure \cup {"%", "h", "l", "d", "i", "u", "x", "X", "p", "P", "c", "s"}
    /\ Continue(ch) /\ SameModifiers /\ UNCHANGED modifier

\* formater, at the next character
Feed(ch) ==
    /\ Len(directive) < MaxDirective \/ ~modifier
    /\ \/ ch = "%" /\ Percent
       \/ Plain(ch) \/ LengthMod(ch) \/ PaddingMod(ch) \/ UnknownMod(ch)
       \/ \E arg \in Argument : Decimal(ch, arg) \/ Hexadecimal(ch, arg) \/ Pointer(ch, arg) \/ Text(ch, arg)

Init ==
    /\ modifier = FALSE /\ length_mod = 4 /\ padding_mod = 0
    /\ upper_mod = FALSE /\ pad_char_mod = " "
    /\ directive = <<>> /\ argument = None /\ printed = <<>>

Next == \E ch \in Symbol : Feed(ch)

Spec == Init /\ [][Next]_fmtVars

--------------------------------------------------------------------------------
\* A directive read as the C standard reads it: its figures, its length letters and
\* its conversion; `legal' leaves out the letters that mean nothing.
Figures(d) == SelectSeq(d, LAMBDA c : c \in Figure)
Count(d, c) == Len(SelectSeq(d, LAMBDA x : x = c))
Legal(d) == ToSet(d) \subseteq Figure \cup {"h", "l", "d", "u", "x", "X"}
Conversion(d) == Last(d)
Width(d) == FoldLeft(LAMBDA w, c : 10 * w + Value(c), 0, Figures(d)) % 256
Bits(d) ==
    LET h == Count(d, "h")  l == Count(d, "l")
    IN  IF h > 0 /\ l = 0 THEN (IF h = 1 THEN 2 ELSE IF h = 2 THEN 1 ELSE 4)
        ELSE IF h = 0 THEN (IF l = 0 THEN 4 ELSE 8) ELSE 0

\* The number that some characters show.
Shown(seq, base) ==
    LET digit(c) == CHOOSE k \in 0 .. 15 : c \in {hex_table[k + 1], lower[k + 1]}
    IN  FoldLeft(LAMBDA v, c : base * v + digit(c), 0, seq)

\* A numeric conversion shows its argument at the width that was asked for: padding
\* fills the field and takes no digit away. A signed conversion shows a negative
\* number only at the full length, where the code does not lose the sign.
DirectivesPrint ==
    LET d == directive IN
    (~modifier /\ d # <<>> /\ Conversion(d) \in {"d", "u", "x", "X"} /\ Legal(d) /\ Bits(d) # 0) =>
        LET v        == argument % 2 ^ Bits(d)
            negative == Conversion(d) = "d" /\ Bits(d) = 8 /\ v >= 128
            pads     == IF Figures(d) # <<>> /\ Head(Figures(d)) = "0" THEN "0" ELSE " "
            start    == Min({k \in DOMAIN printed : printed[k] # pads} \cup {Len(printed)})
            digits   == SelectSeq(SubSeq(printed, start, Len(printed)), LAMBDA c : c # "-")
        IN  /\ Len(printed) >= Width(d)
            /\ Len(printed) > Width(d) => start = 1
            /\ Count(printed, "-") = IF negative THEN 1 ELSE 0
            /\ Shown(digits, IF Conversion(d) \in {"x", "X"} THEN 16 ELSE 10)
                = IF negative THEN 256 - v ELSE v

\* Modifiers end with their directive: what comes after is printed as it stands.
ModifiersEnd ==
    ~modifier => length_mod = 4 /\ padding_mod = 0 /\ ~upper_mod /\ pad_char_mod = " "
================================================================================
