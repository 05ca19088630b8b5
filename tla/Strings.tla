--------------------------------- MODULE Strings ---------------------------------
(***************************************************************************)
(* The strings and memory blocks of the C library (lib/libc/src/mem*.c and *)
(* str*.c): each function on a small memory, as the loop computes it, and  *)
(* what it promises in terms of sequences.  Calls whose strings end, whose *)
(* blocks lie in the memory, and whose source and destination are apart    *)
(* where the prototype asks for it, are the legal ones.                    *)
(***************************************************************************)
EXTENDS Integers, Sequences, FiniteSetsExt, SequencesExt

CONSTANTS
    MemSize,     \* bytes of memory
    WordSize,    \* bytes a string instruction moves at once: 4 in the code
    Char,        \* characters, 0 among them
    NULL, None   \* the null pointer, and nothing

VARIABLES
    mem,         \* the memory, from the address 0
    holder,      \* the static pointer of strtok
    ret,         \* what the last call returned, None before it
    promise      \* the memory and the value it should have left
stringVars == <<mem, holder, ret, promise>>

StringsAssumption == MemSize \in Nat /\ WordSize \in Nat \ {0} /\ 0 \in Char /\ Char \subseteq Nat

Cell == 0 .. MemSize - 1
NUL  == 0

--------------------------------------------------------------------------------
\* Strings and blocks as sequences, and memory with a sequence put in it.
Ends(m, s)      == \E c \in Cell : c >= s /\ m[c] = NUL
Block(m, s, n)  == [k \in 1 .. n |-> m[s + k - 1]]
Length(m, s)    == Min({n \in 0 .. MemSize : s + n \in Cell /\ m[s + n] = NUL})
String(m, s)    == Block(m, s, Length(m, s))
Put(m, d, seq)  == [c \in Cell |-> IF c - d + 1 \in DOMAIN seq THEN seq[c - d + 1] ELSE m[c]]
Zeros(n)        == [k \in 1 .. n |-> NUL]
Prefix(seq, n)  == SubSeq(seq, 1, Min({n, Len(seq)}))
Apart(a, n, b, k) == a + n <= b \/ b + k <= a
Fits(a, n)      == a + n <= MemSize

--------------------------------------------------------------------------------
\* The loops that read: they stop at the first cell of their condition.
First(m, s, Stop) == Min({c \in Cell : c >= s /\ m[c] \in Stop})

strlen(m, s) == First(m, s, {NUL}) - s
strnlen(m, s, maxlen) == Min({n \in 0 .. maxlen : n = maxlen \/ m[s + n] = NUL})

strchr(m, s, c) ==
    LET e == First(m, s, {c, NUL}) IN IF m[e] = c THEN e ELSE NULL

\* The terminator is never found.
strrchr(m, s, c) ==
    LET found == {e \in s .. s + strlen(m, s) - 1 : m[e] = c}
    IN  IF found = {} THEN NULL ELSE Max(found)

memchr(m, s, c, n) ==
    LET found == {e \in s .. s + n - 1 : m[e] = c} IN IF found = {} THEN NULL ELSE Min(found)
memrchr(m, s, c, n) ==
    LET found == {e \in s .. s + n - 1 : m[e] = c} IN IF found = {} THEN NULL ELSE Max(found)

\* The difference where the loop stops, 0 when it does not.
Difference(m, a, b, stops) ==
    IF stops = {} THEN 0 ELSE m[a + Min(stops)] - m[b + Min(stops)]
memcmp(m, a, b, n)  == Difference(m, a, b, {k \in 0 .. n - 1 : m[a + k] # m[b + k]})
strncmp(m, a, b, n) ==
    Difference(m, a, b, {k \in 0 .. n - 1 :
        (\A i \in 0 .. k - 1 : m[a + i] # NUL) /\ (m[a + k] # m[b + k] \/ m[a + k] = NUL)})
strcmp(m, a, b)     == strncmp(m, a, b, MemSize - Max({a, b}))

\* The span of the characters in the map, or out of it; NUL never matches.
strxspn(m, s, map, parity) ==
    LET matchmap == {m[c] : c \in map .. map + strlen(m, map) - 1} \cup (IF parity THEN {NUL} ELSE {})
    IN  Min({n \in 0 .. MemSize : s + n \in Cell /\ ((m[s + n] \in matchmap) = parity)})
strspn(m, s, accept)  == strxspn(m, s, accept, FALSE)
strcspn(m, s, reject) == strxspn(m, s, reject, TRUE)
strpbrk(m, s, accept) ==
    LET e == s + strxspn(m, s, accept, TRUE) IN IF m[e] # NUL THEN e ELSE NULL

\* The search jumps by what the second character of the needle tells.
memmem(m, y, n, x, len) ==
    LET same == m[x] = m[x + 1]
        k    == IF same THEN 2 ELSE 1
        l    == IF same THEN 1 ELSE 2
        at[j \in 0 .. n + 2] ==
            IF j > n - len THEN NULL
            ELSE IF m[x + 1] # m[y + j + 1] THEN at[j + k]
            ELSE IF memcmp(m, x + 2, y + j + 2, len - 2) = 0 /\ m[x] = m[y + j] THEN y + j
            ELSE at[j + l]
    IN  IF len > n \/ len = 0 \/ n = 0 THEN NULL
        ELSE IF len = 1 THEN memchr(m, y, m[x], n) ELSE at[0]
strstr(m, haystack, needle) ==
    memmem(m, haystack, strlen(m, haystack), needle, strlen(m, needle))

--------------------------------------------------------------------------------
\* The loops that write. A byte goes after the other, in the order of `steps'.
Result(m, r) == [mem |-> m, ret |-> r]
Moved(m, d, s, steps) == FoldLeft(LAMBDA mm, k : [mm EXCEPT ![d + k] = mm[s + k]], m, steps)
Upwards(n)   == [k \in 1 .. n |-> k - 1]
Downwards(n) == [k \in 1 .. n |-> n - k]

\* Whole words first, each read before it is written, then the bytes left.
memcpy(m, d, s, n) ==
    LET words == n \div WordSize
        word(mm, w) == Put(mm, d + w * WordSize, Block(mm, s + w * WordSize, WordSize))
        done  == FoldLeft(word, m, Upwards(words))
    IN  Result(Moved(done, d + words * WordSize, s + words * WordSize, Upwards(n % WordSize)), d)

memmove(m, d, s, n) == Result(Moved(m, d, s, IF d < s THEN Upwards(n) ELSE Downwards(n)), d)
memset(m, d, c, n)  == Result([i \in Cell |-> IF i \in d .. d + n - 1 THEN c ELSE m[i]], d)

memswap(m, a, b, n) ==
    Result(FoldLeft(LAMBDA mm, k : [mm EXCEPT ![a + k] = mm[b + k], ![b + k] = mm[a + k]],
                    m, Upwards(n)), NULL)

memccpy(m, d, s, c, n) ==
    LET stops == {k \in 0 .. n - 1 : m[s + k] = c}
    IN  IF stops = {} THEN Result(Moved(m, d, s, Upwards(n)), NULL)
        ELSE Result(Moved(m, d, s, Upwards(Min(stops) + 1)), d + Min(stops) + 1)

strcpy(m, d, s) == Result(Moved(m, d, s, Upwards(strlen(m, s) + 1)), d)
strcat(m, d, s) == Result(strcpy(m, strchr(m, d, NUL), s).mem, d)

\* What is left of n after the terminator is cleared.
strncpy(m, d, s, n) ==
    LET copied == Min({n, strlen(m, s) + 1})
    IN  Result(memset(Moved(m, d, s, Upwards(copied)), d + copied, NUL, n - copied).mem, d)

strncat(m, d, s, n) ==
    LET q      == strchr(m, d, NUL)
        copied == Min({n, strlen(m, s) + 1})
        done   == Moved(m, q, s, Upwards(copied))
    IN  Result(IF n > strlen(m, s) THEN done ELSE [done EXCEPT ![q + n] = NUL], d)

\* The bytes that do not fit are counted all the same.
strlcat(m, d, s, size) ==
    LET bytes == strnlen(m, d, size)
        room  == Min({strlen(m, s), Max({size - 1 - bytes, 0})})
    IN  IF bytes = size THEN Result(m, bytes + strlen(m, s))
        ELSE Result([Moved(m, d + bytes, s, Upwards(room)) EXCEPT ![d + bytes + room] = NUL],
                    bytes + strlen(m, s))

\* strsep on the pointer p: the token it gives, and the pointer it leaves.
strsep(m, p, delim) ==
    IF p = NULL THEN [mem |-> m, ret |-> NULL, rest |-> NULL]
    ELSE LET e == strpbrk(m, p, delim)
         IN  IF e = NULL THEN [mem |-> m, ret |-> p, rest |-> NULL]
             ELSE [mem |-> [m EXCEPT ![e] = NUL], ret |-> p, rest |-> e + 1]

--------------------------------------------------------------------------------
Init ==
    /\ mem = [c \in Cell |-> NUL] /\ holder = NULL
    /\ ret = None /\ promise = Result(mem, ret)

\* The caller's own data.
Fill ==
    /\ ret = None /\ mem = [c \in Cell |-> NUL]
    /\ mem' \in [Cell -> Char] /\ promise' = Result(mem', ret)
    /\ UNCHANGED <<holder, ret>>

\* A call, and what it promises.
Call(r, m, v) ==
    /\ ret = None
    /\ mem' = r.mem /\ ret' = r.ret /\ promise' = Result(m, v)
    /\ UNCHANGED holder

Memcpy(d, s, n) ==
    /\ Fits(d, n) /\ Fits(s, n) /\ Apart(d, n, s, n)
    /\ Call(memcpy(mem, d, s, n), Put(mem, d, Block(mem, s, n)), d)
Memmove(d, s, n) ==
    /\ Fits(d, n) /\ Fits(s, n)
    /\ Call(memmove(mem, d, s, n), Put(mem, d, Block(mem, s, n)), d)
Memset(d, c, n) ==
    /\ Fits(d, n)
    /\ Call(memset(mem, d, c, n), Put(mem, d, [k \in 1 .. n |-> c]), d)
Memswap(a, b, n) ==
    /\ Fits(a, n) /\ Fits(b, n) /\ Apart(a, n, b, n)
    /\ Call(memswap(mem, a, b, n), Put(Put(mem, a, Block(mem, b, n)), b, Block(mem, a, n)), NULL)
Memccpy(d, s, c, n) ==
    /\ Fits(d, n) /\ Fits(s, n) /\ Apart(d, n, s, n)
    /\ LET source == Block(mem, s, n)
           upto   == {k \in 1 .. n : source[k] = c}
       IN  IF upto = {} THEN Call(memccpy(mem, d, s, c, n), Put(mem, d, source), NULL)
           ELSE Call(memccpy(mem, d, s, c, n), Put(mem, d, Prefix(source, Min(upto))), d + Min(upto))

\* The destination of a string and its end, apart from the source.
Receives(d, s, length) ==
    Fits(d, length + 1) /\ Apart(d, length + 1, s, Length(mem, s) + 1)
Terminated(seq) == Append(seq, NUL)

Strcpy(d, s) ==
    /\ Ends(mem, s) /\ Receives(d, s, Length(mem, s))
    /\ Call(strcpy(mem, d, s), Put(mem, d, Terminated(String(mem, s))), d)
Strncpy(d, s, n) ==
    /\ Ends(mem, s) /\ Fits(d, n) /\ Apart(d, n, s, Length(mem, s) + 1)
    /\ Call(strncpy(mem, d, s, n), Put(mem, d, Prefix(String(mem, s) \o Zeros(n), n)), d)
Strcat(d, s) ==
    /\ Ends(mem, s) /\ Ends(mem, d) /\ Receives(d, s, Length(mem, d) + Length(mem, s))
    /\ Call(strcat(mem, d, s), Put(mem, d, Terminated(String(mem, d) \o String(mem, s))), d)
Strncat(d, s, n) ==
    /\ Ends(mem, s) /\ Ends(mem, d) /\ Receives(d, s, Length(mem, d) + Min({n, Length(mem, s)}))
    /\ Call(strncat(mem, d, s, n),
            Put(mem, d, Terminated(String(mem, d) \o Prefix(String(mem, s), n))), d)
Strlcat(d, s, size) ==
    /\ Ends(mem, s) /\ Ends(mem, d) /\ Fits(d, size)
    /\ Apart(d, Max({size, Length(mem, d) + 1}), s, Length(mem, s) + 1)
    /\ LET whole == String(mem, d) \o String(mem, s)
       IN  IF Length(mem, d) >= size THEN Call(strlcat(mem, d, s, size), mem, size + Length(mem, s))
           ELSE Call(strlcat(mem, d, s, size),
                     Put(mem, d, Terminated(Prefix(whole, size - 1))), Len(whole))

\* strtok, with a new string or the one before it: a token ends at a delimiter, and
\* the rest comes after it. It has no case of its own for two delimiters that follow.
Strtok(s, delim) ==
    LET from  == IF s = NULL THEN holder ELSE s
        r     == strsep(mem, from, delim)
        token == LET t == String(mem, from)
                     in == {k \in DOMAIN t : \E j \in DOMAIN String(mem, delim) : String(mem, delim)[j] = t[k]}
                 IN  Prefix(t, Min(in \cup {Len(t) + 1}) - 1)
    IN
    /\ s # NULL => ret = None
    /\ Ends(mem, delim)
    /\ from # NULL =>
        /\ Ends(mem, from) /\ Apart(from, Length(mem, from) + 1, delim, Length(mem, delim) + 1)
    /\ mem' = r.mem /\ ret' = r.ret /\ holder' = r.rest
    /\ promise' = IF from = NULL THEN Result(mem, NULL)
                  ELSE Result(Put(mem, from, Terminated(token)), from)

Next ==
    \/ Fill
    \/ \E d, s \in Cell :
        \/ Strcpy(d, s) \/ Strcat(d, s) \/ Strtok(d, s)
        \/ \E n \in 0 .. MemSize :
            \/ Memcpy(d, s, n) \/ Memmove(d, s, n) \/ Memswap(d, s, n)
            \/ Strncpy(d, s, n) \/ Strncat(d, s, n) \/ Strlcat(d, s, n)
            \/ \E c \in Char : Memccpy(d, s, c, n)
    \/ \E d \in Cell, n \in 0 .. MemSize, c \in Char : Memset(d, c, n)
    \/ \E s \in Cell : ret # None /\ Strtok(NULL, s)

Spec == Init /\ [][Next]_stringVars
--------------------------------------------------------------------------------
\* Every call leaves in memory, and returns, what it promises.
WritesKeepPromises == promise = Result(mem, ret)

\* Sign of a comparison of sequences by their first difference, a missing
\* character counting as NUL.
Order(s, t) ==
    LET at(seq, k) == IF k \in DOMAIN seq THEN seq[k] ELSE NUL
        ks == {k \in 1 .. Max({Len(s), Len(t)}) : at(s, k) # at(t, k)}
    IN  IF ks = {} THEN 0 ELSE at(s, Min(ks)) - at(t, Min(ks))

\* In any memory, the functions that read find the first, last or whole of what
\* they look for; only an empty needle, and the terminator by strrchr, are not found.
ReadsKeepPromises ==
    ret = None =>
        \A s \in Cell : Ends(mem, s) =>
            LET str == String(mem, s)
                Where(P(_)) == {s + k - 1 : k \in {i \in DOMAIN str : P(str[i])}}
                OrNull(cells) == IF cells = {} THEN NULL ELSE Min(cells)
            IN
            /\ strlen(mem, s) = Len(str)
            /\ \A n \in 0 .. MemSize - s : strnlen(mem, s, n) = Len(Prefix(str, n))
            /\ \A c \in Char \ {NUL} :
                /\ strchr(mem, s, c) = OrNull(Where(LAMBDA x : x = c))
                /\ strrchr(mem, s, c) =
                    LET cells == Where(LAMBDA x : x = c) IN IF cells = {} THEN NULL ELSE Max(cells)
                /\ memrchr(mem, s, c, Len(str)) = strrchr(mem, s, c)
            /\ strchr(mem, s, NUL) = s + Len(str)
            /\ \A t \in Cell : Ends(mem, t) =>
                LET other == String(mem, t)
                    Listed(x) == \E j \in DOMAIN other : other[j] = x
                    Starts == {k \in 0 .. Len(str) - Len(other) :
                                SubSeq(str, k + 1, k + Len(other)) = other}
                IN
                /\ strcmp(mem, s, t) = Order(str, other)
                /\ \A n \in 0 .. MemSize - Max({s, t}) :
                    /\ strncmp(mem, s, t, n) = Order(Prefix(str, n), Prefix(other, n))
                    /\ memcmp(mem, s, t, n) = Order(Block(mem, s, n), Block(mem, t, n))
                /\ strpbrk(mem, s, t) = OrNull(Where(Listed))
                /\ strspn(mem, s, t) = Min({k - 1 : k \in {i \in DOMAIN str : ~Listed(str[i])}}
                                           \cup {Len(str)})
                /\ strcspn(mem, s, t) = IF strpbrk(mem, s, t) = NULL THEN Len(str)
                                        ELSE strpbrk(mem, s, t) - s
                /\ strstr(mem, s, t) = IF other = <<>> \/ Starts = {} THEN NULL ELSE s + Min(Starts)
================================================================================
