------------------------------- MODULE Descriptors -------------------------------
(***************************************************************************)
(* The descriptor tables of the i386 (arch/cpu/i386/src/cpu_settings.c),   *)
(* as the kernel writes them and as the CPU reads them.                    *)
(*                                                                         *)
(* A word of 32 bits is a sequence of eight hexadecimal digits, the lowest *)
(* first: every mask and every shift of the file takes whole digits.       *)
(***************************************************************************)
EXTENDS Integers, Sequences

CONSTANTS
    Address,         \* where the linker may put the tables, the stacks and the stubs
    Vector,          \* entries of the IDT
    MaxCpu,          \* MAX_CPU_COUNT
    StackSize,       \* KERNEL_STACK_SIZE
    StubSize         \* bytes of the stub of a vector

VARIABLES
    place,           \* address of everything, <<>> before the link
    gdt, idt, tss    \* entries written so far
descriptorVars == <<place, gdt, idt, tss>>

Digit == 0 .. 15
Word == [1 .. 8 -> Digit]
DescriptorsAssumption == Address \subseteq Word /\ Vector \subseteq 0 .. 255 /\ MaxCpu > 0

--------------------------------------------------------------------------------
\* Words: digits from..to of w, moved to the place of digit `at', and the others 0.
Zero == [k \in 1 .. 8 |-> 0]
Part(w, from, to, at) ==
    [k \in 1 .. 8 |-> IF k \in at .. at + to - from THEN w[k - at + from] ELSE 0]
Or(v, w) == [k \in 1 .. 8 |-> IF v[k] = 0 THEN w[k] ELSE v[k]]
Add(w, n) ==
    LET carry[k \in 1 .. 8] == IF k = 1 THEN n ELSE (w[k - 1] + carry[k - 1]) \div 16
    IN  [k \in 1 .. 8 |-> (w[k] + carry[k]) % 16]

\* Selectors, as entries of the GDT, and the first TSS.
KERNEL_CS_32 == 1
TSS_SEGMENT == 7
GDT_ENTRY_COUNT == 7 + MaxCpu
SizeOfTss == 104

\* What an entry is asked to be: the flags of a segment (present, privilege, code or
\* data rather than system, granularity, size) and its type.
CodeType == 10   \* GDT_TYPE_EXECUTABLE | GDT_TYPE_READABLE
DataType == 2    \* GDT_TYPE_WRITABLE
TssType  == 9    \* GDT_TYPE_EXECUTABLE | GDT_TYPE_ACCESSED
Flags(pages, wide, ring, system) ==
    [pages |-> pages, wide |-> wide, ring |-> ring, system |-> system]

\* GDT_FLAG_*: digit 6 of the word has granularity and size, digit 4 the rest.
FlagWord(f) ==
    [Zero EXCEPT ![6] = (IF f.pages THEN 8 ELSE 0) + (IF f.wide THEN 4 ELSE 0),
                 ![4] = 8 + 2 * f.ring + (IF f.system THEN 0 ELSE 1)]

\* format_gdt_entry: base 0..15, then 16..23, and 24..31 at the other end; limit 0..15
\* and 16..19 between the flags. One that puts base 16..31 together:
format_gdt_entry_BaseTogether(base, limit, type, flags) ==
    [lo |-> Or(Part(base, 1, 4, 5), Part(limit, 1, 4, 1)),
     hi |-> Or(Part(base, 5, 8, 1),
               Or([Zero EXCEPT ![3] = type], Or(FlagWord(flags), Part(limit, 5, 5, 5))))]
format_gdt_entry(base, limit, type, flags) ==
    [lo |-> Or(Part(base, 1, 4, 5), Part(limit, 1, 4, 1)),
     hi |-> Or(Or(Part(base, 5, 6, 1), Part(base, 7, 8, 7)),
               Or([Zero EXCEPT ![3] = type], Or(FlagWord(flags), Part(limit, 5, 5, 5))))]

\* format_idt_entry, for a gate of ring 0 that disables interrupts.
IntGate == 14
format_idt_entry(handler, type) ==
    [lo |-> Or([Zero EXCEPT ![5] = 8 * KERNEL_CS_32], Part(handler, 1, 4, 1)),
     hi |-> Or(Part(handler, 5, 8, 5), [Zero EXCEPT ![4] = 8, ![3] = type])]

\* get_handler: the stub of each vector, one behind the other in int_handlers.S
get_handler(v) == Add(place.stubs, StubSize * (IF v \in 0 .. 255 THEN v ELSE 0))

--------------------------------------------------------------------------------
Init == place = <<>> /\ gdt = <<>> /\ idt = <<>> /\ tss = <<>>

Link ==
    /\ place = <<>>
    /\ \E tables, stacks, stubs \in Address :
           place' = [tss |-> tables, stacks |-> stacks, stubs |-> stubs]
    /\ UNCHANGED <<gdt, idt, tss>>

TssAt(i) == Add(place.tss, SizeOfTss * i)
Flat == Part([k \in 1 .. 8 |-> 15], 1, 5, 1)
Segments ==
    <<[type |-> CodeType, flags |-> Flags(TRUE, TRUE, 0, FALSE)],    \* KERNEL_CS_32
      [type |-> DataType, flags |-> Flags(TRUE, TRUE, 0, FALSE)],    \* KERNEL_DS_32
      [type |-> CodeType, flags |-> Flags(TRUE, FALSE, 0, FALSE)],   \* KERNEL_CS_16
      [type |-> DataType, flags |-> Flags(TRUE, FALSE, 0, FALSE)],   \* KERNEL_DS_16
      [type |-> CodeType, flags |-> Flags(TRUE, TRUE, 3, FALSE)],    \* USER_CS_32
      [type |-> DataType, flags |-> Flags(TRUE, TRUE, 3, FALSE)]>>   \* USER_DS_32
TssFlags == Flags(FALSE, TRUE, 0, TRUE)

cpu_setup_gdt ==
    /\ place # <<>> /\ gdt = <<>>
    /\ gdt' = [n \in 1 .. GDT_ENTRY_COUNT - 1 |->
                  IF n \in DOMAIN Segments
                  THEN format_gdt_entry(Zero, Flat, Segments[n].type, Segments[n].flags)
                  ELSE format_gdt_entry(TssAt(n - TSS_SEGMENT), Add(Zero, SizeOfTss), TssType, TssFlags)]
    /\ UNCHANGED <<place, idt, tss>>

cpu_setup_idt ==
    /\ gdt # <<>> /\ idt = <<>>
    /\ idt' = [v \in Vector |-> format_idt_entry(get_handler(v), IntGate)]
    /\ UNCHANGED <<place, gdt, tss>>

\* The stack of each processor for what comes from ring 3, used from its top.
cpu_setup_tss ==
    /\ idt # <<>> /\ tss = <<>>
    /\ tss' = [i \in 0 .. MaxCpu - 1 |-> Add(place.stacks, StackSize * (i + 1) - 4)]
    /\ UNCHANGED <<place, gdt, idt>>

Next == Link \/ cpu_setup_gdt \/ cpu_setup_idt \/ cpu_setup_tss

Spec == Init /\ [][Next]_descriptorVars

--------------------------------------------------------------------------------
\* How the CPU reads a segment descriptor and a gate (Intel SDM volume 3).
ReadSegment(e) ==
    [base  |-> SubSeq(e.lo, 5, 8) \o SubSeq(e.hi, 1, 2) \o SubSeq(e.hi, 7, 8),
     limit |-> SubSeq(e.lo, 1, 4) \o <<e.hi[5]>>,
     type  |-> e.hi[3], ring |-> (e.hi[4] \div 2) % 4,
     present |-> e.hi[4] > 7, system |-> e.hi[4] % 2 = 0,
     pages |-> e.hi[6] > 7, wide |-> (e.hi[6] \div 4) % 2 = 1]
ReadGate(e) ==
    [offset |-> SubSeq(e.lo, 1, 4) \o SubSeq(e.hi, 5, 8),
     segment |-> e.lo[5] \div 8, type |-> e.hi[3], ring |-> (e.hi[4] \div 2) % 4,
     present |-> e.hi[4] > 7]

\* The CPU finds what was meant, wherever the linker put the tables: kernel and user
\* segments of the whole memory, one TSS for each processor and never one inside
\* another, and for each vector a gate that leads to its own stub in ring 0.
SegmentsRead ==
    /\ \A n \in DOMAIN gdt \cap DOMAIN Segments :
           LET seg == ReadSegment(gdt[n])
           IN  /\ seg.base = Zero /\ seg.limit = <<15, 15, 15, 15, 15>> /\ seg.pages
               /\ seg.present /\ ~seg.system
               /\ seg.type = (IF n % 2 = 1 THEN CodeType ELSE DataType)
               /\ seg.ring = (IF n > 4 THEN 3 ELSE 0) /\ (seg.wide <=> n \notin {3, 4})
    /\ gdt # <<>> => \A i \in 0 .. MaxCpu - 1 :
           LET seg == ReadSegment(gdt[TSS_SEGMENT + i])
           IN  /\ seg.base = TssAt(i) /\ seg.system /\ seg.type = TssType
               /\ seg.present /\ ~seg.pages /\ seg.ring = 0
GatesRead ==
    \A v \in DOMAIN idt :
        LET gate == ReadGate(idt[v])
        IN  /\ gate.offset = get_handler(v) /\ gate.present /\ gate.ring = 0
            /\ gate.segment = KERNEL_CS_32 /\ gate.type = IntGate
            /\ \A w \in DOMAIN idt \ {v} : ReadGate(idt[w]).offset # gate.offset

\* Two processors never share a stack: each begins in its own and has all of it.
StacksApart ==
    \A i \in DOMAIN tss : Add(tss[i], 4) = Add(place.stacks, StackSize * (i + 1))
================================================================================
