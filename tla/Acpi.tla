---------------------------------- MODULE Acpi ----------------------------------
(***************************************************************************)
(* The ACPI tables (arch/board/x86/src/acpi.c): acpi_init looks for the    *)
(* RSDP, follows it to the RSDT or the XSDT and to the tables they list,   *)
(* maps the pages it reads, which it keeps in a search tree, and collects  *)
(* the processors and the IO-APIC of the MADT.                             *)
(*                                                                         *)
(* `todo' is the call stack: the tables still to be parsed, the next one   *)
(* first.  A failed assertion, a read of a page that is not mapped and a   *)
(* loop that does not end stop the kernel.  There is memory enough.        *)
(***************************************************************************)
EXTENDS Integers, Sequences, SequencesExt, FiniteSetsExt

CONSTANTS
    Firmware,      \* what the firmware may have left in memory
    Page,          \* numbers of the pages
    PageSize,      \* bytes of a page
    Rom,           \* pages that are searched for the RSDP, a range
    HeaderSize,    \* sizeof(acpi_header_t), and of the other tables in the code
    ByteLimit,     \* a table of this length is beyond an 8 bit counter: 256
    MaxCpu,        \* MAX_CPU_COUNT
    NULL

VARIABLES
    firmware,      \* the memory the firmware has filled, NULL before the start
    todo,          \* calls that are left
    state,         \* "off", "running", "done", or how the kernel stopped
    tree,          \* acpi_mapping
    declared,      \* pages given to memory_declare_hw, in order
    madt,          \* the MADT that was parsed, or NULL
    cpu_lapics, io_apics,            \* vectors of identifiers
    cpu_count, io_apic_count
acpiVars == <<firmware, todo, state, tree, declared, madt,
              cpu_lapics, io_apics, cpu_count, io_apic_count>>

MAX_IO_APIC_COUNT == 1

AcpiAssumption ==
    /\ Page \subseteq Nat /\ Rom \subseteq Page /\ PageSize \in Nat \ {0} /\ NULL \notin Page
    /\ MaxCpu \in Nat /\ HeaderSize \in Nat \ {0}

--------------------------------------------------------------------------------
\* The tree of the mapped pages: a page is its own node.
walk_acpi_tree(t, addr) ==
    LET from[node \in Page \cup {NULL}] ==
            /\ node # NULL
            /\ \/ node = addr
               \/ from[IF addr > node THEN t.right[node] ELSE t.left[node]]
    IN  from[t.root]

\* Mutant: a page always goes to the left.
add_acpi_tree_Left(t, addr) ==
    LET parent[node \in Page] ==
            LET next == IF addr > node THEN t.right[node] ELSE t.left[node]
            IN  IF next = NULL THEN node ELSE parent[next]
    IN  [t EXCEPT !.left[parent[t.root]] = addr]

add_acpi_tree(t, addr) ==
    LET parent[node \in Page] ==
            LET next == IF addr > node THEN t.right[node] ELSE t.left[node]
            IN  IF next = NULL THEN node ELSE parent[next]
        p == parent[t.root]
    IN  IF addr > p THEN [t EXCEPT !.right[p] = addr] ELSE [t EXCEPT !.left[p] = addr]

add_mapped_page(t, addr) ==
    IF t.root = NULL THEN [t EXCEPT !.root = addr] ELSE add_acpi_tree(t, addr)

\* The pages of the bytes from start on, and those of them that are not mapped.
Pages(start, size) == start \div PageSize .. (start + size - 1) \div PageSize
Unmapped(t, start, size) ==
    SetToSortSeq({p \in Pages(start, size) : ~walk_acpi_tree(t, p)}, <)
Readable(t, start, size) == Unmapped(t, start, size) = <<>>

\* Some ranges of bytes are mapped, one page at a time.
acpi_map_data(ranges) ==
    LET step(t, r) == FoldLeft(add_mapped_page, t, Unmapped(t, r[1], r[2]))
        trees == [k \in 0 .. Len(ranges) |-> FoldLeft(step, tree, SubSeq(ranges, 1, k))]
    IN  /\ tree' = trees[Len(ranges)]
        /\ declared' = FoldLeft(LAMBDA d, k : d \o Unmapped(trees[k - 1], ranges[k][1], ranges[k][2]),
                                declared, [k \in DOMAIN ranges |-> k])

--------------------------------------------------------------------------------
Table(addr) == firmware.tables[addr]
Calls(kind) == state = "running" /\ todo # <<>> /\ Head(todo)[1] = kind
Arg == Head(todo)[2]
Goes(calls) == todo' = calls \o Tail(todo) /\ UNCHANGED state
Stops(how)  == todo' = <<>> /\ state' = how
found == <<madt, cpu_lapics, io_apics, cpu_count, io_apic_count>>

\* A table's fixed part is mapped, the checksum is taken over its whole length, and
\* the rest is mapped after that; what it lists is parsed next. The counter of the
\* loop is one byte wide in the RSDT and the XSDT.
Parses(sig, wide, rest, calls) ==
    LET t == Table(Arg)
        fixed == <<Arg, HeaderSize>>
        whole == <<Arg, t.length>>
        first == IF sig = "DSDT" THEN <<fixed, whole>> ELSE <<fixed>>
        reach == FoldLeft(LAMBDA tr, r : FoldLeft(add_mapped_page, tr, Unmapped(tr, r[1], r[2])),
                          tree, first)
    IN
    IF Arg = NULL THEN Stops("null") /\ UNCHANGED <<tree, declared>>
    ELSE IF ~Readable(reach, Arg, t.length) THEN acpi_map_data(first) /\ Stops("page fault")
    ELSE IF ~wide /\ t.length >= ByteLimit THEN acpi_map_data(first) /\ Stops("endless loop")
    ELSE IF ~t.sum \/ t.sig # sig THEN acpi_map_data(first) /\ Stops("bad table")
    ELSE acpi_map_data(first \o rest) /\ Goes(calls)

Rest(t) == <<<<Arg + HeaderSize, t.length - HeaderSize>>>>

\* acpi_parse_rsdt
ParseRsdt ==
    /\ Calls("rsdt")
    /\ Parses("RSDT", FALSE, Rest(Table(Arg)), [k \in DOMAIN Table(Arg).entries |->
                                <<"dt", Table(Arg).entries[k]>>])
    /\ UNCHANGED <<firmware, found>>

\* acpi_parse_xsdt: its pointers have 64 bits and are read as 32 bit ones, so that
\* the upper half of each, which is zero, passes for a pointer too.
ParseXsdt ==
    /\ Calls("xsdt")
    /\ LET entries == Table(Arg).entries
       IN  Parses("XSDT", FALSE, Rest(Table(Arg)),
                  [k \in 1 .. 2 * Len(entries) |->
                      <<"dt", IF k % 2 = 1 THEN entries[(k + 1) \div 2] ELSE NULL>>])
    /\ UNCHANGED <<firmware, found>>

\* acpi_parse_dt: tables that are not known are left alone.
ParseDt ==
    /\ Calls("dt")
    /\ IF Arg = NULL THEN Stops("null") /\ UNCHANGED <<tree, declared>>
       ELSE /\ acpi_map_data(<<<<Arg, HeaderSize>>>>)
            /\ Goes(IF Table(Arg).sig = "FACP" THEN <<<<"fadt", Arg>>>>
                    ELSE IF Table(Arg).sig = "APIC" THEN <<<<"madt", Arg>>>> ELSE <<>>)
    /\ UNCHANGED <<firmware, found>>

\* acpi_parse_fadt, acpi_parse_dsdt
ParseFadt ==
    /\ Calls("fadt")
    /\ Parses("FACP", TRUE, <<>>, <<<<"dsdt", Table(Arg).dsdt>>>>)
    /\ UNCHANGED <<firmware, found>>
ParseDsdt ==
    /\ Calls("dsdt")
    /\ Parses("DSDT", TRUE, <<>>, <<>>)
    /\ UNCHANGED <<firmware, found>>

\* Identifiers of the entries of a type, at most `limit' of them.
Entries(t, type, limit) ==
    LET all == SelectSeq(t.body, LAMBDA e : e.type = type)
    IN  [k \in 1 .. Min({limit, Len(all)}) |-> all[k].id]

\* acpi_parse_apic: the counts start again, the vectors do not.
ParseMadt ==
    /\ Calls("madt")
    /\ Parses("APIC", TRUE, Rest(Table(Arg)), <<>>)
    /\ IF state' = "running"
       THEN LET cpus == Entries(Table(Arg), "lapic", MaxCpu)
                ios  == Entries(Table(Arg), "ioapic", MAX_IO_APIC_COUNT)
            IN  /\ cpu_lapics' = cpu_lapics \o cpus /\ cpu_count' = Len(cpus)
                /\ io_apics' = io_apics \o ios /\ io_apic_count' = Len(ios)
                /\ madt' = Arg
       ELSE UNCHANGED found
    /\ UNCHANGED firmware

\* acpi_parse_rsdp: when the extended checksum is wrong nothing else is tried.
ParseRsdp ==
    /\ Calls("rsdp")
    /\ LET rsdp == firmware.rsdp IN
       IF ~rsdp.sum \/ rsdp.revision \notin {0, 2} THEN Stops("bad table")
       ELSE IF rsdp.revision = 0 THEN Goes(<<<<"rsdt", rsdp.rsdt>>>>)
       ELSE IF ~rsdp.extended THEN Goes(<<>>)
       ELSE IF rsdp.xsdt # NULL THEN Goes(<<<<"xsdt", rsdp.xsdt>>>>)
       ELSE Goes(<<<<"rsdt", rsdp.rsdt>>>>)
    /\ UNCHANGED <<firmware, tree, declared, found>>

\* acpi_init, up to the RSDP: it may not be there.
StartInit(fw) ==
    /\ state = "off" /\ firmware' = fw /\ state' = "running"
    /\ acpi_map_data(<<<<Min(Rom) * PageSize, Cardinality(Rom) * PageSize - 1>>>>)
    /\ todo' = IF fw.rsdp = NULL THEN <<>> ELSE <<<<"rsdp", NULL>>>>
    /\ UNCHANGED found

\* acpi_init, after it: acpi_initialized is set.
EndInit ==
    /\ state = "running" /\ todo = <<>> /\ state' = "done"
    /\ UNCHANGED <<firmware, todo, tree, declared, found>>

Init ==
    /\ firmware = NULL /\ todo = <<>> /\ state = "off"
    /\ tree = [root |-> NULL, left |-> [p \in Page |-> NULL], right |-> [p \in Page |-> NULL]]
    /\ declared = <<>> /\ madt = NULL
    /\ cpu_lapics = <<>> /\ io_apics = <<>> /\ cpu_count = 0 /\ io_apic_count = 0

Next ==
    \/ \E fw \in Firmware : StartInit(fw)
    \/ ParseRsdp \/ ParseRsdt \/ ParseXsdt \/ ParseDt
    \/ ParseFadt \/ ParseDsdt \/ ParseMadt \/ EndInit

Spec == Init /\ [][Next]_acpiVars

--------------------------------------------------------------------------------
\* The questions the rest of the kernel asks.
acpi_get_remaped_irq(irq) ==
    LET hits == {k \in DOMAIN Table(madt).body :
                    Table(madt).body[k].type = "override" /\ Table(madt).body[k].id = irq}
    IN  IF state # "done" THEN -1
        ELSE IF madt = NULL \/ hits = {} THEN irq ELSE Table(madt).body[Min(hits)].interrupt

acpi_check_lapic_id(id) == state = "done" /\ \E k \in DOMAIN cpu_lapics : cpu_lapics[k] = id

\* cpu_get_id on the processor whose local APIC is `id'
cpu_get_id(id) ==
    LET hits == {k \in DOMAIN cpu_lapics : cpu_lapics[k] = id}
    IN  IF cpu_count = 0 \/ state # "done" \/ hits = {} THEN 0 ELSE Min(hits) - 1

get_cpu_count == IF cpu_count = 0 \/ state # "done" THEN 1 ELSE cpu_count

\* The IO-APIC of an identifier: found only when the identifier is below the count.
acpi_get_io_apic_address(id) ==
    IF state # "done" \/ madt = NULL \/ id >= io_apic_count
       \/ \A k \in DOMAIN io_apics : io_apics[k] # id
    THEN NULL ELSE id

--------------------------------------------------------------------------------
\* The tree finds the pages that were mapped and no others, and no page is declared
\* twice, which memory_declare_hw would refuse.
TreeExact ==
    /\ {p \in Page : walk_acpi_tree(tree, p)} = ToSet(declared)
    /\ IsInjective(declared)

\* The tables the RSDP leads to.
Listed ==
    LET rsdp == firmware.rsdp
    IN  IF rsdp = NULL \/ (rsdp.revision = 2 /\ ~rsdp.extended) THEN {}
        ELSE ToSet(Table(IF rsdp.revision = 2 /\ rsdp.xsdt # NULL THEN rsdp.xsdt
                         ELSE rsdp.rsdt).entries)
Madts == {a \in Listed : Table(a).sig = "APIC"}

\* An initialisation that ends has found every processor of the MADT up to the
\* limit, under a number of its own, and the machine has at least one processor.
ProcessorsFound ==
    state = "done" =>
        /\ madt = IF Madts = {} THEN NULL ELSE CHOOSE a \in Madts : TRUE
        /\ cpu_count = Len(cpu_lapics) /\ io_apic_count = Len(io_apics)
        /\ get_cpu_count \in 1 .. MaxCpu
        /\ \A k \in DOMAIN cpu_lapics :
            /\ cpu_get_id(cpu_lapics[k]) = k - 1
            /\ acpi_check_lapic_id(cpu_lapics[k])
        /\ madt # NULL =>
            \A e \in ToSet(Table(madt).body) :
                /\ e.type = "lapic" /\ cpu_count < MaxCpu => acpi_check_lapic_id(e.id)
                /\ e.type = "override" => acpi_get_remaped_irq(e.id) = e.interrupt
                /\ e.type = "ioapic" /\ e.id = 0 => acpi_get_io_apic_address(0) = 0

\* Tables that are well formed stop the kernel in three cases only: the XSDT lists a
\* table, the RSDT is too long for its counter, or a table that is not the DSDT goes
\* on to a page that nothing mapped before its checksum was taken.
KnownStops ==
    state \notin {"off", "running", "done"} =>
        \/ firmware.rsdp.revision = 2 /\ state \in {"null", "page fault"}
        \/ \E a \in Listed \cup {firmware.rsdp.rsdt} :
            \/ Table(a).length >= ByteLimit
            \/ Cardinality(Pages(a, Table(a).length)) > 1 /\ Table(a).sig # "DSDT"
================================================================================
