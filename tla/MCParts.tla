--------------------------------- MODULE MCParts ---------------------------------
(***************************************************************************)
(* The parts that stand alone, checked in one run: the first step of a     *)
(* behaviour is that of one of them, and the others never move.            *)
(***************************************************************************)
EXTENDS KQueue, TLC

CONSTANTS
    k1, k2, k3,      \* keys of the hash table
    u1, u2,          \* threads of a process
    s1, s2,          \* threads that print
    c0, c1,          \* threads that switch
    Unset            \* a value of no type of the code

VARIABLES
    which,                                                         \* the part
    entries, count, graves, endless, given, latest, again,         \* HashTable
    array, vecSize, alive, held,                                   \* Vector
    masked, pending, inService, handling, regular,                 \* Pic
    screen, cursor, printed, columns, overrun, text,               \* Console
    disk, vnode, panic,                                            \* Ustar
    all, used, free, memFree, memMeta, asked,                      \* UserHeap
    init, pc, failed, raced,
    call, answer,                                                  \* Numbers
    mem, holder, ret, promise,                                     \* Strings
    firmware, todo, state, tree, declared, madt,                   \* Acpi
    cpu_lapics, io_apics, cpu_count, io_apic_count,
    modifier, length_mod, padding_mod, upper_mod, pad_char_mod,    \* KernelOutput
    directive, argument, formatted,
    driver, scheme, buffer, at, overlapped,                        \* Messages
    wired, opened, holding, shifting, line, put, sending,          \* Serial
    threads, run, cpu, stack, context, dir, pgdir, inside, want,   \* Contexts
    request, seen,
    linked, gdt, idt, tss,                                         \* Descriptors
    handlers, installed, owned, served, result                     \* Handlers

\* The queues of user code carry the nodes as their data.
UserQueues == INSTANCE UserQueue WITH Data <- Node, DataOf <- [n \in Node |-> n]

\* k1 and k2 collide, and k3 wraps around the table to meet them.
Table == INSTANCE HashTable WITH
    Key <- {k1, k2, k3}, Data <- {"d"}, Capacity <- 4, MaxCapacity <- 8, Empty <- Unset,
    Hash <- k1 :> 3 @@ k2 :> 3 @@ k3 :> 5

Vectors == INSTANCE Vector WITH
    Data <- {"a", "b"}, NullData <- "null", Garbage <- "garbage", MaxCapacity <- 4,
    size <- vecSize

\* Lines of both controllers, with the two that may be spurious.
Pics == INSTANCE Pic WITH Irq <- {0, 7, 8, 15}, None <- Unset

Consoles == INSTANCE Console WITH
    Columns <- 2, Lines <- 2, TabStop <- 1, Letter <- {"a"}

\* A directory with a file of three blocks, and a file of one block.
Zeros == [head |-> FALSE, bytes |-> <<0, 0, 0>>]
Entry(name, type, bytes) == [head |-> TRUE, name |-> name, type |-> type, size |-> bytes]
RamDisk ==
    0 :> Entry(<<"d">>, "dir", 0) @@ 1 :> Entry(<<"d", "f">>, "file", 8)
    @@ 2 :> Zeros @@ 3 :> Zeros @@ 4 :> Zeros
    @@ 5 :> Entry(<<"g">>, "file", 1) @@ 6 :> Zeros @@ 7 :> Zeros

Tars == INSTANCE Ustar WITH
    Path <- {<<"d">>, <<"d", "f">>, <<"g">>, <<"e">>, <<"d", "e">>}, DirName <- {"d", "e"},
    MaxDepth <- 3, Image <- RamDisk, BlockSize <- 3, Buffer <- {<<1, 2, 1, 2>>},
    Position <- {1, 4}, NoFile <- Unset

Process == INSTANCE UserHeap WITH
    Thread <- {u1, u2}, Width <- 8, HeapSize <- 112, Requests <- {1, 28}

\* Words of four digits in base four.
Arithmetic == INSTANCE Numbers WITH
    HalfBits <- 2, Digit <- {0, 1, 3}, Base <- {2, 10, 16, 17}, Trap <- Unset

CString == INSTANCE Strings WITH
    MemSize <- 5, WordSize <- 2, Char <- {0, 1, 2}, None <- Unset, NULL <- Null

\* The RSDT or XSDT, the FADT, the MADT and the DSDT, anywhere in four pages, with
\* tables that fit in a page, cross one, or are too long for an 8 bit counter. One
\* processor is more than the kernel takes.
Lapic(id) == [type |-> "lapic", id |-> id]
ApicEntries ==
    <<Lapic(0), [type |-> "ioapic", id |-> 0], Lapic(2),
      [type |-> "override", id |-> 0, interrupt |-> 2], Lapic(3), Lapic(4)>>
AcpiTable(sig, length, listed, body, dsdt) ==
    [sig |-> sig, length |-> length, sum |-> TRUE, entries |-> listed, body |-> body, dsdt |-> dsdt]
Address == {4 * page : page \in 2 .. 5}
RootPointer(rev, ext, rsdt, xsdt) ==
    [revision |-> rev, sum |-> TRUE, extended |-> ext, rsdt |-> rsdt, xsdt |-> xsdt]
Rsdp(root) ==
    {RootPointer(0, FALSE, root, Null)}
    \cup {RootPointer(2, ext, root, xsdt) : ext \in BOOLEAN, xsdt \in {root, Null}}
Tables(place, sig, length) ==
    place[1] :> AcpiTable(sig, length, <<place[2], place[3]>>, <<>>, Null)
    @@ place[2] :> AcpiTable("FACP", 2, <<>>, <<>>, place[4])
    @@ place[3] :> AcpiTable("APIC", length, <<>>, ApicEntries, Null)
    @@ place[4] :> AcpiTable("DSDT", 6, <<>>, <<>>, Null)
Firmwares ==
    {[rsdp |-> Null, tables |-> <<>>]}
    \cup UNION {{[rsdp   |-> rsdp,
                  tables |-> Tables(place, IF rsdp.xsdt # Null THEN "XSDT" ELSE "RSDT", length)] :
                    rsdp \in Rsdp(place[1]), length \in {3, 6, 9}} :
               place \in {p \in [1 .. 4 -> Address] : IsInjective(p)}}

AcpiTables == INSTANCE Acpi WITH
    Firmware <- Firmwares, Page <- 0 .. 8, PageSize <- 4, Rom <- 0 .. 1, HeaderSize <- 1,
    ByteLimit <- 9, MaxCpu <- 3, NULL <- Null

Formats == INSTANCE KernelOutput WITH
    Symbol <- {"%", "0", "1", "h", "l", "d", "u", "x", "X", "p", "c", "z"},
    Argument <- {0, 5, 200}, MaxDirective <- 3, None <- Unset, printed <- formatted

Output == INSTANCE Messages WITH Thread <- {s1, s2}

\* Four ports, all of them beyond the 8 bits of their address.
Uart == INSTANCE Serial WITH
    Com <- <<15, 11, 13, 9>>, PortWidth <- 8, Letter <- {"a", "b"}, MaxText <- 4,
    None <- Unset, step <- opened, next <- sending

Switches == INSTANCE Contexts WITH
    Thread <- {c0, c1}, Idle <- c0, Value <- {1}, Call <- {2}, None <- Unset

\* Addresses whose digits differ, and one where a sum carries.
Descriptor == INSTANCE Descriptors WITH
    Address <- {<<0, 5, 4, 3, 2, 1, 9, 12>>, <<8, 15, 15, 15, 15, 14, 0, 0>>},
    Vector <- {0, 8, 48, 255}, MaxCpu <- 4, StackSize <- 4096, StubSize <- 15, place <- linked

\* Requests with the lines of the PIC and of the IO-APIC, and one that is none.
Registry == INSTANCE Handlers WITH
    Vector <- {0, 33, 42, 48, 64, 255}, Handler <- {"h"}, Irq <- {0, 99},
    Driver <- {"pic", "io_apic"},
    IrqLine <- "init_driver" :> (0 :> 0 @@ 99 :> 0) @@ "pic" :> (0 :> 48 @@ 99 :> -1)
               @@ "io_apic" :> (0 :> 64 @@ 99 :> -1),
    Spurious <- {255}, NULL <- Null, driver <- installed

ASSUME PartsAssumption ==
    /\ UserQueues!UserQueueAssumption /\ Table!HashTableAssumption
    /\ Vectors!VectorAssumption /\ Pics!PicAssumption
    /\ Consoles!ConsoleAssumption /\ Tars!UstarAssumption
    /\ Arithmetic!NumbersAssumption /\ CString!StringsAssumption
    /\ AcpiTables!AcpiAssumption /\ Formats!KernelOutputAssumption /\ Uart!SerialAssumption
    /\ Switches!ContextsAssumption /\ Descriptor!DescriptorsAssumption
    /\ Registry!HandlersAssumption

--------------------------------------------------------------------------------
Parts == {"queues", "table", "vector", "pic", "console", "ustar", "heap",
          "numbers", "strings", "acpi", "format", "messages", "serial",
          "contexts", "descriptors", "handlers"}

PartsInit ==
    /\ which \in Parts
    /\ Init /\ Table!Init /\ Vectors!Init /\ Pics!Init
    /\ Consoles!Init /\ Tars!Init /\ Process!Init
    /\ Arithmetic!Init /\ CString!Init /\ AcpiTables!Init
    /\ Formats!Init /\ Output!Init /\ Uart!Init
    /\ Switches!Init /\ Descriptor!Init /\ Registry!Init

tableVars   == <<entries, count, graves, endless, given, latest, again>>
vectorVars  == <<array, vecSize, alive, held>>
picVars     == <<masked, pending, inService, handling, regular>>
consoleVars == <<screen, cursor, printed, columns, overrun, text>>
ustarVars   == <<disk, vnode, panic>>
heapVars    == <<all, used, free, memFree, memMeta, asked, init, pc, failed, raced>>
numberVars  == <<call, answer>>
stringVars  == <<mem, holder, ret, promise>>
acpiVars    == <<firmware, todo, state, tree, declared, madt,
                 cpu_lapics, io_apics, cpu_count, io_apic_count>>
formatVars  == <<modifier, length_mod, padding_mod, upper_mod, pad_char_mod,
                 directive, argument, formatted>>
messageVars == <<driver, scheme, buffer, at, overlapped>>
serialVars  == <<wired, opened, holding, shifting, line, put, sending>>
contextVars == <<threads, run, cpu, stack, context, dir, pgdir, inside, want, request, seen>>
descriptorVars == <<linked, gdt, idt, tss>>
handlerVars == <<handlers, installed, owned, served, result>>

\* The other parts do not move.
Moves(part) ==
    /\ which = part /\ UNCHANGED which
    /\ part # "queues"   => UNCHANGED vars
    /\ part # "table"    => UNCHANGED tableVars
    /\ part # "vector"   => UNCHANGED vectorVars
    /\ part # "pic"      => UNCHANGED picVars
    /\ part # "console"  => UNCHANGED consoleVars
    /\ part # "ustar"    => UNCHANGED ustarVars
    /\ part # "heap"     => UNCHANGED heapVars
    /\ part # "numbers"  => UNCHANGED numberVars
    /\ part # "strings"  => UNCHANGED stringVars
    /\ part # "acpi"     => UNCHANGED acpiVars
    /\ part # "format"   => UNCHANGED formatVars
    /\ part # "messages" => UNCHANGED messageVars
    /\ part # "serial"   => UNCHANGED serialVars
    /\ part # "contexts" => UNCHANGED contextVars
    /\ part # "descriptors" => UNCHANGED descriptorVars
    /\ part # "handlers" => UNCHANGED handlerVars

PartsNext ==
    \/ Moves("queues")  /\ Next
    \/ Moves("queues")  /\ UserQueues!Next
    \/ Moves("table")   /\ Table!Next
    \/ Moves("vector")  /\ Vectors!Next
    \/ Moves("pic")     /\ Pics!Next
    \/ Moves("console") /\ Consoles!Next
    \/ Moves("ustar")   /\ Tars!Next
    \/ Moves("heap")    /\ Process!Next
    \/ Moves("numbers") /\ Arithmetic!Next
    \/ Moves("strings") /\ CString!Next
    \/ Moves("acpi")    /\ AcpiTables!Next
    \/ Moves("format")  /\ Formats!Next
    \/ Moves("messages") /\ Output!Next
    \/ Moves("serial")  /\ Uart!Next
    \/ Moves("contexts") /\ Switches!Next
    \/ Moves("descriptors") /\ Descriptor!Next
    \/ Moves("handlers") /\ Registry!Next

partsVars ==
    <<which, vars, tableVars, vectorVars, picVars, consoleVars, ustarVars, heapVars,
      numberVars, stringVars, acpiVars, formatVars, messageVars, serialVars, contextVars, descriptorVars, handlerVars>>

PartsSpec == PartsInit /\ [][PartsNext]_partsVars

--------------------------------------------------------------------------------
\* The structures: kernel queues, and the queues, hash table and vector of user code
\* keep what was put in them, in order, and find it. See KQueue, UserQueue, HashTable
\* and Vector.
StructuresSound ==
    /\ which = "queues" => TypeOK /\ ListsMirror /\ EnlistedIsLinked /\ UserQueues!SearchFinds
    /\ which = "table"  => Table!LiveKeysFound /\ Table!MapsKeysSetOnce
    /\ which = "vector" => Vectors!HoldsWhatWasPut

\* The devices: the 8259A pair blocks no line for ever, the console shows the text and
\* stays on the screen, and the serial port sends what it was given. See Pic, Console
\* and Serial.
DevicesSound ==
    /\ which = "pic"     => Pics!CascadeFollowsSlave /\ Pics!ServiceEnds
    /\ which = "console" => Consoles!ShowsText /\ Consoles!CursorOnScreen
    /\ which = "serial"  => Uart!LettersArrive /\ Uart!PortsSet

\* The file system reads what was written, and no other file changes. See Ustar.
ReadsExact == which = "ustar" => Tars!ReadsExact
FilesKept  == [][which = "ustar" => Tars!WriteIsExact /\ Tars!OthersAreKept]_ustarVars

\* Two blocks of a process heap never overlap. See UserHeap.
UserBlocksKept == Process!BlocksKept

\* The C library computes what it promises: 64 bit divisions, printed numbers, strings
\* and memory blocks. See Numbers and Strings.
LibraryExact ==
    /\ which = "numbers" => Arithmetic!DivisionExact /\ Arithmetic!ConversionExact
    /\ which = "strings" => CString!WritesKeepPromises /\ CString!ReadsKeepPromises

\* The output: directives print their argument and end, and the colours of a message
\* come back. See KernelOutput and Messages.
OutputSound ==
    /\ which = "format"   => Formats!DirectivesPrint /\ Formats!ModifiersEnd
    /\ which = "messages" => Output!ColoursComeBack

\* The machine: the pages of the ACPI tables are mapped once and found again, every
\* processor is known, and the kernel stops in the known cases only; the processor
\* reads the tables that were meant, every vector goes to the client that registered
\* for it, and the system call that is served is the one asked for. See Acpi,
\* Descriptors, Handlers and Contexts.
MachineSound ==
    /\ which = "acpi" =>
           AcpiTables!TreeExact /\ AcpiTables!ProcessorsFound /\ AcpiTables!KnownStops
    /\ which = "descriptors" =>
           Descriptor!SegmentsRead /\ Descriptor!GatesRead /\ Descriptor!StacksApart
    /\ which = "handlers" => Registry!OwnersKeepLines /\ Registry!OwnersServed
    /\ which = "contexts" => Switches!RequestSeen

\* A thread goes on where it was interrupted. See Contexts.
ContextsKept == [][which = "contexts" => Switches!ContextRestored]_contextVars
================================================================================
