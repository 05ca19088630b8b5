----------------------------------- MODULE Pic -----------------------------------
(***************************************************************************)
(* The pair of 8259A controllers and their driver,                         *)
(* arch/board/x86/src/pic.c: masks, ends of interrupts and spurious        *)
(* interrupts.  A handler runs with interrupts disabled, and the driver    *)
(* changes the masks in a critical section: both are single steps, between *)
(* which lines rise and fall.                                              *)
(***************************************************************************)
EXTENDS Integers, FiniteSets

CONSTANTS
    Irq,   \* the lines that devices use
    None   \* no interrupt is handled

Cascade == 2              \* PIC_CASCADING_IRQ, the slave on the master
SpuriousMaster == 7
SpuriousSlave == 15

PicAssumption == Irq \subseteq (0 .. 15) \ {Cascade}

OnSlave(i) == i > 7
Lines == Irq \cup {Cascade}
SlaveLines == {i \in Irq : OnSlave(i)}

VARIABLES
    masked,      \* the mask registers
    pending,     \* the request registers
    inService,   \* the in-service registers
    handling,    \* the IRQ of the interrupt that the CPU handles, or None
    regular      \* it was found to be a regular interrupt

picVars == <<masked, pending, inService, handling, regular>>

\* pic_init ends all interrupts and masks all lines.
Init ==
    /\ masked = Lines /\ pending = {} /\ inService = {}
    /\ handling = None /\ regular = FALSE

--------------------------------------------------------------------------------
\* Mutant: the cascading line is masked with any line of the slave.
NewMask_Any(i, enabled) ==
    LET m == IF enabled THEN masked \ {i} ELSE masked \cup {i}
    IN  IF ~OnSlave(i) THEN m ELSE IF enabled THEN m \ {Cascade} ELSE m \cup {Cascade}

\* pic_set_irq_mask: the cascading line follows the lines of the slave.
NewMask(i, enabled) ==
    LET m == IF enabled THEN masked \ {i} ELSE masked \cup {i}
    IN  IF ~OnSlave(i) THEN m
        ELSE IF SlaveLines \subseteq m THEN m \cup {Cascade} ELSE m \ {Cascade}

SetIrqMask(i, enabled) ==
    /\ masked' = NewMask(i, enabled)
    /\ UNCHANGED <<pending, inService, handling, regular>>

\* pic_disable
Disable ==
    /\ masked' = Lines
    /\ UNCHANGED <<pending, inService, handling, regular>>

--------------------------------------------------------------------------------
\* The controllers.  A line rises; it may fall before the CPU has acknowledged
\* it, and then the controller that asked hands out the lowest of its lines.
Rise(i) ==
    /\ pending' = pending \cup {i}
    /\ UNCHANGED <<masked, inService, handling, regular>>

\* The lines of the slave go by the cascading line of the master.
Open(i) == i \notin masked /\ (OnSlave(i) => Cascade \notin masked)
Order(i) == IF OnSlave(i) THEN 16 * Cascade + i ELSE 16 * i
Requests == {i \in pending : Open(i)}

\* What a line sets in the in-service registers.
Service(i) == IF OnSlave(i) THEN {i, Cascade} ELSE {i}

Acknowledge(i) ==
    /\ handling = None /\ i \in Requests
    /\ \A j \in Requests : Order(i) <= Order(j)
    /\ \A j \in inService : Order(i) < Order(j)
    /\ handling' = i /\ regular' = FALSE
    /\ pending' = pending \ {i}
    /\ inService' = inService \cup Service(i)
    /\ UNCHANGED masked

AcknowledgeFallen(i) ==
    /\ handling = None /\ Requests = {i}
    /\ \A j \in inService : Order(i) < Order(j)
    /\ handling' = IF OnSlave(i) THEN SpuriousSlave ELSE SpuriousMaster
    /\ regular' = FALSE
    /\ pending' = pending \ {i}
    /\ inService' = inService \cup (IF OnSlave(i) THEN {Cascade} ELSE {})
    /\ UNCHANGED masked

\* A controller that is told the end of an interrupt clears its highest line.
Ended(lines) ==
    {i \in lines : \E j \in lines : OnSlave(j) = OnSlave(i) /\ j < i}

--------------------------------------------------------------------------------
\* pic_set_irq_eoi of a line of the slave ends it on both controllers.
Eoi(i, lines) ==
    LET slave  == {j \in lines : OnSlave(j)}
        master == {j \in lines : ~OnSlave(j)}
    IN  Ended(master) \cup (IF OnSlave(i) THEN Ended(slave) ELSE slave)

\* Mutant: a spurious interrupt of the slave is not ended on the master.
HandleSpurious_NoEoi ==
    /\ handling # None /\ ~regular
    /\ IF handling \in {SpuriousMaster, SpuriousSlave} /\ handling \notin inService
       THEN handling' = None /\ UNCHANGED <<inService, regular>>
       ELSE regular' = TRUE /\ UNCHANGED <<inService, handling>>
    /\ UNCHANGED <<masked, pending>>

\* pic_handle_spurious_irq: the last line of a controller that is not in service
\* was spurious.  That of the slave is ended on the master.
HandleSpurious ==
    /\ handling # None /\ ~regular
    /\ IF handling \in {SpuriousMaster, SpuriousSlave} /\ handling \notin inService
       THEN /\ handling' = None
            /\ inService' = IF OnSlave(handling) THEN Eoi(Cascade, inService) ELSE inService
            /\ UNCHANGED regular
       ELSE regular' = TRUE /\ UNCHANGED <<inService, handling>>
    /\ UNCHANGED <<masked, pending>>

\* The handler of a device ends its interrupt, and the CPU returns from it.
EndInterrupt ==
    /\ handling # None /\ regular
    /\ inService' = Eoi(handling, inService)
    /\ handling' = None /\ regular' = FALSE
    /\ UNCHANGED <<masked, pending>>

Next ==
    \/ HandleSpurious \/ EndInterrupt \/ Disable
    \/ \E i \in Irq :
        \/ Rise(i) \/ Acknowledge(i) \/ AcknowledgeFallen(i)
        \/ \E enabled \in BOOLEAN : SetIrqMask(i, enabled)

Spec == Init /\ [][Next]_picVars

--------------------------------------------------------------------------------
\* The cascading line is open exactly when a line of the slave is: no sequence of
\* masks leaves an open line of the slave that can never interrupt, or a slave
\* that can although all its lines are masked.
CascadeFollowsSlave == Cascade \in masked <=> SlaveLines \subseteq masked

\* No line stays in service when its handler has returned, spurious or not, which
\* would keep out the lines below it for ever; and a handler of a device runs for
\* a line that is in service.
ServiceEnds ==
    /\ handling = None => inService = {}
    /\ regular => handling \in inService
================================================================================
