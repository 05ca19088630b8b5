---------------------------- MODULE InterruptsProofs ---------------------------
(***************************************************************************)
(* The nested disabling of the PIT and of the RTC, the interrupt flag, the *)
(* end of every interrupt and its handler, for every number of threads.    *)
(***************************************************************************)
EXTENDS Interrupts, FiniteSetTheorems, TLAPS

Phases == {"io_apic", "pit", "rtc", "lapic_timer", "measuring", "time", "sched", "running"}
Handlers == {NoHandler, "pit_dummy", "pit_measure", "rtc_dummy", "timer_dummy", "time_main",
             "time_rtc", "syscall_handler", "schedule_int", "client"}
Places == {"user", "critical", "blocked", "pit_enable", "rtc_enable"}

\* Where the boot has set up a device.
Ready(d) == phase \notin IF d = PIT THEN {"io_apic", "pit"} ELSE {"io_apic", "pit", "rtc"}

Holders(d)  == {t \in Thread \cup {Boot} : d \in holds[t]}
Programs(d) == {t \in Thread : at[t] = Reenabling(d)}

\* A redirection table has an entry for every input.
Table(t) == t = [i \in Irq |-> t[i]]

Fields ==
    /\ phase \in Phases
    /\ at \in [Thread -> Places]
    /\ saved \in [Thread -> BOOLEAN] /\ iflag \in BOOLEAN
    /\ holds \in [Thread \cup {Boot} -> SUBSET Device]
    /\ handler \in [Line -> Handlers]
    /\ nesting \in [Device -> Nat]
    /\ Table(redirect)

\* What the boot has not done yet, and that nobody runs but the boot.
BootOnly ==
    /\ phase = "running" => run \in Thread
    /\ phase # "running" =>
        /\ iflag = (phase = "measuring") /\ ~scheduler
        /\ \A t \in Thread : saved[t] /\ at[t] = "user" /\ holds[t] = {}
    /\ RTC \notin holds[Boot]
    /\ phase \notin {"time", "sched", "running"} =>
        /\ holds[Boot] = {}
        /\ ~counting /\ handler[Timer] = NoHandler

\* The count of a device is that of its owners, its input is masked while it has
\* any and leads to its own line.
Counted(d) == nesting[d] = Cardinality(Holders(d)) + Cardinality(Programs(d))
Led(d) ==
    /\ Masked(d) <=> nesting[d] > 0
    /\ redirect[Remap[d]].line = IntLine(d)

\* So it is for a device as soon as the boot has set it up; before that its input
\* is masked.
MasksExact == \A d \in Device :
    /\ ~Ready(d) => Masked(d)
    /\ Ready(d) => Counted(d) /\ Led(d) /\ handler[IntLine(d)] # NoHandler

\* Only the lines of devices that are set up wait.
LinesServed ==
    /\ isr = {} /\ ~panic
    /\ \A l \in irr : l = Timer \/ \E d \in Device : Ready(d) /\ l = IntLine(d)
    /\ counting \/ Timer \in irr => handler[Timer] # NoHandler

InterruptsInv == Fields /\ BootOnly /\ MasksExact /\ FlagFollowsSections /\ LinesServed

--------------------------------------------------------------------------------
(***************************************************************************)
(* What the drivers do to the gate of a device, for any gate.              *)
(***************************************************************************)

WellFormed(g) == g.nest \in [Device -> Nat] /\ Table(g.table)

\* The gate of one device goes to nesting n, those of the others stay.
Changes(g, h, d, n) ==
    /\ WellFormed(h) /\ h.nest = [g.nest EXCEPT ![d] = n]
    /\ \A e \in Device \ {d} : h.table[Remap[e]] = g.table[Remap[e]]

\* The input of a device is masked as the nesting says and has the device's line.
Right(g, d) ==
    /\ g.table[Remap[d]].line = IntLine(d)
    /\ g.table[Remap[d]].masked <=> g.nest[d] > 0

\* io_apic_set_irq_mask writes the entry of one device.
Writes(t, new, d, m) ==
    /\ Table(new)
    /\ new[Remap[d]].line = IntLine(d)
    /\ new[Remap[d]].masked <=> m
    /\ \A e \in Device \ {d} : new[Remap[e]] = t[Remap[e]]

\* io_apic_set_irq_mask writes that entry and leaves the others.
LEMMA MaskEffect ==
    ASSUME NEW t, Table(t), NEW d \in Device, NEW m \in BOOLEAN, NEW new, new = SetIrqMask(t, d, m)
    PROVE  Writes(t, new, d, m)
BY InterruptsAssumption, InputsAssumption DEF SetIrqMask, Device, Table, Writes

\* pit_disable and rtc_disable count one more and mask.
LEMMA DisableEffect ==
    ASSUME NEW g, WellFormed(g), NEW d \in Device, NEW h, h = Disable(g, d)
    PROVE  Changes(g, h, d, g.nest[d] + 1) /\ Right(h, d)
<1>1. h.table = SetIrqMask(g.table, d, TRUE) /\ h.nest = [g.nest EXCEPT ![d] = g.nest[d] + 1]
  BY DEF Disable
<1>2. h.nest \in [Device -> Nat] /\ h.nest[d] > 0
  BY <1>1 DEF WellFormed
<1>3. Writes(g.table, h.table, d, TRUE) BY <1>1, MaskEffect DEF WellFormed
<1> QED BY <1>1, <1>2, <1>3 DEF Changes, Right, WellFormed, Writes

\* pit_enable and rtc_enable count one less, never below none, and unmask with
\* the last.
LEMMA EnableEffect ==
    ASSUME NEW g, WellFormed(g), NEW d \in Device, g.nest[d] <= 1 \/ Right(g, d),
           NEW h, h = Enable(g, d),
           NEW n, n = IF g.nest[d] > 0 THEN g.nest[d] - 1 ELSE 0
    PROVE  Changes(g, h, d, n) /\ Right(h, d)
<1>1. /\ h.table = (IF n = 0 THEN SetIrqMask(g.table, d, FALSE) ELSE g.table)
      /\ h.nest = [g.nest EXCEPT ![d] = n]
  BY DEF Enable
<1>2. h.nest \in [Device -> Nat] /\ h.nest[d] = n /\ n \in Nat
  BY <1>1 DEF WellFormed
<1>3. CASE n = 0
  <2>1. h.table = SetIrqMask(g.table, d, FALSE) BY <1>1, <1>3
  <2>2. Writes(g.table, h.table, d, FALSE) BY <2>1, MaskEffect DEF WellFormed
  <2>3. ~(h.nest[d] > 0) BY <1>2, <1>3
  <2> QED BY <1>1, <1>2, <2>2, <2>3 DEF Changes, Right, WellFormed, Writes
<1>4. CASE n # 0
  <2>1. g.nest[d] > 1 /\ n > 0 BY <1>2, <1>4 DEF WellFormed
  <2>2. Right(g, d) /\ g.nest[d] > 0 BY <2>1 DEF WellFormed
  <2>3. h.table = g.table BY <1>1, <1>4
  <2>4. Changes(g, h, d, n) BY <1>1, <1>2, <2>3 DEF Changes, WellFormed
  <2>5. Right(h, d)
    <3>1. h.nest[d] > 0 /\ g.nest[d] > 0 BY <1>2, <2>1, <2>2
    <3> QED BY <2>2, <2>3, <3>1 DEF Right
  <2> QED BY <2>4, <2>5
<1> QED BY <1>2, <1>3, <1>4

\* Programming a device under its gate, with nobody in between, keeps the count.
LEMMA TwiceEffect ==
    ASSUME NEW g, WellFormed(g), NEW d \in Device, NEW k, k = Twice(g, d)
    PROVE  Changes(g, k, d, g.nest[d]) /\ Right(k, d)
<1>1. PICK h : h = Disable(g, d) OBVIOUS
<1>2. k = Enable(h, d) BY <1>1 DEF Twice
<1>3. Changes(g, h, d, g.nest[d] + 1) /\ Right(h, d) BY <1>1, DisableEffect
<1>4. WellFormed(h) /\ h.nest[d] = g.nest[d] + 1 /\ g.nest[d] \in Nat
  BY <1>3 DEF Changes, WellFormed
<1>5. g.nest[d] = IF h.nest[d] > 0 THEN h.nest[d] - 1 ELSE 0 BY <1>4
<1>6. Changes(h, k, d, g.nest[d]) /\ Right(k, d) BY <1>2, <1>3, <1>4, <1>5, EnableEffect
<1>7. k.nest = [g.nest EXCEPT ![d] = g.nest[d]]
  BY <1>3, <1>6 DEF Changes, WellFormed
<1> QED BY <1>3, <1>6, <1>7 DEF Changes

\* A step that moves the gate of a device to nesting n.
GateStep(d, n) ==
    /\ nesting' = [nesting EXCEPT ![d] = n] /\ nesting' \in [Device -> Nat]
    /\ Table(redirect')
    /\ Led(d)'
    /\ \A e \in Device \ {d} : redirect'[Remap[e]] = redirect[Remap[e]]

GateOK == nesting \in [Device -> Nat] /\ Table(redirect)

\* What a step makes of the gate when it applies a change of one device.
LEMMA ApplyEffect ==
    ASSUME NEW d \in Device, NEW n, NEW h, Changes(Gate, h, d, n), Right(h, d), Apply(h)
    PROVE  GateStep(d, n)
BY DEF Changes, WellFormed, Right, Gate, Apply, GateStep, Led, Masked

\* Disabling a device counts one more and masks its line.
LEMMA DisableStep ==
    ASSUME GateOK, NEW d \in Device, Apply(Disable(Gate, d))
    PROVE  GateStep(d, nesting[d] + 1)
<1>1. WellFormed(Gate) /\ Gate.nest = nesting BY DEF GateOK, WellFormed, Gate
<1>2. PICK h : h = Disable(Gate, d) OBVIOUS
<1>3. Changes(Gate, h, d, nesting[d] + 1) /\ Right(h, d) BY <1>1, <1>2, DisableEffect
<1> QED BY <1>2, <1>3, ApplyEffect

\* Enabling a device with its handler counts one less, down to zero, and unmasks there.
LEMMA EnableStep ==
    ASSUME GateOK, NEW d \in Device, Led(d), Apply(Enable(Gate, d)),
           NEW n, n = IF nesting[d] > 0 THEN nesting[d] - 1 ELSE 0
    PROVE  GateStep(d, n)
<1>1. WellFormed(Gate) /\ Gate.nest = nesting /\ Right(Gate, d)
  BY DEF GateOK, WellFormed, Gate, Led, Masked, Right
<1>2. PICK h : h = Enable(Gate, d) OBVIOUS
<1>3. Changes(Gate, h, d, n) /\ Right(h, d) BY <1>1, <1>2, EnableEffect
<1> QED BY <1>2, <1>3, ApplyEffect

\* One more owner, or one less, counts.
LEMMA OneMore ==
    ASSUME NEW S, IsFiniteSet(S), NEW t, t \notin S, NEW T, T = S \cup {t}
    PROVE  Cardinality(T) = Cardinality(S) + 1
BY FS_AddElement

\* Without one of its elements a finite set has one element less.
LEMMA OneLess ==
    ASSUME NEW S, IsFiniteSet(S), NEW t \in S, NEW T, T = S \ {t}
    PROVE  Cardinality(T) = Cardinality(S) - 1
BY FS_RemoveElement

\* The owners of a device are finitely many.
LEMMA OwnersFinite ==
    ASSUME NEW d
    PROVE  /\ IsFiniteSet(Holders(d)) /\ Cardinality(Holders(d)) \in Nat
           /\ IsFiniteSet(Programs(d)) /\ Cardinality(Programs(d)) \in Nat
<1>1. IsFiniteSet(Thread \cup {Boot}) BY InterruptsAssumption, FS_AddElement
<1>2. Holders(d) \in SUBSET (Thread \cup {Boot}) BY DEF Holders
<1>3. Programs(d) \in SUBSET Thread BY DEF Programs
<1> QED BY <1>1, <1>2, <1>3, InterruptsAssumption, FS_Subset, FS_CardinalityType

--------------------------------------------------------------------------------
(***************************************************************************)
(* The gates of the devices.                                               *)
(***************************************************************************)

\* Programming a device and enabling it once more ends with one owner less.
LEMMA ProgramEffect ==
    ASSUME NEW g, WellFormed(g), NEW d \in Device, NEW k, k = Enable(Twice(g, d), d),
           NEW n, n = IF g.nest[d] > 0 THEN g.nest[d] - 1 ELSE 0
    PROVE  Changes(g, k, d, n) /\ Right(k, d)
<1>1. PICK h : h = Twice(g, d) OBVIOUS
<1>2. Changes(g, h, d, g.nest[d]) /\ Right(h, d) BY <1>1, TwiceEffect
<1>3. WellFormed(h) /\ h.nest[d] = g.nest[d] BY <1>2 DEF Changes, WellFormed
<1>4. Changes(h, k, d, n) /\ Right(k, d) BY <1>1, <1>2, <1>3, EnableEffect
<1> QED BY <1>2, <1>4 DEF Changes, WellFormed

\* What each step of the boot makes of the gate of its device.
LEMMA PitInitGate == ASSUME GateOK, PitInit PROVE GateStep(PIT, 0)
<1> PIT \in Device BY DEF Device
<1>1. PICK g : g = [Gate EXCEPT !.nest[PIT] = 1] OBVIOUS
<1>2. PICK k : k = Enable(Twice(g, PIT), PIT) OBVIOUS
<1>3. /\ g.table = redirect /\ g.nest = [nesting EXCEPT ![PIT] = 1]
      /\ WellFormed(g) /\ g.nest[PIT] = 1
  BY <1>1 DEF Gate, GateOK, WellFormed
<1>4. Changes(g, k, PIT, 0) /\ Right(k, PIT)
  <2>1. 0 = IF g.nest[PIT] > 0 THEN g.nest[PIT] - 1 ELSE 0 BY <1>3
  <2> QED BY <1>2, <1>3, <2>1, ProgramEffect
<1>5. Changes(Gate, k, PIT, 0) BY <1>3, <1>4 DEF Changes, Gate, GateOK
<1>6. Apply(k) BY <1>1, <1>2 DEF PitInit
<1> QED BY <1>4, <1>5, <1>6, ApplyEffect

\* rtc_init ends with the RTC enabled.
LEMMA RtcInitGate == ASSUME GateOK, RtcInit PROVE GateStep(RTC, 0)
<1> RTC \in Device BY DEF Device
<1>1. PICK g : g = [Gate EXCEPT !.table = SetIrqMask(redirect, RTC, FALSE), !.nest[RTC] = 1]
  OBVIOUS
<1>2. PICK k : k = Enable(Twice(g, RTC), RTC) OBVIOUS
<1>3. Writes(redirect, SetIrqMask(redirect, RTC, FALSE), RTC, FALSE)
  BY MaskEffect DEF GateOK
<1>4. /\ g.table = SetIrqMask(redirect, RTC, FALSE) /\ g.nest = [nesting EXCEPT ![RTC] = 1]
      /\ WellFormed(g) /\ g.nest[RTC] = 1
  BY <1>1, <1>3 DEF Gate, GateOK, WellFormed, Writes
<1>5. Changes(g, k, RTC, 0) /\ Right(k, RTC)
  <2>1. 0 = IF g.nest[RTC] > 0 THEN g.nest[RTC] - 1 ELSE 0 BY <1>4
  <2> QED BY <1>2, <1>4, <2>1, ProgramEffect
<1>6. Changes(Gate, k, RTC, 0) BY <1>3, <1>4, <1>5 DEF Changes, Gate, GateOK, Writes
<1>7. Apply(k) BY <1>1, <1>2 DEF RtcInit
<1> QED BY <1>5, <1>6, <1>7, ApplyEffect

\* A device programmed and enabled at the end of its initialisation is enabled.
LEMMA ProgramGate ==
    ASSUME GateOK, NEW d \in Device, nesting[d] = 0, Apply(Enable(Twice(Twice(Gate, d), d), d))
    PROVE  GateStep(d, 0)
<1>1. WellFormed(Gate) /\ Gate.nest[d] = 0 BY DEF Gate, GateOK, WellFormed
<1>2. PICK g : g = Twice(Gate, d) OBVIOUS
<1>3. PICK k : k = Enable(Twice(g, d), d) OBVIOUS
<1>4. Changes(Gate, g, d, 0) BY <1>1, <1>2, TwiceEffect
<1>5. WellFormed(g) /\ g.nest[d] = 0 BY <1>1, <1>4 DEF Changes, WellFormed
<1>6. Changes(g, k, d, 0) /\ Right(k, d) BY <1>3, <1>5, ProgramEffect
<1>7. Changes(Gate, k, d, 0) BY <1>1, <1>4, <1>6 DEF Changes, WellFormed
<1> QED BY <1>2, <1>3, <1>6, <1>7, ApplyEffect

\* The measure of the LAPIC timer ends with the PIT disabled once.
LEMMA MeasureEndGate == ASSUME GateOK, nesting[PIT] = 0, MeasureEnd PROVE GateStep(PIT, 1)
<1> PIT \in Device BY DEF Device
<1>1. WellFormed(Gate) /\ Gate.nest[PIT] = 0 BY DEF Gate, GateOK, WellFormed
<1>2. PICK g : g = Disable(Gate, PIT) OBVIOUS
<1>3. PICK k : k = Twice(g, PIT) OBVIOUS
<1>4. Changes(Gate, g, PIT, 0 + 1) BY <1>1, <1>2, DisableEffect
<1>5. WellFormed(g) /\ g.nest[PIT] = 1 BY <1>1, <1>4 DEF Changes, WellFormed
<1>6. Changes(g, k, PIT, 1) /\ Right(k, PIT) BY <1>3, <1>5, TwiceEffect
<1>7. Changes(Gate, k, PIT, 1) BY <1>1, <1>4, <1>6 DEF Changes, WellFormed
<1>8. Apply(k) BY <1>2, <1>3 DEF MeasureEnd
<1> QED BY <1>6, <1>7, <1>8, ApplyEffect

\* Before any thread runs, the boot alone owns devices.
LEMMA BootOwners ==
    ASSUME NEW as, NEW hs, \A t \in Thread : as[t] = "user" /\ hs[t] = {}, NEW d
    PROVE  /\ Cardinality({t \in Thread : as[t] = Reenabling(d)}) = 0
           /\ Cardinality({t \in Thread \cup {Boot} : d \in hs[t]})
                = IF d \in hs[Boot] THEN 1 ELSE 0
<1>1. {t \in Thread : as[t] = Reenabling(d)} = {} BY DEF Reenabling
<1>2. {t \in Thread \cup {Boot} : d \in hs[t]} = IF d \in hs[Boot] THEN {Boot} ELSE {} OBVIOUS
<1> QED BY <1>1, <1>2, FS_EmptySet, FS_Singleton

\* kickstart programs the gates before any thread runs: the PIT is left disabled
\* once, by the boot, the RTC enabled.
LEMMA BootGates ==
    ASSUME Fields, BootOnly, MasksExact, BootNext
    PROVE  MasksExact'
<1>1. /\ PIT \in Device /\ RTC \in Device /\ Device = {PIT, RTC} /\ Device \subseteq Irq
      /\ PIT # RTC /\ Remap[PIT] # Remap[RTC] /\ GateOK
  BY InterruptsAssumption, InputsAssumption DEF Device, Fields, GateOK, Table
<1>2. /\ phase # "running" /\ \A t \in Thread : at'[t] = "user" /\ holds'[t] = {}
      /\ RTC \notin holds[Boot] /\ (phase \notin {"time", "sched"} => holds[Boot] = {})
  <2>1. phase # "running" /\ at' = at
    BY DEF BootNext, IoApicInit, PitInit, RtcInit, MeasureStart, MeasureEnd, TimeInit, SchedInit,
           BootStep
  <2>2. holds' = holds \/ holds' = [holds EXCEPT ![Boot] = {PIT}]
    BY DEF BootNext, IoApicInit, PitInit, RtcInit, MeasureStart, MeasureEnd, TimeInit, SchedInit
  <2> QED BY <2>1, <2>2, InterruptsAssumption DEF BootOnly, Fields
<1>3. \A d \in Device : nesting'[d] = (IF d \in holds'[Boot] THEN 1 ELSE 0) => Counted(d)'
  BY <1>2, BootOwners DEF Counted, Holders, Programs
<1>4. CASE IoApicInit
  <2>1. ASSUME NEW d \in Device PROVE Masked(d)'
    BY <1>1, <1>4, InterruptsAssumption DEF IoApicInit, Masked
  <2> QED BY <1>4, <2>1 DEF IoApicInit, BootStep, MasksExact, Ready
<1>5. CASE PitInit
  <2>1. GateStep(PIT, 0) BY <1>1, <1>5, PitInitGate
  <2>2. phase' = "rtc" /\ PIT \notin holds'[Boot] /\ handler'[IntLine(PIT)] # NoHandler
    BY <1>2, <1>5, <1>1 DEF PitInit, BootStep, Fields, Line, NoHandler
  <2>3. nesting'[PIT] = 0 /\ Led(PIT)' /\ (Masked(RTC) => Masked(RTC)')
    BY <1>1, <2>1 DEF GateStep, GateOK, Masked
  <2>4. Masked(RTC) BY <1>1, <1>5 DEF MasksExact, Ready, PitInit, BootStep
  <2> QED BY <1>1, <1>3, <2>2, <2>3, <2>4 DEF MasksExact, Ready
<1>6. CASE RtcInit
  <2>1. GateStep(RTC, 0) BY <1>1, <1>6, RtcInitGate
  <2>2. /\ phase = "rtc" /\ phase' = "lapic_timer" /\ RTC \notin holds'[Boot]
        /\ handler'[IntLine(RTC)] # NoHandler
        /\ handler[IntLine(PIT)] # NoHandler => handler'[IntLine(PIT)] # NoHandler
    BY <1>2, <1>6, <1>1 DEF RtcInit, BootStep, Fields, Line, NoHandler
  <2>3. /\ nesting'[RTC] = 0 /\ nesting'[PIT] = nesting[PIT] /\ Led(RTC)'
        /\ (Led(PIT) => Led(PIT)')
    BY <1>1, <2>1 DEF GateStep, GateOK, Masked, Led
  <2>4. Counted(PIT) /\ Led(PIT) /\ handler[IntLine(PIT)] # NoHandler
    BY <1>1, <2>2 DEF MasksExact, Ready
  <2>5. Counted(PIT)' BY <1>6, <2>3, <2>4 DEF RtcInit, BootStep, Counted, Holders, Programs
  <2> QED BY <1>1, <1>3, <2>2, <2>3, <2>4, <2>5 DEF MasksExact, Ready
<1>7. ASSUME phase = "lapic_timer" \/ phase = "measuring"
      PROVE  /\ nesting[PIT] = 0
             /\ Counted(RTC) /\ Led(RTC) /\ handler[IntLine(RTC)] # NoHandler
  <2>1. \A t \in Thread : at[t] = "user" /\ holds[t] = {}
    BY <1>2 DEF BootOnly
  <2>2. PIT \notin holds[Boot] BY <1>2, <1>7
  <2> QED BY <1>1, <1>7, <2>1, <2>2, BootOwners DEF MasksExact, Ready, Counted, Holders, Programs
<1>8. CASE MeasureStart \/ MeasureEnd
  <2>1. PICK n : GateStep(PIT, n) /\ n = IF PIT \in holds'[Boot] THEN 1 ELSE 0
    <3>1. CASE MeasureStart
      <4>1. GateStep(PIT, 0)
        BY <1>1, <1>7, <3>1, ProgramGate DEF MeasureStart, BootStep
      <4>2. PIT \notin holds'[Boot] BY <1>2, <3>1 DEF MeasureStart, BootStep
      <4> QED BY <4>1, <4>2
    <3>2. CASE MeasureEnd
      <4>1. GateStep(PIT, 1)
        BY <1>1, <1>7, <3>2, MeasureEndGate DEF MeasureEnd, BootStep
      <4>2. PIT \in holds'[Boot] BY <3>2 DEF MeasureEnd, Fields
      <4> QED BY <4>1, <4>2
    <3> QED BY <1>8, <3>1, <3>2
  <2>2. /\ phase = "lapic_timer" \/ phase = "measuring"
        /\ phase' = "measuring" \/ phase' = "time"
        /\ handler'[IntLine(PIT)] # NoHandler
        /\ handler'[IntLine(RTC)] = handler[IntLine(RTC)]
    BY <1>8, <1>1, InterruptsAssumption
    DEF MeasureStart, MeasureEnd, BootStep, Fields, Line, NoHandler, IntLine, Timer
  <2>3. /\ nesting'[PIT] = n /\ nesting'[RTC] = nesting[RTC] /\ Led(PIT)'
        /\ (Led(RTC) => Led(RTC)')
    BY <1>1, <2>1 DEF GateStep, GateOK, Masked, Led
  <2>4. Counted(RTC)'
    <3>1. RTC \notin holds'[Boot]
      BY <1>1, <1>2, <1>8 DEF MeasureStart, MeasureEnd, Fields
    <3> QED BY <1>7, <1>8, <1>1, <1>2, <2>2, <2>3, <3>1, BootOwners, SMTT(30)
        DEF MeasureStart, MeasureEnd, BootStep, Counted, Holders, Programs, BootOnly
  <2> QED BY <1>1, <1>3, <1>7, <2>1, <2>2, <2>3, <2>4 DEF MasksExact, Ready
<1>9. CASE TimeInit
  <2>1. /\ phase = "time" /\ phase' = "sched" /\ holds' = holds /\ at' = at
    BY <1>9 DEF TimeInit, BootStep
  <2>2. /\ Counted(PIT) /\ Led(PIT) /\ handler[IntLine(PIT)] # NoHandler
        /\ nesting[RTC] = 0
    <3>1. \A t \in Thread : at[t] = "user" /\ holds[t] = {} BY <1>2 DEF BootOnly
    <3> QED BY <1>1, <1>2, <2>1, <3>1, BootOwners DEF MasksExact, Ready, Counted, Holders, Programs
  <2>3. GateStep(RTC, 0) BY <1>1, <1>9, <2>2, ProgramGate DEF TimeInit
  <2>4. /\ nesting'[RTC] = 0 /\ nesting'[PIT] = nesting[PIT] /\ Led(RTC)'
        /\ (Led(PIT) => Led(PIT)')
    BY <1>1, <2>3 DEF GateStep, GateOK, Masked, Led
  <2>5. handler'[IntLine(RTC)] # NoHandler /\ handler'[IntLine(PIT)] = handler[IntLine(PIT)]
    <3>1. handler' = [handler EXCEPT ![Timer] = "time_main", ![IntLine(RTC)] = "time_rtc"]
      BY <1>9 DEF TimeInit
    <3>2. /\ IntLine(RTC) \in Line /\ IntLine(PIT) \in Line /\ IntLine(PIT) # IntLine(RTC)
          /\ IntLine(PIT) # Timer
      BY <1>1, InterruptsAssumption DEF Line, IntLine, Timer
    <3>3. handler \in [Line -> Handlers] BY DEF Fields
    <3> QED BY ONLY <3>1, <3>2, <3>3 DEF NoHandler
  <2>6. Counted(PIT)' BY <2>1, <2>2, <2>4 DEF Counted, Holders, Programs
  <2> QED BY <1>1, <1>2, <1>3, <2>1, <2>2, <2>4, <2>5, <2>6 DEF MasksExact, Ready
<1>10. CASE SchedInit
  <2>1. /\ phase = "sched" /\ phase' = "running" /\ holds' = holds /\ at' = at
        /\ nesting' = nesting /\ redirect' = redirect
    BY <1>10 DEF SchedInit, BootStep, apic
  <2>2. \A d \in Device : handler'[IntLine(d)] = handler[IntLine(d)]
    <3>1. \A d \in Device : IntLine(d) \in Line \ {Syscall, SwSched}
      BY <1>1, InterruptsAssumption DEF Line, IntLine, Syscall, SwSched
    <3>2. handler' = [handler EXCEPT ![Syscall] = "syscall_handler", ![SwSched] = "schedule_int"]
      BY <1>10 DEF SchedInit
    <3> QED BY <3>1, <3>2 DEF Fields
  <2> QED BY <2>1, <2>2 DEF MasksExact, Ready, Counted, Led, Masked, Holders, Programs
<1> QED BY <1>4, <1>5, <1>6, <1>8, <1>9, <1>10 DEF BootNext

\* The masks depend on the gates, on who owns a device and on the handlers.
LEMMA SameOwners ==
    ASSUME MasksExact, UNCHANGED <<phase, redirect, nesting, handler, holds>>,
           \A t \in Thread, d \in Device : at'[t] = Reenabling(d) <=> at[t] = Reenabling(d)
    PROVE  MasksExact'
<1>1. \A d \in Device : Programs(d)' = Programs(d) BY DEF Programs
<1> QED BY <1>1 DEF MasksExact, Ready, Counted, Led, Masked, Holders

\* What the gate of one device and its owners become does not disturb the others.
LEMMA OthersExact ==
    ASSUME GateOK, MasksExact, phase = "running", phase' = "running",
           NEW d \in Device, NEW n, GateStep(d, n),
           \A e \in Device : handler[IntLine(e)] # NoHandler => handler'[IntLine(e)] # NoHandler,
           \A e \in Device \ {d} : Holders(e)' = Holders(e) /\ Programs(e)' = Programs(e),
           nesting'[d] = Cardinality(Holders(d)') + Cardinality(Programs(d)')
    PROVE  MasksExact'
<1> SUFFICES ASSUME NEW e \in Device
             PROVE  Counted(e)' /\ Led(e)' /\ handler'[IntLine(e)] # NoHandler
  BY DEF MasksExact, Ready
<1>1. Counted(e) /\ Led(e) /\ handler[IntLine(e)] # NoHandler BY DEF MasksExact, Ready
<1>2. CASE e = d BY <1>1, <1>2 DEF GateStep, Counted
<1>3. CASE e # d
  <2>1. nesting'[e] = nesting[e] /\ redirect'[Remap[e]] = redirect[Remap[e]]
    BY <1>3 DEF GateStep, GateOK
  <2>2. Holders(e)' = Holders(e) /\ Programs(e)' = Programs(e) BY <1>3
  <2>3. Counted(e)' BY <1>1, <2>1, <2>2 DEF Counted
  <2>4. Led(e)' BY <1>1, <2>1 DEF Led, Masked
  <2> QED BY <1>1, <2>3, <2>4
<1> QED BY <1>2, <1>3

\* Threads disable, enable and program a device in pairs, each counted once, in
\* whatever order they come.
LEMMA ThreadGates ==
    ASSUME Fields, BootOnly, MasksExact, NEW t \in Thread, ThreadNext(t)
    PROVE  MasksExact'
<1> USE DEF Runs, Goes
<1>1. GateOK BY DEF Fields, GateOK, Table
<1>2. t # Boot /\ t \in Thread \cup {Boot} /\ Boot \in Thread \cup {Boot}
  BY InterruptsAssumption
<1>3. \A d, e \in Device : d # e => Reenabling(d) # Reenabling(e) BY DEF Device, Reenabling
<1>4. \A d \in Device : phase = "running" =>
        Counted(d) /\ Led(d) /\ handler[IntLine(d)] # NoHandler
  BY DEF MasksExact, Ready
<1>5. \A d \in Device : Reenabling(d) \in {"pit_enable", "rtc_enable"} BY DEF Reenabling
<1>6. CASE EnterCritical(t) \/ ExitCritical(t) \/ ReturnFromCall(t)
             \/ \E u \in Thread : Yield(t, u) \/ BlockingCall(t, u)
  <2>1. UNCHANGED <<phase, redirect, nesting, handler, holds>>
    BY <1>6 DEF EnterCritical, ExitCritical, ReturnFromCall, Yield, BlockingCall, drivers, apic
  <2>2. ASSUME NEW u \in Thread, NEW d \in Device
        PROVE  at'[u] = Reenabling(d) <=> at[u] = Reenabling(d)
    BY <1>5, <1>6 DEF EnterCritical, ExitCritical, ReturnFromCall, Yield, BlockingCall, Fields
  <2> QED BY <2>1, <2>2, SameOwners
<1>7. ASSUME NEW d \in Device, DisableDevice(t, d) PROVE MasksExact'
  <2>1. GateStep(d, nesting[d] + 1) BY <1>1, <1>7, DisableStep DEF DisableDevice
  <2>2. Holders(d)' = Holders(d) \cup {t} /\ t \notin Holders(d)
    BY <1>2, <1>7 DEF DisableDevice, Holders, Fields
  <2>3. Cardinality(Holders(d)') = Cardinality(Holders(d)) + 1
    BY <2>2, OneMore, OwnersFinite
  <2>4. \A e \in Device : Programs(e)' = Programs(e) BY <1>7 DEF DisableDevice, Programs
  <2>5. \A e \in Device \ {d} : Holders(e)' = Holders(e)
    BY <1>2, <1>7 DEF DisableDevice, Holders, Fields
  <2>6. phase = "running" /\ phase' = "running" /\ handler' = handler BY <1>7 DEF DisableDevice
  <2>7. nesting'[d] = Cardinality(Holders(d)') + Cardinality(Programs(d)')
    BY <1>1, <1>4, <2>1, <2>3, <2>4, <2>6, OwnersFinite DEF GateStep, GateOK, Counted
  <2> QED BY <1>1, <2>1, <2>4, <2>5, <2>6, <2>7, OthersExact
<1>8. ASSUME NEW d \in Device, NEW u \in Thread \cup {Boot}, d \in holds[u],
             phase = "running", phase' = "running", handler' = handler, at' = at,
             holds' = [holds EXCEPT ![u] = @ \ {d}], Apply(Enable(Gate, d))
      PROVE  MasksExact'
  <2>1. PICK n : n = IF nesting[d] > 0 THEN nesting[d] - 1 ELSE 0 OBVIOUS
  <2>2. GateStep(d, n) BY <1>1, <1>4, <1>8, <2>1, EnableStep
  <2>3. Holders(d)' = Holders(d) \ {u} /\ u \in Holders(d) BY <1>8 DEF Holders, Fields
  <2>4. Cardinality(Holders(d)') = Cardinality(Holders(d)) - 1
    BY <2>3, OneLess, OwnersFinite
  <2>5. \A e \in Device : Programs(e)' = Programs(e) BY <1>8 DEF Programs
  <2>6. \A e \in Device \ {d} : Holders(e)' = Holders(e) BY <1>8 DEF Holders, Fields
  <2>7. Cardinality(Holders(d)') \in Nat
    <3>1. IsFiniteSet(Holders(d)') BY <2>3, OwnersFinite, FS_RemoveElement
    <3> QED BY <3>1, FS_CardinalityType
  <2>8. nesting'[d] = Cardinality(Holders(d)') + Cardinality(Programs(d)')
    BY <1>1, <1>4, <1>8, <2>1, <2>2, <2>4, <2>5, <2>7, OwnersFinite DEF GateStep, GateOK, Counted
  <2> QED BY <1>1, <1>8, <2>2, <2>5, <2>6, <2>8, OthersExact
<1>9. ASSUME NEW d \in Device, EnableDevice(t, d) PROVE MasksExact'
  BY <1>2, <1>8, <1>9 DEF EnableDevice
<1>10. CASE StartPit(t)
  <2>1. PIT \in Device /\ holds[Boot] = {PIT}
    BY <1>10, <1>2 DEF StartPit, BootOnly, Fields, Device
  <2>2. holds' = [holds EXCEPT ![Boot] = @ \ {PIT}] BY <1>10, <2>1 DEF StartPit
  <2> QED BY <1>2, <1>8, <1>10, <2>1, <2>2 DEF StartPit
<1>11. ASSUME NEW d \in Device, SetFrequency(t, d) \/ SetHandler(t, d) PROVE MasksExact'
  <2>1. PICK h : Reprogram(t, d, h) /\ (h = handler[IntLine(d)] \/ h = "client")
    BY <1>11 DEF SetFrequency, SetHandler
  <2>2. GateStep(d, nesting[d] + 1) BY <1>1, <2>1, DisableStep DEF Reprogram
  <2>3. Programs(d)' = Programs(d) \cup {t} /\ t \notin Programs(d)
    BY <1>5, <2>1 DEF Reprogram, Programs, Fields
  <2>4. Cardinality(Programs(d)') = Cardinality(Programs(d)) + 1
    BY <2>3, OneMore, OwnersFinite
  <2>5. \A e \in Device : Holders(e)' = Holders(e) BY <2>1 DEF Reprogram, Holders
  <2>6. \A e \in Device \ {d} : Programs(e)' = Programs(e)
    BY <1>3, <1>5, <2>1 DEF Reprogram, Programs, Fields
  <2>7. phase = "running" /\ phase' = "running" BY <2>1 DEF Reprogram
  <2>8. \A e \in Device : handler[IntLine(e)] # NoHandler => handler'[IntLine(e)] # NoHandler
    BY <2>1 DEF Reprogram, NoHandler, Fields
  <2>9. nesting'[d] = Cardinality(Holders(d)') + Cardinality(Programs(d)')
    BY <1>1, <1>4, <2>2, <2>4, <2>5, <2>7, OwnersFinite DEF GateStep, GateOK, Counted
  <2> QED BY <1>1, <2>2, <2>5, <2>6, <2>7, <2>8, <2>9, OthersExact
<1>12. ASSUME NEW d \in Device, Reenable(t, d) PROVE MasksExact'
  <2>1. PICK n : n = IF nesting[d] > 0 THEN nesting[d] - 1 ELSE 0 OBVIOUS
  <2>2. GateStep(d, n) BY <1>1, <1>4, <1>12, <2>1, EnableStep DEF Reenable
  <2>3. Programs(d)' = Programs(d) \ {t} /\ t \in Programs(d)
    BY <1>5, <1>12 DEF Reenable, Programs, Fields
  <2>4. Cardinality(Programs(d)') = Cardinality(Programs(d)) - 1
    BY <2>3, OneLess, OwnersFinite
  <2>5. \A e \in Device : Holders(e)' = Holders(e) BY <1>12 DEF Reenable, Holders
  <2>6. \A e \in Device \ {d} : Programs(e)' = Programs(e)
    BY <1>3, <1>5, <1>12 DEF Reenable, Programs, Fields
  <2>7. phase = "running" /\ phase' = "running" /\ handler' = handler BY <1>12 DEF Reenable
  <2>8. Cardinality(Programs(d)') \in Nat
    <3>1. IsFiniteSet(Programs(d)') BY <2>3, OwnersFinite, FS_RemoveElement
    <3> QED BY <3>1, FS_CardinalityType
  <2>9. nesting'[d] = Cardinality(Holders(d)') + Cardinality(Programs(d)')
    BY <1>1, <1>4, <2>1, <2>2, <2>4, <2>5, <2>7, <2>8, OwnersFinite
    DEF GateStep, GateOK, Counted
  <2> QED BY <1>1, <2>2, <2>5, <2>6, <2>7, <2>9, OthersExact
<1> QED BY <1>6, <1>7, <1>9, <1>10, <1>11, <1>12 DEF ThreadNext

\* No interrupt touches a gate, an owner or a handler.
LEMMA StepMasks == ASSUME Fields, BootOnly, MasksExact, Next PROVE MasksExact'
<1>1. CASE BootNext BY <1>1, BootGates
<1>2. ASSUME NEW t \in Thread, ThreadNext(t) PROVE MasksExact' BY <1>2, ThreadGates
<1>3. CASE PitEdge \/ RtcEdge \/ TimerEdge \/ TakeMain \/ TakeSpurious
           \/ \E l \in Line : TakeRequest(l)
  <2>1. UNCHANGED <<phase, redirect, nesting, handler, holds, at>>
    BY <1>3 DEF PitEdge, RtcEdge, TimerEdge, TakeMain, TakeSpurious, TakeRequest, cpu, drivers, apic
  <2> QED BY <2>1, SameOwners
<1> QED BY <1>1, <1>2, <1>3 DEF Next

--------------------------------------------------------------------------------
(***************************************************************************)
(* The fields, the interrupt flag and the lines.                           *)
(***************************************************************************)

\* A device that the boot has not disabled is enabled until the threads run.
LEMMA BootCount ==
    ASSUME BootOnly, MasksExact, NEW d \in Device, Ready(d), phase # "running",
           d \notin holds[Boot]
    PROVE  nesting[d] = 0
<1>1. \A t \in Thread : at[t] = "user" /\ holds[t] = {} BY DEF BootOnly
<1>2. Holders(d) = {} BY <1>1 DEF Holders
<1>3. Programs(d) = {} BY <1>1 DEF Programs, Reenabling
<1>4. nesting[d] = Cardinality(Holders(d)) + Cardinality(Programs(d)) BY DEF MasksExact, Counted
<1>5. Cardinality({}) = 0 BY FS_EmptySet
<1> QED BY <1>2, <1>3, <1>4, <1>5

\* The fields keep their types.
LEMMA StepFields == ASSUME Fields, BootOnly, MasksExact, Next PROVE Fields'
<1> USE DEF Fields, Runs, Goes, Phases, Places, Handlers
<1>1. /\ PIT \in Device /\ RTC \in Device /\ Device = {PIT, RTC} /\ Device \subseteq Irq
      /\ PIT # RTC /\ GateOK /\ Boot \notin Thread
  BY InterruptsAssumption DEF Device, GateOK, Table
<1>2. \A d \in Device : \A n : GateStep(d, n) => nesting' \in [Device -> Nat] /\ Table(redirect)'
  BY DEF GateStep
<1>3. CASE IoApicInit
  <2>1. Table(redirect)' BY <1>3 DEF IoApicInit, Table
  <2> QED BY <1>3, <2>1 DEF IoApicInit, BootStep
<1>4. CASE PitInit
  <2>1. GateStep(PIT, 0) BY <1>1, <1>4, PitInitGate
  <2> QED BY <1>1, <1>2, <1>4, <2>1 DEF PitInit, BootStep
<1>5. CASE RtcInit
  <2>1. GateStep(RTC, 0) BY <1>1, <1>5, RtcInitGate
  <2> QED BY <1>1, <1>2, <1>5, <2>1 DEF RtcInit, BootStep
<1>7. CASE MeasureStart
  <2>1. nesting[PIT] = 0 BY <1>1, <1>7, BootCount DEF MeasureStart, BootStep, Ready, BootOnly
  <2>2. GateStep(PIT, 0) BY <1>1, <1>7, <2>1, ProgramGate DEF MeasureStart
  <2> QED BY <1>1, <1>2, <1>7, <2>2 DEF MeasureStart, BootStep
<1>8. CASE MeasureEnd
  <2>1. nesting[PIT] = 0 BY <1>1, <1>8, BootCount DEF MeasureEnd, BootStep, Ready, BootOnly
  <2>2. GateStep(PIT, 1) BY <1>1, <1>8, <2>1, MeasureEndGate
  <2> QED BY <1>1, <1>2, <1>8, <2>2 DEF MeasureEnd, BootStep
<1>9. CASE TimeInit
  <2>1. nesting[RTC] = 0 BY <1>1, <1>9, BootCount DEF TimeInit, BootStep, Ready, BootOnly
  <2>2. GateStep(RTC, 0) BY <1>1, <1>9, <2>1, ProgramGate DEF TimeInit
  <2> QED BY <1>1, <1>2, <1>9, <2>2 DEF TimeInit, BootStep
<1>10. CASE SchedInit BY <1>10 DEF SchedInit, BootStep, apic
<1>11. CASE PitEdge \/ RtcEdge \/ TimerEdge \/ TakeSpurious \/ \E l \in Line : TakeRequest(l)
  <2>1. UNCHANGED <<phase, at, saved, iflag, holds, handler, nesting, redirect>>
    BY <1>11 DEF PitEdge, RtcEdge, TimerEdge, TakeSpurious, TakeRequest, cpu, drivers, apic
  <2> QED BY <2>1
<1>12. CASE TakeMain
  <2>1. UNCHANGED <<phase, at, holds, handler, nesting, redirect>>
    BY <1>12 DEF TakeMain, drivers
  <2>2. saved' \in [Thread -> BOOLEAN] /\ iflag' \in BOOLEAN
    BY <1>12 DEF TakeMain, SwitchTo
  <2> QED BY <2>1, <2>2
<1>13. ASSUME NEW t \in Thread, ThreadNext(t) PROVE Fields'
  <2>1. CASE EnterCritical(t) \/ ExitCritical(t) \/ ReturnFromCall(t)
    BY <1>13, <2>1 DEF EnterCritical, ExitCritical, ReturnFromCall, drivers, apic, Restore
  <2>2. ASSUME NEW u \in Thread, Yield(t, u) \/ BlockingCall(t, u) PROVE Fields'
    BY <2>2 DEF Yield, BlockingCall, SwitchTo, drivers, apic
  <2>3. ASSUME NEW d \in Device, DisableDevice(t, d) PROVE Fields'
    BY <1>1, <1>2, <2>3, DisableStep DEF DisableDevice, Restore
  <2>4. \A d \in Device : phase = "running" => Led(d) BY DEF MasksExact, Ready
  <2>5. ASSUME NEW d \in Device, EnableDevice(t, d) PROVE Fields'
    <3>1. \E n : GateStep(d, n) BY <1>1, <2>4, <2>5, EnableStep DEF EnableDevice
    <3> QED BY <1>2, <2>5, <3>1 DEF EnableDevice, Restore
  <2>6. CASE StartPit(t)
    <3>1. \E n : GateStep(PIT, n) BY <1>1, <2>4, <2>6, EnableStep DEF StartPit
    <3> QED BY <1>1, <1>2, <2>6, <3>1 DEF StartPit
  <2>7. ASSUME NEW d \in Device, SetFrequency(t, d) \/ SetHandler(t, d) PROVE Fields'
    <3>0. handler[IntLine(d)] \in Handlers BY <1>1 DEF Line
    <3>1. PICK h \in Handlers : Reprogram(t, d, h)
      BY <2>7, <3>0 DEF SetFrequency, SetHandler
    <3>2. GateStep(d, nesting[d] + 1) BY <1>1, <3>1, DisableStep DEF Reprogram
    <3>3. handler' \in [Line -> Handlers] BY <3>1 DEF Reprogram
    <3>4. at' \in [Thread -> Places] BY <3>1 DEF Reprogram, Reenabling
    <3> QED BY <1>2, <3>1, <3>2, <3>3, <3>4 DEF Reprogram
  <2>8. ASSUME NEW d \in Device, Reenable(t, d) PROVE Fields'
    <3>1. \E n : GateStep(d, n) BY <1>1, <2>4, <2>8, EnableStep DEF Reenable
    <3> QED BY <1>2, <2>8, <3>1 DEF Reenable
  <2> QED BY <1>13, <2>1, <2>2, <2>3, <2>5, <2>6, <2>7, <2>8 DEF ThreadNext
<1> QED
  BY <1>3, <1>4, <1>5, <1>7, <1>8, <1>9, <1>10, <1>11, <1>12, <1>13 DEF Next, BootNext

\* The boot runs alone and sets up what it has not yet done in its order.
LEMMA StepBootOnly == ASSUME Fields, BootOnly, LinesServed, Next PROVE BootOnly'
<1> USE DEF Fields, BootOnly, Phases
<1>1. PIT \in Device /\ RTC \in Device /\ PIT # RTC /\ Boot \notin Thread
  BY InterruptsAssumption DEF Device
<1>2. IntLine(PIT) # Timer /\ IntLine(RTC) # Timer /\ Timer \in Line
  BY <1>1, InterruptsAssumption DEF IntLine, Timer, Line
<1>3. CASE IoApicInit \/ PitInit \/ RtcInit \/ MeasureStart
  <2>1. UNCHANGED <<run, saved, at, holds, scheduler, counting>> /\ handler'[Timer] = handler[Timer]
    BY <1>2, <1>3 DEF IoApicInit, PitInit, RtcInit, MeasureStart, BootStep
  <2>2. \/ phase = "io_apic" /\ phase' = "pit" /\ iflag' = iflag
        \/ phase = "pit" /\ phase' = "rtc" /\ iflag' = iflag
        \/ phase = "rtc" /\ phase' = "lapic_timer" /\ iflag' = iflag
        \/ phase = "lapic_timer" /\ phase' = "measuring" /\ iflag' = TRUE
    BY <1>3 DEF IoApicInit, PitInit, RtcInit, MeasureStart, BootStep
  <2> QED BY <2>1, <2>2
<1>4. CASE MeasureEnd BY <1>1, <1>4 DEF MeasureEnd, BootStep
<1>5. CASE TimeInit BY <1>1, <1>5 DEF TimeInit, BootStep
<1>6. CASE SchedInit BY <1>1, <1>6 DEF SchedInit, BootStep, apic
<1>7. CASE PitEdge \/ RtcEdge \/ TimerEdge \/ TakeSpurious
  <2>1. UNCHANGED <<phase, run, iflag, saved, at, holds, scheduler, counting, handler>>
    BY <1>7 DEF PitEdge, RtcEdge, TimerEdge, TakeSpurious, cpu, drivers, apic
  <2> QED BY <2>1
<1>8. ASSUME NEW l \in Line, TakeRequest(l) PROVE BootOnly'
  <2>1. UNCHANGED <<phase, run, iflag, saved, at, holds, scheduler, handler>>
        /\ counting' = (counting /\ ~(handler[l] = "pit_measure" /\ waitInt = 2))
    BY <1>8 DEF TakeRequest, cpu
  <2> QED BY <2>1
<1>9. CASE TakeMain
  <2>1. UNCHANGED <<phase, at, holds, scheduler, handler, counting>> /\ iflag
        /\ handler[Timer] = "time_main"
    BY <1>9 DEF TakeMain, drivers, Takes
  <2>2. phase = "running" BY <2>1 DEF NoHandler
  <2>3. run' \in Thread BY <1>9, <2>2 DEF TakeMain, SwitchTo
  <2> QED BY <2>1, <2>2, <2>3
<1>10. ASSUME NEW t \in Thread, ThreadNext(t) PROVE BootOnly'
  <2>1. phase = "running" /\ phase' = phase /\ run' \in Thread
    BY <1>10 DEF ThreadNext, EnterCritical, ExitCritical, StartPit, DisableDevice, EnableDevice,
                 SetFrequency, SetHandler, Reprogram, Reenable, Yield, BlockingCall, SwitchTo,
                 ReturnFromCall, Runs
  <2>2. holds'[Boot] = holds[Boot] \/ holds'[Boot] = {}
    BY <1>1, <1>10 DEF ThreadNext, EnterCritical, ExitCritical, StartPit, DisableDevice,
                 EnableDevice, SetFrequency, SetHandler, Reprogram, Reenable, Yield, BlockingCall,
                 ReturnFromCall
  <2> QED BY <2>1, <2>2
<1> QED BY <1>3, <1>4, <1>5, <1>6, <1>7, <1>8, <1>9, <1>10 DEF Next, BootNext

\* A switch puts the flag of a thread aside and takes it up with the thread.
LEMMA StepFlags ==
    ASSUME Fields, BootOnly, LinesServed, FlagFollowsSections, Next
    PROVE  FlagFollowsSections'
<1> USE DEF Fields, FlagFollowsSections
<1>1. CASE BootNext
  <2>1. CASE phase' # "running" BY <2>1
  <2>2. CASE phase' = "running"
    BY <1>1, <2>2 DEF BootNext, IoApicInit, PitInit, RtcInit, MeasureStart, MeasureEnd, TimeInit,
                      SchedInit, BootStep, BootOnly
  <2> QED BY <2>1, <2>2
<1>2. CASE PitEdge \/ RtcEdge \/ TimerEdge \/ TakeSpurious \/ \E l \in Line : TakeRequest(l)
  <2>1. UNCHANGED <<phase, at, saved, iflag, run>>
    BY <1>2 DEF PitEdge, RtcEdge, TimerEdge, TakeSpurious, TakeRequest, cpu
  <2> QED BY <2>1
<1>3. CASE TakeMain
  <2>1. phase' = phase /\ at' = at /\ iflag /\ handler[Timer] = "time_main"
    BY <1>3 DEF TakeMain, Takes
  <2>2. phase = "running" /\ run \in Thread BY <2>1 DEF BootOnly, Phases, NoHandler
  <2>3. CASE scheduler
    <3>1. PICK u \in Thread : SwitchTo(u, TRUE) BY <1>3, <2>3 DEF TakeMain
    <3> QED BY <2>1, <2>2, <3>1 DEF SwitchTo
  <2>4. CASE ~scheduler
    BY <1>3, <2>1, <2>4 DEF TakeMain
  <2> QED BY <2>3, <2>4
<1>4. ASSUME NEW t \in Thread, ThreadNext(t) PROVE FlagFollowsSections'
  <2> USE DEF Runs, Goes
  <2>1. CASE EnterCritical(t) \/ ExitCritical(t) \/ ReturnFromCall(t)
    BY <2>1 DEF EnterCritical, ExitCritical, ReturnFromCall, Restore
  <2>2. ASSUME NEW u \in Thread, Yield(t, u) PROVE FlagFollowsSections'
    BY <2>2 DEF Yield, SwitchTo
  <2>3. ASSUME NEW u \in Thread, BlockingCall(t, u) PROVE FlagFollowsSections'
    BY <2>3 DEF BlockingCall, SwitchTo
  <2>4. CASE StartPit(t) \/ \E d \in Device : DisableDevice(t, d) \/ EnableDevice(t, d)
    <3>1. UNCHANGED <<phase, run, iflag, saved, at>>
      BY <2>4 DEF StartPit, DisableDevice, EnableDevice, Restore
    <3> QED BY <3>1
  <2>5. ASSUME NEW d \in Device, SetFrequency(t, d) \/ SetHandler(t, d) \/ Reenable(t, d)
        PROVE  FlagFollowsSections'
    <3>1. UNCHANGED <<phase, run, iflag, saved>> /\ at[t] \notin {"critical", "blocked"}
          /\ \E p \in {"user", "pit_enable", "rtc_enable"} : at' = [at EXCEPT ![t] = p]
      BY <2>5 DEF SetFrequency, SetHandler, Reprogram, Reenable, Reenabling
    <3> QED BY <3>1
  <2> QED BY <1>4, <2>1, <2>2, <2>3, <2>4, <2>5 DEF ThreadNext
<1> QED BY <1>1, <1>2, <1>3, <1>4 DEF Next

\* A device raises its own line, and only once the boot has given it a handler;
\* every handler ends the line that it was called for.
LEMMA StepLines ==
    ASSUME Fields, BootOnly, MasksExact, LinesServed, Next, MasksExact', BootOnly'
    PROVE  LinesServed'
<1>1. PIT \in Device /\ RTC \in Device /\ Device \subseteq Irq
  BY InterruptsAssumption DEF Device
<1>2. \A l \in Line : Class(l) \in Nat
  BY InterruptsAssumption DEF Line, Class, IntLine, Timer, SwSched, Syscall
<1>3. \A l \in Line : Eoi({l}) = {} BY <1>2 DEF Eoi
<1>4. irr \subseteq Line
  BY <1>1 DEF LinesServed, Line
<1>5. ASSUME NEW d \in Device, Edge(d), UNCHANGED <<phase, handler, isr, panic, counting>>
      PROVE  LinesServed'
  <2>1. CASE irr' = irr BY <1>5, <2>1 DEF LinesServed, Ready
  <2>2. CASE ~Masked(d) /\ irr' = irr \cup {redirect[Remap[d]].line}
    <3>1. Ready(d) /\ redirect[Remap[d]].line = IntLine(d) BY <2>2 DEF MasksExact, Led
    <3>2. IntLine(d) # Timer BY <1>1, InterruptsAssumption DEF IntLine, Timer
    <3> QED BY <1>5, <2>2, <3>1, <3>2 DEF LinesServed, Ready
  <2> QED BY <1>5, <2>1, <2>2 DEF Edge, Masked
<1>6. CASE BootNext
  <2>1. irr' = irr /\ panic' = panic /\ isr' \in {isr, Eoi(isr)}
    BY <1>6 DEF BootNext, IoApicInit, PitInit, RtcInit, MeasureStart, MeasureEnd, TimeInit, SchedInit,
                BootStep, apic
  <2>2. isr' = {} BY <2>1 DEF LinesServed, Eoi
  <2>3. \A d \in Device : Ready(d) => Ready(d)'
    BY <1>6 DEF BootNext, IoApicInit, PitInit, RtcInit, MeasureStart, MeasureEnd, TimeInit, SchedInit,
                BootStep, Ready
  <2>4. counting' \/ Timer \in irr' => handler'[Timer] # NoHandler
    <3>1. CASE MeasureEnd \/ TimeInit
      <4>1. Timer \in Line /\ Timer # IntLine(PIT) /\ Timer # IntLine(RTC)
        BY <1>1, InterruptsAssumption DEF Line, IntLine, Timer
      <4>2. handler'[Timer] \in {"timer_dummy", "time_main"}
        BY <3>1, <4>1 DEF MeasureEnd, TimeInit, Fields
      <4> QED BY <4>2 DEF NoHandler
    <3>2. CASE ~(MeasureEnd \/ TimeInit)
      <4>1. Timer \in Line /\ Timer \notin {IntLine(PIT), IntLine(RTC), Syscall, SwSched}
        BY <1>1, InterruptsAssumption DEF Line, IntLine, Timer, Syscall, SwSched
      <4>2. counting' = counting /\ handler'[Timer] = handler[Timer]
        BY <1>6, <3>2, <4>1 DEF BootNext, IoApicInit, PitInit, RtcInit, MeasureStart, SchedInit,
                                Fields, apic
      <4> QED BY <2>1, <4>2 DEF LinesServed
    <3> QED BY <3>1, <3>2
  <2> QED BY <2>1, <2>2, <2>3, <2>4 DEF LinesServed
<1>7. CASE PitEdge BY <1>1, <1>5, <1>7 DEF PitEdge, cpu, drivers
<1>8. CASE RtcEdge BY <1>1, <1>5, <1>8 DEF RtcEdge, cpu, drivers
<1>9. CASE TimerEdge BY <1>9 DEF TimerEdge, LinesServed, Ready, cpu, drivers
<1>10. ASSUME NEW l \in Line, TakeRequest(l) PROVE LinesServed'
  <2>1. handler[l] # NoHandler BY <1>10 DEF TakeRequest, Takes, LinesServed, MasksExact
  <2>2. panic' = FALSE BY <1>10, <2>1 DEF TakeRequest
  <2>3. isr' = {} BY <1>3, <1>10, <2>2 DEF TakeRequest, InService, LinesServed
  <2>4. irr' \subseteq irr /\ phase' = phase /\ handler' = handler /\ (counting' => counting)
    BY <1>10 DEF TakeRequest, Takes
  <2> QED BY <2>2, <2>3, <2>4 DEF LinesServed, Ready
<1>11. CASE TakeMain
  <2>1. isr' = {} BY <1>3, <1>11 DEF TakeMain, MainEoi, InService, LinesServed, Line
  <2>2. irr' \subseteq irr /\ UNCHANGED <<phase, handler, panic, counting>>
    BY <1>11 DEF TakeMain, Takes, drivers
  <2> QED BY <2>1, <2>2 DEF LinesServed, Ready
<1>12. CASE TakeSpurious
  BY <1>12 DEF TakeSpurious, LinesServed, Ready, Eoi, cpu, drivers
<1>13. ASSUME NEW t \in Thread, ThreadNext(t) PROVE LinesServed'
  <2>1. UNCHANGED <<phase, irr, isr, panic, counting>>
    BY <1>13 DEF ThreadNext, EnterCritical, ExitCritical, StartPit, DisableDevice, EnableDevice,
                 SetFrequency, SetHandler, Reprogram, Reenable, Yield, BlockingCall, ReturnFromCall,
                 apic
  <2>2. \A d \in Device : IntLine(d) # Timer BY <1>1, InterruptsAssumption DEF IntLine, Timer
  <2>3. handler' = handler \/ \E d \in Device : \E h : handler' = [handler EXCEPT ![IntLine(d)] = h]
    BY <1>13 DEF ThreadNext, EnterCritical, ExitCritical, StartPit, DisableDevice, EnableDevice,
                 SetFrequency, SetHandler, Reprogram, Reenable, Yield, BlockingCall, ReturnFromCall,
                 drivers
  <2>4. handler'[Timer] = handler[Timer] BY <2>2, <2>3 DEF Fields, Line
  <2> QED BY <2>1, <2>4 DEF LinesServed, Ready
<1> QED
  BY <1>6, <1>7, <1>8, <1>9, <1>10, <1>11, <1>12, <1>13 DEF Next

--------------------------------------------------------------------------------
(***************************************************************************)
(* The theorems.                                                           *)
(***************************************************************************)

\* Before the boot nothing is set up.
LEMMA InitInv == Init => InterruptsInv
<1> SUFFICES ASSUME Init PROVE InterruptsInv OBVIOUS
<1>1. Device \subseteq Irq /\ Boot \notin Thread BY InterruptsAssumption
<1>2. Fields BY DEF Init, Fields, Table, Phases, Places, Handlers
<1>3. BootOnly BY <1>1 DEF Init, BootOnly, Line
<1>4. MasksExact
  <2>1. \A d \in Device : Masked(d) BY <1>1, InterruptsAssumption DEF Init, Masked
  <2> QED BY <2>1 DEF Init, MasksExact, Ready
<1>5. FlagFollowsSections BY DEF Init, FlagFollowsSections
<1>6. LinesServed BY DEF Init, LinesServed
<1> QED BY <1>2, <1>3, <1>4, <1>5, <1>6 DEF InterruptsInv

\* Every step keeps the invariant.
LEMMA StepInv == InterruptsInv /\ [Next]_vars => InterruptsInv'
<1>1. ASSUME InterruptsInv, Next PROVE InterruptsInv'
  BY <1>1, StepFields, StepBootOnly, StepMasks, StepFlags, StepLines DEF InterruptsInv
<1>2. ASSUME InterruptsInv, UNCHANGED vars PROVE InterruptsInv'
  <2>1. UNCHANGED <<phase, run, iflag, saved, at, holds, handler, nesting, waitInt, scheduler,
                    redirect, irr, isr, regC, counting, panic>>
    BY <1>2 DEF vars, cpu, drivers, apic
  <2>2. Fields' BY <1>2, <2>1 DEF InterruptsInv, Fields
  <2>3. BootOnly' BY <1>2, <2>1 DEF InterruptsInv, BootOnly
  <2>4. MasksExact' BY <1>2, <2>1, SameOwners DEF InterruptsInv
  <2>5. FlagFollowsSections' BY <1>2, <2>1 DEF InterruptsInv, FlagFollowsSections
  <2>6. LinesServed' BY <1>2, <2>1 DEF InterruptsInv, LinesServed, Ready
  <2> QED BY <2>2, <2>3, <2>4, <2>5, <2>6 DEF InterruptsInv
<1> QED BY <1>1, <1>2

\* The boot, the gates, the interrupt flag and the lines, at any time.
THEOREM InterruptsInvariant == Spec => []InterruptsInv
BY InitInv, StepInv, PTL DEF Spec

\* Whoever disabled the PIT or the RTC keeps it disabled until it enables it
\* itself, whatever the other callers of pit_*, rtc_* do, and a thread has
\* interrupts disabled in its critical sections and its system calls only.
THEOREM MasksAndFlag == Spec => []MasksFollowOwners
<1>1. InterruptsInv => MasksFollowOwners
  <2>1. ASSUME InterruptsInv PROVE NestingExact
    BY <2>1 DEF InterruptsInv, MasksExact, Ready, Counted, Led, Holders, Programs, NestingExact
  <2> QED BY <2>1 DEF InterruptsInv, MasksFollowOwners
<1> QED BY <1>1, InterruptsInvariant, PTL

\* Each handler ends its line at the local APIC, the one of the main timer also
\* where the scheduler does not return to it.
THEOREM EveryLineEnded == Spec => []LinesEnded
<1>1. InterruptsInv => LinesEnded BY DEF InterruptsInv, LinesServed, LinesEnded
<1> QED BY <1>1, InterruptsInvariant, PTL

\* kernel_interrupt_handler finds a handler for every line that is raised.
THEOREM HandlerFound == Spec => []NoPanic
<1>1. InterruptsInv => NoPanic BY DEF InterruptsInv, LinesServed, MasksExact, NoPanic
<1> QED BY <1>1, InterruptsInvariant, PTL

================================================================================
