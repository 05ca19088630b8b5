------------------------------- MODULE Interrupts ------------------------------
(***************************************************************************)
(* The interrupt manager (core/src/interrupts.c), the IO-APIC and local    *)
(* APIC, the drivers of the PIT, the RTC and the local APIC timer, and the *)
(* time manager, from the boot (kickstart.c) to threads that call the      *)
(* drivers while interrupts come in.                                       *)
(*                                                                         *)
(* A step is a stretch of code with interrupts disabled, or one access     *)
(* outside such a stretch.  An interrupt is handled in one step: the gates *)
(* clear the interrupt flag.  Which thread the scheduler elects is the     *)
(* business of module Scheduler, here it may be any.  Of the hardware only *)
(* what the drivers rely on is modelled: a masked input of the IO-APIC     *)
(* ignores edges, the RTC raises no further interrupt before its register  *)
(* C is read, and a line in service blocks the lines of its class.         *)
(***************************************************************************)
EXTENDS Naturals, FiniteSetsExt

CONSTANTS
    Thread,
    Remap,          \* acpi_get_remaped_irq: the input of an interrupt request
    Irq,            \* the requests and the inputs of the IO-APIC
    PIT, RTC        \* PIT_IRQ_LINE, RTC_IRQ_LINE

\* Interrupt lines (x86_interrupt_settings.h).
Timer      == 32        \* LAPIC_TIMER_INTERRUPT_LINE
SwSched    == 33        \* SCHEDULER_SW_INT_LINE
Syscall    == 48        \* SYSCALL_INT_LINE
IntLine(i) == i + 64    \* io_apic_get_irq_int_line

Device == {PIT, RTC}
Line   == {IntLine(i) : i \in Irq} \cup {Timer, SwSched, Syscall}
Boot   == "boot"
Reenabling(d) == IF d = PIT THEN "pit_enable" ELSE "rtc_enable"

ASSUME InterruptsAssumption ==
    /\ Irq \subseteq 0 .. 23 /\ Remap \in [Irq -> Irq]
    /\ Device \subseteq Irq /\ PIT # RTC
    /\ IsFiniteSet(Thread) /\ Boot \notin Thread

\* The tables of a PC lead the PIT and the RTC to inputs of their own.
ASSUME InputsAssumption == Remap[PIT] # Remap[RTC]

VARIABLES
    phase,      \* the next step of kernel_kickstart, "running" after it
    run,        \* the thread on the CPU, or Boot
    iflag,      \* the interrupt flag of the CPU
    saved,      \* the interrupt flag in the saved context of each thread
    at,         \* where each thread is: "user", "critical" (between ENTER_CRITICAL
                \* and EXIT_CRITICAL), "blocked" (a system call that gave up the
                \* CPU), or before the enable of a device that it reprograms
    holds,      \* the devices that a thread, or the boot, has disabled
    handler,    \* kernel_interrupt_handlers
    redirect,   \* the redirection table: line and mask of each input
    irr, isr,   \* lines requested and lines in service in the local APIC
    nesting,    \* disabled_nesting of the PIT and the RTC
    regC,       \* an RTC interrupt is not acknowledged in register C
    waitInt,    \* wait_int
    counting,   \* the local APIC timer raises interrupts
    scheduler,  \* schedule_routine is registered
    panic       \* panic_handler was called

apic == <<redirect, irr, isr, regC, counting>>
drivers == <<handler, nesting, waitInt, scheduler>>
cpu  == <<run, iflag, saved, at, holds>>
vars == <<phase, cpu, drivers, apic, panic>>

NoHandler == "none"

Init ==
    /\ phase = "io_apic" /\ run = Boot /\ iflag = FALSE
    /\ saved = [t \in Thread |-> TRUE]
    /\ at = [t \in Thread |-> "user"]
    /\ holds = [t \in Thread \cup {Boot} |-> {}]
    /\ handler = [l \in Line |-> NoHandler]
    /\ redirect = [i \in Irq |-> [line |-> IntLine(i), masked |-> TRUE]]
    /\ irr = {} /\ isr = {} /\ regC = FALSE
    /\ nesting = [d \in Device |-> 1]
    /\ waitInt = 0 /\ counting = FALSE
    /\ scheduler = FALSE /\ panic = FALSE

--------------------------------------------------------------------------------
(***************************************************************************)
(* The IO-APIC, the local APIC, and the nested disabling of a device.      *)
(***************************************************************************)

\* An entry with the line that the PIC would raise
SetIrqMask_PicLine(table, i, masked) ==
    [table EXCEPT ![Remap[i]] = [line |-> i + 48, masked |-> masked]]

\* io_apic_set_irq_mask: the entry of the remapped input carries the line of the
\* request it was last written for.
SetIrqMask(table, i, masked) ==
    [table EXCEPT ![Remap[i]] = [line |-> IntLine(i), masked |-> masked]]

\* The mask and the nesting of a device, in a record.
Gate == [table |-> redirect, nest |-> nesting]

\* pit_disable, rtc_disable
Disable(g, d) ==
    [table |-> SetIrqMask(g.table, d, TRUE), nest |-> [g.nest EXCEPT ![d] = @ + 1]]

\* An enable that forgets the callers that still hold the device.
Enable_Forget(g, d) ==
    [table |-> SetIrqMask(g.table, d, FALSE), nest |-> [g.nest EXCEPT ![d] = 0]]

\* pit_enable, rtc_enable
Enable(g, d) ==
    LET n == IF g.nest[d] > 0 THEN g.nest[d] - 1 ELSE 0
    IN  [table |-> IF n = 0 THEN SetIrqMask(g.table, d, FALSE) ELSE g.table,
         nest |-> [g.nest EXCEPT ![d] = n]]

Apply(g) == redirect' = g.table /\ nesting' = g.nest

\* set_frequency and set_handler as the boot calls them, with nobody in between
Twice(g, d) == Enable(Disable(g, d), d)

\* kernel_interrupt_restore: a section inside another one leaves interrupts
\* disabled.
Restore_Always(prev) == TRUE
Restore(prev) == prev

\* lapic_set_int_eoi: ends the line in service.
Class(l) == l \div 16
Eoi(s) == {l \in s : \E k \in s : Class(l) < Class(k)}

--------------------------------------------------------------------------------
(***************************************************************************)
(* The boot.  Interrupts are disabled but for the measure of the timer.    *)
(***************************************************************************)

BootStep(from, to) ==
    /\ phase = from /\ phase' = to
    /\ UNCHANGED <<saved, at, panic>>

\* io_apic_init masks the requests in order; of two with one input the later stays.
IoApicInit ==
    /\ BootStep("io_apic", "pit")
    /\ redirect' = [i \in Irq |->
                        LET requests == {j \in Irq : Remap[j] = i}
                        IN  IF requests = {} THEN redirect[i]
                            ELSE [line |-> IntLine(Max(requests)), masked |-> TRUE]]
    /\ UNCHANGED <<run, iflag, holds, handler, nesting, waitInt, scheduler,
                   irr, isr, regC, counting>>

PitInit ==
    /\ BootStep("pit", "rtc")
    /\ handler' = [handler EXCEPT ![IntLine(PIT)] = "pit_dummy"]
    /\ Apply(Enable(Twice([Gate EXCEPT !.nest[PIT] = 1], PIT), PIT))
    /\ UNCHANGED <<run, iflag, holds, waitInt, scheduler, irr, isr, regC, counting>>

\* rtc_init ends with rtc_update_time, which reads register C
RtcInit ==
    /\ BootStep("rtc", "lapic_timer")
    /\ handler' = [handler EXCEPT ![IntLine(RTC)] = "rtc_dummy"]
    /\ LET unmasked == [Gate EXCEPT !.table = SetIrqMask(redirect, RTC, FALSE), !.nest[RTC] = 1]
       IN  Apply(Enable(Twice(unmasked, RTC), RTC))
    /\ regC' = FALSE
    /\ UNCHANGED <<run, iflag, holds, waitInt, scheduler, irr, isr, counting>>

\* lapic_timer_init up to the wait: the PIT is enabled once more than disabled
MeasureStart ==
    /\ BootStep("lapic_timer", "measuring")
    /\ waitInt' = 1
    /\ handler' = [handler EXCEPT ![IntLine(PIT)] = "pit_measure"]
    /\ Apply(Enable(Twice(Twice(Gate, PIT), PIT), PIT))
    /\ iflag' = TRUE
    /\ UNCHANGED <<run, holds, scheduler, irr, isr, regC, counting>>

\* ... and behind it.  The PIT stays disabled.
MeasureEnd ==
    /\ waitInt = 0
    /\ BootStep("measuring", "time")
    /\ iflag' = FALSE
    /\ holds' = [holds EXCEPT ![Boot] = {PIT}]
    /\ Apply(Twice(Disable(Gate, PIT), PIT))
    /\ handler' = [handler EXCEPT ![IntLine(PIT)] = "pit_dummy", ![Timer] = "timer_dummy"]
    /\ counting' = TRUE
    /\ isr' = Eoi(isr)
    /\ UNCHANGED <<run, waitInt, scheduler, irr, regC>>

\* time_init with the local APIC timer and the RTC.  The RTC is masked for a
\* while and may raise its interrupt in that time.
TimeInit ==
    /\ BootStep("time", "sched")
    /\ handler' = [handler EXCEPT ![Timer] = "time_main", ![IntLine(RTC)] = "time_rtc"]
    /\ Apply(Enable(Twice(Twice(Gate, RTC), RTC), RTC))
    /\ regC' \in {regC, TRUE}
    /\ counting' = TRUE
    /\ UNCHANGED <<run, iflag, holds, waitInt, scheduler, irr, isr>>

\* syscall_init and sched_init, which elects the first thread
SchedInit ==
    /\ BootStep("sched", "running")
    /\ handler' = [handler EXCEPT ![Syscall] = "syscall_handler", ![SwSched] = "schedule_int"]
    /\ scheduler' = TRUE
    /\ run' \in Thread /\ iflag' = TRUE
    /\ UNCHANGED <<holds, nesting, waitInt, apic>>

BootNext == IoApicInit \/ PitInit \/ RtcInit \/ MeasureStart \/ MeasureEnd \/ TimeInit \/ SchedInit

--------------------------------------------------------------------------------
(***************************************************************************)
(* Interrupts.                                                             *)
(***************************************************************************)

\* A device raises its input: the edge is lost when the input is masked.
Edge(d) ==
    LET entry == redirect[Remap[d]]
    IN  irr' = IF entry.masked THEN irr ELSE irr \cup {entry.line}

PitEdge ==
    /\ Edge(PIT)
    /\ UNCHANGED <<phase, cpu, drivers, panic, redirect, isr, regC, counting>>

RtcEdge ==
    /\ ~regC /\ regC' = TRUE
    /\ Edge(RTC)
    /\ UNCHANGED <<phase, cpu, drivers, panic, redirect, isr, counting>>

TimerEdge ==
    /\ counting
    /\ irr' = irr \cup {Timer}
    /\ UNCHANGED <<phase, cpu, drivers, panic, redirect, isr, regC, counting>>

\* The CPU takes a line that waits, if interrupts are enabled.
Takes(l) ==
    /\ iflag /\ ~panic
    /\ l \in irr /\ \A k \in isr : Class(k) < Class(l)
    /\ irr' = irr \ {l}

InService(l) == isr \cup {l}

\* lapic_init_pit_handler
WaitInt_Stuck == waitInt
WaitInt == CASE waitInt = 1 -> 2 [] waitInt = 2 -> 0 [] OTHER -> waitInt

\* kernel_interrupt_handler and the handlers of the devices, which end the
\* interrupt; those of the RTC read register C (rtc_update_time).  A line without
\* a handler goes to panic_handler.
TakeRequest(l) ==
    /\ Takes(l) /\ handler[l] # "time_main"
    /\ panic' = (handler[l] = NoHandler)
    /\ isr' = IF panic' THEN InService(l) ELSE Eoi(InService(l))
    /\ regC' = (regC /\ l # IntLine(RTC))
    /\ LET measures == handler[l] = "pit_measure"
       IN  /\ waitInt' = IF measures THEN WaitInt ELSE waitInt
           /\ counting' = (counting /\ ~(measures /\ waitInt = 2))
    /\ UNCHANGED <<phase, cpu, handler, nesting, scheduler, redirect>>

\* The CPU goes from the thread that runs to another one, or back to it: each
\* gets its own interrupt flag back (cpu_save_context, cpu_restore_context).
SwitchTo_Enabled(u, flag) ==
    /\ saved' = [saved EXCEPT ![run] = flag]
    /\ run' = u /\ iflag' = TRUE

SwitchTo(u, flag) ==
    /\ saved' = [saved EXCEPT ![run] = flag]
    /\ run' = u /\ iflag' = saved'[u]

\* time_main_timer_handler ends the interrupt before it calls the scheduler,
\* which does not return to it.
MainEoi_Late(s) == s
MainEoi(s) == Eoi(s)

TakeMain ==
    /\ Takes(Timer) /\ handler[Timer] = "time_main"
    /\ isr' = MainEoi(InService(Timer))
    /\ IF scheduler THEN \E u \in Thread : SwitchTo(u, TRUE) ELSE UNCHANGED <<run, iflag, saved>>
    /\ UNCHANGED <<phase, at, holds, drivers, panic, redirect, regC, counting>>

\* A spurious interrupt is not in service and ended all the same
\* (io_apic_handle_spurious_irq).
TakeSpurious ==
    /\ iflag /\ ~panic /\ phase = "running"
    /\ isr' = Eoi(isr)
    /\ UNCHANGED <<phase, cpu, drivers, panic, redirect, irr, regC, counting>>

--------------------------------------------------------------------------------
(***************************************************************************)
(* Threads.                                                                *)
(***************************************************************************)

Runs(t, place) == phase = "running" /\ run = t /\ ~panic /\ at[t] = place
Goes(t, place) == at' = [at EXCEPT ![t] = place]

\* ENTER_CRITICAL and EXIT_CRITICAL of a caller of the drivers
EnterCritical(t) ==
    /\ Runs(t, "user") /\ Goes(t, "critical")
    /\ iflag' = FALSE
    /\ UNCHANGED <<phase, run, saved, holds, drivers, apic, panic>>

ExitCritical(t) ==
    /\ Runs(t, "critical") /\ Goes(t, "user")
    /\ iflag' = Restore(TRUE)
    /\ UNCHANGED <<phase, run, saved, holds, drivers, apic, panic>>

\* A caller disables a device and later enables it again, in a section of its
\* own or inside the caller's.
DisableDevice(t, d) ==
    /\ Runs(t, "user") \/ Runs(t, "critical")
    /\ d \notin holds[t] /\ holds' = [holds EXCEPT ![t] = @ \cup {d}]
    /\ Apply(Disable(Gate, d))
    /\ iflag' = Restore(iflag)
    /\ UNCHANGED <<phase, run, saved, at, handler, waitInt, scheduler, irr, isr, regC, counting, panic>>

EnableDevice(t, d) ==
    /\ Runs(t, "user") \/ Runs(t, "critical")
    /\ d \in holds[t] /\ holds' = [holds EXCEPT ![t] = @ \ {d}]
    /\ Apply(Enable(Gate, d))
    /\ iflag' = Restore(iflag)
    /\ UNCHANGED <<phase, run, saved, at, handler, waitInt, scheduler, irr, isr, regC, counting, panic>>

\* Whoever needs the PIT enables it after the boot.
StartPit(t) ==
    /\ Runs(t, "user") /\ PIT \in holds[Boot]
    /\ holds' = [holds EXCEPT ![Boot] = {}]
    /\ Apply(Enable(Gate, PIT))
    /\ UNCHANGED <<phase, run, iflag, saved, at, handler, waitInt,
                   scheduler, irr, isr, regC, counting, panic>>

\* pit_set_frequency, rtc_set_frequency, pit_set_handler and rtc_set_handler
\* program the device while it is disabled, and enable it in a section of its
\* own.  A handler is taken away and set within the first.
Reprogram(t, d, h) ==
    /\ Runs(t, "user") /\ Goes(t, Reenabling(d))
    /\ Apply(Disable(Gate, d))
    /\ handler' = [handler EXCEPT ![IntLine(d)] = IF @ = NoHandler THEN @ ELSE h]
    /\ UNCHANGED <<phase, run, iflag, saved, holds, waitInt, scheduler, irr, isr, regC, counting, panic>>

SetFrequency(t, d) == Reprogram(t, d, handler[IntLine(d)])
SetHandler(t, d)   == Reprogram(t, d, "client")

Reenable(t, d) ==
    /\ Runs(t, Reenabling(d)) /\ Goes(t, "user")
    /\ Apply(Enable(Gate, d))
    /\ UNCHANGED <<phase, run, iflag, saved, holds, handler, waitInt,
                   scheduler, irr, isr, regC, counting, panic>>

\* sched_schedule raises its interrupt also where interrupts are disabled
Yield(t, u) ==
    /\ Runs(t, "critical") \/ Runs(t, "user")
    /\ SwitchTo(u, iflag)
    /\ UNCHANGED <<phase, at, holds, drivers, apic, panic>>

\* A system call that blocks, such as futex_wait, gives up the CPU in its
\* gate.  Raised where interrupts are disabled it is dropped: no step.
BlockingCall(t, u) ==
    /\ Runs(t, "user") /\ iflag
    /\ Goes(t, "blocked")
    /\ SwitchTo(u, FALSE)
    /\ UNCHANGED <<phase, holds, drivers, apic, panic>>

ReturnFromCall(t) ==
    /\ Runs(t, "blocked") /\ Goes(t, "user")
    /\ iflag' = TRUE
    /\ UNCHANGED <<phase, run, saved, holds, drivers, apic, panic>>

ThreadNext(t) ==
    \/ EnterCritical(t) \/ ExitCritical(t) \/ StartPit(t)
    \/ \E d \in Device : DisableDevice(t, d) \/ EnableDevice(t, d) \/ SetFrequency(t, d)
                            \/ SetHandler(t, d) \/ Reenable(t, d)
    \/ \E u \in Thread : Yield(t, u) \/ BlockingCall(t, u)
    \/ ReturnFromCall(t)

Next ==
    \/ BootNext
    \/ PitEdge \/ RtcEdge \/ TimerEdge
    \/ \E l \in Line : TakeRequest(l)
    \/ TakeMain \/ TakeSpurious
    \/ \E t \in Thread : ThreadNext(t)

\* The devices tick, an interrupt that can be taken is taken, and the boot goes
\* on.  A thread leaves the sections and the system calls that it entered.
Fairness ==
    /\ WF_vars(BootNext)
    /\ WF_vars(PitEdge) /\ WF_vars(RtcEdge) /\ WF_vars(TimerEdge)
    /\ WF_vars(TakeRequest(IntLine(PIT))) /\ SF_vars(TakeRequest(IntLine(RTC))) /\ SF_vars(TakeMain)
    /\ \A t \in Thread : SF_vars(ExitCritical(t) \/ ReturnFromCall(t))

Spec == Init /\ [][Next]_vars /\ Fairness

--------------------------------------------------------------------------------
(***************************************************************************)
(* Properties.                                                             *)
(***************************************************************************)

Masked(d) == redirect[Remap[d]].masked

\* Whoever disables a device keeps it disabled until it enables it itself,
\* whatever others program or enable meanwhile; with nobody left it is enabled,
\* and its input leads to its own line.
NestingExact ==
    phase = "running" => \A d \in Device :
        LET holders  == {t \in Thread \cup {Boot} : d \in holds[t]}
            programs == {t \in Thread : at[t] = Reenabling(d)}
        IN  /\ nesting[d] = Cardinality(holders) + Cardinality(programs)
            /\ Masked(d) <=> nesting[d] > 0
            /\ redirect[Remap[d]].line = IntLine(d)

\* A thread in a critical section, or in a system call, has interrupts disabled
\* whenever it runs, over sections inside it and switches to other threads, and
\* a thread outside has them enabled.
FlagFollowsSections ==
    phase = "running" => \A t \in Thread :
        LET flag == IF run = t THEN iflag ELSE saved[t]
        IN  flag <=> at[t] \notin {"critical", "blocked"}

\* Masks and the interrupt flag follow their owners (above).
MasksFollowOwners == NestingExact /\ FlagFollowsSections

\* No line stays in service behind its handler, where it would block its class,
\* also when the scheduler does not return to the handler.
LinesEnded == isr = {}

\* A line that waits has a handler: exchanging handlers, and the boot with its
\* devices enabled early, never lead to panic_handler.
NoPanic == ~panic /\ \A l \in irr : handler[l] # NoHandler

\* The boot ends, its wait for two ticks of the PIT too, and from then on the main
\* timer interrupts the threads for ever.
MainTimerTicks == []<><<TakeMain>>_vars
================================================================================
