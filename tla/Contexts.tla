-------------------------------- MODULE Contexts --------------------------------
(***************************************************************************)
(* The context of a thread on the i386: what the entry of an interrupt     *)
(* pushes on the kernel stack (arch/cpu/i386/src/int_handlers.S), where    *)
(* the context of a thread is kept, made and restored (cpu.c), the system  *)
(* call (cpu.c, core/src/syscall.c) and the switch (schedule_int).         *)
(*                                                                         *)
(* A stack is a sequence of words that grows at its end, so that an        *)
(* address in it is a length.  A word carries the name of the register it  *)
(* was in: a register that is popped in the wrong place shows it.  Vectors *)
(* are those the kernel gets: the page fault alone has an error code.      *)
(***************************************************************************)
EXTENDS Integers, Sequences, SequencesExt

CONSTANTS
    Thread,
    Idle,        \* the first thread, IDLE
    Value,       \* what a thread computes, and gives to its system calls
    Call,        \* system calls
    None

VARIABLES
    threads,     \* threads that exist
    run,         \* active_thread, None before the scheduler starts
    cpu,         \* the registers, but esp
    stack,       \* kernel stack of each thread, up to esp while it runs
    context,     \* cpu_context.esp of each thread
    dir,         \* process->page_dir of each thread, named by a thread
    pgdir,       \* cr3
    inside,      \* handlers each thread is inside of, the innermost last
    want,        \* what it should find after each of them
    request,     \* system call a thread has put in its registers
    seen         \* system call the handler has read
contextVars ==
    <<threads, run, cpu, stack, context, dir, pgdir, inside, want, request, seen>>

ContextsAssumption == Idle \in Thread /\ None \notin Thread

--------------------------------------------------------------------------------
Segment == <<"ds", "es", "fs", "gs", "ss">>
General == <<"eax", "ebx", "ecx", "edx", "esi", "edi", "ebp">>
PushOrder == Segment \o General
Reg == ToSet(PushOrder) \cup {"eip", "cs", "eflags"}

\* Registers that hold v, but the segments, with the interrupt flag.
Holding(v, iflag) ==
    [r \in Reg |-> IF r = "eflags" THEN <<r, iflag>>
                   ELSE IF r = "cs" \/ Contains(Segment, r) THEN <<r, "kernel">> ELSE <<r, v>>]
Enabled(regs) == regs["eflags"][2]

Vector == [fault |-> 14, timer |-> 32, sched |-> 33, syscall |-> 48, device |-> 64]
ErrVector == {14}

\* The CPU pushes its part, the stub of the vector the error code that is missing
\* and the vector, the common entry the registers, and esp as it is then.
Entry(stk, regs, vec) ==
    LET error == <<<<"error", vec>>>>
        hw    == stk \o <<regs["eflags"], regs["cs"], regs["eip"]>>
                     \o (IF vec \in ErrVector THEN error ELSE <<>>)
        stub  == hw \o (IF vec \in ErrVector THEN <<>> ELSE error) \o <<<<"id", vec>>>>
        saved == stub \o [k \in DOMAIN PushOrder |-> regs[PushOrder[k]]]
    IN  Append(saved, <<"esp", Len(saved)>>)

\* The registers in the order of their pops, and what iret takes.
PopOrder_AsPushed == PushOrder
PopOrder == Reverse(PushOrder)
IretOrder == <<"eip", "cs", "eflags">>

\* The common exit, which cpu_restore_context has too: esp comes first, the
\* registers, and iret after the vector and the error code.
Exit(stk) ==
    LET n    == stk[Len(stk)][2]
        iret == n - Len(PopOrder) - 2
        at(r) == IF Contains(IretOrder, r) THEN iret - SelectInSeq(IretOrder, LAMBDA x : x = r) + 1
                 ELSE n - SelectInSeq(PopOrder, LAMBDA x : x = r) + 1
    IN  [regs |-> [r \in Reg |-> stk[at(r)]], stack |-> SubSeq(stk, 1, iret - 3)]

\* cpu_state_t and stack_state_t, as the handlers see the frame of their caller.
CpuState(frame, field) ==
    frame[Len(frame) - SelectInSeq(PopOrder, LAMBDA x : x = field)]
StackState(frame, field) ==
    frame[Len(frame) - Len(PopOrder) - 2 - SelectInSeq(IretOrder, LAMBDA x : x = field)]

cpu_get_saved_interrupt_state(frame) == StackState(frame, "eflags")[2]
cpu_get_syscall_data(frame) == <<CpuState(frame, "ecx")[2], CpuState(frame, "edx")[2]>>

--------------------------------------------------------------------------------
Init ==
    /\ threads = {} /\ run = None /\ cpu = Holding("boot", FALSE)
    /\ stack = [t \in Thread |-> <<>>] /\ context = [t \in Thread |-> 0]
    /\ dir = [t \in Thread |-> Idle] /\ pgdir = Idle
    /\ inside = [t \in Thread |-> <<>>] /\ want = [t \in Thread |-> <<>>]
    /\ request = None /\ seen = None

\* cpu_init_thread_context: the frame of an interrupt that never was, at the top of
\* the stack, eighteen words with the esp that the frame itself would have saved.
InitFrame ==
    LET regs  == Holding("init", TRUE)
        frame == <<regs["eflags"], regs["cs"], regs["eip"], <<"error", 0>>, <<"id", 0>>>>
                 \o [k \in DOMAIN PushOrder |-> regs[PushOrder[k]]]
    IN  Append(frame, <<"esp", 17>>)

\* A thread that comes to be, to go on where `frames' and `after' tell.
Born(t, frames, length, directory, kinds, after) ==
    /\ t \notin threads /\ threads' = threads \cup {t}
    /\ stack' = [stack EXCEPT ![t] = frames]
    /\ context' = [context EXCEPT ![t] = length]
    /\ dir' = [dir EXCEPT ![t] = directory]
    /\ inside' = [inside EXCEPT ![t] = kinds]
    /\ want' = [want EXCEPT ![t] = after]
    /\ UNCHANGED <<run, cpu, pgdir, request, seen>>

AtWork == run # None /\ inside[run] = <<>>
Innermost == IF run = None \/ inside[run] = <<>> THEN "none" ELSE Last(inside[run])

\* sched_create_kernel_thread, from the boot for IDLE or from a thread
Create(t) ==
    /\ (run = None /\ t = Idle) \/ AtWork
    /\ Born(t, InitFrame, 18, pgdir, <<"new">>, <<[regs |-> Holding("init", TRUE), stack |-> <<>>]>>)

\* sched_copy_kernel_thread and the copy of the kernel stack: the child goes on at
\* the frame of the system call that made it. Nothing faults before the copy.
Fork(t) ==
    /\ Innermost = "syscall" /\ context[run] = Len(stack[run]) - 1
    /\ Born(t, SubSeq(stack[run], 1, context[run]), context[run], t, inside[run], want[run])

\* A thread computes, and uses its stack. It disables interrupts for a while.
Compute(v) ==
    /\ AtWork /\ cpu' = Holding(v, Enabled(cpu))
    /\ UNCHANGED <<threads, run, stack, context, dir, pgdir, inside, want, request, seen>>
Push ==
    /\ AtWork /\ stack[run] = <<>>
    /\ stack' = [stack EXCEPT ![run] = <<cpu["eax"]>>]
    /\ UNCHANGED <<threads, run, cpu, context, dir, pgdir, inside, want, request, seen>>
Critical ==
    /\ AtWork /\ cpu' = [cpu EXCEPT !["eflags"] = <<"eflags", ~Enabled(cpu)>>]
    /\ UNCHANGED <<threads, run, stack, context, dir, pgdir, inside, want, request, seen>>

\* kernel_interrupt_handler saves the context, whatever comes of the interrupt, and
\* the handler uses the stack and the registers, with interrupts disabled.
Enters(kind, regs) ==
    LET frame == Entry(stack[run], regs, Vector[kind])
        \* a system call is dropped when the interrupts were disabled
        blocked == kind = "syscall" /\ ~cpu_get_saved_interrupt_state(frame)
    IN
    /\ stack' = [stack EXCEPT ![run] = Append(frame, <<"call", kind>>)]
    /\ context' = [context EXCEPT ![run] = Len(frame)]
    /\ inside' = [inside EXCEPT ![run] = Append(@, IF blocked THEN "blocked" ELSE kind)]
    /\ want' = [want EXCEPT ![run] = Append(@, [regs |-> regs, stack |-> stack[run]])]
    /\ cpu' = Holding(kind, FALSE)
    /\ seen' = IF kind # "syscall" THEN seen ELSE IF blocked THEN None ELSE cpu_get_syscall_data(frame)
    /\ UNCHANGED <<threads, run, dir, pgdir>>

\* A request of a device or of the timer.
Interrupt ==
    /\ AtWork /\ Enabled(cpu)
    /\ Enters("timer", cpu) \/ Enters("device", cpu)
    /\ UNCHANGED request

\* A page that is copied on write, for a thread or for its system call.
Fault ==
    /\ AtWork \/ Innermost = "syscall"
    /\ Enters("fault", cpu) /\ UNCHANGED request

\* cpu_raise_interrupt for sched_schedule, by a thread or by its system call: it is
\* never dropped.
cpu_raise_interrupt ==
    /\ AtWork \/ Innermost = "syscall"
    /\ Enters("sched", cpu) /\ UNCHANGED request

\* cpu_syscall and syscall_handler
cpu_syscall(func, params) ==
    /\ AtWork
    /\ Enters("syscall", [cpu EXCEPT !["ecx"] = <<"ecx", func>>, !["edx"] = <<"edx", params>>])
    /\ request' = <<func, params>>

\* A handler returns. That of the scheduler does not.
Return ==
    /\ Innermost \in {"device", "fault", "syscall", "blocked"}
    /\ LET out == Exit(Front(stack[run]))
       IN  cpu' = out.regs /\ stack' = [stack EXCEPT ![run] = out.stack]
    /\ inside' = [inside EXCEPT ![run] = Front(@)]
    /\ want' = [want EXCEPT ![run] = Front(@)]
    /\ request' = None /\ seen' = None
    /\ UNCHANGED <<threads, run, context, dir, pgdir>>

\* schedule_int elects a thread, maybe the same, and cpu_restore_context does not
\* look at what is on its stack above its context. sched_init starts IDLE with it.
Switch(t) ==
    /\ t \in threads
    /\ (run = None /\ t = Idle) \/ Innermost \in {"timer", "sched"}
    /\ LET out == Exit(SubSeq(stack[t], 1, context[t]))
       IN  cpu' = out.regs /\ stack' = [stack EXCEPT ![t] = out.stack]
    /\ run' = t /\ pgdir' = dir[t]
    /\ inside' = [inside EXCEPT ![t] = Front(@)]
    /\ want' = [want EXCEPT ![t] = Front(@)]
    /\ UNCHANGED <<threads, context, dir, request, seen>>

Next ==
    \/ \E t \in Thread : Create(t) \/ Fork(t) \/ Switch(t)
    \/ \E v \in Value : Compute(v)
    \/ Push \/ Critical \/ Interrupt \/ Fault \/ cpu_raise_interrupt \/ Return
    \/ \E func \in Call, params \in Value : cpu_syscall(func, params)

Spec == Init /\ [][Next]_contextVars

--------------------------------------------------------------------------------
\* A thread that goes on after an interrupt, a system call or a switch, finds its
\* registers, its stack and its address space as they were, however many handlers
\* and threads have run since; a forked thread finds those of its parent.
ContextRestored ==
    \A t \in Thread : Len(inside'[t]) < Len(inside[t]) =>
        /\ cpu' = Last(want[t]).regs
        /\ stack'[t] = Last(want[t]).stack
        /\ run' = t /\ pgdir' = dir[t]
ContextsKept == [][ContextRestored]_contextVars

\* The system call that is served is the one that was asked for.
RequestSeen == seen # None => seen = request
================================================================================
