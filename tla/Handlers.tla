-------------------------------- MODULE Handlers --------------------------------
(***************************************************************************)
(* The table of handlers (core/src/interrupts.c, core/src/exceptions.c):   *)
(* clients register and remove handlers of exceptions, of interrupt lines  *)
(* and, through the driver of the interrupt controller, of the requests of *)
(* devices, and kernel_interrupt_handler serves them.                      *)
(***************************************************************************)
EXTENDS Integers

CONSTANTS
    Vector,        \* vectors the CPU raises
    Handler,
    Irq,           \* requests of devices
    Driver,        \* drivers of an interrupt controller
    IrqLine,       \* driver_get_irq_int_line of each driver
    Spurious,      \* vectors that a driver may find to be spurious
    NULL

VARIABLES
    handlers,      \* kernel_interrupt_handlers
    driver,        \* interrupt_driver
    owned,         \* what clients have registered and not removed
    served,        \* the last vector, its flags, and the handler that was called
    result         \* what the last call returned
handlerVars == <<handlers, driver, owned, served, result>>

MIN_INTERRUPT_LINE == 32
MAX_INTERRUPT_LINE == 255
MAX_EXCEPTION_LINE == 31
SCHEDULER_SW_INT_LINE == 33
PANIC_INT_LINE == 42
Panic == "panic_handler"
InitDriver == "init_driver"
None == "none"

HandlersAssumption ==
    /\ Vector \subseteq 0 .. 255 /\ PANIC_INT_LINE \in Vector
    /\ IrqLine \in [Driver \cup {InitDriver} -> [Irq -> -1 .. 255]]
    /\ \A i \in Irq : IrqLine[InitDriver][i] = 0

--------------------------------------------------------------------------------
\* The lines of a kind of registration. The checks of the interrupt manager without
\* its lower bound:
Allowed_NoMinimum(kind, line) ==
    IF kind = "exception" THEN line \in 0 .. MAX_EXCEPTION_LINE ELSE line \in 0 .. MAX_INTERRUPT_LINE
Allowed(kind, line) ==
    IF kind = "exception" THEN line \in 0 .. MAX_EXCEPTION_LINE
    ELSE line \in MIN_INTERRUPT_LINE .. MAX_INTERRUPT_LINE

\* An error of the two calls of every kind, in the order of their tests.
LineError(kind, line) ==
    IF kind = "irq" /\ line < 0 THEN "OS_ERR_NO_SUCH_IRQ"
    ELSE IF ~Allowed(kind, line) THEN "OR_ERR_UNAUTHORIZED_INTERRUPT_LINE"
    ELSE "OS_NO_ERR"
RegisterError(kind, line, handler) ==
    IF LineError(kind, line) # "OS_NO_ERR" THEN LineError(kind, line)
    ELSE IF handler = NULL THEN "OS_ERR_NULL_POINTER"
    ELSE IF handlers[line] # NULL THEN "OS_ERR_INTERRUPT_ALREADY_REGISTERED"
    ELSE "OS_NO_ERR"
RemoveError(kind, line) ==
    IF LineError(kind, line) # "OS_NO_ERR" THEN LineError(kind, line)
    ELSE IF handlers[line] = NULL THEN "OS_ERR_INTERRUPT_NOT_REGISTERED"
    ELSE "OS_NO_ERR"

LineOf(kind, number) == IF kind = "irq" THEN IrqLine[driver][number] ELSE number

--------------------------------------------------------------------------------
\* kernel_interrupt_init
Init ==
    /\ handlers = [v \in Vector |-> IF v = PANIC_INT_LINE THEN Panic ELSE NULL]
    /\ driver = InitDriver
    /\ owned = {} /\ served = NULL /\ result = None

\* kernel_interrupt_set_driver: kernel_kickstart calls it before any request of a
\* device has a handler. A driver that lacks a function is refused.
kernel_interrupt_set_driver(d) ==
    /\ \A o \in owned : o.kind # "irq"
    /\ driver' = IF d = NULL THEN driver ELSE d
    /\ result' = IF d = NULL THEN "OS_ERR_NULL_POINTER" ELSE "OS_NO_ERR"
    /\ served' = NULL
    /\ UNCHANGED <<handlers, owned>>

\* kernel_interrupt_register_int_handler, kernel_interrupt_register_irq_handler and
\* kernel_exception_register_handler
Register(kind, number, handler) ==
    LET line == LineOf(kind, number)
        err  == RegisterError(kind, line, handler)
    IN
    /\ result' = err /\ served' = NULL
    /\ IF err = "OS_NO_ERR"
       THEN /\ handlers' = [handlers EXCEPT ![line] = handler]
            /\ owned' = owned \cup {[kind |-> kind, number |-> number, line |-> line, handler |-> handler]}
       ELSE UNCHANGED <<handlers, owned>>
    /\ UNCHANGED driver

\* The calls that remove one. A client removes what it has registered, or tries to
\* while its manager, that of interrupts or that of exceptions, has no other client.
Remove(kind, number) ==
    LET line == LineOf(kind, number)
        mine == {o \in owned : o.kind = kind /\ o.number = number}
        err  == RemoveError(kind, line)
    IN
    /\ mine # {} \/ \A o \in owned : (o.kind = "exception") # (kind = "exception")
    /\ result' = err /\ served' = NULL
    /\ handlers' = IF err = "OS_NO_ERR" THEN [handlers EXCEPT ![line] = NULL] ELSE handlers
    /\ owned' = IF err = "OS_NO_ERR" THEN owned \ mine ELSE owned
    /\ UNCHANGED driver

\* kernel_interrupt_handler. An interrupt that comes with interrupts disabled, from
\* the instruction int, calls nobody.
Serve(v, enabled, spurious) ==
    /\ spurious => driver # InitDriver /\ v \in Spurious
    /\ LET blocked == ~enabled /\ v \notin {PANIC_INT_LINE, SCHEDULER_SW_INT_LINE} /\ v >= MIN_INTERRUPT_LINE
           called  == IF v = PANIC_INT_LINE THEN Panic
                      ELSE IF blocked \/ spurious THEN None
                      ELSE IF handlers[v] # NULL THEN handlers[v] ELSE Panic
       IN  served' = [vector |-> v, enabled |-> enabled, spurious |-> spurious, called |-> called]
    /\ result' = None
    /\ UNCHANGED <<handlers, driver, owned>>

Kinds == {"irq", "int", "exception"}
Numbers(kind) == IF kind = "irq" THEN Irq ELSE Vector \cup {256}

Next ==
    \/ \E d \in Driver \cup {NULL} : kernel_interrupt_set_driver(d)
    \/ \E kind \in Kinds : \E number \in Numbers(kind) :
           \/ \E h \in Handler \cup {NULL} : Register(kind, number, h)
           \/ Remove(kind, number)
    \/ \E v \in Vector, enabled, spurious \in BOOLEAN : Serve(v, enabled, spurious)

Spec == Init /\ [][Next]_handlerVars

--------------------------------------------------------------------------------
\* A client whose registration succeeded keeps its line until it removes it, and it
\* alone, and its removal succeeds: the drivers exchange a handler by a removal and a
\* registration that may not fail. The managers of interrupts and of exceptions
\* share the table and never meet in it.
OwnersKeepLines ==
    /\ \A o \in owned : handlers[o.line] = o.handler
    /\ \A o, p \in owned : o.line = p.line => o = p
    /\ \A v \in Vector \ {PANIC_INT_LINE} : handlers[v] # NULL => \E o \in owned : o.line = v
    /\ \A o \in owned : RemoveError(o.kind, LineOf(o.kind, o.number)) = "OS_NO_ERR"

\* Who is served: the client of the line, or panic_handler when there is none; an
\* exception is never dropped, and neither is the request of the scheduler.
OwnersServed ==
    served # NULL =>
        LET v == served.vector
            clients == {o.handler : o \in {p \in owned : p.line = v}}
        IN  /\ served.called \in {None, Panic} \cup clients
            /\ (served.called = Panic <=> v = PANIC_INT_LINE \/ (clients = {} /\ served.called # None))
            /\ served.called = None => served.spurious \/ (~served.enabled /\ v >= MIN_INTERRUPT_LINE)
            /\ (served.called = None /\ v = SCHEDULER_SW_INT_LINE) => served.spurious
================================================================================
