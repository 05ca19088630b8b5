--------------------------------- MODULE Serial ---------------------------------
(***************************************************************************)
(* The serial ports (arch/board/x86/src/bspserial.c) and the 16550 behind  *)
(* one of them: uart_init programs the ports, uart_write waits for an      *)
(* empty holding register and sends a character, a line feed after a       *)
(* carriage return.  The functions that set the line, the buffer and the   *)
(* rate take the port in 8 bits.                                           *)
(***************************************************************************)
EXTENDS Integers, Sequences, SequencesExt

CONSTANTS
    Com,          \* base addresses of the ports COM1 and on, as a sequence
    PortWidth,    \* an address is passed modulo this: 256 in the code
    Letter,       \* characters other than "\n" and "\r"
    MaxText,      \* bound on the characters to send
    None

VARIABLES
    wired,        \* value last written to the registers 1 to 4 of each port
    step,         \* uart_init: ports that are done
    holding, shifting,    \* the transmitter of the output port
    line,         \* what has left it
    put,          \* what was given to uart_write
    next          \* characters uart_write is still to send
serialVars == <<wired, step, holding, shifting, line, put, next>>

SerialAssumption ==
    /\ Com \in Seq(Nat) /\ IsInjective(Com) /\ Com # <<>> /\ PortWidth \in Nat \ {0} /\ MaxText \in Nat
    /\ Letter \cap {"\n", "\r"} = {}

Port   == ToSet(Com)
Output == Com[1]
Reset == [ier |-> 0, fifo |-> FALSE, lcr |-> "reset", mcr |-> 0, divisor |-> "reset"]

--------------------------------------------------------------------------------
\* A port that is reached by an address, in what the registers hold.
Outb(w, address, register, value) ==
    [p \in Port |-> IF p = address THEN [w[p] EXCEPT ![register] = value] ELSE w[p]]

\* set_baudrate leaves the access to the divisor open, set_line closes it, and
\* set_buffer turns the FIFO on; none of them reaches a port over PortWidth.
set_baudrate(w, com) ==
    Outb(Outb(w, com % PortWidth, "lcr", "dlab"), com % PortWidth, "divisor", "set")
set_line(w, com)     == Outb(w, com % PortWidth, "lcr", "8n1")
set_buffer(w, com)   == Outb(w, com % PortWidth, "fifo", TRUE)

\* uart_init, for the next port: receive interrupts for the first two.
InitPort ==
    /\ step < Len(Com) /\ step' = step + 1
    /\ wired' =
        LET com == Com[step + 1]
            ier == Outb(wired, com, "ier", IF step < 2 THEN 1 ELSE 0)
        IN  Outb(set_buffer(set_line(set_baudrate(ier, com), com), com), com, "mcr", 11)
    /\ UNCHANGED <<holding, shifting, line, put, next>>

--------------------------------------------------------------------------------
\* The transmitter: what is held goes on when the line is free. With its FIFO it
\* holds more than one character.
Transmit ==
    \/ /\ holding # <<>> /\ shifting = None
       /\ shifting' = Head(holding) /\ holding' = Tail(holding)
       /\ UNCHANGED <<wired, step, line, put, next>>
    \/ /\ shifting # None
       /\ line' = Append(line, shifting) /\ shifting' = None
       /\ UNCHANGED <<wired, step, holding, put, next>>

\* A character written over one that is held takes its place.
Hold(ch) ==
    holding' = IF wired[Output].fifo THEN Append(holding, ch) ELSE <<ch>>

\* uart_write: the characters a call sends, and whether each waits before it does.
Sends(ch) ==
    IF ch = "\n" THEN <<[char |-> "\r", waits |-> TRUE], [char |-> "\n", waits |-> FALSE]>>
    ELSE <<[char |-> ch, waits |-> TRUE]>>

CallWrite(ch) ==
    /\ step = Len(Com) /\ next = <<>> /\ Len(put) < MaxText
    /\ put' = Append(put, ch) /\ next' = Sends(ch)
    /\ UNCHANGED <<wired, step, holding, shifting, line>>

\* The line feed follows the carriage return without another look at the status.
WriteByte ==
    /\ next # <<>> /\ (Head(next).waits => holding = <<>>)
    /\ Hold(Head(next).char) /\ next' = Tail(next)
    /\ UNCHANGED <<wired, step, shifting, line, put>>

Init ==
    /\ wired = [p \in Port |-> Reset] /\ step = 0
    /\ holding = <<>> /\ shifting = None /\ line = <<>> /\ put = <<>> /\ next = <<>>

Next ==
    \/ InitPort
    \/ \E ch \in Letter \cup {"\n"} : CallWrite(ch)
    \/ WriteByte \/ Transmit

Spec == Init /\ [][Next]_serialVars

--------------------------------------------------------------------------------
\* Characters on their way or on the line.
Sent == line \o (IF shifting = None THEN <<>> ELSE <<shifting>>) \o holding
Without(seq, c) == SelectSeq(seq, LAMBDA x : x # c)

\* Letters and line feeds arrive in the order they were put, each line feed once;
\* only the carriage return before a line feed may be lost, because the FIFO that
\* would keep it is not on.
LettersArrive ==
    LET due == Without([k \in DOMAIN next |-> next[k].char], "\r")
    IN  /\ Without(Sent, "\r") \o due = put
        /\ Len(Sent) - Len(Without(Sent, "\r")) <= Len(SelectSeq(put, LAMBDA c : c = "\n"))

\* The ports are open to the interrupts and the modem lines they were set up for,
\* and the setting of the line reaches only those whose address fits in 8 bits.
PortsSet ==
    step = Len(Com) =>
        /\ \A p \in Port : wired[p].mcr = 11
        /\ \A p \in Port : wired[p].ier = IF p \in {Com[1], Com[2]} THEN 1 ELSE 0
        /\ \A p \in Port : wired[p].lcr # "dlab" /\ (wired[p].fifo => p < PortWidth)
================================================================================
