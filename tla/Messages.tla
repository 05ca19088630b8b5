-------------------------------- MODULE Messages --------------------------------
(***************************************************************************)
(* The messages of the kernel that carry a tag (kernel_error,              *)
(* kernel_success and kernel_info of io/src/kernel_output.c) and the       *)
(* graphic driver below them (io/src/graphic.c).  Nothing protects the     *)
(* colours of the screen: a thread that is preempted in its tag leaves     *)
(* them to the others.                                                     *)
(***************************************************************************)

CONSTANT Thread   \* threads that print messages

VARIABLES
    driver,       \* selected graphic driver: "vga", or "uart" without colours
    scheme,       \* colours of the screen
    buffer,       \* colours a thread has saved
    at,           \* where a thread is in its message
    overlapped    \* a message began, or the driver changed, during another message
messageVars == <<driver, scheme, buffer, at, overlapped>>

--------------------------------------------------------------------------------
\* kernel_error, kernel_success and kernel_info: the colours are saved, changed for
\* the tag, and put back. A driver without colours does none of it: what was never
\* saved is put back on a driver that was selected since.
Tag == {"red", "green", "cyan"}
Goes(t, from, to) == at[t] = from /\ at' = [at EXCEPT ![t] = to]
Busy == \E t \in Thread : at[t] # "idle"

SaveScheme(t) ==
    /\ Goes(t, "idle", "saved")
    /\ buffer' = [buffer EXCEPT ![t] = IF driver = "vga" THEN scheme ELSE "garbage"]
    /\ overlapped' = (overlapped \/ Busy)
    /\ UNCHANGED <<driver, scheme>>

SetScheme(t, colour) ==
    /\ Goes(t, "saved", "tagged")
    /\ scheme' = IF driver = "vga" THEN colour ELSE scheme
    /\ UNCHANGED <<driver, buffer, overlapped>>

RestoreScheme(t) ==
    /\ Goes(t, "tagged", "idle")
    /\ scheme' = IF driver = "vga" THEN buffer[t] ELSE scheme
    /\ UNCHANGED <<driver, buffer, overlapped>>

\* graphic_set_selected_driver
SelectDriver(d) ==
    /\ d # driver /\ driver' = d /\ overlapped' = (overlapped \/ Busy)
    /\ UNCHANGED <<scheme, buffer, at>>

Init ==
    /\ driver = "uart" /\ scheme = "normal" /\ overlapped = FALSE
    /\ buffer = [t \in Thread |-> "garbage"] /\ at = [t \in Thread |-> "idle"]

Next ==
    \/ \E t \in Thread :
        \/ SaveScheme(t) \/ RestoreScheme(t) \/ \E c \in Tag : SetScheme(t, c)
    \/ \E d \in {"uart", "vga"} : SelectDriver(d)

Spec == Init /\ [][Next]_messageVars

--------------------------------------------------------------------------------
\* Without an overlap the colours come back when no message is being printed, and no
\* text of a message is in the colours of a tag. An overlap may leave the colours of
\* a tag, or those nobody saved, on the screen for ever.
ColoursComeBack ==
    ~overlapped => (scheme # "normal" => \E t \in Thread : at[t] = "tagged" /\ buffer[t] = "normal")
================================================================================
