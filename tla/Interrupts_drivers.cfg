SPECIFICATION Spec
CONSTANTS
    t1 = t1
    t2 = t2
    Thread = {t1, t2}
    Irq = {0, 2, 8}
    Remap <- PcRemap
    PIT = 0
    RTC = 8
INVARIANTS
    MasksFollowOwners
    LinesEnded
    NoPanic
PROPERTIES
    MainTimerTicks
CHECK_DEADLOCK FALSE
