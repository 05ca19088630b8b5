SPECIFICATION SemFairSpec
CONSTANTS
    Thread = {t1, t2, t3}
    InitLevel <- MinusOne
    Destroyers = {t3}
    MaxCalls = 2
    Nobody = NOBODY
INVARIANTS
    NoOverdraw
    WaitersReached
PROPERTIES
    OpenWakes
CHECK_DEADLOCK FALSE
