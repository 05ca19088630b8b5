SPECIFICATION FairSpec
CONSTANTS
    t1 = t1
    t2 = t2
    t3 = t3
    NoElevation = NONE
    Nobody = NOBODY
    Thread = {t1, t2, t3}
    BasePrio <- DistinctPrio
    Flavours <- Plain
    Destroyers = {t3}
    MaxLocks = 1
PROPERTIES
    LockReturns
CHECK_DEADLOCK FALSE
