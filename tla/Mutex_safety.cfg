SPECIFICATION Spec
CONSTANTS
    t1 = t1
    t2 = t2
    t3 = t3
    NoElevation = NONE
    Nobody = NOBODY
    Thread = {t1, t2, t3}
    BasePrio <- DistinctPrio
    Flavours <- SomeFlavours
    Destroyers = {}
    MaxLocks = 2
INVARIANTS
    MutualExclusion
    WaitersCovered
    PriorityRestored
    MutexInv
CHECK_DEADLOCK FALSE
