SPECIFICATION Spec
CONSTANTS
    User = {u1, u2}
    Idle = idle
    Init = init
    Null = NULL
    LowestPrio = 1
    MaxSleep = 2
    KeyMod = 2
    MaxCreate = 2
    SharedJoin = FALSE
SYMMETRY UserSymmetry
INVARIANTS
    IdleAvailable
    QueuesMatchStates
    SleepsLongEnough
    JoinReturnsAfterExit
    SchedInv
PROPERTIES
    ReleasedOnlyWhenDead
