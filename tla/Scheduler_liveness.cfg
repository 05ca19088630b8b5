SPECIFICATION FairSpec
CONSTANTS
    User = {u1}
    Idle = idle
    Init = init
    Null = NULL
    LowestPrio = 1
    MaxSleep = 2
    KeyMod = 2
    MaxCreate = 1
    SharedJoin = FALSE
PROPERTIES
    
    HighestPriorityRuns
