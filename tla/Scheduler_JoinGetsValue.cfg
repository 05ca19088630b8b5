SPECIFICATION Spec
CONSTANTS
    User = {u1, u2}
    Idle = idle
    Init = init
    Null = NULL
    LowestPrio = 1
    MaxSleep = 1
    KeyMod = 3
    MaxCreate = 2
    SharedJoin = FALSE
PROPERTY JoinGetsValue
