SPECIFICATION PartsSpec
CONSTANTS
    Node = {n1, n2, n3}
    Queue = {q1, q2}
    Null = NULL
    MaxKey = 1
    MaxSize = 3
    k1 = k1
    k2 = k2
    k3 = k3
    u1 = u1
    u2 = u2
    s1 = s1
    s2 = s2
    c0 = c0
    c1 = c1
    Unset = Unset
INVARIANTS
    
    
    ReadsExact
    LibraryExact
    OutputSound
    MachineSound
PROPERTIES
    ImplementsSequences
    
    
    ContextsKept
CHECK_DEADLOCK FALSE
