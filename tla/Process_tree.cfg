SPECIFICATION Spec
CONSTANTS
    p0 = p0
    p1 = p1
    p2 = p2
    p3 = p3
    t0 = t0
    t1 = t1
    t2 = t2
    t3 = t3
    t4 = t4
    Proc = {p0, p1, p2, p3}
    Main = p0
    Thread = {t0, t1, t2, t3, t4}
    First = t0
    MaxProcess = 4
    Null = NULL
    Freed = FREED
SYMMETRY FreeProcs
INVARIANTS
    ProcessTree
    
    KnownFailures
PROPERTIES
    ReleasedAfterExit
CHECK_DEADLOCK FALSE
