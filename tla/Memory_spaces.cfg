SPECIFICATION Spec
CONSTANTS
    p0 = p0
    p1 = p1
    None = NONE
    Proc = {p0, p1}
    Main = p0
    MemMap <- SmallMap
    MemStart = 1
    KernelEnd = 3
    FrameLimit = 15
    HwRegions <- Device
    NbTables = 2
    TableSize = 3
    KStackPages = 1
    StackPages = 1
    Requests <- OnePage
    Value = {0, 1}
    MaxTid = 4
    MaxWritten = 1
INVARIANTS
    RefsExact
    FreeListsSound
    KnownPanics

    
CHECK_DEADLOCK FALSE
