SPECIFICATION Spec
CHECK_DEADLOCK FALSE
CONSTANTS
    Procs = {p1, p2}
    First = p1
    PAGE_SIZE = 256
    FrameCount = 25
    SizeOf <- Sizes
    TABLE_ENTRY_COUNT = 2
    ADDR_MAX = 8
    DefaultHint = 3
    Ranges <- ThreeRanges
    Prots <- TwoProts
    Touched = {2, 3}
    Budgets <- Uses
    OverwriteCached = FALSE
INVARIANTS
    MemoryAccounted
    TablesMatchAreas
    ThreadTreesSound
PROPERTIES
    StopsForMemoryOnly
    ImplementsPrivateMemory
