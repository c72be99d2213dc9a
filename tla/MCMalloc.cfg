SPECIFICATION MallocSpec
CONSTANTS
    SIZE_T = 65536
    TREEBIN_SHIFT = 6
    PAGE_SIZE = 256
    Arena <- ArenaPages
    DEFAULT_GRANULARITY = 512
    DEFAULT_MMAP_THRESHOLD = 400
    DEFAULT_TRIM_THRESHOLD = 300
    MAX_RELEASE_CHECK_RATE = 2
    Requests <- SomeRequests
    Alignments = {64}
    Groups <- SomeGroups
    Callocs <- SomeCallocs
    CALLOC_SAFE = 256
    Limits = {0, 1000}
    Options <- SomeOptions
    Warmups <- SomeWarmups
    MaxLive = 12
CHECK_DEADLOCK FALSE
INVARIANTS
    MallocStateOK
    BlocksHaveChunks
    FootprintExact
PROPERTIES
    FailsOnlyWhenFull
    ImplementsHeap
