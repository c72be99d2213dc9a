SPECIFICATION ProgramSpec
CONSTANTS
    PAGE_SIZE = 20
    WORD = 2
    ADDR_MAX = 180
    STACK_SIZE = 40
    ARG_MAX = 24
    NStreams = 4
    LineMin = 3
    Names <- FiveNames
    HASH_BITS = 4
    HashOf <- FiveHashes
    InitElf <- OneSegment
    Programs <- AllPrograms
    Archives <- SomeArchives
    Args <- SomeArgs
    BLOCK = 3
    BootSpare = 8
    BootStack = 80
    StackMin = 100
    MaxFails = 1
    MaxLists = 2
    MaxLine = 5
INVARIANTS
    RunsItsImage
    StopsHaveCause
    ListsArchive
