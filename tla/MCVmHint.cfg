SPECIFICATION VmSpec
CONSTANTS
    Procs = {p1}
    ADDR_MAX = 5
    DefaultHint = 2
    Prots <- TwoProts
    SplitOverwrite = FALSE
    TightHint = TRUE
INVARIANT NoMapPanic
