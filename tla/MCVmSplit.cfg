SPECIFICATION VmSpec
CONSTANTS
    Procs = {p1}
    ADDR_MAX = 5
    DefaultHint = 2
    Prots <- TwoProts
    SplitOverwrite = TRUE
    TightHint = FALSE
INVARIANT NoMapPanic
