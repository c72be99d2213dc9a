SPECIFICATION VmSpec
SYMMETRY Symmetry
CONSTANTS
    Procs = {p1, p2}
    ADDR_MAX = 4
    DefaultHint = 2
    Prots <- TwoProts
    SplitOverwrite = FALSE
    TightHint = FALSE
INVARIANTS
    AreasOrdered
    PagesMatchAreas
PROPERTY ImplementsAddressSpace
