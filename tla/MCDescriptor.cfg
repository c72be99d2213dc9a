SPECIFICATION DescriptorSpec
SYMMETRY Symmetry
CONSTANTS
    Procs = {p1, p2}
    Handles = {irq4, ipc}
    Irqs = {irq4}
    NoHandle = NoHandle
    L0 = 1
    L1 = 2
    L1L0 = 2
    MaxRefs = 2
INVARIANTS
    HandlesMatchDescriptors
    ReturnedFdFinds
