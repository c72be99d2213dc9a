SPECIFICATION IrqSpec
CONSTANTS
    Threads = {t1, t2, t3}
    Queues = {i1}
    Irqs = {i1}
    Nobody = Nobody
    MaxWait = 1
    Elapsed = {0, 2}
INVARIANTS
    IrqSound
    LatchedMeansNoWaiter
PROPERTIES
    WakeTellsWhy
    InterruptReachesUser
    IrqWaitEnds
