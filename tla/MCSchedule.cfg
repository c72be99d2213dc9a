SPECIFICATION SchedSpec
CONSTANTS
    Threads = {t1, t2, t3}
    Queues = {}
    Nobody = Nobody
    MaxWait = 2
    Elapsed = {0, 1, 3}
INVARIANTS
    TypeOK
    NoPanic
    QueuesMatchStates
PROPERTIES
    NoOversleep
    NoEarlyWake
    RunQueueFifo
    ReadyRuns
    SleepEnds
