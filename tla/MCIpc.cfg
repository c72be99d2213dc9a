SPECIFICATION IpcSpec
CONSTANTS
    Threads = {t1, t2, t3}
    Queues = {1}
    Nobody = Nobody
    MaxWait = 1
    Elapsed = {0}
    ChannelCount = 1
    TransferMap <- OneChannel
    PathMax = 2
    MaxLen = 2
    Requests <- SomeRequests
    Buffers = {0, 1, 2}
    Faults = {"read", "write"}
    RespondFirst = TRUE
INVARIANTS
    IpcSound
    CallingHasOneServer
    ChannelTellsWhoWaits
    NoCallCycle
PROPERTIES
    DeliveryFits
    CallEndsTellWhy
    ImplementsRpc
