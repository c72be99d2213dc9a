SPECIFICATION TtySpec
CONSTANTS
    Client = client
    Reader = reader
    Writer = writer
    Threads = {client, reader, writer}
    Line = irq4
    Irqs = {irq4}
    Queues = {1, 2, irq4}
    Nobody = Nobody
    MaxWait = 1
    Elapsed = {0}
    ChannelCount = 2
    TransferMap <- ReadWriteMap
    PathMax = 1
    MaxLen = 2
    Requests = {}
    Buffers = {}
    Faults = {}
    RespondFirst = FALSE
    ReadLen = 2
    AckWait = 1
    RxMax = 1
INVARIANTS
    ServersKeepProtocol
PROPERTIES
    ReadReturns
