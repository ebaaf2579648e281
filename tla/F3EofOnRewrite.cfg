SPECIFICATION Spec
CONSTANTS
    w = w
    Nodes = {w, r}
    Files = {f}
    Writer <- WriterIsW
    Readers <- RemoteReaders
    NoNode = NoNode
    NoPath = NoPath
    MaxLen = 1
    MaxSessions = 2
    MaxQueue = 1
    MaxFaults = 0
    ReadTimeout = 0
    ReadMax = 0
    InOrder = TRUE
    OtherFiles = FALSE
PROPERTY EofAfterLastClose
