SPECIFICATION FairSpec
CONSTANTS
    w = w
    Nodes = {w, r}
    Files = {f}
    Writer <- WriterIsW
    Readers <- RemoteReaders
    NoNode = NoNode
    NoPath = NoPath
    MaxLen = 2
    MaxSessions = 1
    MaxQueue = 1
    MaxFaults = 0
    ReadTimeout = 1
    ReadMax = 1
    InOrder = TRUE
    OtherFiles = TRUE
 
PROPERTY RequestsEnd
