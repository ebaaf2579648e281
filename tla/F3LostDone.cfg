SPECIFICATION FairSpec
CONSTANTS
    w = w
    Nodes = {w, r}
    Files = {f}
    Writer <- WriterIsW
    Readers <- RemoteReaders
    NoNode = NoNode
    NoPath = NoPath
    MaxLen = 1
    MaxSessions = 1
    MaxQueue = 2
    MaxFaults = 0
    ReadTimeout = 0
    ReadMax = 0
    InOrder = TRUE
    OtherFiles = TRUE
PROPERTY ServerLearnsDone
