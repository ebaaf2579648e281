SPECIFICATION FairSpec
CONSTANTS
    w = w
    Nodes = {w, r, r2}
    Files = {f}
    Writer <- WriterIsW
    Readers <- RemoteReaders
    NoNode = NoNode
    NoPath = NoPath
    MaxLen = 0
    MaxSessions = 1
    MaxQueue = 1
    MaxFaults = 0
    ReadTimeout = 0
    ReadMax = 0
    InOrder = TRUE
    OtherFiles = FALSE
PROPERTY DownloadsFinish
