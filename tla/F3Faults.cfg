SPECIFICATION Spec
CONSTANTS
    w = w
    Nodes = {w, r}
    Files = {f}
    Writer <- WriterIsW
    Readers <- RemoteReaders
    NoNode = NoNode
    NoPath = NoPath
    MaxLen = 2
    MaxSessions = 1
    MaxQueue = 2
    MaxFaults = 2
    ReadTimeout = 1
    ReadMax = 2
    InOrder = TRUE
    OtherFiles = FALSE
INVARIANT ReaderSeesWriterData
 
INVARIANT CopyIsPrefix
 
