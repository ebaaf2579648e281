SPECIFICATION Spec
CONSTANTS
    w = w
    Nodes = {w, r}
    Files = {f, g}
    Writer <- WriterIsW
    Readers <- RemoteReaders
    NoNode = NoNode
    NoPath = NoPath
    MaxLen = 1
    MaxSessions = 1
    MaxQueue = 1
    MaxFaults = 0
    ReadTimeout = 0
    ReadMax = 0
    InOrder = TRUE
    OtherFiles = FALSE
INVARIANT AckMeansComplete
SYMMETRY Symmetry
