SPECIFICATION LayersSpec
CONSTANTS
    Programs = {p1, p2}
    Users = {u1}
    MountMax = 1
    MaxMountFaults = 1
    Stacks <- SomeStacks
    FsOps <- SomeFsOps
    LowOps <- SomeLowOps
    MaxHeld = 1
    Ids = {i1, i2, i3}
    Names = {a, b}
    HiddenNames = {h}
    TreeThreads = {t1, t2}
    UsedKinds = {"attr", "open", "release", "dot", "lookup", "make", "create", "unlink", "rename", "exchange", "link"}
    MaxOps = 2
INVARIANTS
    AnsweredTruly  PathsChanged PathsHold 

    
CHECK_DEADLOCK FALSE
