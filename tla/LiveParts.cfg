SPECIFICATION LivePartsSpec
CONSTANTS
    Workers = {w1, w2, w3}
    MaxIdle = 1
    MaxMessages = 2
    MaxTroubles = 1
    Reqs = {r1, r2, r3}
    Threads = {h1, h2}
    Programs = {p1}
    Users = {u1}
    MountMax = 1
    MaxMountFaults = 1
    LifePrograms = {"fuse_main_real", "invalidate_path", "cuse", "hello_ll", "passthrough_ll",
        "notify_inval_entry", "notify_inval_inode", "notify_store_retrieve"}
    MaxLifeFaults = 2
INVARIANTS
    ReceiverLeft FunctionDataAlive TakenDownOnce
PROPERTIES
    LoopReturns AutoUnmounted
CHECK_DEADLOCK FALSE
