SPECIFICATION PartsSpec
CONSTANTS
    FileNames = {a, b, c}
    IdNames = {a, b}
    MaxFails = 1
    MaxRemote = 1
    MaxRequests = 3
    Crossing = FALSE
    DirNames = {d1, d2}
    IdDirNames = {d1}
    Numbers = {i1, i2}
    Objects = {o1, o2, o3}
    LoopThreads = {t1, t2}
    MaxCalls = 5
    Targets = {p1, p2}
    MaxCount = 4
    MaxFailures = 3
    Failures = {"mounted", "start", "bind", "exit", "answer"}
    Page = 2
    MaxMaxPages = 4
    DefaultMaxPages = 2
    Majors = {6, 7, 8}
    Minors = {4, 8, 13, 17, 31}
    Offers <- SomeOffers
    Retrieves = {r1}
    NodeIds = {1, 2, 3, 4}
    MinSize = 2
    SlabNodes = 2
    SlabPages = {s1, s2}
    MaxShrinks = 1
    PipeRequests = 3
    PipeData = 2
    ReplyLen = 3
    MaxPipeFaults = 3
    SourceVecs <- Sources
    DestVecs <- Dests
    CopyFlags = {"none", "no_splice", "force"}
    TmpSize = 2
    Owners = {u1, u2}
    LastByte = 3
    Names = 3
    Sizes = {1, 2}
    MaxReads = 3
    MaxTurns = 1
    GivenOpts = {"-d", "-r", "-x", "ro", "rw", "noexec", "auto_cache", "noauto_cache", "fsname=", "allow_root",
        "auto_unmount", "context=", "bogus", "readdirplus=no", "readdirplus=yes", "readdirplus=auto",
        "splice_read", "no_splice_read", "no_remote_lock"}
    MaxArgs = 3
    OptTexts <- SomeOptTexts
    Words <- SomeWords
    ConfFiles <- SomeConfFiles
    ConfBuffer = 3
    Paths <- SomePaths
    LoNames = {1, 2}
    LoFiles = {1, 2}
    LoInodes = {1, 2}
    LoThreads = {1, 2}
    LoOps <- SomeLoOps
    MaxLoCalls = 3
    MaxLoFaults = 1
    PtPrograms = {"passthrough", "passthrough_fh", "passthrough_hp", "f3"}
    MaxHandles = 2
    PtSizes = {0, 1}
INVARIANTS
    SecondTreeFollows LocalMirrors 
    KernelInodesAlive OpenKeepsDescriptor 
    DriverKept CountCovers 
     CleanEnd NodesExact AnsweredWhole CopyExact  ListingComplete
    OptionsReach TextKept CountsExact NothingKept SetattrSeen
CHECK_DEADLOCK FALSE
