SPECIFICATION MCSpec
CONSTANTS
    N = 7
    SnMod = 16
    ExtMod = 64
    TsMod = 64
    WrapWindow = 3
    FirstSeq = 12
    FirstTs = 61
    TsStep = 2
    PerFrame = 2
    Tev = {2}
    Bad = {7}
    Empty = {6}
    Unknown = {5}
    Long = {3}
    MaxRq = 2
    Jitter = {4}
    JumpLimit = 4
    Interval = 1
    SockSize = 2
    MaxArrivals = 4
    MaxGap = 2
    MaxCalls = 3
    Memory = 28
    MaxQueue = 2
    MaxSources = 1
    MaxHands = 1
    MaxOps = 4
    Events = 3
    Short = {2}
INVARIANTS
    OrderInv
    NothingUnaccounted
    ReportInv
    BlockInv
    WireInNetworkOrder
    TevInv
CHECK_DEADLOCK FALSE
