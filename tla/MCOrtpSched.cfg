SPECIFICATION MCSpec
CONSTANTS
    s1 = s1
    s2 = s2
    Sessions = {s1, s2}
    Senders = {s1, s2}
    MaxSessions = 2
    TimeMod = 16
    TsMod = 16
    TsPerTime = 2
    TimerInc = 1
    LongAfter = 14
    FirstTs = 13
    TsSteps = {5}
    MaxCalls = 2
    MaxTicks = 3
    LastCall = 1
    LateDestroy = FALSE
    Idle = Idle
INVARIANTS
    ListInv
    NotBeforeTime
PROPERTIES
    CallsPaced
    SelectSees
CHECK_DEADLOCK FALSE
