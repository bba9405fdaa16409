SPECIFICATION FairSpec
CONSTANTS
  chs = 4
  CHS_PER_SESSION = 2
  refCh = 2
  PIPE_CAP = 8
  MaxFrames = 2
  SpuriousWakeups = FALSE
  InitMayFail = FALSE
  LateStart = FALSE
INVARIANTS InitBarrier FrameIntact
PROPERTIES LifeSpec ShutdownCompletes
