SPECIFICATION Spec
CONSTANTS
  chs = 4
  CHS_PER_SESSION = 2
  refCh = 2
  PIPE_CAP = 2
  MaxFrames = 2
  SpuriousWakeups = TRUE
  InitMayFail = TRUE
  LateStart = FALSE
INVARIANTS FifoInv NoThreadOutlivesRtpExit
CHECK_DEADLOCK FALSE
