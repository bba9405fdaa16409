SPECIFICATION Spec
CONSTANTS
  MAX_CLIENT_NUM = 3
  MAX_SESSION_NUM = 8
  MAX_VIDEO_CHANNEL = 2
  CHS_PER_SESSION = 1
  chs = 2
  Conns = {c1, c2}
  VideoPorts <- Given
  AudioPorts <- Given
  Garbage <- AnyValue
  TS_MOD = 1000
  MaxFaults = 1
  MaxSends = 0
  NULL = NULL
SYMMETRY Symmetry
INVARIANT NoSessionAfterRtpExit
CHECK_DEADLOCK FALSE
