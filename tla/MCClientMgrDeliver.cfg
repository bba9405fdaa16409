SPECIFICATION Spec
CONSTANTS
  MAX_CLIENT_NUM = 3
  MAX_SESSION_NUM = 5
  MAX_VIDEO_CHANNEL = 4
  CHS_PER_SESSION = 2
  chs = 4
  Conns = {c1, c2}
  VideoPorts <- GivenOrNot
  AudioPorts <- Given
  Garbage <- Unset
  TS_MOD = 1000
  MaxFaults = 0
  MaxSends = 0
  NULL = NULL
SYMMETRY Symmetry
INVARIANT DeliversExactly
CHECK_DEADLOCK FALSE
