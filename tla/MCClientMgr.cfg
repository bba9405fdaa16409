SPECIFICATION Spec
CONSTANTS
  MAX_CLIENT_NUM = 2
  MAX_SESSION_NUM = 3
  MAX_VIDEO_CHANNEL = 1
  CHS_PER_SESSION = 1
  chs = 1
  Conns = {c1, c2}
  VideoPorts <- Given
  AudioPorts <- GivenOrNot
  Garbage <- AnyValue
  TS_MOD = 1000
  MaxFaults = 1
  MaxSends = 1
  NULL = NULL
SYMMETRY Symmetry
INVARIANTS NoSharedSession NoLeakedSession ServedUntilGone FreshTimeStamp DeliversExactly
PROPERTIES OthersUntouched
CHECK_DEADLOCK FALSE
