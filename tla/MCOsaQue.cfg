SPECIFICATION FairSpec
CONSTANTS
  Threads = {t1, t2, t3}
  Values = {v1, v2}
  len = 2
  NoValue = NoValue
INVARIANTS RingOK NoLostWakeup
PROPERTIES FifoSpec SleepersHaveReason
