SPECIFICATION Spec
CONSTANTS
  SemThreads = {t1, t2, t3, t4}
  SemMax = 2
  SemInit = 3
  FlgWaiters = {w1}
  FlgBits = {b1, b2, b3}
  NumBuf = 3
  Writers = {p1, p2}
  Readers = {r1, r2}
  OSA_BUF_ID_INVALID = OSA_BUF_ID_INVALID
  Servers = {s1, s2}
  Clients = {c1, c2}
  SemMaxVal = 1
  MaxIds = 5
  MaxRuns = 3
INVARIANTS SemInv FlgInv BufOnePlace IpcInv
PROPERTY BufReturns
CHECK_DEADLOCK FALSE
