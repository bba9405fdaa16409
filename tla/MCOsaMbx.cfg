SPECIFICATION FairSpec
CONSTANTS
  main = main
  pseq = pseq
  pst = pst
  Tasks <- TaskSet
  Mains <- MainSet
  Below <- Hierarchy
  Cmds = {c1, c2}
  OSA_MSGQ_LEN_MAX = 1
  NumMsgs = 4
  MaxCalls = 3
  NoMsg = NoMsg
INVARIANTS HeapInv AckInv
PROPERTY CallsReturn
CHECK_DEADLOCK FALSE
