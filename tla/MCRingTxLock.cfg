CONSTANTS
  t1 = t1
  t2 = t2
  Threads = {t1, t2}
  RxNumWr = 4
  PostBatch = 2
  CompLevel = 2
  PollBatch = 2
  MaxBatch = 2
  WceMax = 2
  ReuseBatch = 1
  RcvBuf = 2
  Configs <- MCOneConfig
  Traffic <- MCTwoSockets
  MaxEvents = 4
  StopCost = 2
  s1 = s1
  s2 = s2
  Subjects = {"tx"}
  TxThreads = {s1, s2}
  NTxBufs = 3
  NumWr = 3
  ToSignal = 2
  Compensate = 1
  Kinds <- MCBlocking
  MaxSends = 4
  MaxUpsets = 1
SPECIFICATION MCSpec
INVARIANTS NoLockCycle
CHECK_DEADLOCK FALSE
