CONSTANTS
  t1 = t1
  t2 = t2
  Threads = {t1}
  RxNumWr = 5
  PostBatch = 2
  CompLevel = 2
  PollBatch = 2
  MaxBatch = 2
  WceMax = 2
  ReuseBatch = 1
  RcvBuf = 2
  Configs <- MCConfigs
  Traffic <- MCTraffic
  MaxEvents = 4
  StopCost = 2
  s1 = s1
  s2 = s2
  Subjects = {"rx", "tx"}
  TxThreads = {s1, s2}
  NTxBufs = 3
  NumWr = 2
  ToSignal = 2
  Compensate = 1
  Kinds <- MCKinds
  MaxSends = 3
  MaxUpsets = 2
SPECIFICATION MCSpec
INVARIANTS TypesOK ReceiveExact SleeperIsServed SendAccounted
SYMMETRY MCSymmetry
CHECK_DEADLOCK FALSE
