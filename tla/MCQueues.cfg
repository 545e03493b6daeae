CONSTANTS
  Blocks = 16
  Credits = 3
  CtrSpace = 32
  TxMaxInline = 51
  DataLens = {51, 52}
  SqBufs = {1, 2, 3, 4}
  SignalEvery = 2
  MaxDowns = 1
  RxWre = 2
  TxWre = 2
  PostNum = 2
  Level = 1
  KeepFull = FALSE
  PollMax = 2
  WceMax = 2
  IndexSpace = 4
  RxBufs = {1, 2, 3, 4, 5}
  MaxUps = 1
  DmSize = 10
  DmAlign = 2
  DmLens = {1, 4, 5}
  MaxPosts = 4
  Requests <- MCRequests
  NetLen = 2
  Caps <- MCCaps
  MaxWqes = 3
  Asks <- MCAsks
  Faults = {"bad", "big", "error"}
  CbPackets = 6
  Objects = {"s1", "s2", "r1", "e1"}
  KindOf <- MCKindOf
  Slots <- MCSlots
  MaxAlive = 1
  Groups = {"g1"}
  McTableSize = 1
  Readers = {"r"}
  Options <- MCOptions
  Duration = 1
  Interval = 2
  MaxCount = 1
  MaxCycles = 2
  MaxRequests = 2
  NoObject = "none"
  LifeThreads = {"t1", "t2"}
  MainThread = "t1"
  LifeSockets = {1}
  HandleFork = TRUE
  SigActs = {"handler"}
  MaxCtorFails = 1
SPECIFICATION MCSpec
INVARIANTS TypesOK  
CHECK_DEADLOCK FALSE
