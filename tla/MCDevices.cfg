CONSTANTS
  Users = {u1, u2}
  RingKeys <- MCRingKeys
  Slaves = {1, 2}
  RingLimits = {0, 1}
  Pollers = {p1}
  FastTicks = 2
  MaxEvents = 1
  IfList <- MCIfList
  HasCtx = {"eth1", "eth2", "eth10", "vf"}
  NameIn <- MCNameIn
  IpoibOn = TRUE
  Datagram = {"ib0"}
  NumRings = 3
  TxPool = 1
  Senders = {s1}
  Lag = TRUE
  MaxRestarts = 1
  MaxTapPackets = 1
  Devs = {"e1", "e2"}
  Gws = {"g1"}
  RKeys = {1, 2}
  Macs = {1}
  DThreads = {"t1"}
  Batch = 2
  MaxEnv = 2
  FsThreads = {th1, th2}
  FsSocks = {so1, so2}
  KindOf <- MCKindOf
  Wild <- MCWild
  GroupOf <- MCGroupOf
  TagOn = TRUE
  McReuse = {so1, so2}
  RxBufs = {b1, b2}
  MaxFails = 1
  MaxRx = 1
  MaxJoins = 1
  Attachable = {"m1", "m2", "l"}
  FsNone = FsNone
  GroFlows = {f1, f2}
  StreamMax = 1
  BufMax = 2
  PollBatch = 3
  MaxSegs = 3
  MaxSeq = 3
SPECIFICATION MCSpec
INVARIANTS TypesOK  
CHECK_DEADLOCK FALSE
SYMMETRY Symmetry
