CONSTANTS
  NoRing = NoRing
  Offloaded = {"e1"}
  Others = {"e2"}
  RouteIf = "e1"
  Peers = {"p1"}
  OsPeers = {}
  Groups = {"g1", "g2"}
  IfOf <- MCIfOf
  MaxMembers = 1
  MaxSources = 1
  MaxPending = 1
  MaxCalls = 1
  MaxSkew = 1
  AnyAddr = "any"
  Readers = {r1, r2}
  Sizes = {1, 2}
  Limits = {3}
  Rooms = {1}
  Ratio = 1
  ReuseNum = 1
  MaxArrivals = 2
  MaxOs = 1
  MaxRecvs = 1
  Threads = {t1, t2}
  FdSpace = {1, 2}
  MaxFiles = 3
  Calls = {"tcp", "epoll", "dup2"}
  CloseOnDup2 = TRUE
  OffloadRule = TRUE
  Socks = {s1, s2}
  Foreign = {}
  Waiters = {w1}
  Masks <- MCMasks
  MaxSize = 2
  MaxChanges = 3
  MaxPackets = 1
  MaxWaits = 1
  Burst = 2
  MaxWrites = 4
  PipeRoom = 2
  Width = 2
  Ids <- MCIds
  AppId = "a"
  Tuples <- MCTuples
  Targets = {"OS", "VMA"}
  RoleSet = {"tcp_server", "tcp_client"}
  EndPoints <- MCEndPoints
  MaxRules = 2
  MaxInst = 2
SPECIFICATION MCSpec
INVARIANTS TypesOK  
CHECK_DEADLOCK FALSE
SYMMETRY Symmetry
