CONSTANTS
  t1 = t1
  t2 = t2
  t3 = t3
  NULL = NULL
  Nodes = {t1, t2, t3}
  Orig <- MCOrig
  Owner <- MCOwner
  Periodic = {t2, t3}
  Sub = 2
  MaxNow = 6
  Socks = {s1, s2, s3}
  Size = 2
  MaxOps = 5
  CDsts = {"d1", "d2"}
  CKeys = {"k1", "k2"}
  OnDevice = {"k1"}
  CIds = {1, 2}
  BusyIds = {1}
  NoEnt = 0
  Nbrs = {"n1", "n2"}
  MaxChanges = 1
  SockRoom = 1
  p1 = p1
  p2 = p2
  Procs = {p1, p2}
  Fids = {f1}
  Flows = {w1}
  Unknown = Unknown
  MaxEvents = 2
  Subjects = {"list", "wheel", "cache", "netlink", "agent", "mixed", "clean"}
CHECK_DEADLOCK FALSE
SPECIFICATION MCSpec
INVARIANTS TypesOK TimersExact NotifiesTheLiving EntriesAccounted NetlinkSafe  FlowsSound
