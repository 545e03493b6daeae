CONSTANTS
  Peers = {p1, p2}
  MaxChildren = 2
  MaxPkts = 2
  Backlog = 1
  MaxSynRcvd = 2
  SeqSpace = 16
  ISS = 13
  Mss = 2
  SndBufMax = 4
  RcvWndMax = 4
  MaxRtx = 1
  Bytes = 4
  Writes = {2, 3}
  Reads = {2}
  MaxData = 2
  MaxAcks = 1
  MaxCwnd = 4
  Pb = {b1, b2, b3}
  Payloads <- MCPayloads
  SplitAt = 3
  MaxRef = 2
  NoPbuf = NoPbuf
  Lens = {1, 2}
  TcpWnd = 4
  SockMss = 1
  RcvBufs = {2, 5}
  SndBufs = {2}
  Reuse = 1
  MaxHeld = 2
  MaxDrift = 1
  Comp = 1
  Segs = 4
  SegSocks = {1}
SPECIFICATION MCSpec
INVARIANTS TypesOK ChildrenAreKept  WindowConserved ResourcesReturn 
CHECK_DEADLOCK FALSE
SYMMETRY Symmetry
