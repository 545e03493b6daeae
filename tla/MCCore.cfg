CONSTANTS
  t1 = t1
  h1 = h1
  h2 = h2
  Threads = {t1}
  Handlers = {h1, h2}
  OneShot = {h1}
  Grouped = {h2}
  MaxPosts = 2
  LThreads = {"u1", "u2", "u3"}
  NoOwner = "none"
  MaxNest = 3
  Keys = {0, 1, 3}
  Values = {v1, v2, v3, v4}
  Size = 3
  NULL = NULL
SPECIFICATION MCFairSpec
INVARIANTS TypeOK NoLostWakeup NoLostStop NoCallAfterDelete RecursiveExclusion NoLeakNoDoubleFree
PROPERTIES Implements CallersAreServed
