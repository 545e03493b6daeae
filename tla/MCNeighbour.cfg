SPECIFICATION MCSpec
CONSTANTS
    a1 = a1
    a2 = a2
    intThread = intThread
    macA = macA
    macB = macB
    none = none
    free = free
    Subjects = {"ETH", "IB"}
    Apps <- MCApps
    Creator = a1
    Int = intThread
    Transport = "ETH"
    L2s <- MCL2s
    NudStates <- MCNudEth
    Retries = 1
    MaxPackets = 1
    MaxNews = 1
    NoL2 = none
    Free = free
CHECK_DEADLOCK FALSE
INVARIANTS TypeOK NoLockCycle EntrySound
