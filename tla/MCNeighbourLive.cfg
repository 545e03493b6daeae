SPECIFICATION EntryFairSpec
CONSTANTS
    a1 = a1
    a2 = a2
    intThread = intThread
    macA = macA
    macB = macB
    none = none
    free = free
    Subjects = {"IB"}
    Apps <- MCOneApp
    Creator = a1
    Int = intThread
    Transport = "IB"
    L2s <- MCL2s
    NudStates <- MCNudAll
    Retries = 1
    MaxPackets = 1
    MaxNews = 1
    NoL2 = none
    Free = free
CHECK_DEADLOCK FALSE
PROPERTIES EntrySettles
