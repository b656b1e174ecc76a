SPECIFICATION LiveSpec
CONSTANTS
    BlkSz = 3
    MaxBlks = 9
    Offs = {1, 2}
    k1 = k1
    k2 = k2
    Keys = {k1, k2}
    Vals = {v1}
    LinkWords = {0}
    MaxTid = 3
    BatchMax = 2
    KeyPrefixes = {}
    MaxLoop = 3
    MaxPings = 1
    MaxFaults = 0
    Workers = {w1}
    ReplRole = "slave"
    Joined = "yes"
    Faults = {}
    NoTracker = NoTracker
INVARIANTS
    InSyncIfAligned
PROPERTIES
    AnnouncedReachesSlave
CHECK_DEADLOCK FALSE
