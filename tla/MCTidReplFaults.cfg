SPECIFICATION Spec
CONSTANTS
    BlkSz = 2
    MaxBlks = 9
    Offs = {1, 2}
    k1 = k1
    k2 = k2
    Keys = {k1, k2}
    Vals = {v1}
    LinkWords = {0}
    MaxTid = 2
    BatchMax = 2
    KeyPrefixes = {}
    MaxLoop = 1
    MaxPings = 1
    MaxFaults = 1
    Workers = {w1}
    ReplRole = "slave"
    Joined = "no"
    Faults = {"disconnect", "worker_exit", "slave_full"}
    NoTracker = NoTracker
SYMMETRY Symmetry
INVARIANTS
    SameTransaction
    SlaveEntriesLive
CHECK_DEADLOCK FALSE
