SPECIFICATION Spec
CONSTANTS
    BlkSz = 3
    MaxBlks = 9
    Offs = {1, 2, 3}
    Keys = {k1, k2}
    Vals = {v1}
    LinkWords = {0, 2, 4}
    MaxTid = 7
INVARIANTS
    TypeOK
    EntriesLiveIfAligned
    ElemsTrackedIfAligned
PROPERTIES
    HistoryIsAppendOnly
CHECK_DEADLOCK FALSE
