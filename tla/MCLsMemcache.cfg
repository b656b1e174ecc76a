SPECIFICATION Spec
CONSTANTS
    k1 = k1
    k2 = k2
    Keys = {k1, k2}
    Procs = {p1, p2}
    Requests <- MCRequests
    ValMax = 3
    HdrLen = 1
    ElemLen = 1
    TableLen = 1
    HeadLen = 2
    BlkLen = 1
    OtherMax = 4
    MemMax = 8
    MaxDelta = 1
    ULLMod = 4
    ULL_MAXLEN = 2
    MaxOps = 3
    MaxTime = 3
SYMMETRY ProcSymmetry
CHECK_DEADLOCK FALSE
INVARIANTS CasUnique Answered
PROPERTIES Implements SizeBounded
