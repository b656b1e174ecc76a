SPECIFICATION Spec
CONSTANTS
    PageUnits = 4
    MaxBckt = 3
    MaxSlot = 2
    LargeUnits = 16
    GrowUnits = 8
    MaxFile = 40
    Sizes = {1, 3, 12}
    MaxHeld = 2
    Keys = {1, 2, 7}
    HashKey <- MCHashKey
    Offs = {11, 12, 13}
    PrimeList <- MCPrimes
    InitSize = 2
    MinBitmap = 4
    MaxTime = 2
    MaxOpens = 5
    NumLocks = 8
    Procs = {p1, p2, p3}
    NoProc = NoProc
    Addrs = {1, 2, 3, 6, 7, 11, 12, 16, 17, 21}
    TableSize = 5
    RoundSize <- MCRound
    MaxPages = 4
    Workers = {p1, p2}
    Hashes = {h1, h2}
    Nobody = Nobody
    FirstPages = 2
    ExpandPages = 1
    MaxShmPages = 4
    RebuildGap = 1
    MaxMapDeaths = 2
    McConns = {c1, c2}
    McUsers = {"u1", "u2"}
    NoUser = "none"
    McKeys = {"k1"}
    SliceCnt = 2
    HashOf <- MCHashOf
    Pwdb <- MCPwdb
    CasOptions = {TRUE}
    MaxMcCmds = 4
    MainProc = m0
    NameWorkers = {p1, p2}
    NameUsers = {"u1"}
    DefaultHash = "hash"
    NameLocks = 4
    MaxTables = 3
    MaxRefs = 2
    MaxNameDeaths = 2
INVARIANTS
    PoolSound Findable LruOrdered FileSound ViewsSound NamesSound
CHECK_DEADLOCK FALSE
