SPECIFICATION Spec
CONSTANTS
    Starters = {s1, s2, s3}
    NoStarter = NoStarter
    LockTries = 2
    MaxInodes = 4
    LogProcs = {"p", "q"}
    Roller = "p"
    RollingSize = 1
    KeepDays = 1
    MaxLogFiles = 4
    MaxLines = 4
    MaxDays = 3
    MaxPathChars = 6
    MaxComps = 3
    MAX_LINKS = 2
    PathProcs = {"p1", "p2"}
    ConfNodes = {"n1", "n2"}
    SlipNode = "n1"
    LbLists <- MCLbLists
    ListenAddrs <- MCListenAddrs
    Slips <- MCSlips
    CoreDirs <- MCCoreDirs
    AclBits = 3
    MaxRules4 = 4
    MaxRules6 = 3
    HtPrimes <- MCHtPrimes
    HtKeys <- MCHtKeys
    HtFold <- MCHtFold
    HtXXH <- MCHtXXH
    MaxHtElems = 3
    FlMax = 2
    SmBlkMax = 5
    SupBlk = 10
    GetTrys = 1
    BlkTrys = 2
    MaxSupBlks = 3
    MaxXOps = 5
    BlkSize = 2
    MaxBlks = 3
    MaxAnon = 5
    PoolKeep = 1
    BigTarget = 8
    MaxVmOps = 4
    AhoChars = {66, 97, 98}
    PatChars = {66, 97}
    MaxPatterns = 2
    MaxPatLen = 3
    MaxTextLen = 3
    MaxGlob = 4
    MaxText = 3
    MaxRule = 4
    SubstRoom = 5
    CacheSize = 2
    MaxTokens = 5
    DtYears = {1970, 1971, 1972, 1999, 2000, 2069, 2096, 2099}
    DtDays = {1, 28, 29, 30, 31}
    DtClocks <- MCDtClocks
    DtOffsets <- MCDtOffsets
    MaxBent = 1
INVARIANTS
    OneDaemonLogs PathsSound ConfSound AccessSound TablesSound MemorySound TextExact
CHECK_DEADLOCK FALSE
