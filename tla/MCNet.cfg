SPECIFICATION Spec
CONSTANTS
    Reactors = {r1, r2}
    NoReactor = NoReactor
    MaxFd = 2
    ResultMax = 2
    MaxAdds = 3
    PollReactors = {r1, r2, r3}
    NoPollReactor = NoReactor
    PollCapacity = 1
    PollStore = 4
    MaxPollAdds = 5
    CbSessions = {"s1", "s2"}
    NoSession = "none"
    CbNodes = 3
    MaxCallbacks = 4
    CnRoom = 2
    CnOutLimit = 2
    MaxCnCmds = 4
    LoopBufUnit = 4
    NoByte <- MCNoByte
    ConnBufSize = 1
    ReadSize = 2
    SockRoom = 2
    HdrLen = 2
    PackLen = 3
    MaxSockets = 2
    MaxPacks = 3
    CachedProcCnt = 2
    UsockSlices = {1, 2}
    UsockRoom = 3
    MaxUsockMsgs = 2
    MaxUsockExits = 1
    NodeOrder <- MCNodeOrder
    SelfNode = "s"
    ContIds = {1, 2}
    AckCacheEntries = 2
    SeqWrap = 6
    MaxChanges = 3
    MaxReports = 2
    MaxConnOps = 3
    ByteMod = 4
    WireTids = {0, 6}
    WireSlices = {1, 2}
    WireIps = {1, 6}
    WirePorts = {5, 14}
    WireVals = {1, 6}
    MaxPacketSize = 36
    MaxWireOps = 5
    Conts = {1, 2}
    AuditKeys = {"k1", "k2"}
    FreqTm = 1
    FReplInt = 1
    AuditRoom = 2
    MaxTm = 5
    MaxTouch = 1
    ReqHeader = 2
    ReqBodies = {0, 2}
    MaxBody = 2
    MaxFetches = 2
INVARIANTS
    EventsReachOwner CallbacksRun ClientServed LinkSound WorkersTold PeersTracked AuditComplete FetchSound
PROPERTIES TransferMovesOn
CHECK_DEADLOCK FALSE
