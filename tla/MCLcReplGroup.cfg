SPECIFICATION FairSpec
CONSTANTS
    n1 = n1
    n2 = n2
    Nodes = {n1, n2}
    Prio <- Distinct
    MaxEvents = 0
    MaxPings = 2
    FaultKinds = {}
PROPERTIES Converges FlipEnds
CHECK_DEADLOCK FALSE
