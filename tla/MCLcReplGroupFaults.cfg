SPECIFICATION Spec
CONSTANTS
    n1 = n1
    n2 = n2
    Nodes = {n1, n2}
    Prio <- Distinct
    MaxEvents = 1
    MaxPings = 1
    FaultKinds = {"timeout", "restart"}
INVARIANTS KnownTidReached
PROPERTIES SettledStays
CHECK_DEADLOCK FALSE
