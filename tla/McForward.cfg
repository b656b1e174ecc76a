SPECIFICATION FairSpec
CONSTANTS
    Clients = {c1, c2}
    Link = link
    MaxReqs = 1
CHECK_DEADLOCK FALSE
PROPERTIES RespWaitEnds
