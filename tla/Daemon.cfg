SPECIFICATION FairDaemon
CONSTANTS
 Workers = 2
 MaxPids = 3
 MaxSignals = 2
 MaxDeaths = 2
INVARIANTS GuardSound
PROPERTIES AllEnd
CHECK_DEADLOCK FALSE
