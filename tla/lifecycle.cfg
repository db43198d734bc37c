SPECIFICATION Spec
CONSTANTS
    Restartable = TRUE
    Faults = {"unavailable", "noscreen", "inuse", "nolisten"}
    Unnoticed = FALSE
    Within = {"suspend"}
    MaxDepth = 2
    MaxMisses = 2
    MaxClients = 2
    MaxQueue = 3
INVARIANT StateMatches
PROPERTIES CloseReturns AwakeServes
CHECK_DEADLOCK FALSE
