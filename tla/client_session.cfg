SPECIFICATION Spec
CONSTANTS
    Restartable = TRUE
    Heartbeats = {TRUE}
    Unnoticed = FALSE
    Secure = TRUE
    MaxFaults = 2
    MaxRestarts = 2
    MaxWire = 2
INVARIANTS SessionInv NothingUnread
PROPERTIES Reconnects SilenceNoticed
