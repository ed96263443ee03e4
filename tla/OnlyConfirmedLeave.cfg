\* The flush over the WebSocket, every write succeeds, the process may stop.
CONSTANTS
    MaxEvent = 3
    MaxSecond = 0
    MaxFile = 2
    MaxTotal = 3
    MaxEvents = 0
    RemovesOpenFile = TRUE
    BatchSize = 2
    Modes <- WebSocket
    DiskMayFail = FALSE
    MaxDeath = 1
SPECIFICATION Spec
INVARIANT OnlyConfirmedLeave
CHECK_DEADLOCK FALSE
