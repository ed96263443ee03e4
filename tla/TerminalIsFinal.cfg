CONSTANTS
    MaxCmd = 1
    MaxSession = 2
    MaxBoot = 0
    MaxCrash = 0
    DedupMax = 1
    DiskMayFail = FALSE
    SendsSuspend = FALSE
    Heartbeats = TRUE
    LongRunning <- NoCommand
    Refusable <- NoCommand
    Expiring <- FirstCommand
    Outcomes <- Succeeds
SPECIFICATION FairSpec
PROPERTY
    TerminalIsFinal
CHECK_DEADLOCK FALSE
