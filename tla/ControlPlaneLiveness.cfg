CONSTANTS
    MaxCmd = 1
    MaxSession = 2
    MaxBoot = 0
    MaxCrash = 0
    DedupMax = 1
    DiskMayFail = FALSE
    SendsSuspend = TRUE
    Heartbeats = FALSE
    LongRunning <- NoCommand
    Refusable <- NoCommand
    Expiring <- FirstCommand
    Outcomes <- Succeeds
SPECIFICATION FairSpec
PROPERTIES
    EveryCallReturns
    QueueDrains
    SentIsDecided
\* The sessions and commands of a behaviour run out.
CHECK_DEADLOCK FALSE
