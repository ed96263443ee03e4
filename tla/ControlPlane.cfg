\* One command, everything else at its most hostile.
CONSTANTS
    MaxCmd = 1
    MaxSession = 2
    MaxBoot = 1
    MaxCrash = 1
    DedupMax = 1
    DiskMayFail = TRUE
    SendsSuspend = TRUE
    Heartbeats = TRUE
    LongRunning <- NoCommand
    Refusable <- FirstCommand
    Expiring <- FirstCommand
    Outcomes <- Succeeds
SPECIFICATION Spec
INVARIANTS
    TypeOK
    Justified
    EveryFutureHasItsCall
PROPERTIES
    NoStartAfterExpiry
    ImplementsContract
\* The sessions, restarts and commands of a behaviour run out.
CHECK_DEADLOCK FALSE
