\* Two commands, a window of one id, a restart of the server;
\* sends return at once.
CONSTANTS
    MaxCmd = 2
    MaxSession = 2
    MaxBoot = 0
    MaxCrash = 1
    DedupMax = 1
    DiskMayFail = FALSE
    SendsSuspend = FALSE
    Heartbeats = FALSE
    LongRunning <- FirstCommand
    Refusable <- SecondCommand
    Expiring <- NoCommand
    Outcomes <- Succeeds
SPECIFICATION Spec
INVARIANTS
    AtMostOncePerBoot
    NothingStranded
PROPERTIES
    NoRedispatch
\* The sessions, restarts and commands of a behaviour run out.
CHECK_DEADLOCK FALSE
