\* Four events through files of two lines, four lines in all, batches of two
\* (OTLP) or one (WebSocket), one end of the process, retention by age; every
\* write succeeds.
CONSTANTS
    MaxEvent = 4
    MaxSecond = 0
    MaxFile = 2
    MaxTotal = 4
    MaxEvents = 0
    RemovesOpenFile = TRUE
    BatchSize = 2
    Modes <- BothModes
    DiskMayFail = FALSE
    MaxDeath = 1
SPECIFICATION Spec
INVARIANT Accounted
INVARIANT ResumeSkipsNothing
INVARIANT PendingIsRight
INVARIANT DiskIsBounded
INVARIANT NeverTwice
PROPERTY FirstInFirstOut
CHECK_DEADLOCK FALSE
