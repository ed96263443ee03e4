\* Three events over OTLP, three lines and two events on the disk, one write that fails
\* and one end of the process.
CONSTANTS
    MaxEvent = 3
    MaxSecond = 0
    MaxFile = 2
    MaxTotal = 3
    MaxEvents = 2
    RemovesOpenFile = TRUE
    BatchSize = 2
    Modes <- DataPlane
    DiskMayFail = TRUE
    MaxDeath = 1
SPECIFICATION FairSpec
INVARIANT Accounted
PROPERTY Drains
CHECK_DEADLOCK FALSE
