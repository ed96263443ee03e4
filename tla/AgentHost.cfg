\* Two processes, three starts by hand and one restart over three lock files,
\* three audit records of which two are torn; three changes of the agent's files; three
\* detections through a queue of one, two tools and two faults.
CONSTANTS
    p1 = p1
    p2 = p2
    None = None
    Procs <- TwoProcs
    Arguments <- AllArguments
    MaxInode = 3
    MaxStart = 3
    MaxRecord = 3
    MaxTear = 2
    MaxRestart = 1
    Unreadable = Unreadable
    Absent = Absent
    MaxChange = 3
    QueueSize = 1
    Policies <- TwoPolicies
    MaxDetection = 3
    MaxRun = 2
    MaxFault = 2
SPECIFICATION Spec
INVARIANT OneWriterOneChain
INVARIANT ProtectedIsLocal
INVARIANT OneLossPerFault
PROPERTY RestartComesBack
PROPERTY AlarmMeansChange
PROPERTY DetectionsLeave
CHECK_DEADLOCK FALSE
