\* Two isolations on Windows, nothing fails and the agent does not restart.
CONSTANTS
    MaxIsolate = 2
    MaxDeath = 0
    Backends <- Windows
    MaxFailure = 0
SPECIFICATION Spec
INVARIANT StandsUntilItsEnd
CHECK_DEADLOCK FALSE
