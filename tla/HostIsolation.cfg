\* Three isolations and any restores, one end of the process or reboot, one
\* firewall call or write that fails, both firewalls.
CONSTANTS
    MaxIsolate = 3
    MaxDeath = 1
    Backends <- LinuxAndWindows
    MaxFailure = 1
SPECIFICATION FairSpec
INVARIANT ManagerStaysReachable
INVARIANT NothingForgotten
PROPERTY TimedIsolationEnds
CHECK_DEADLOCK FALSE
