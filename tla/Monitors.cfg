\* Eleven watchers of three places, of which two are listed, with an event a tick and one
\* fault; six log loops over four lines in two channels, one event a tick, one failed read; six
\* loops over levels of two subjects, a cooldown of two ticks and one response that raises.
CONSTANTS
    Limit = 2
    Interfaces <- OneInterface
    RunValues <- TwoRunValues
    Timers <- TheTimer
    Explicit <- TheFile
    Watched <- AllWatchers
    Places = {1, 2, 3}
    Cap = 1
    MaxFault = 1
    NoBaseline = NoBaseline
    Logs <- AllLogs
    Channels = {1, 2}
    Most = 1
    SeenMax = 3
    MaxLine = 4
    MaxBlind = 1
    Levels <- AllLevels
    Subjects = {1, 2}
    Cooldown = 2
    CapPerTick = 2
    MinScore = 70
    MaxAbort = 1
SPECIFICATION Spec
INVARIANT EventsTellTheBaseline
INVARIANT ReportedOnce
INVARIANT NewestFirstIsNews
INVARIANT LevelIsTold
INVARIANT SilenceIsExplained
PROPERTY AlarmsAreTrue
 
PROPERTY LastingFindingIsHeard
CHECK_DEADLOCK FALSE
