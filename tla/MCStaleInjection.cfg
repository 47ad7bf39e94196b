\* One action; a pass may start from a version older than its last write.
SPECIFICATION Spec
CONSTANTS
    a = a
    b = b
    None = None
    NoRun = NoRun
    Action = {a}
    ActionLists <- OneAction
    Delayed = {}
    TriggerId = {t1}
    TimedTrigger = {"enabled"}
    DegradedAfter = 1
    HistoryCap = 2
    CacheLag = 1
    ReadsOwnWrites = FALSE
    WatchesConfigMaps = FALSE
    MaxRuns = 4
    MaxUserOps = 3
    MaxFaults = 0
PROPERTIES
    InjectsOnlyRecorded
\* The system stops once the object is gone, or idle with no request left.
CHECK_DEADLOCK FALSE
