\* One action; users may repeat its name in the list.
SPECIFICATION FairSpec
CONSTANTS
    a = a
    b = b
    None = None
    NoRun = NoRun
    Action = {a}
    ActionLists <- OneActionOrTwice
    Delayed = {}
    TriggerId = {t1}
    TimedTrigger = {"enabled", "manual"}
    DegradedAfter = 1
    HistoryCap = 2
    CacheLag = 1
    ReadsOwnWrites = TRUE
    WatchesConfigMaps = FALSE
    MaxRuns = 5
    MaxUserOps = 3
    MaxFaults = 1
PROPERTIES
    SwitchedOffIsRestored
    DeletionCompletes
    ExpiredRunEnds
\* The system stops once the object is gone, or idle with no request left.
CHECK_DEADLOCK FALSE
