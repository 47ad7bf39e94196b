\* The cache is behind by up to two versions; the list of actions is edited.
SPECIFICATION Spec
CONSTANTS
    a = a
    b = b
    None = None
    NoRun = NoRun
    Action = {a, b}
    ActionLists <- EditedLists
    Delayed = {}
    TriggerId = {}
    TimedTrigger = {}
    DegradedAfter = 1
    HistoryCap = 2
    CacheLag = 2
    ReadsOwnWrites = FALSE
    WatchesConfigMaps = TRUE
    MaxRuns = 1
    MaxUserOps = 4
    MaxFaults = 1
INVARIANTS
    FinalizerGuardsTokens
    UniqueTokens
    PanicIsDrained
\* The system stops once the object is gone, or idle with no request left.
CHECK_DEADLOCK FALSE
