\* Two actions, one delayed; passes see their own status writes.
SPECIFICATION Spec
CONSTANTS
    a = a
    b = b
    None = None
    NoRun = NoRun
    Action = {a, b}
    ActionLists <- TwoActions
    Delayed = {b}
    TriggerId = {t1}
    TimedTrigger = {"enabled"}
    DegradedAfter = 2
    HistoryCap = 2
    CacheLag = 1
    ReadsOwnWrites = TRUE
    WatchesConfigMaps = TRUE
    MaxRuns = 5
    MaxUserOps = 3
    MaxFaults = 2
INVARIANTS
    TypeOK
    TokenCoversInjection
    IdleMeansDrained
    ActiveIsComplete
    HistoryHasRunOnce
    RevertHasToken
PROPERTIES
    RunNotReplaced
    BooksClosedDrained
    DrainsNewestFirst
    RefinesDurableRevert
\* The system stops once the object is gone, or idle with no request left.
CHECK_DEADLOCK FALSE
