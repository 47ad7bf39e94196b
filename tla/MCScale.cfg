\* Two scenarios on one Deployment.
SPECIFICATION FairSpec
CONSTANTS
    s1 = s1
    s2 = s2
    Scenario = {s1, s2}
    Target <- Targets
    Normal = 1
    NoOne = NoOne
    NoTarget = NoTarget
    None = None
    Setups <- AllSetups
INVARIANTS
    ScaleTypeOK
    LockHasToken
    QuietIsNormal
PROPERTIES
    WaiterGetsTarget
\* The system stops when the requests are used up and nothing is left to do.
CHECK_DEADLOCK FALSE
