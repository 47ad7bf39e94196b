SPECIFICATION Spec
CONSTANTS
    a = a  b = b  bad1 = bad1  bad2 = bad2  v1 = v1  v2 = v2
    Scenario = {a, b}
    Setups <- ImageSetups
    None = None
    MaxRuns = 2
    MaxUserOps = 4
    Release = {v1, v2}
    Bad <- BadOf
    KnownGood <- KnownGoodOf
    NoTarget = NoTarget
    NoObject = NoObject
    Named = Named
INVARIANT RollbackMarked
\* It stops when runs, requests and faults are used up.
CHECK_DEADLOCK FALSE
