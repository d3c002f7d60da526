\* Two changes, two fresh retain names and one of a stage, three faults, one drifted tree.
SPECIFICATION FairSpec
CONSTANTS
    Predecessor = predecessor
    Builds = {b1, b2, b3}
    Legacy = b1
    Changes = {c1, c2}
    Retained = {old1, old2, "prepared"}
    MaxCommands = 3
    MaxFaults = 3
    MaxDamage = 1
    None = none
INVARIANTS TypeOK PredecessorMarked BoundTreeIsSealed
PROPERTIES FailedRollbackRetryable MirrorReturns
CHECK_DEADLOCK FALSE
