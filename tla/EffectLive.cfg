\* One plan under two keys: a server worker, a shell worker, a stop of the unit or a
\* kill, and the runtime provisioner, under fairness.
SPECIFICATION FairSpec
CONSTANTS
    p1 = p1 p2 = p2 k1 = k1 k2 = k2
    NoReplay = NoReplay
    Torn = Torn
    Plans <- OnePlan
    Keys <- MCKeys
    Approvals <- TwoKeys
    Workers = {w1, w2}
    Shells = {w2}
    JournalBound = 1
    MaxObservations = 1
    MaxKills = 1
    MaxForeign = 0
    MaxProvisions = 1
    MaxEarlier = 1
CHECK_DEADLOCK FALSE
INVARIANTS EffectExclusion PlanEffectOnce DenialClaimsNoEffect
PROPERTIES StopSparesRequests RequestsEnd 
