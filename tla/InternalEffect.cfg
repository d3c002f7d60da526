\* Two plans asked for under one key, or another, by two server workers, time-outs and drift.
SPECIFICATION Spec
CONSTANTS
    p1 = p1 p2 = p2 k1 = k1 k2 = k2
    NoReplay = NoReplay
    Torn = Torn
    Plans <- MCPlans
    Keys <- MCKeys
    Approvals <- TwoPlans
    Workers = {w1, w2}
    Shells = {}
    JournalBound = 1
    MaxObservations = 2
    MaxKills = 0
    MaxForeign = 1
    MaxProvisions = 0
    MaxEarlier = 0
SYMMETRY Symmetry
CHECK_DEADLOCK FALSE
INVARIANTS TypeOK
PROPERTIES ReplaySettles
