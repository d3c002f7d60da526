\* One request, the read unit and its fallback, two restarts, under fairness.
SPECIFICATION FairSpec
CONSTANTS
    Tasks = {t1}
    Servers = {s1, s2}
    MaxCrashes = 2
    None = None
INVARIANTS TypeOK
PROPERTIES FinishedTaskIsFinal WorkedTaskEnds
CHECK_DEADLOCK FALSE
