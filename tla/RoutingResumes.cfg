\* Two faults, no drift, one change, one name.
SPECIFICATION Spec
CONSTANTS
    Predecessor = predecessor
    Builds = {b1, b2, b3}
    Legacy = b1
    Changes = {c1}
    Retained = {old1}
    MaxCommands = 3
    MaxFaults = 2
    MaxDamage = 0
    None = none
INVARIANTS InterruptedSwapResumes
CHECK_DEADLOCK FALSE
