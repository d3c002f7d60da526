\* One run and one interruption: enough to leave a diff behind a failed run.
CONSTANTS
    r1 = r1
    Runs = {r1}
    Operator = Operator
    MaxRepairs = 0
    RepairAllowed = FALSE
    TornWrites = FALSE
    MaxHead = 0
    MaxFaults = 1
    MaxAudits = 0
SPECIFICATION Spec
INVARIANTS
    FailureRestoresCheckout
