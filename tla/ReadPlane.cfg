\* Syncs, edits, damage, lapses, hand-made starts and stops, failures, kills, jobs; repairs by hand.
SPECIFICATION Spec
CONSTANTS
    Readers <- MCReaders
    Stack = "stack"
    Consumers <- MCConsumers
    Strict <- MCStrict
    Drifted = FALSE
    Events = {"sync", "edit", "damage", "lapse", "start", "stop", "fail", "kill", "job"}
    MaxEvents = 3
    AutoRepair = TRUE
    ByHand = {"manual", "repair"}
INVARIANTS
    TypeOK
    RuntimeNeverLost
    StackReaderCurrent
    MarkerIsServed
PROPERTIES
    SwapExcludesUsers
    FailedRepairRestores
    HandoffDisplaces
