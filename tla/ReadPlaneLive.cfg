\* A drifted runtime, the timer and its repair, kills, lapses, under fairness.
SPECIFICATION FairSpec
CONSTANTS
    Readers <- MCReaders
    Stack = "stack"
    Consumers <- MCConsumers
    Strict <- MCStrict
    Drifted = TRUE
    Events = {"kill", "lapse"}
    MaxEvents = 3
    AutoRepair = TRUE
    ByHand = {}
PROPERTIES
    FleetRecovers
    MarkerHeld
