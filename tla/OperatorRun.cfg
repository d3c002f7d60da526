\* One run, every interruption point, torn files, the operator editing the checkout,
\* fair process and operator.
CONSTANTS
    r1 = r1
    Runs = {r1}
    Operator = Operator
    MaxRepairs = 1
    RepairAllowed = TRUE
    TornWrites = TRUE
    MaxHead = 1
    MaxFaults = 2
    MaxAudits = 1
SPECIFICATION LiveSpec
INVARIANTS
    TypeOK
    LandedDiffWasReviewed
    SummaryNeverAheadOfState
    CompletedRunWasValidated
PROPERTIES
    TerminalRunIsFinal
    ReviewedRunEnds
