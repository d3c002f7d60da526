\* One session of any lane, every interruption point, torn files, drift, fair process
\* and approver.
CONSTANTS
    s1 = s1
    s2 = s2
    s3 = s3
    start1 = start1
    start2 = start2
    resume1 = resume1
    resume2 = resume2
    pause1 = pause1
    cancel1 = cancel1
    Runs = {s1, s2, s3}
    Operator = Operator
    NoCommand = NoCommand
    Commands = {start1, start2, resume1, resume2, pause1, cancel1}
    KindOf <- MCKindOf
    KeyOf <- MCKeyOf
    LaneOf <- MCLaneOf
    SdkRefusesTerminalExit = TRUE
    MaxSessions = 1
    MaxRepairs = 0
    RepairAllowed = FALSE
    TornWrites = TRUE
    MaxHead = 0
    MaxFaults = 2
SPECIFICATION LiveSpec
INVARIANTS
    TypeOK
    LandingIsJournaled
    ApprovalFileIsJournaled
    OutcomeAgrees
    SuccessWasValidated
PROPERTIES
    OneStartPerRun
    NothingRunsAfterOutcome
    KeepsThePromise
    EffectsComplete
\* Every command may be spent and every fault used: the sessions may stop.
CHECK_DEADLOCK FALSE
