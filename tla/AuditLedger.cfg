SPECIFICATION FairSpec
CONSTANTS
    Instance = {a, b}
    MaxRecords = 4
    MaxFaults = 3
    Start = {"fresh", "legacy", "checkpointed"}
    Seeded = 1
    ExclusiveOpen = TRUE
    None = None
INVARIANT TypeOK
INVARIANT AckedSurvive
INVARIANT RestartSucceeds
PROPERTY ReopensEventually
PROPERTY ImplementsAppendOnlyLog
CHECK_DEADLOCK FALSE
