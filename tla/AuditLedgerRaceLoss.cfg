SPECIFICATION Spec
CONSTANTS
    Instance = {a, b}
    MaxRecords = 3
    MaxFaults = 0
    Start = {"checkpointed"}
    Seeded = 1
    ExclusiveOpen = FALSE
    None = None
INVARIANT AckedSurvive
CHECK_DEADLOCK FALSE
