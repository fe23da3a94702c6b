SPECIFICATION Spec
CONSTANTS
    Instance = {a, b, c}
    MaxRecords = 4
    MaxFaults = 2
    Start = {"checkpointed"}
    Seeded = 1
    ExclusiveOpen = FALSE
    None = None
SYMMETRY Symmetry
INVARIANT NoForkedHistory
CHECK_DEADLOCK FALSE
