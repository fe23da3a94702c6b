SPECIFICATION Spec
CONSTANTS
    c1 = c1
    c2 = c2
    Case = {c1}
    Caller = {t}
    Cost <- TwoActions
    Capacity = 2
    Known <- NoCase
    Calls = {"create", "review", "dispatch", "dismiss", "resolve"}
    Alone = TRUE
    Faults = {"crash", "create", "begin", "commit", "rollback", "append", "append-stale", "append-committed"}
    MaxFaults = 2
    MaxEvents = 9
    None = None
INVARIANT TypeOK
INVARIANT RecoveryNeverRefuses
INVARIANT CapacityConserved
CHECK_DEADLOCK FALSE
