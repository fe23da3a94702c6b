SPECIFICATION Spec
CONSTANTS
    c1 = c1
    c2 = c2
    Case = {c1, c2}
    Caller = {t, u}
    Cost <- OneAction
    Capacity = 1
    Known <- OneCase
    Calls = {"create", "review", "dispatch", "dismiss", "resolve"}
    Alone = TRUE
    Faults = {"crash", "create", "begin", "rollback", "append", "append-stale"}
    MaxFaults = 1
    MaxEvents = 8
    None = None
SYMMETRY Symmetry
INVARIANT StateMatchesAudit
 
PROPERTY ImplementsCaseAuthority
CHECK_DEADLOCK FALSE
