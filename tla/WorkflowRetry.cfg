SPECIFICATION Spec
CONSTANTS
    c1 = c1
    c2 = c2
    Case = {c1}
    Caller = {t}
    Cost <- OneAction
    Capacity = 1
    Known <- OneCase
    Calls = {"review", "dispatch"}
    Alone = TRUE
    Faults = {"append"}
    MaxFaults = 1
    MaxEvents = 3
    None = None
INVARIANT ReturnedCommitted
CHECK_DEADLOCK FALSE
