SPECIFICATION Spec
CONSTANTS
    Client = {a, b}
    Case = {c, d}
    IdempotencyKey = {k, l}
    Action = {"abstain", "call"}
    MaxRequests = 3
    MaxFaults = 1
SYMMETRY Symmetry
INVARIANT DecisionsAudited
INVARIANT AnswersAgree
INVARIANT AdvicePrecedesAuthority
INVARIANT ChainVerifiesInTurn
CHECK_DEADLOCK FALSE
INVARIANT NoCircularWait
