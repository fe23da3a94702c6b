SPECIFICATION MCSpec
CONSTANTS
    Identity = {e, f}
    MaxRecords = 4
    MaxPollRecords = 2
    MaxStops = 2
    EventId = {i, j}
    IdempotencyKey = {k, l}
    Content = {x}
    LastTime = 1
    MaxDeliveries = 3
    MaxFailures = 1
    Request = {r1, r2, r3, r4}
    Capacity = 2
    FailureThreshold = 2
    OpenDuration = 1
    MaxTime = 5
INVARIANT NothingSkipped
INVARIANT AcceptedOncePerLife
 
PROPERTY AllConsumed
PROPERTY ReplayStands
PROPERTY InferenceRests
CHECK_DEADLOCK FALSE
