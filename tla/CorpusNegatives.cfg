SPECIFICATION MCSpec
CONSTANTS
    Parts = {"corpus"}
    Interval = {30}
    Lateness = {30, 1200}
    HorizonDays = 90
    MaxAmendments = 2
    MaxObservations = 1
    Watermark = 215
    Step = 30
    Delay = {0, 29}
    Cutoff = {1, 2, 5, 9}
    Horizon = 3
    Boundaries <- OneSplit
    MaxRecords = 6
    MaxAtCutoff = 2
    MaxPolicies = 6
    Thread = {t1, t2}
    Key = {k1, k2, k3}
    ResolvedAt = {early}
    Prediction = {1, 9}
    ScoreWindow = 2
    MinimumDrift = 2
    CalibrationWindow = 2
    MinimumCalibration = 2
    MaxRequests = 5
    Case <- Cases
    Action <- Actions
    Economics <- Costs
    Rules <- Catalogue
    Budget = 3
    Seconds = 1
    ExactLimit = 2
    MaxCases = 3
INVARIANT NegativesAreNegative
CHECK_DEADLOCK FALSE
