SPECIFICATION FairSpec
CONSTANTS
    Callers = {c1, c2}
    Probe = probe
    Free = free
    SuccessThreshold = 1
    ConsecutiveFailures = 2
    FailureThreshold = 1
    MinimumRequestCount = 1
    WindowMax = 1
    MaxAttempts = 2
    Nested = TRUE
    MayForce = TRUE
    HealthChecks = FALSE
INVARIANTS ThresholdTrips
PROPERTY RequestsReturn
CHECK_DEADLOCK FALSE
