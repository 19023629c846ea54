SPECIFICATION FairSpec
CONSTANTS
    Callers = {c1}
    Probe = probe
    Free = free
    SuccessThreshold = 2
    ConsecutiveFailures = 2
    FailureThreshold = 1
    MinimumRequestCount = 2
    WindowMax = 2
    MaxAttempts = 1
    Nested = FALSE
    MayForce = FALSE
    HealthChecks = FALSE
PROPERTY Recovers
CHECK_DEADLOCK FALSE
