SPECIFICATION FairSpec
CONSTANTS
    Callers = {c1}
    Probe = probe
    Free = free
    SuccessThreshold = 1
    ConsecutiveFailures = 1
    FailureThreshold = 1
    MinimumRequestCount = 1
    WindowMax = 1
    MaxAttempts = 1
    Nested = FALSE
    MayForce = FALSE
    HealthChecks = TRUE
PROPERTY HealthChecksRun
CHECK_DEADLOCK FALSE
