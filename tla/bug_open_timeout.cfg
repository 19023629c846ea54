SPECIFICATION Spec
CONSTANTS
    Callers = {c1, c2}
    Probe = probe
    Free = free
    SuccessThreshold = 1
    ConsecutiveFailures = 2
    FailureThreshold = 1
    MinimumRequestCount = 2
    WindowMax = 2
    MaxAttempts = 1
    Nested = FALSE
    MayForce = FALSE
    HealthChecks = FALSE
PROPERTY OpenTimeoutHonoured
CHECK_DEADLOCK FALSE
