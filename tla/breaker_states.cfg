SPECIFICATION Spec
CONSTANTS
    Callers = {c1, c2}
    Probe = probe
    Free = free
    SuccessThreshold = 2
    ConsecutiveFailures = 2
    FailureThreshold = 1
    MinimumRequestCount = 2
    WindowMax = 2
    MaxAttempts = 1
    Nested = FALSE
    MayForce = FALSE
    HealthChecks = TRUE
SYMMETRY Symm
INVARIANTS OvershootBounded
PROPERTY NeverClosesFromOpen
CHECK_DEADLOCK FALSE
