SPECIFICATION Spec
CONSTANTS
    Clients = {c1}
    Jobs = {j1}
    Keys = {k1}
    NoJob = NoJob
    MaxWorkers = 1
    QueueCap = 1
    MaxRetries = 0
    MaxStarts = 2
    MayStop = TRUE
    MayCancel = FALSE
    SlowCalls = FALSE
INVARIANT StartedServes
CHECK_DEADLOCK FALSE
