SPECIFICATION Spec
CONSTANTS
    Clients = {c1}
    Jobs = {j1}
    Keys = {k1}
    NoJob = NoJob
    MaxWorkers = 1
    QueueCap = 1
    MaxRetries = 0
    MaxStarts = 1
    MayStop = TRUE
    MayCancel = FALSE
    SlowCalls = FALSE
INVARIANT StopIsGraceful
CHECK_DEADLOCK FALSE
