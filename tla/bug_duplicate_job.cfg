SPECIFICATION Spec
CONSTANTS
    Clients = {c1, c2}
    Jobs = {j1, j2}
    Keys = {k1}
    NoJob = NoJob
    MaxWorkers = 1
    QueueCap = 2
    MaxRetries = 0
    MaxStarts = 1
    MayStop = FALSE
    MayCancel = FALSE
    SlowCalls = FALSE
INVARIANT OneLiveJobPerKey
CHECK_DEADLOCK FALSE
