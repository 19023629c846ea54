SPECIFICATION Spec
CONSTANTS
    Clients = {c1, c2}
    Jobs = {j1, j2}
    Keys = {k1, k2}
    NoJob = NoJob
    MaxWorkers = 1
    QueueCap = 1
    MaxRetries = 0
    MaxStarts = 1
    MayStop = FALSE
    MayCancel = FALSE
    SlowCalls = FALSE
INVARIANT AcceptedIsProcessed
CHECK_DEADLOCK FALSE
