SPECIFICATION FairSpec
CONSTANTS
    Clients = {c1}
    Jobs = {j1}
    Keys = {k1}
    NoJob = NoJob
    MaxWorkers = 2
    QueueCap = 1
    MaxRetries = 0
    MaxStarts = 1
    MayStop = FALSE
    MayCancel = FALSE
    SlowCalls = FALSE
PROPERTY StartCompletes
CHECK_DEADLOCK FALSE
