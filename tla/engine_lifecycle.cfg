SPECIFICATION Spec
CONSTANTS
    Clients = {c1, c2}
    Jobs = {j1, j2}
    Keys = {k1}
    NoJob = NoJob
    MaxWorkers = 1
    QueueCap = 1
    MaxRetries = 1
    MaxStarts = 2
    MayStop = TRUE
    MayCancel = TRUE
    SlowCalls = TRUE
SYMMETRY Symm
INVARIANTS Custody WaitGroupExact QuietAfterStop
PROPERTY ImplementsLifecycle
CHECK_DEADLOCK FALSE
