SPECIFICATION FairSpec
CONSTANTS
    Clients = {c1, c2}
    Jobs = {j1, j2}
    Keys = {k1}
    NoJob = NoJob
    MaxWorkers = 1
    QueueCap = 1
    MaxRetries = 1
    MaxStarts = 1
    MayStop = FALSE
    MayCancel = TRUE
    SlowCalls = FALSE
INVARIANTS TypeOK JobOwnership NoJobLost AccountedOnce
PROPERTIES FinishedIsFinal JobsDrain
CHECK_DEADLOCK FALSE
