SPECIFICATION FairSpec
CONSTANTS
    server = server
    workers = workers
    database = database
    Hooks = {server, workers, database}
    Priority <- HookPriority
    OwnSignal = TRUE
    OwnerExits = TRUE
    MaxSignals = 0
    MaxCalls = 1
PROPERTY CallShutsDown
CHECK_DEADLOCK FALSE
