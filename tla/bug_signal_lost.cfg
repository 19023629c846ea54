SPECIFICATION FairSpec
CONSTANTS
    server = server
    workers = workers
    database = database
    Hooks = {server, workers, database}
    Priority <- HookPriority
    OwnSignal = TRUE
    OwnerExits = TRUE
    MaxSignals = 1
    MaxCalls = 0
PROPERTY SignalShutsDown
CHECK_DEADLOCK FALSE
