SPECIFICATION Spec
CONSTANTS
    server = server
    workers = workers
    database = database
    Hooks = {server, workers, database}
    Priority <- HookPriority
    OwnSignal = FALSE
    OwnerExits = FALSE
    MaxSignals = 1
    MaxCalls = 0
INVARIANT KillIsLastResort
CHECK_DEADLOCK FALSE
