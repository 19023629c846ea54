SPECIFICATION Spec
CONSTANTS
    server = server
    workers = workers
    database = database
    Hooks = {server, workers, database}
    Priority <- HookPriority
    OwnSignal = FALSE
    OwnerExits = TRUE
    MaxSignals = 1
    MaxCalls = 0
PROPERTY PriorityOrder
CHECK_DEADLOCK FALSE
