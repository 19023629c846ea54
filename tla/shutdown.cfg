SPECIFICATION FairSpec
CONSTANTS
    server = server
    workers = workers
    database = database
    Hooks = {server, workers, database}
    Priority <- HookPriority
    OwnSignal = TRUE
    OwnerExits = TRUE
    MaxSignals = 2
    MaxCalls = 1
INVARIANTS
    TypeOK
    SuccessIsHonest
    AllHooksOver
PROPERTY
    ShutdownEnds
CHECK_DEADLOCK FALSE
