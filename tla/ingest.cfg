SPECIFICATION FairSpec
CONSTANTS
    Owners = {"service", "engine"}
    Batches = 5
    Workers = {w1, w2}
    NoBatch = NoBatch
    MayFail = TRUE
INVARIANTS
    BatchCustody
    NoSendOnClosed
    CollectorDrains
PROPERTY
    ImportReturns
CHECK_DEADLOCK FALSE
