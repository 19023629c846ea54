SPECIFICATION Spec
CONSTANTS
    Owners = {"service"}
    Batches = 1
    Workers = {w1}
    NoBatch = NoBatch
    MayFail = FALSE
PROPERTY CompletedIsFinal
CHECK_DEADLOCK FALSE
