SPECIFICATION Spec
CONSTANTS
    Threads = {t1, t2}
    Addresses = {a1}
    Sessions = {s1}
    Nothing = Nothing
    MaxAttempts = 2
    Window = 2
    Lock = 1
    MaxFaults = 1
SYMMETRY Symm
INVARIANTS GuessesBounded LockComes
PROPERTY RevocationHolds
CHECK_DEADLOCK FALSE
