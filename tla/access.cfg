SPECIFICATION AccessSpec
CONSTANTS
    Servers = {t1, t2}
    IPs = {a1}
    Users = {u1}
    Ids = {s1, s2, s3, s4}
    NoEntry = NoEntry
    Requests = 1
    Burst = 1
    RateWindow = 2
    MaxActive = 1
    Timeout = 1
SYMMETRY Symm
INVARIANTS WindowBound BlockKept ActiveBounded
