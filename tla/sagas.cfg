SPECIFICATION Spec
CONSTANTS
    Threads = {t1, t2}
    NoThread = NoThread
    ReviewSagas = {r1}
    HotelSagas = {h1}
    LostReplies = FALSE
SYMMETRY Symm
INVARIANTS TypeOK CompletedIsConsistent FailedIsWithdrawn RunningIsKnown NoStandstill
