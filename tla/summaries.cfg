SPECIFICATION Spec
CONSTANTS
    Threads = {t1, t2}
    Hotels = {h1, h2}
    Absent = Absent
    MaxChanges = 2
SYMMETRY Symm
INVARIANTS ServiceCopies OptimizedCopies
CHECK_DEADLOCK FALSE
