CONSTANTS
    t1 = t1
    t2 = t2
    r1 = r1
    r2 = r2
    Thread = {t1, t2}
    Record = {r1, r2}
    Ordered = TRUE
    FlushLogSize = 2
    Garbage = {0, 9}
    MaxRequests = 5
SYMMETRY Symmetry
SPECIFICATION Spec
INVARIANTS TypeOK NothingLost RealTimeInserts
CHECK_DEADLOCK FALSE
