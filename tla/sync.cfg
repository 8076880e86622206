CONSTANTS
    t1 = t1  t2 = t2  t3 = t3
    Threads = {t1, t2, t3}
    NoThread = NoThread
    Mutexes = {m1}
    Conds = {c1}
    Barriers = {b1}
    BarrierCount = 3
    MaxWaits = 2
SPECIFICATION Spec
INVARIANTS TypeOK LockersOwn ResumesAreTimely BarrierHolds
CHECK_DEADLOCK FALSE
