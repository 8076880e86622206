CONSTANTS
    t1 = t1  t2 = t2  t3 = t3
    Threads = {t1, t2}
    NoThread = NoThread
    Mutexes = {m1}
    Conds = {}
    Barriers = {}
    BarrierCount = 3
    MaxWaits = 0
SPECIFICATION Spec
INVARIANTS NoResumeLost
CHECK_DEADLOCK FALSE
