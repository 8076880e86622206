CONSTANTS
    t1 = t1  t2 = t2  t3 = t3
    Threads = {t1, t2, t3}
    NoThread = NoThread
    Futexes = {1, 2}
    TidPtrs = {}
    MaxTime = 1
    Timeouts = {1, 2}
    MaxWake = 1
    MaxCalls = 1
    Commands = {"CMP_REQUEUE"}
SPECIFICATION Spec
INVARIANT NobodyWaitsForItself
CHECK_DEADLOCK FALSE
