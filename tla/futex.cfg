CONSTANTS
    t1 = t1  t2 = t2  t3 = t3
    Threads = {t1, t2, t3}
    NoThread = NoThread
    Futexes = {1, 2}
    TidPtrs = {1}
    MaxTime = 2
    Timeouts = {1, 3}
    MaxWake = 1
    MaxCalls = 3
    Commands = {"WAIT", "WAKE", "WAKE_OP", "CMP_REQUEUE"}
SPECIFICATION Spec
INVARIANTS TypeOK OneResumePerWait  NoTimeoutMissed
SYMMETRY Symmetry
CHECK_DEADLOCK FALSE
