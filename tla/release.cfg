CONSTANTS
    c1 = c1  c2 = c2  c3 = c3
    Cores = {c1, c2, c3}
    Started = {c1, c2, c3}
    HooksLocked = TRUE
    Joins = FALSE
    NoCore = NoCore
    Interval = 1
    HostCores = 1
    MaxStep = 1
    MaxTime = 2
SPECIFICATION FairSpec
PROPERTIES OnlyHooksHoldTheBarrier
CHECK_DEADLOCK FALSE
