CONSTANTS
    c1 = c1  c2 = c2  c3 = c3
    Cores = {c1, c2}
    Started = {c1, c2}
    HooksLocked = TRUE
    Joins = TRUE
    NoCore = NoCore
    Interval = 1
    HostCores = 1
    MaxStep = 1
    MaxTime = 1
SPECIFICATION FairSpec
PROPERTIES EveryoneLeavesTheBarrier
CHECK_DEADLOCK FALSE
