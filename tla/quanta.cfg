CONSTANTS
    c1 = c1  c2 = c2  c3 = c3
    Cores = {c1, c2, c3}
    Started = {c1, c2}
    HooksLocked = FALSE
    Joins = TRUE
    NoCore = NoCore
    Interval = 1
    HostCores = 1
    MaxStep = 2
    MaxTime = 2
SPECIFICATION Spec
INVARIANTS TypeOK WithinQuantum NobodyForgotten EveryoneRestarted
SYMMETRY Symmetry
CHECK_DEADLOCK FALSE
