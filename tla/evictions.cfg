CONSTANTS
    n1 = n1  n2 = n2  n3 = n3  n4 = n4
    Nodes = {n1, n2}
    Cores = {n1, n2}
    LlcOf <- PrivateLlcs
    Addresses = {a1, a2}
    DirNode = n1
    DramNode = n1
    NoNode = NoNode
    NoAddress = NoAddress
    Uninitialised = Uninitialised
    Protocol = "MESI"
    DirWays = 2
    MaxHwSharers = 3
    NucaWays = 1
    LlcWays = 1
SPECIFICATION Spec
INVARIANTS OnlyKnownFailures QuiescentAgreement
CHECK_DEADLOCK FALSE
