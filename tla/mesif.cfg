CONSTANTS
    n1 = n1  n2 = n2  n3 = n3  n4 = n4
    Nodes = {n1, n2, n3, n4}
    Cores = {n1, n2, n3, n4}
    LlcOf <- SharedLlc
    Addresses = {a1}
    DirNode = n1
    DramNode = n1
    NoNode = NoNode
    NoAddress = NoAddress
    Uninitialised = Uninitialised
    Protocol = "MESIF"
    DirWays = 1
    MaxHwSharers = 2
    NucaWays = 0
    LlcWays = 1
SPECIFICATION Spec
INVARIANTS TypeOK SWMR DirectoryKnowsSharers OneTransactionPerLine ForwarderIsSharer
