\* A test frees its tester by hand, and Drop frees it again; the server may
\* hand the freed id to another test in between.
CONSTANTS
    t1 = t1  t2 = t2  i1 = i1  i2 = i2  c1 = c1
    Nobody = Nobody  NoId = NoId
    Threads <- MCThreads
    Ids <- MCIds
    Contracts <- MCContracts
    Uses = {"free"}
    Faults = {}
    ReuseIds = TRUE
    MaxCalls = 2
SPECIFICATION Spec
INVARIANT TesterChainIntact
