\* Tests that use the tester as intended: new, set_native_apply, RPCs, close
\* and the Drop at the end of the test; the servers answer every call and
\* the chain tester server may hand out freed ids again.  No symmetry: the
\* run checks liveness.
CONSTANTS
    t1 = t1  t2 = t2  i1 = i1  i2 = i2  c1 = c1
    Nobody = Nobody  NoId = NoId
    Threads <- MCThreads
    Ids <- MCIds
    Contracts <- MCContracts
    Uses = {"close"}
    Faults = {}
    ReuseIds = TRUE
    MaxCalls = 2
SPECIFICATION FairSpec
INVARIANT NoPanic
INVARIANT TesterChainIntact
PROPERTY EveryChainFreed
