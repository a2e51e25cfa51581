\* A test builds its tester with new_ex and calls set_native_apply.
CONSTANTS
    t1 = t1  t2 = t2  i1 = i1  i2 = i2  c1 = c1
    Nobody = Nobody  NoId = NoId
    Threads <- MCThreads
    Ids <- MCIds
    Contracts <- MCContracts
    Uses = {"new_ex"}
    Faults = {}
    ReuseIds = TRUE
    MaxCalls = 2
SPECIFICATION Spec
INVARIANT NoAbort
