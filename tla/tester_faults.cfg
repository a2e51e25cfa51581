\* Every call the tests can make (new_ex, explicit free, close), and every
\* fault of the servers: a failed connection, the VM API connection retries
\* running out, and failing RPCs.  The server never reuses a chain id.
CONSTANTS
    t1 = t1  t2 = t2  i1 = i1  i2 = i2  c1 = c1
    Nobody = Nobody  NoId = NoId
    Threads <- MCThreads
    Ids <- MCIds
    Contracts <- MCContracts
    Uses = {"new_ex", "free", "close"}
    Faults = {"connect", "vm_connect", "rpc"}
    ReuseIds = FALSE
    MaxCalls = 2
SYMMETRY Symmetry
SPECIFICATION Spec
INVARIANT NoLockCycle
