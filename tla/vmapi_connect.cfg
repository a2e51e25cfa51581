\* Two threads need the VM API client and close it when done; the loop of
\* new_vm_api_client has its real bound, i in 0..=10.  The threads are
\* weakly fair; the server may start at any attempt, or never, and c.split()
\* may fail after a successful open.  No symmetry:
\* the run checks liveness.
CONSTANTS
    Threads = {t1, t2}
    MaxAttempt = 10
    Closes = TRUE
    SplitFails = TRUE
    Nobody = Nobody
SPECIFICATION Spec
PROPERTY Settles
