---------------------------- MODULE VmApiConnect ----------------------------
(***************************************************************************)
(* The VM API client handle of client.rs: threads call get_vm_api_client   *)
(* (or init_vm_api_client), which lock VM_API_CLIENT and, while its client *)
(* is None, run VMAPIClient::init -> new_vm_api_client under the guard.    *)
(* new_vm_api_client tries `for i in 0..=10` to open the TCP channel to    *)
(* the VM API server: success breaks out and builds the client, an error   *)
(* sleeps 200us and tries again, and the error of the last attempt         *)
(* panics, poisoning the mutex.  close_vm_api_client sets the client back  *)
(* to None.  The VM API server is started elsewhere and becomes reachable  *)
(* at a moment the client does not control, or never.                      *)
(***************************************************************************)
EXTENDS Naturals

CONSTANTS
    Threads,        \* the threads that need the VM API client
    MaxAttempt,     \* the last value of i: 10 in `for i in 0..=10`
    Closes,         \* whether a thread calls close_vm_api_client when done
    SplitFails,     \* whether c.split() may fail after a successful open
    Nobody          \* the owner of a free mutex

ASSUME MaxAttempt \in Nat /\ Closes \in BOOLEAN /\ SplitFails \in BOOLEAN
ASSUME Nobody \notin Threads

VARIABLES
    pc,         \* "lock", "open", "sleep", "using", "close", "done", "panicked"
    i,          \* each thread's loop index in new_vm_api_client
    owner,      \* the thread holding VM_API_CLIENT
    poisoned,   \* VM_API_CLIENT is poisoned
    vmClient,   \* VM_API_CLIENT.vm_api_client.is_some()
    serverUp    \* the VM API server accepts connections

vars == <<pc, i, owner, poisoned, vmClient, serverUp>>

Init ==
    /\ pc = [t \in Threads |-> "lock"]
    /\ i = [t \in Threads |-> 0]
    /\ owner = Nobody /\ poisoned = FALSE /\ vmClient = FALSE
    /\ serverUp \in BOOLEAN

\* The VM API server starts listening; it never stops in a test run.
ServerStart ==
    /\ ~serverUp
    /\ serverUp' = TRUE
    /\ UNCHANGED <<pc, i, owner, poisoned, vmClient>>

(***************************************************************************)
(* VM_API_CLIENT.lock().unwrap(): a poisoned mutex panics; otherwise, if   *)
(* the client is None, init runs new_vm_api_client, whose loop starts at   *)
(* i = 0, else the caller goes on with the guard.                          *)
(***************************************************************************)
Lock(t) ==
    /\ pc[t] = "lock" /\ owner = Nobody
    /\ IF poisoned
       THEN pc' = [pc EXCEPT ![t] = "panicked"] /\ UNCHANGED owner
       ELSE /\ owner' = t
            /\ pc' = [pc EXCEPT ![t] = IF vmClient THEN "using" ELSE "open"]
    /\ UNCHANGED <<i, poisoned, vmClient, serverUp>>

(***************************************************************************)
(* match c.open(&remote_address): Ok breaks out of the loop; Err panics at *)
(* i == 10 under the guard, poisoning it, and otherwise goes to sleep.     *)
(* After the loop, c.split()? may still fail: the Err returns to init,     *)
(* whose unwrap panics under the guard, poisoning it as well.  Otherwise   *)
(* the client is built and init stores it.                                 *)
(***************************************************************************)
Open(t) ==
    /\ pc[t] = "open"
    /\ \/ /\ serverUp
          /\ pc' = [pc EXCEPT ![t] = "using"] /\ vmClient' = TRUE
          /\ UNCHANGED <<owner, poisoned>>
       \/ /\ serverUp /\ SplitFails
          /\ pc' = [pc EXCEPT ![t] = "panicked"] /\ owner' = Nobody /\ poisoned' = TRUE
          /\ UNCHANGED vmClient
       \/ /\ ~serverUp /\ i[t] = MaxAttempt
          /\ pc' = [pc EXCEPT ![t] = "panicked"] /\ owner' = Nobody /\ poisoned' = TRUE
          /\ UNCHANGED vmClient
       \/ /\ ~serverUp /\ i[t] # MaxAttempt
          /\ pc' = [pc EXCEPT ![t] = "sleep"]
          /\ UNCHANGED <<owner, poisoned, vmClient>>
    /\ UNCHANGED <<i, serverUp>>

\* Mutant: the loop retries without advancing i (a `loop` with no bound).
SleepNoAdvance(t) ==
    /\ pc[t] = "sleep"
    /\ pc' = [pc EXCEPT ![t] = "open"]
    /\ UNCHANGED <<i, owner, poisoned, vmClient, serverUp>>

\* thread::sleep(200us), then the next iteration of the for loop.
Sleep(t) ==
    /\ pc[t] = "sleep"
    /\ pc' = [pc EXCEPT ![t] = "open"]
    /\ i' = [i EXCEPT ![t] = @ + 1]
    /\ UNCHANGED <<owner, poisoned, vmClient, serverUp>>

\* The caller is done with the guard get_vm_api_client returned.
Unlock(t) ==
    /\ pc[t] = "using"
    /\ owner' = Nobody
    /\ pc' = [pc EXCEPT ![t] = IF Closes THEN "close" ELSE "done"]
    /\ UNCHANGED <<i, poisoned, vmClient, serverUp>>

\* close_vm_api_client(): lock, then close() sets the client to None.
Close(t) ==
    /\ pc[t] = "close" /\ owner = Nobody
    /\ IF poisoned
       THEN pc' = [pc EXCEPT ![t] = "panicked"] /\ UNCHANGED vmClient
       ELSE pc' = [pc EXCEPT ![t] = "done"] /\ vmClient' = FALSE
    /\ UNCHANGED <<i, owner, poisoned, serverUp>>

\* Every thread has its client or has panicked.
Settled ==
    /\ \A t \in Threads : pc[t] \in {"done", "panicked"}
    /\ UNCHANGED vars

Step(t) == Lock(t) \/ Open(t) \/ Sleep(t) \/ Unlock(t) \/ Close(t)

Next == ServerStart \/ (\E t \in Threads : Step(t)) \/ Settled

\* The threads keep running; the server's start is not assumed.
Spec == Init /\ [][Next]_vars /\ \A t \in Threads : WF_vars(Step(t))

-----------------------------------------------------------------------------
(***************************************************************************)
(* Every call settles: each thread eventually holds a client or has        *)
(* panicked, so the retry loop, run under the VM_API_CLIENT guard (and,    *)
(* from ChainTesterClient::init, under CHAIN_TESTER_CLIENT), never keeps   *)
(* the other threads waiting forever.                                      *)
(***************************************************************************)
Settles == <>(\A t \in Threads : pc[t] \in {"done", "panicked"})

=============================================================================
