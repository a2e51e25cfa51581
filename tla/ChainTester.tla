----------------------------- MODULE ChainTester -----------------------------
(***************************************************************************)
(* The test client of crates/chaintester/src/client.rs as Rust runs it:    *)
(* every test is a thread, and all tests share the global mutexes          *)
(* CHAIN_TESTER_CLIENT (the Thrift client, opened lazily by init),         *)
(* CHAIN_TESTER_APPLYS (chain id -> native apply functions) and            *)
(* VM_API_CLIENT.  A test builds one ChainTester (new or new_ex), calls    *)
(* its methods, and drops it at the end of its scope; Drop calls free.     *)
(*                                                                         *)
(* A Rust mutex whose guard is dropped by a panic is poisoned: every later *)
(* lock().unwrap() panics.  A panic unwinds the test, dropping its         *)
(* ChainTester, and a panic during that unwinding aborts the process.      *)
(*                                                                         *)
(* A guard that lives for one statement is taken and released in one      *)
(* step; the apply-map guard of set_native_apply spans two steps, because  *)
(* it is held while the client lock is taken.  The chain tester server is  *)
(* the environment: it hands out chain ids and answers RPCs.               *)
(***************************************************************************)
EXTENDS Naturals, FiniteSets, Relation, TLC

CONSTANTS
    Threads,    \* the test threads
    Ids,        \* the chain ids the server hands out
    Contracts,  \* the contract names passed to set_native_apply
    Uses,       \* the calls tests make beyond new, set_native_apply and
                \* RPCs: a subset of {"new_ex", "free", "close"}
    Faults,     \* what the servers may do: a subset of {"connect", "vm_connect", "rpc"}
    ReuseIds,   \* whether new_chain may return the id of a freed chain
    MaxCalls,   \* the most method calls a test makes on its tester
    Nobody,     \* the owner of a free mutex
    NoId        \* the id of a tester not built yet

ASSUME Uses \subseteq {"new_ex", "free", "close"}
ASSUME Faults \subseteq {"connect", "vm_connect", "rpc"}
ASSUME ReuseIds \in BOOLEAN /\ MaxCalls \in Nat
ASSUME Nobody \notin Threads /\ NoId \notin Ids

\* The mutexes held across steps, and all that can be poisoned.
LockNames == {"apply", "client"}
MutexNames == LockNames \cup {"vm"}

VARIABLES
    pc,         \* where each thread is
    caller,     \* who runs free: "test" (an explicit call) or "drop" (Drop)
    unwinding,  \* the thread is unwinding from a panic
    calls,      \* the methods the test has called on its tester
    id,         \* the tester's self.id
    owner,      \* the thread holding each mutex of LockNames
    poisoned,   \* the poisoned mutexes
    aborted,    \* a panic during unwinding aborted the process
    client,     \* CHAIN_TESTER_CLIENT.client.is_some()
    vmClient,   \* VM_API_CLIENT.vm_api_client.is_some()
    applys,     \* CHAIN_TESTER_APPLYS: a function from the chain ids with an
                \* entry to the contracts given a native apply
    chains,     \* the chains alive on the server
    issued,     \* the ids the server ever handed out
    given,      \* history: the thread each id was last handed to
    ctor,       \* history: the constructor that built each thread's tester
    freed       \* history: the test has called free on its tester

vars == <<pc, caller, unwinding, calls, id, owner, poisoned, aborted, client,
          vmClient, applys, chains, issued, given, ctor, freed>>

Pcs == {"start", "insert", "ready", "sna_rpc", "free_map", "free_chain", "ended", "failed"}

Init ==
    /\ pc = [t \in Threads |-> "start"]
    /\ caller = [t \in Threads |-> "test"]
    /\ unwinding = [t \in Threads |-> FALSE]
    /\ calls = [t \in Threads |-> 0]
    /\ id = [t \in Threads |-> NoId]
    /\ owner = [l \in LockNames |-> Nobody]
    /\ poisoned = {} /\ aborted = FALSE
    /\ client = FALSE /\ vmClient = FALSE
    /\ applys = <<>>
    /\ chains = {} /\ issued = {}
    /\ given = [i \in Ids |-> Nobody]
    /\ ctor = [t \in Threads |-> "none"]
    /\ freed = [t \in Threads |-> FALSE]

-----------------------------------------------------------------------------
Free(l) == owner[l] = Nobody
Held(t) == {l \in LockNames : owner[l] = t}
Release(t) == [l \in LockNames |-> IF owner[l] = t THEN Nobody ELSE owner[l]]

\* The thread's ChainTester exists and has not been dropped yet.
TesterLive(t) ==
    \/ pc[t] \in {"ready", "sna_rpc"}
    \/ pc[t] \in {"free_map", "free_chain"} /\ caller[t] = "test"

(***************************************************************************)
(* A panic of thread t.  Every guard it holds, the ones of the current     *)
(* statement (extra) included, is dropped while panicking, which poisons   *)
(* and releases its mutex.  Unwinding drops a live tester, whose Drop      *)
(* runs free; a panic while unwinding aborts the process.                  *)
(***************************************************************************)
Panic(t, extra) ==
    /\ poisoned' = poisoned \cup Held(t) \cup extra
    /\ owner' = Release(t)
    /\ \/ /\ unwinding[t]
          /\ aborted' = TRUE
          /\ UNCHANGED <<pc, caller, unwinding>>
       \/ /\ ~unwinding[t] /\ TesterLive(t)
          /\ pc' = [pc EXCEPT ![t] = "free_map"]
          /\ caller' = [caller EXCEPT ![t] = "drop"]
          /\ unwinding' = [unwinding EXCEPT ![t] = TRUE]
          /\ UNCHANGED aborted
       \/ /\ ~unwinding[t] /\ ~TesterLive(t)
          /\ pc' = [pc EXCEPT ![t] = "failed"]
          /\ UNCHANGED <<caller, unwinding, aborted>>
    /\ UNCHANGED <<calls, id, applys, chains, issued, given, ctor, freed>>

(***************************************************************************)
(* ChainTesterClient::init, run by get_chain_tester_client when client is  *)
(* None.  Its outcomes, in code order: opening the socket or the           *)
(* init_vm_api RPC fails; init_vm_api_client finds VM_API_CLIENT poisoned  *)
(* or new_vm_api_client panics under it (poisoning it); init_apply_request *)
(* fails after the VM API client was set; or it succeeds.  Each failure is *)
(* an unwrap that panics; vm is VM_API_CLIENT's client after the attempt.  *)
(***************************************************************************)
InitOutcomes ==
    LET vmUsable == "vm" \notin poisoned
    IN  (IF Faults \cap {"connect", "rpc"} # {}
         THEN {[ok |-> FALSE, vm |-> vmClient, poison |-> {}]} ELSE {})
        \cup (IF ~vmUsable THEN {[ok |-> FALSE, vm |-> vmClient, poison |-> {}]} ELSE {})
        \cup (IF vmUsable /\ ~vmClient /\ "vm_connect" \in Faults
              THEN {[ok |-> FALSE, vm |-> FALSE, poison |-> {"vm"}]} ELSE {})
        \cup (IF vmUsable /\ "rpc" \in Faults
              THEN {[ok |-> FALSE, vm |-> TRUE, poison |-> {}]} ELSE {})
        \cup (IF vmUsable THEN {[ok |-> TRUE, vm |-> TRUE, poison |-> {}]} ELSE {})

(***************************************************************************)
(* A statement get_chain_tester_client().<rpc>(..) of thread t: lock the   *)
(* client (a poisoned lock panics in unwrap), initialise it if it is None, *)
(* then run Rpc under the guard, which the statement's end releases.       *)
(***************************************************************************)
WithClient(t, Rpc) ==
    /\ Free("client")
    /\ \/ /\ "client" \in poisoned
          /\ Panic(t, {}) /\ UNCHANGED <<client, vmClient>>
       \/ /\ "client" \notin poisoned /\ client
          /\ Rpc /\ UNCHANGED <<client, vmClient>>
       \/ /\ "client" \notin poisoned /\ ~client
          /\ \E o \in InitOutcomes :
                /\ vmClient' = o.vm
                /\ IF o.ok THEN client' = TRUE /\ Rpc
                   ELSE client' = FALSE /\ Panic(t, {"client"} \cup o.poison)

\* What an RPC on chain i may return: the server fails calls on a chain it
\* does not know (or may not), and on any chain under the "rpc" fault.
RpcResults(i) ==
    IF i \in chains /\ "rpc" \notin Faults THEN {TRUE} ELSE BOOLEAN

\* The ids new_chain may return.
FreshIds == IF ReuseIds THEN Ids \ chains ELSE Ids \ issued

-----------------------------------------------------------------------------
\* Mutant: new keeps the client guard for the whole constructor
\* (let mut c = get_chain_tester_client(); ...), into the apply-map insert.
NewChainHoldClient(t, how) ==
    /\ pc[t] = "start"
    /\ WithClient(t,
          \/ /\ "rpc" \in Faults
             /\ Panic(t, {"client"})
          \/ \E i \in FreshIds :
                /\ chains' = chains \cup {i}
                /\ issued' = issued \cup {i}
                /\ given' = [given EXCEPT ![i] = t]
                /\ id' = [id EXCEPT ![t] = i]
                /\ ctor' = [ctor EXCEPT ![t] = how]
                /\ pc' = [pc EXCEPT ![t] = IF how = "new" THEN "insert" ELSE "ready"]
                /\ owner' = [owner EXCEPT !["client"] = t]
                /\ UNCHANGED <<caller, unwinding, calls, poisoned, aborted, applys, freed>>)

\* Mutant: new goes on without inserting its apply-map entry, as new_ex does.
NewChainNoInsert(t, how) ==
    /\ pc[t] = "start"
    /\ WithClient(t,
          \/ /\ "rpc" \in Faults
             /\ Panic(t, {"client"})
          \/ \E i \in FreshIds :
                /\ chains' = chains \cup {i}
                /\ issued' = issued \cup {i}
                /\ given' = [given EXCEPT ![i] = t]
                /\ id' = [id EXCEPT ![t] = i]
                /\ ctor' = [ctor EXCEPT ![t] = how]
                /\ pc' = [pc EXCEPT ![t] = "ready"]
                /\ UNCHANGED <<caller, unwinding, calls, owner, poisoned, aborted, applys, freed>>)

(***************************************************************************)
(* ChainTester::new's first statement and ChainTester::new_ex:             *)
(* get_chain_tester_client().new_chain(initialize).unwrap().  A tester of  *)
(* new_ex exists from here on; new still inserts its apply-map entry.      *)
(***************************************************************************)
NewChain(t, how) ==
    /\ pc[t] = "start"
    /\ WithClient(t,
          \/ /\ "rpc" \in Faults
             /\ Panic(t, {"client"})
          \/ \E i \in FreshIds :
                /\ chains' = chains \cup {i}
                /\ issued' = issued \cup {i}
                /\ given' = [given EXCEPT ![i] = t]
                /\ id' = [id EXCEPT ![t] = i]
                /\ ctor' = [ctor EXCEPT ![t] = how]
                /\ pc' = [pc EXCEPT ![t] = IF how = "new" THEN "insert" ELSE "ready"]
                /\ UNCHANGED <<caller, unwinding, calls, owner, poisoned, aborted, applys, freed>>)

(* new: get_apply_map_mutex().insert(id, HashMap::new()); then Self { id }.*)
NewInsert(t) ==
    /\ pc[t] = "insert" /\ Free("apply")
    /\ \/ /\ "apply" \in poisoned
          /\ Panic(t, {}) /\ UNCHANGED <<client, vmClient>>
       \/ /\ "apply" \notin poisoned
          /\ applys' = (id[t] :> {}) @@ applys
          /\ owner' = Release(t)
          /\ pc' = [pc EXCEPT ![t] = "ready"]
          /\ UNCHANGED <<caller, unwinding, calls, id, poisoned, aborted, client,
                         vmClient, chains, issued, given, ctor, freed>>

(***************************************************************************)
(* set_native_apply(contract, apply): the apply-map guard is taken for the *)
(* whole call; get_mut(&self.id).unwrap() panics under it when the id has  *)
(* no entry; Some inserts the contract, None removes it.                   *)
(***************************************************************************)
SetNativeApply(t, c, some) ==
    /\ pc[t] = "ready" /\ calls[t] < MaxCalls /\ Free("apply")
    /\ \/ /\ "apply" \in poisoned
          /\ Panic(t, {}) /\ UNCHANGED <<client, vmClient>>
       \/ /\ "apply" \notin poisoned /\ id[t] \notin DOMAIN applys
          /\ Panic(t, {"apply"}) /\ UNCHANGED <<client, vmClient>>
       \/ /\ "apply" \notin poisoned /\ id[t] \in DOMAIN applys
          /\ applys' = [applys EXCEPT ![id[t]] = IF some THEN @ \cup {c} ELSE @ \ {c}]
          /\ owner' = [owner EXCEPT !["apply"] = t]
          /\ pc' = [pc EXCEPT ![t] = "sna_rpc"]
          /\ calls' = [calls EXCEPT ![t] = @ + 1]
          /\ UNCHANGED <<caller, unwinding, id, poisoned, aborted, client, vmClient,
                         chains, issued, given, ctor, freed>>

(* ... then enable_debug_contract(contract, ..)?, still under the apply    *)
(* guard; an Err returns through ?, and the guard is dropped on return.    *)
SetNativeApplyRpc(t) ==
    /\ pc[t] = "sna_rpc"
    /\ WithClient(t,
          /\ owner' = Release(t)
          /\ pc' = [pc EXCEPT ![t] = "ready"]
          /\ UNCHANGED <<caller, unwinding, calls, id, poisoned, aborted, applys,
                         chains, issued, given, ctor, freed>>)

(***************************************************************************)
(* free, called by the test or by Drop: get_apply_map_mutex().remove(&id), *)
(* then self.client().free_chain(id).unwrap().  It returns to the test, or *)
(* ends the Drop: the test then ends, or goes on unwinding to its failure. *)
(***************************************************************************)
StartFree(t) ==
    /\ pc[t] = "ready" /\ "free" \in Uses /\ calls[t] < MaxCalls
    /\ pc' = [pc EXCEPT ![t] = "free_map"]
    /\ calls' = [calls EXCEPT ![t] = @ + 1]
    /\ UNCHANGED <<caller, unwinding, id, owner, poisoned, aborted, client, vmClient,
                   applys, chains, issued, given, ctor, freed>>

\* Mutant: an empty Drop; the tester's chain is never freed.
DropTesterNoFree(t) ==
    /\ pc[t] = "ready"
    /\ pc' = [pc EXCEPT ![t] = "ended"]
    /\ caller' = [caller EXCEPT ![t] = "drop"]
    /\ UNCHANGED <<unwinding, calls, id, owner, poisoned, aborted, client, vmClient,
                   applys, chains, issued, given, ctor, freed>>

\* The test's scope ends: Drop calls free.
DropTester(t) ==
    /\ pc[t] = "ready"
    /\ pc' = [pc EXCEPT ![t] = "free_map"]
    /\ caller' = [caller EXCEPT ![t] = "drop"]
    /\ UNCHANGED <<unwinding, calls, id, owner, poisoned, aborted, client, vmClient,
                   applys, chains, issued, given, ctor, freed>>

FreeMap(t) ==
    /\ pc[t] = "free_map" /\ Free("apply")
    /\ \/ /\ "apply" \in poisoned
          /\ Panic(t, {}) /\ UNCHANGED <<client, vmClient>>
       \/ /\ "apply" \notin poisoned
          /\ applys' = [i \in DOMAIN applys \ {id[t]} |-> applys[i]]
          /\ freed' = [freed EXCEPT ![t] = TRUE]
          /\ pc' = [pc EXCEPT ![t] = "free_chain"]
          /\ UNCHANGED <<caller, unwinding, calls, id, owner, poisoned, aborted, client,
                         vmClient, chains, issued, given, ctor>>

\* Where free returns to: the test's next statement, or the end of the Drop.
AfterFree(t) ==
    IF caller[t] = "test" THEN "ready" ELSE IF unwinding[t] THEN "failed" ELSE "ended"

FreeChain(t) ==
    /\ pc[t] = "free_chain"
    /\ WithClient(t,
          \E ok \in RpcResults(id[t]) :
             \/ /\ ok
                /\ chains' = chains \ {id[t]}
                /\ pc' = [pc EXCEPT ![t] = AfterFree(t)]
                /\ UNCHANGED <<caller, unwinding, calls, id, owner, poisoned, aborted,
                               applys, issued, given, ctor, freed>>
             \/ /\ ~ok
                /\ Panic(t, {"client"}))

(* close_chain_tester_client(): lock the client and set it to None; the    *)
(* next get_chain_tester_client runs init again.                           *)
Close(t) ==
    /\ pc[t] = "ready" /\ "close" \in Uses /\ calls[t] < MaxCalls /\ Free("client")
    /\ \/ /\ "client" \in poisoned
          /\ Panic(t, {}) /\ UNCHANGED <<client, vmClient>>
       \/ /\ "client" \notin poisoned
          /\ client' = FALSE
          /\ calls' = [calls EXCEPT ![t] = @ + 1]
          /\ UNCHANGED <<pc, caller, unwinding, id, owner, poisoned, aborted, vmClient,
                         applys, chains, issued, given, ctor, freed>>

(***************************************************************************)
(* The other methods: one self.client().<rpc>(self.id, ..) statement each. *)
(* produce_block, import_key and the packing RPCs of deploy_contract       *)
(* unwrap the result and panic under the client guard on an error; the    *)
(* others return it, through parse_ret for JSON results.                   *)
(***************************************************************************)
CallRpc(t, unwraps) ==
    /\ pc[t] = "ready" /\ calls[t] < MaxCalls
    /\ WithClient(t,
          \E ok \in RpcResults(id[t]) :
             \/ /\ ok \/ ~unwraps
                /\ calls' = [calls EXCEPT ![t] = @ + 1]
                /\ UNCHANGED <<pc, caller, unwinding, id, owner, poisoned, aborted,
                               applys, chains, issued, given, ctor, freed>>
             \/ /\ ~ok /\ unwraps
                /\ Panic(t, {"client"}))

\* Every test has ended, or the process was aborted: the test run is over.
Terminated ==
    /\ aborted \/ \A t \in Threads : pc[t] \in {"ended", "failed"}
    /\ UNCHANGED vars

Step(t) ==
    /\ ~aborted
    /\ \/ NewChain(t, "new")
       \/ "new_ex" \in Uses /\ NewChain(t, "new_ex")
       \/ NewInsert(t)
       \/ \E c \in Contracts, some \in BOOLEAN : SetNativeApply(t, c, some)
       \/ SetNativeApplyRpc(t)
       \/ StartFree(t)
       \/ DropTester(t)
       \/ FreeMap(t)
       \/ FreeChain(t)
       \/ Close(t)
       \/ \E unwraps \in BOOLEAN : CallRpc(t, unwraps)

Next == (\E t \in Threads : Step(t)) \/ Terminated

Spec == Init /\ [][Next]_vars

\* Each test runs on its own OS thread, which keeps running while it has a
\* step to take; the server is not scheduled.
Fairness == \A t \in Threads : WF_vars(Step(t))

FairSpec == Spec /\ Fairness

-----------------------------------------------------------------------------
(***************************************************************************)
(* No lock cycle: no set of threads waits on mutexes held by each other    *)
(* (or by itself: std's Mutex is not reentrant).  set_native_apply holds   *)
(* CHAIN_TESTER_APPLYS while it takes CHAIN_TESTER_CLIENT, and init holds  *)
(* CHAIN_TESTER_CLIENT while it takes VM_API_CLIENT: every path must take  *)
(* them in that order, or two tests deadlock.                              *)
(***************************************************************************)
Needs == [start |-> "client", insert |-> "apply", sna_rpc |-> "client",
          free_map |-> "apply", free_chain |-> "client"]

WaitsFor == [a, b \in Threads |->
                pc[a] \in DOMAIN Needs /\ owner[Needs[pc[a]]] = b]

NoLockCycle == IsIrreflexive(TransitiveClosure(WaitsFor, Threads), Threads)

(***************************************************************************)
(* No panic in correct use: when tests build testers with new, never free  *)
(* them by hand and the servers answer, no test panics, however the tests  *)
(* interleave and whatever ids the server reuses.  This needs free to      *)
(* remove the apply-map entry before the chain is freed: the other order   *)
(* lets a new tester on the reused id lose its fresh entry.                *)
(***************************************************************************)
NoPanic == ~aborted /\ \A t \in Threads : ~unwinding[t] /\ pc[t] # "failed"

(***************************************************************************)
(* A tester's chain stays intact: while a tester lives and its test has    *)
(* not freed it, its chain is alive on the server and, for a tester of     *)
(* new, its apply-map entry is there.  No other test's free, Drop or new   *)
(* may remove or replace them.                                             *)
(***************************************************************************)
Holding(t) == TesterLive(t) /\ ~freed[t]

TesterChainIntact ==
    \A t \in Threads :
        Holding(t) => /\ id[t] \in chains
                      /\ ctor[t] = "new" => id[t] \in DOMAIN applys

(***************************************************************************)
(* A failing test fails alone: no panic makes the process abort, which     *)
(* would end every other test of the run with it.                          *)
(***************************************************************************)
NoAbort == ~aborted

(***************************************************************************)
(* No chain leaks: every chain a test creates on the server is eventually  *)
(* freed, by the free the tester's Drop runs at the end of the test.       *)
(***************************************************************************)
EveryChainFreed == \A i \in Ids : (i \in chains) ~> (i \notin chains)

=============================================================================
