# TLA+ models of rscdk

The models in this directory cover the two source files of the repository:

- `crates/chain/src/structs.rs` holds the binary codec of the chain's data types.
- `crates/chaintester/src/client.rs` holds the test client that drives a chain tester server over Thrift.

Every module is checked with TLC. `PROJECT.json` maps each definition to the source lines it translates. It also lists the runs, the mutants and the hazards.

## 1. Inventory

### Codec (`structs.rs`, with the framework it uses)

The codec has the following parts:

- **Packer contract.** It is the trait every type implements:
  - `size()` reports the wire length of the current value.
  - `pack(enc)` appends the value's bytes to an Encoder and returns a count.
  - `unpack(raw)` reads a value from the front of `raw` into `self` and returns the bytes it consumed.
  - A malformed input never produces an error value. The code calls `check(false, ..)`, which aborts the process.
- **Encoder.** It is an append-only buffer. `alloc(n)` hands out `n` new bytes, and `get_size()` returns the current length.
- **Decoder.** It is a cursor over a byte slice. `unpack(&mut v)` runs `v.unpack` on the unread bytes and then advances by its result. `get_pos()` returns the cursor.
  - The Encoder, the Decoder, the integer packers, `VarUint32`, `String`, `Vec<T>` and `Name` are in files that are not among the sources: `serializer.rs`, `varint.rs` and `name.rs`.
  - They are modelled from spec.md sections 4.1–4.4 and 6. `PROJECT.json` marks them `spec_modelled`.
- **Fixed-size types.** `Float128` (16 bytes), `Checksum160/256/512` (20, 32 and 64 bytes) and `ECCPublicKey` (33 bytes) copy their bytes verbatim.
  - `Signature` is a type byte that must be 0, followed by 65 bytes.
  - `Uint256` is two u128 limbs.
  - `TimePoint` is a u64, and `TimePointSec` and `BlockTimeStampType` are u32s.
  - Each `unpack` checks the buffer length before it copies.
- **Tagged unions.** `UserPresence` is one byte in 0..2. `PublicKey` is a tag byte (K1 0, R1 1, WebAuth 2) followed by its payload. `BlockSigningAuthority` is tag 0 followed by the V0 payload.
  - `unpack` dispatches on the tag into a default-constructed payload.
  - An unknown tag aborts.
- **Composite records.** These are `WebAuthNPublicKey`, `ProducerKey`, `KeyWeight`, `BlockSigningAuthorityV0` and `ProducerAuthority`.
  - `size()` sums the sizes of the fields.
  - `pack` writes the fields in order and returns the encoder's growth.
  - `unpack` reads the fields in the same order through one Decoder and returns `get_pos()`.

The codec keeps no state between calls. Within one call, the state is the Encoder's buffer and the Decoder's cursor. The components interact only by nested calls: a composite calls its fields' Packer methods on the same Encoder or Decoder. The codec has no concurrency.

The hard behaviours are in the bytes:

- Pack and unpack must agree on field order, tags and widths.
- Every length guard must accept an encoding that ends exactly at the end of the buffer, and must reject one that is a byte short.
- Unknown tags must abort.
- `size()` must agree with `pack`.

The codec is correct when the following hold:

- **Round trip.** Unpacking returns the values that were packed.
- **No spurious abort.** Unpacking never rejects bytes that pack wrote.
- **Truncation detection.** Bytes that are cut short abort and never yield a wrong value.
- **Canonicity.** No value has a second accepted encoding.
- **Size agreement.** `size()` equals the bytes pack writes and returns, and the bytes unpack consumes.

### Test client (`client.rs`)

The test client has the following parts:

- **Global handles.** There are four mutex-protected globals:
  - `VM_API_CLIENT` holds an optional Thrift client and an `in_apply` flag.
  - `CHAIN_TESTER_CLIENT` holds an optional Thrift client.
  - `CHAIN_TESTER_APPLYS` maps a chain id to contract names and native apply functions.
  - `GLOBAL_VARIABLES` and `TEST_MUTEX` hold the rest.
  - `get_*` initialises a handle lazily under its lock. `close_*` drops the handle.
  - `ChainTesterClient::init` takes the VM API lock while it holds the chain tester lock.
- **ChainTester.** It owns a chain id that the server allocates.
  - `new` also inserts an empty entry into the apply map. `new_ex` does not.
  - `free` removes the entry and frees the chain on the server. `Drop` calls `free`.
  - `set_native_apply` holds the apply-map lock while it calls `enable_debug_contract`, which takes the client lock.
  - The remaining methods are one RPC each, followed by JSON parsing (`parse_ret`).
- **`new_vm_api_client`.** It retries the connection 11 times and then panics.
- **`n2s`.** It decodes a 64-bit name to its base-32 string.

Rust runs tests on parallel threads, so these globals are shared between concurrent tests. The hard behaviours are:

- the order in which locks are taken;
- ids that the server may reuse, together with a double `free` (explicit and then by `Drop`);
- lazy re-initialisation after `close`;
- the retry loop racing the server's start-up.

## 2. Modules

| Module | Models |
|---|---|
| `Wire` | The base Packers: u8, u16, u32/u64/u128/Name, VarUint32 and String. It also defines `Ok`/`Abort`, the result of an unpack. (spec-modelled) |
| `Structs` | `size`/`pack`/`unpack` of every type in `structs.rs`, one operator per method, and the `from_hex` constructors of the hex-built arrays (`FromHexChecksum160` ... `FromHexSignature`, sharing `FromHexArray`; `DecodeHex` stands for `decode_hex` of `utils.rs`), and `Uint256::new`/`swap` (`Uint256New`, `Uint256Swap`). `Size`, `Pack` and `Unpack` dispatch on the type name. `DecUnpack` is the Decoder. |
| `ValueChannel` | The abstract promise: a FIFO channel of typed values, which the reader may stop reading. |
| `Codec` | One encode/decode call as a state machine, using `Structs`. It refines `ValueChannel`. |
| `MCCodec` | The values TLC uses. They include the scenarios of spec.md section 8. |
| `ChainTester` | The test threads of `client.rs` over the three global mutexes: `ChainTester::new`/`new_ex`, `set_native_apply`, `free` by the test and by `Drop`, `close_chain_tester_client`, every other method as one RPC statement, lazy `ChainTesterClient::init`, poisoning, unwinding and abort. The chain tester server is the environment. |
| `MCChainTester` | Model values for threads, ids and a contract, and the symmetry of threads and ids (used by the safety-only runs). |
| `VmApiConnect` | `get_vm_api_client`/`init_vm_api_client`/`close_vm_api_client` and the retry loop of `new_vm_api_client`, for several threads, against a VM API server that starts at any moment or never. |
| `MCVmApiConnect` | The symmetry of the threads. |
| `N2S` | `n2s` on 64-bit sequences, checked against the name packing (the reference `S2N`). |
| `BalanceRead` | `parse_ret`/`parse_ret2` and `get_balance_ex`, against a server table of the account's token rows; and `push_action(..).unwrap_err().check_err(..)` (`get_err`, `check_err`) against the server's answer to the push. |

Representation:

- A byte is a natural in 0..255.
- A struct is a record with the Rust field names. An enum is `[variant, x]`.
- u8 and u16 values are naturals.
- Integers of 4 bytes or more are sequences of base-256 digits, most significant first, because TLC's integers are 32-bit. Packing them little-endian reverses the digits.
- VarUint32 counts are saturated at `VarUintCap` (2^24) so that TLC's integers cannot overflow. Any such count is larger than every buffer in the model, so it aborts exactly as the real count would.

`Codec` state and actions:

| Code | Model |
|---|---|
| Encoder buffer | `enc` |
| Each `v.pack(&mut enc)` | `PackValue(t, v)`: appends `Pack(t, v)` and records `PackRet` |
| `Decoder::new(bytes)` over what reached the reader | `DecoderNew` picks `wire` from `Received`: the bytes intact, cut by up to `MaxCut` bytes, or with one byte replaced by a member of `BadBytes` |
| `dec.unpack(&mut default)` of the next type in packing order, as a composite reads its fields | `DecoderUnpack` |
| The same call aborting | `DecoderAbort` |
| `let v = T::from_hex(h); v.pack(&mut enc)` by a caller | `PackFromHex(t, h)`: on a wrong length `from_hex`'s `check` aborts the call (`phase = "rejected"`); otherwise the value is packed and recorded with its hex |
| `let w = v.swap(); w.pack(&mut enc)` for a Uint256 `v` of `Swaps` | `PackSwapped(v)` |
| A fresh Encoder/Decoder for the next call | `NewCall` |

`items` and `out` record each value with its offset and the count its method returned. The properties read these records.

`ChainTester` state and actions:

| Code | Model |
|---|---|
| `CHAIN_TESTER_CLIENT.client.is_some()`, `VM_API_CLIENT.vm_api_client.is_some()` | `client`, `vmClient` |
| `CHAIN_TESTER_APPLYS` | `applys`: a function from the ids with an entry to the contracts registered |
| The guards held across steps, and poisoned mutexes | `owner` (apply map and client), `poisoned` (also `"vm"`) |
| The server's live chains and handed-out ids | `chains`, `issued` (environment) |
| `get_chain_tester_client()` with its lazy `init` | `WithClient(t, Rpc)`: lock, panic if poisoned, `InitOutcomes` if `None`, then the statement's RPC |
| `new`/`new_ex` first statement | `NewChain(t, how)`; the server picks an id from `FreshIds` |
| `get_apply_map_mutex().insert(id, ..)` in `new` | `NewInsert` |
| `set_native_apply` up to the map update / its `enable_debug_contract` under the apply guard | `SetNativeApply` / `SetNativeApplyRpc` |
| `free`: the map remove / the `free_chain(..).unwrap()` | `FreeMap` / `FreeChain`, entered by `StartFree` (the test) or `DropTester` (end of scope) |
| `close_chain_tester_client` | `Close` |
| Every other method (`produce_block`, `push_action`, `get_table_rows`, `deploy_contract`'s packing calls, ...) | `CallRpc(t, unwraps)`: the RPC may fail; `unwraps` says whether the method unwraps it |
| A panic: guards dropped poison their mutexes; unwinding runs `Drop`; a panic in `Drop` while unwinding aborts | `Panic(t, extra)` |

A guard that is a temporary lives to the end of its statement, so each such statement is one step. The apply-map guard of `set_native_apply` spans two steps, because the client lock is taken while it is held.

`VmApiConnect` maps `Lock` to `get_vm_api_client` (`lock().unwrap()`, then `VMAPIClient::init` if the client is `None`), `Open` and `Sleep` to one iteration of `for i in 0..=10` in `new_vm_api_client`, `Unlock` to the caller dropping the guard, and `Close` to `close_vm_api_client`. `Open` also covers `c.split()?` after a successful open: its `Err` returns to `VMAPIClient::init`, whose `unwrap` panics under the guard and poisons `VM_API_CLIENT` (`SplitFails`).

`N2S` represents a u64 as 64 bits, least significant first. `N2S` fills the 13 characters with `tmp & 0x0f` then `tmp & 0x1f` and shifts, and trims trailing dots down to index 0, as the code does. A character is its charmap index. `BalanceRead` represents a u64 result as 8 bytes, most significant first. `GetBalanceEx` is the code's chain of `unwrap`, `rows.len() == 0`, `hex::decode`, `_balance[0..8]` and `from_le_bytes`.

## 3. Runs

| Run | Checks | Shows |
|---|---|---|
| `codec_roundtrip` | `TypeOK`, `NoSpuriousAbort`, `FromHexExact`, `ChannelRefinement` | Every type is covered, up to 2 values per call, and the bytes may be cut by 1 or 2. Values come back unchanged and in order, or the call aborts. Intact bytes never abort. Values built by `from_hex` from the hex of each array value, or from that hex one byte short, reach the reader with exactly the hex's bytes, and only a wrong-length hex is rejected. Swapped Uint256 values are packed too. 18,966 states. |
| `codec_corrupt` | `Canonical` | Any single byte may be set to 1, 3 or 255. Every accepted value re-packs to exactly the bytes it consumed, so unknown tags and presence flags, nested ones included, are rejected. A signature type other than 0 re-packs to its own bytes, so its check is not covered by this property. 792,574 states, about 1 minute. |
| `codec_size` | `SizeAgreement` | For every type that does not contain a `BlockSigningAuthorityV0`, `size()` equals the bytes pack writes and returns and the bytes unpack consumes. |
| `codec_size_authority` (violation) | `SizeAgreement` | `BlockSigningAuthorityV0::size` (`structs.rs:744`) counts 2 bytes for the u32 threshold. An empty authority packs 5 bytes but reports 3. `BlockSigningAuthority` and `ProducerAuthority` inherit the error. This is recorded as a code bug in `PROJECT.json`. |
| `tester_clean` | `NoPanic`, `TesterChainIntact`, `EveryChainFreed` | Two tests use `new`, `set_native_apply`, RPCs and `close`, and drop their testers; the server reuses freed ids and answers every call. No test panics, and no test removes another's chain or apply-map entry. Under weak fairness of each test thread every chain created is eventually freed. No symmetry, because the run checks temporal properties. 1,963 states. |
| `tester_faults` | `NoLockCycle` | Every call, `new_ex` and explicit `free` included, with connect, VM API connect and RPC failures. No set of threads ever waits in a cycle on the apply-map and client locks. About 11,000 states. |
| `tester_double_free` (violation) | `TesterChainIntact` | t1 calls `free`; the server gives the id to t2's `new`; t1's `Drop` frees again and deletes t2's entry and chain (`client.rs:442`). |
| `tester_abort` (violation) | `NoAbort` | `new_ex`, then `set_native_apply` panics on the missing entry under the apply guard (`client.rs:464`); the unwinding `Drop` panics on the poisoned lock, and the process aborts. |
| `vmapi_connect` | `Settles` | Two threads, the real bound of 11 attempts, a server that starts at any moment or never, and a `c.split()` that may fail after a successful open. Every thread eventually holds the client or has panicked: the retry loop under the guard never keeps the other thread waiting forever. 393 states. |
| `n2s_roundtrip` | `RoundTrip` | 375 names: the first, second and twelfth characters from `.`, `1`, `5`, `a`, `z`, and 13th characters 0, 1 and 15. `n2s`'s string packs back to the value. |
| `balance_rows` | `BalanceOfAnsweredRow`, `CheckErrVerdict` | Accounts holding any subset of three symbols, with amounts of 0 to 3 bytes, and both faults. `get_balance_ex` panics exactly when the RPC failed or the server raised an exception, and otherwise returns the amount of the row it got, or 0. `check_err` passes only on an exception carrying the expected message, reports another message as `invalid error`, and ends in an unwrap panic on a success, a transport error, or an exception without a message string. 5,376 states. |
| `balance_other_symbol` (violation) | `BalanceIsHolding` | An account holding only a token of a larger symbol code: `get_balance_ex` returns that token's amount, because it asks for `lower_bound = symbol, limit = 1` and never checks the row's symbol (`client.rs:652`). |
Every property has a mutant of the code that TLC catches. The mutant operators sit in `Structs` next to the operators they replace:

- `ECCPublicKey::unpack` returning 34 breaks `TypeOK`: the cursor passes the end of the buffer.
- A PublicKey guard of 35 breaks `NoSpuriousAbort`.
- The R1 arm building K1 breaks `ChannelRefinement`.
- `Signature::from_hex` checking `66 * 2` digits (its `size()`) breaks `FromHexExact`.
- A UserPresence that ignores bad bytes breaks `Canonical`.
- A WebAuthn `size()` without the presence byte breaks `SizeAgreement`.
- `new` that skips its apply-map insert breaks `NoPanic` and `TesterChainIntact`.
- A `Drop` that does not call `free` breaks `EveryChainFreed`.
- `new` that keeps the client guard into the insert breaks `NoLockCycle`.
- A retry loop that does not advance `i` breaks `Settles`.
- `n2s` taking the first character with mask `0x1f` breaks `RoundTrip`.
- `get_balance_ex` reading `_balance[0..16]` breaks `BalanceOfAnsweredRow`.
- A `parse_ret` that never looks at `except` breaks `CheckErrVerdict`.

### Why the bounds are enough

- Widths are the real ones. The guards compare against 33, 34 and 66, so the off-by-one cases happen at their real values.
- Contents are all zeros or a ramp (1, 2, 3, …). A byte-order or offset slip therefore changes a value.
- Two values per call exercise a decoder that starts in the middle of a buffer. A third value adds no new offset case.
- A cut of 1 or 2 bytes lands inside the last value, in its last field. That is where a length guard is exact.
- The corruption bytes are:
  - 1: a valid other tag, which must decode as that variant;
  - 3: the first unassigned PublicKey and UserPresence tag;
  - 255: an unknown tag, and a VarUint32 continuation byte.
- Byte 0x80 is left out of `codec_corrupt`. Under the spec-modelled LEB128 decoder, 0x80 0x00 is an overlong count of 0, and TLC reports `Canonical` violated. Whether the real `VarUint32` rejects overlong counts can only be settled from `varint.rs`, which is not among the sources. It is listed as a hazard with no property.

- `ChainTester`: two threads, two ids and one contract are enough for each hazard. A double free needs one id freed and handed to the second thread. A lock cycle needs two threads and two locks. `MaxCalls = 2` lets a test call a method after `set_native_apply` or `free`. The `tester_faults` run allows no id reuse, so that every action can fire while `TesterChainIntact` is left to `tester_clean`.
- `VmApiConnect`: the loop bound is the code's own, 11 attempts. A split failure is allowed at every connected attempt.
- `N2S`: the checked positions are the first (top 5 bits), the second, the twelfth (next to the 4-bit field) and the 13th. The characters are `.` (0), the smallest and largest digits and letters. A mask or shift slip shows at these boundaries.
- `BalanceRead`: symbols below, at and above the asked-for one. The amounts fill 0, 2 and 3 bytes, so a byte-order slip changes the value. The push answers are every combination of transport error, `except` present or not, and a message that is the expected one, another one, or not a string.

### Fairness

- The codec properties are safety properties, and each call is finite.
- `VmApiConnect` assumes weak fairness of each thread's steps: a running test thread keeps running. The VM API server's start is not assumed fair, because it may never start.
- `ChainTester` (`FairSpec`) assumes weak fairness of each test thread's `Step`: every test runs on its own OS thread, which keeps running while it can. The chain tester server is not scheduled; it answers within the step that calls it.

## 4. Not modelled, and why

- **`Printable` for `Uint256`, `TimePointSec::new`/`seconds`, `ProducerKey::new`, the `Default` impls, accessors.** They build, read or print a value; no property tells the built value apart from the record the model starts from.
- **`Int128`/`Uint128`.** They have no operations in this file.
- **Whether `Vec::unpack` clears `self`.** Its code is outside the sources. Every unpack in `structs.rs` that reaches it starts from a default value, and that is what `Codec` models.
- **`TEST_MUTEX`, `GLOBAL_VARIABLES`.** Each is a lock and a read or write, with no caller in the sources.
- **`in_apply` and `DerefMut for VMAPIClient`.** The flag is set by the apply request server in `server.rs`, outside the sources.
- **`init_apply_request_server` run again after a `close`.** Its code is in `server.rs`.
- **File reads in `deploy_contract`.** These are I/O failures. The model's RPC failures stand for the client-side ones.
- **The name 0.** `n2s(0)` is `"."`, while the chain writes the name 0 as the empty string. `RoundTrip` shows that `"."` still packs back to 0. spec.md leaves the name convention out of scope, so no run states it.

## 5. Plan

Done:

- the codec;
- `ChainTester`;
- `VmApiConnect`;
- `N2S`;
- `BalanceRead`.

- liveness of `ChainTester` (`EveryChainFreed`);
- the `from_hex` constructors and `Uint256::new`/`swap`;
- `get_err`/`check_err` of an expected failure.

Considered and left out:

1. Composing `VmApiConnect` into `ChainTesterClient::init`. In the sources, `init_vm_api_client` is called only from `init`, under the `CHAIN_TESTER_CLIENT` guard, and nothing else in them takes `VM_API_CLIENT` (the VM API calls come from contract code run by the apply server, outside the sources). For the test threads, init's VM step is therefore one step, and `InitOutcomes` lists its outcomes: success, the retries running out (poisoning `VM_API_CLIENT`), and a poisoned lock. `VmApiConnect` checks the retry loop itself.
2. A refinement of `ChainTester` to an abstract chain lease. Every step of it that could break the lease (a free of another tester's chain) is already caught by `TesterChainIntact`. Without faults and explicit `free` there is nothing the lease would add, and with them the double free breaks both.
