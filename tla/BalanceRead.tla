---------------------------- MODULE BalanceRead -----------------------------
(***************************************************************************)
(* ChainTester::get_balance_ex (client.rs) and the parse_ret it goes       *)
(* through: get_table_rows(false, token_account, account, "accounts",      *)
(* symbol, "", 1), unwrap, the first row's hex "data", hex::decode, the    *)
(* first 8 bytes as a little-endian u64.                                   *)
(*                                                                         *)
(* The server is the environment.  The account's "accounts" table holds    *)
(* one row per token, keyed by the symbol code; a row's data is the packed *)
(* asset, the amount (8 bytes, little-endian) and then the symbol (8       *)
(* bytes), in hex.  get_table_rows answers with the rows whose key is at   *)
(* least lower_bound, in key order, up to limit; an empty upper_bound sets *)
(* no upper limit.  The RPC may fail, and the server may answer with an    *)
(* "except" object.                                                        *)
(*                                                                         *)
(* A symbol code is a natural standing for its u64 value, which orders the *)
(* keys; an amount is a natural below 2^24.  A u64 result is a sequence of *)
(* 8 bytes, most significant first.                                        *)
(*                                                                         *)
(* A second test statement checks an expected failure:                     *)
(* push_action(..).unwrap_err().check_err(Expected).  push_action parses   *)
(* its answer as parse_ret does; the answer is a transport error or a JSON *)
(* object, with or without "except", whose except.stack[0].data.s is one   *)
(* of Messages or not a string (NoMessage).                                *)
(***************************************************************************)
EXTENDS Naturals, Sequences, SequencesExt, FiniteSetsExt

CONSTANTS
    Symbols,    \* the symbol codes an account may hold
    Target,     \* the symbol get_balance_ex asks for
    Amounts,    \* the amounts a row may hold
    Faults,     \* subset of {"transport", "except"}
    Messages,   \* the assertion messages the server may report
    Expected    \* the message the test expects

ASSUME Target \in Symbols /\ Faults \subseteq {"transport", "except"}
ASSUME Expected \in Messages

VARIABLES
    holdings,   \* the account's rows: symbol code -> amount
    fault,      \* "none" or the fault of this call
    result,     \* pc "pending", "panic" or "returned", and v the u64 returned
    reply,      \* the server's answer to push_action
    checked     \* "pending", "unwrap_panic", "invalid_error" or "returned"

vars == <<holdings, fault, result, reply, checked>>

NoMessage == "no_message"

\* ChainTesterError{json: None, ..}
NoJson == [except |-> FALSE, rows |-> <<>>, s |-> NoMessage]

\* The n bytes of a natural, least significant first.
RECURSIVE LE(_, _)
LE(a, n) == IF n = 0 THEN <<>> ELSE <<a % 256>> \o LE(a \div 256, n - 1)

\* The u64 a returns as a natural below 2^24: its bytes, most significant first.
U64(a) == Reverse(LE(a, 8))

\* The outcomes of a call.
Panicked == [pc |-> "panic", v |-> <<>>]
Returns(u) == [pc |-> "returned", v |-> u]

\* hex::encode: two lower-case hex digits per byte, high nibble first.
HexEncode(bytes) == FlattenSeq([k \in 1..Len(bytes) |-> <<bytes[k] \div 16, bytes[k] % 16>>])

\* The keys get_table_rows reads from, lower_bound = Target, limit = 1.
Keys == {k \in DOMAIN holdings : k >= Target}

\* The server's answer: a Thrift result of a JSON text.
Answer ==
    IF fault = "transport" THEN [ok |-> FALSE]
    ELSE [ok |-> TRUE,
          json |-> [except |-> fault = "except",
                    rows |-> IF Keys = {} THEN <<>>
                             ELSE LET k == Min(Keys)
                                  IN <<[data |-> HexEncode(LE(holdings[k], 8) \o LE(k, 8))]>>]]

(***************************************************************************)
(* parse_ret: a Thrift error is Err; a JSON text with "except" is Err;     *)
(* otherwise Ok(json).  (The server's text is JSON, so from_str succeeds.) *)
(***************************************************************************)
\* Mutant: the "except" check is left out, as if tx.get("except") were never
\* looked at.
ParseRetNoExcept(ret) ==
    IF ~ret.ok THEN [err |-> TRUE, json |-> NoJson]
    ELSE [err |-> FALSE, v |-> ret.json]

ParseRet(ret) ==
    CASE ~ret.ok -> [err |-> TRUE, json |-> NoJson]
      [] ret.json.except -> [err |-> TRUE, json |-> ret.json]
      [] OTHER -> [err |-> FALSE, v |-> ret.json]

(***************************************************************************)
(* unwrap_err() panics on Ok.  ChainTesterError::get_err unwraps json,     *)
(* then is Some only when except.stack[0].data.s is a string (indexing a   *)
(* missing key gives Null).  check_err unwraps get_err, then panics        *)
(* "invalid error" when the message differs from err.                      *)
(***************************************************************************)
CheckErr(r, err) ==
    CASE ~r.err \/ r.json = NoJson \/ r.json.s = NoMessage -> "unwrap_panic"
      [] r.json.s # err -> "invalid_error"
      [] OTHER -> "returned"

\* hex::decode: an odd number of digits is an error.
HexDecode(h) ==
    IF Len(h) % 2 = 1 THEN [err |-> TRUE]
    ELSE [err |-> FALSE, v |-> [k \in 1..(Len(h) \div 2) |-> 16 * h[2 * k - 1] + h[2 * k]]]

\* Mutant: _balance[0..16], the whole asset, is taken: try_into to [u8; 8]
\* then fails on its 16 bytes and panics "invalid value".
GetBalanceExWholeAsset(ret) ==
    LET r == ParseRet(ret) IN
    IF r.err THEN Panicked
    ELSE IF r.v.rows = <<>> THEN Returns(U64(0))
    ELSE LET b == HexDecode(r.v.rows[1].data) IN
         IF b.err \/ Len(b.v) < 16 \/ Len(SubSeq(b.v, 1, 16)) # 8 THEN Panicked
         ELSE Returns(Reverse(SubSeq(b.v, 1, 8)))

(***************************************************************************)
(* get_balance_ex: unwrap of the parsed answer; no row gives 0; unwrap of  *)
(* hex::decode; _balance[0..8] panics on fewer than 8 bytes, and its       *)
(* try_into then cannot fail; u64::from_le_bytes.                          *)
(***************************************************************************)
GetBalanceEx(ret) ==
    LET r == ParseRet(ret) IN
    IF r.err THEN Panicked
    ELSE IF r.v.rows = <<>> THEN Returns(U64(0))
    ELSE LET b == HexDecode(r.v.rows[1].data) IN
         IF b.err \/ Len(b.v) < 8 THEN Panicked
         ELSE Returns(Reverse(SubSeq(b.v, 1, 8)))

Init ==
    /\ holdings \in UNION {[S -> Amounts] : S \in SUBSET Symbols}
    /\ fault \in {"none"} \cup Faults
    /\ result = [pc |-> "pending", v |-> <<>>]
    /\ reply \in {[ok |-> FALSE]} \cup
                 [ok : {TRUE},
                  json : [except : BOOLEAN, rows : {<<>>}, s : Messages \cup {NoMessage}]]
    /\ checked = "pending"

\* A test calls get_balance_ex(account, token_account, symbol).
GetBalance ==
    /\ result.pc = "pending"
    /\ result' = GetBalanceEx(Answer)
    /\ UNCHANGED <<holdings, fault, reply, checked>>

\* A test calls push_action(..).unwrap_err().check_err(Expected).
PushExpectingError ==
    /\ checked = "pending"
    /\ checked' = CheckErr(ParseRet(reply), Expected)
    /\ UNCHANGED <<holdings, fault, result, reply>>

\* Both calls have returned or panicked.
Returned ==
    /\ result.pc # "pending" /\ checked # "pending"
    /\ UNCHANGED vars

Next == GetBalance \/ PushExpectingError \/ Returned

Spec == Init /\ [][Next]_vars

-----------------------------------------------------------------------------
(***************************************************************************)
(* get_balance_ex panics exactly when the RPC failed or the server         *)
(* reported an exception, and otherwise returns the amount of the row the  *)
(* server answered with, or 0 when it answered with no row: the hex and    *)
(* slice steps never panic on an asset row.                                *)
(***************************************************************************)
BalanceOfAnsweredRow ==
    result.pc # "pending" =>
        /\ (result.pc = "panic") = (fault # "none")
        /\ result.pc = "returned" =>
              result.v = U64(IF Keys = {} THEN 0 ELSE holdings[Min(Keys)])

(***************************************************************************)
(* get_balance_ex returns the account's balance of the symbol it asks for, *)
(* and 0 when the account holds none of it.                                *)
(***************************************************************************)
BalanceIsHolding ==
    result.pc = "returned" =>
        result.v = U64(IF Target \in DOMAIN holdings THEN holdings[Target] ELSE 0)

(***************************************************************************)
(* check_err passes exactly when push_action failed with an exception      *)
(* whose first stack entry carries the expected message, and reports a    *)
(* wrong message as "invalid error"; a success, a transport error or an    *)
(* exception without a message string ends in an unwrap panic instead.     *)
(***************************************************************************)
CheckErrVerdict ==
    LET excepted == reply.ok /\ reply.json.except
    IN checked # "pending" =>
        /\ (checked = "returned") = (excepted /\ reply.json.s = Expected)
        /\ (checked = "invalid_error") =
              (excepted /\ reply.json.s \in Messages \ {Expected})

=============================================================================
