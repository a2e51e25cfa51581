-------------------------------- MODULE Codec -------------------------------
(***************************************************************************)
(* One call of the Packer framework end to end: values are packed one      *)
(* after another into a single Encoder (as a composite packs its fields),  *)
(* the encoder's bytes reach a Decoder, possibly cut short or with a byte  *)
(* changed on the way, and the Decoder unpacks the same sequence of types  *)
(* in the same order (as a composite unpacks its fields), each into a      *)
(* default value, until it has read them all or an unpack aborts.  Then a  *)
(* new call starts with a fresh Encoder.                                   *)
(***************************************************************************)
EXTENDS Structs

CONSTANTS
    Types,      \* the types packed and unpacked
    Domain,     \* Domain[t]: the values of type t the caller packs
    MaxItems,   \* the most values packed in one call
    Faults,     \* what may happen to the bytes: a subset of {"truncate", "corrupt"}
    MaxCut,     \* the most bytes a truncation removes from the end
    BadBytes,   \* the bytes a corruption writes
    Hexes,      \* Hexes[t]: the hex strings the caller passes to t::from_hex
    Swaps       \* the Uint256 values the caller swaps before packing them

ASSUME MaxItems \in Nat \ {0} /\ MaxCut \in Nat /\ BadBytes \subseteq Byte
ASSUME Faults \subseteq {"truncate", "corrupt"}

VARIABLES
    enc,        \* the Encoder's buffer
    items,      \* what was packed: [t, v, at |-> enc.get_size() before, n |-> pack's result]
    wire,       \* the bytes the Decoder was created over
    pos,        \* the Decoder's cursor, dec.get_pos()
    out,        \* what was unpacked: [t, v, at |-> pos before, n |-> unpack's result]
    phase,      \* "encode", "decode", "aborted", or "rejected" by from_hex
    rejected    \* [t, hex] of the from_hex call that aborted, if one did

vars == <<enc, items, wire, pos, out, phase, rejected>>

TypeOK ==
    /\ enc \in Seq(Byte) /\ wire \in Seq(Byte)
    /\ \A i \in DOMAIN items : items[i].t \in Types /\ items[i].v \in Domain[items[i].t]
    /\ Len(items) <= MaxItems /\ Len(out) <= Len(items)
    /\ pos \in 0..Len(wire)
    /\ phase \in {"encode", "decode", "aborted", "rejected"}

Init ==
    /\ enc = <<>> /\ items = <<>>
    /\ wire = <<>> /\ pos = 0 /\ out = <<>>
    /\ phase = "encode"
    /\ rejected = [t |-> "none", hex |-> <<>>]

(* v.pack(&mut enc) for one more value.                                    *)
PackValue(t, v) ==
    /\ phase = "encode" /\ Len(items) < MaxItems
    /\ enc' = enc \o Pack(t, v)
    /\ items' = Append(items, [t |-> t, v |-> v, hex |-> <<>>, at |-> Len(enc),
                               n |-> PackRet(t, v)])
    /\ UNCHANGED <<wire, pos, out, phase, rejected>>

(* let v = T::from_hex(h); v.pack(&mut enc): the length check aborts.       *)
PackFromHex(t, h) ==
    /\ phase = "encode" /\ Len(items) < MaxItems
    /\ LET r == FromHex(t, h) IN
       IF r.ok
       THEN /\ enc' = enc \o Pack(t, r.val)
            /\ items' = Append(items, [t |-> t, v |-> r.val, hex |-> h,
                                       at |-> Len(enc),
                                       n |-> PackRet(t, r.val)])
            /\ UNCHANGED <<wire, pos, out, phase, rejected>>
       ELSE /\ phase' = "rejected"
            /\ rejected' = [t |-> t, hex |-> h]
            /\ UNCHANGED <<enc, items, wire, pos, out>>

(* let w = v.swap(); w.pack(&mut enc) for a Uint256 v.                    *)
PackSwapped(v) ==
    /\ phase = "encode" /\ Len(items) < MaxItems
    /\ LET w == Uint256Swap(v) IN
       /\ enc' = enc \o Pack("Uint256", w)
       /\ items' = Append(items, [t |-> "Uint256", v |-> w, hex |-> <<>>,
                                  at |-> Len(enc), n |-> PackRet("Uint256", w)])
    /\ UNCHANGED <<wire, pos, out, phase, rejected>>

(* The bytes as they reach the reader.                                     *)
Received ==
    {enc}
    \cup (IF "truncate" \in Faults
          THEN {SubSeq(enc, 1, Len(enc) - k) : k \in 1..MaxCut} ELSE {})
    \cup (IF "corrupt" \in Faults
          THEN {[enc EXCEPT ![i] = b] : i \in DOMAIN enc, b \in BadBytes} ELSE {})

(* Decoder::new(bytes): the cursor starts at 0.                            *)
DecoderNew ==
    /\ phase = "encode" /\ items # <<>>
    /\ \E w \in Received : wire' = w
    /\ phase' = "decode"
    /\ UNCHANGED <<enc, items, pos, out, rejected>>

(* dec.unpack(&mut value) of the next type, into a default value.          *)
NextType == items[Len(out) + 1].t
Result == Unpack(NextType, Drop(wire, pos))

DecoderUnpack ==
    /\ phase = "decode" /\ Len(out) < Len(items)
    /\ Result.ok
    /\ out' = Append(out, [t |-> NextType, v |-> Result.val, at |-> pos, n |-> Result.n])
    /\ pos' = pos + Result.n
    /\ UNCHANGED <<enc, items, wire, phase, rejected>>

(* The unpack aborts through check(false, ...): the call ends.             *)
DecoderAbort ==
    /\ phase = "decode" /\ Len(out) < Len(items)
    /\ ~Result.ok
    /\ phase' = "aborted"
    /\ UNCHANGED <<enc, items, wire, pos, out, rejected>>

(* The call is over, read to the end or aborted; the next one starts.      *)
NewCall ==
    /\ phase \in {"aborted", "rejected"} \/ (phase = "decode" /\ Len(out) = Len(items))
    /\ enc' = <<>> /\ items' = <<>>
    /\ wire' = <<>> /\ pos' = 0 /\ out' = <<>>
    /\ phase' = "encode"
    /\ rejected' = [t |-> "none", hex |-> <<>>]

Next ==
    \/ \E t \in Types : \E v \in Domain[t] : PackValue(t, v)
    \/ \E t \in Types \cap HexTypes : \E h \in Hexes[t] : PackFromHex(t, h)
    \/ \E v \in Swaps : PackSwapped(v)
    \/ DecoderNew
    \/ DecoderUnpack
    \/ DecoderAbort
    \/ NewCall

Spec == Init /\ [][Next]_vars

-----------------------------------------------------------------------------
(***************************************************************************)
(* Round trip (spec 8): reading the bytes back yields exactly the values   *)
(* packed, in order, however the wire was cut short: the unpack of every   *)
(* Packer type reads exactly the bytes its pack wrote, and a value whose   *)
(* bytes are missing aborts instead of being returned.  The codec refines  *)
(* the FIFO channel of ValueChannel.                                       *)
(***************************************************************************)
Typed(s) == [i \in DOMAIN s |-> [t |-> s[i].t, v |-> s[i].v]]

Channel == INSTANCE ValueChannel WITH
    Items <- UNION {{[t |-> t, v |-> v] : v \in Domain[t]} : t \in Types},
    sent <- Typed(items), received <- Typed(out)

ChannelRefinement == Channel!Spec

(***************************************************************************)
(* No spurious abort: an unpack never rejects bytes that the matching      *)
(* pack wrote; the length guards and tag checks of every unpack accept     *)
(* every canonical encoding, also one that ends exactly at the end of the  *)
(* buffer.                                                                 *)
(***************************************************************************)
NoSpuriousAbort == phase = "aborted" => wire # enc

(***************************************************************************)
(* Canonical encoding (spec 3, determinism): every value an unpack returns *)
(* packs back to exactly the bytes it consumed, even from corrupted input, *)
(* so no value has a second accepted encoding: every tag and presence     *)
(* flag that is not the canonical one is rejected.                         *)
(***************************************************************************)
Canonical ==
    \A i \in DOMAIN out :
        Pack(out[i].t, out[i].v) = SubSeq(wire, out[i].at + 1, out[i].at + out[i].n)

(***************************************************************************)
(* Self-reported size (spec 3 and 4.3): size() equals the number of bytes  *)
(* pack writes and pack returns, and unpack's result equals the size() of  *)
(* the value it produced.                                                  *)
(***************************************************************************)
SizeAgreement ==
    /\ \A i \in DOMAIN items :
           /\ items[i].n = Size(items[i].t, items[i].v)
           /\ items[i].at + items[i].n = IF i < Len(items) THEN items[i + 1].at ELSE Len(enc)
    /\ \A i \in DOMAIN out : out[i].n = Size(out[i].t, out[i].v)

(***************************************************************************)
(* from_hex is exact: a value built by T::from_hex(h) reaches the reader   *)
(* with exactly the bytes h spells, through pack, the wire and unpack;     *)
(* and from_hex rejects a string only when it is not two digits per byte   *)
(* of the array.                                                           *)
(***************************************************************************)
FromHexExact ==
    /\ \A i \in DOMAIN out :
           items[i].hex # <<>> => out[i].v.data = DecodeHex(items[i].hex)
    /\ phase = "rejected" =>
           \A v \in Domain[rejected.t] : Len(rejected.hex) # 2 * Len(v.data)

=============================================================================
