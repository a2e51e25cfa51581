------------------------------- MODULE Structs ------------------------------
(***************************************************************************)
(* The Packer implementations of crates/chain/src/structs.rs: for every    *)
(* type its size(), pack() and unpack().  A type is named by a string, a   *)
(* value is a record with the fields of the Rust struct (an enum is a      *)
(* record [variant, x]), and a byte buffer is a sequence of bytes.         *)
(*                                                                         *)
(*   Size(t, v)     what v.size() reports                                  *)
(*   Pack(t, v)     the bytes v.pack(enc) appends to the encoder           *)
(*   PackRet(t, v)  the value v.pack(enc) returns                          *)
(*   Unpack(t, raw) what a default value's unpack(raw) yields: Ok(v, n)    *)
(*                  with the value and the count it returns, or Abort      *)
(***************************************************************************)
EXTENDS Wire

RECURSIVE Size(_, _), Pack(_, _), Unpack(_, _), DecUnpack(_, _)

(***************************************************************************)
(* Decoder (serializer.rs, spec 4.2): a cursor over raw.  DecUnpack runs   *)
(* the unpack of a type on the unread bytes and advances by its result;    *)
(* after an abort nothing else runs.                                       *)
(***************************************************************************)
DecNew(raw) == [buf |-> raw, pos |-> 0, ok |-> TRUE, val |-> "none"]

DecUnpack(d, t) ==
    IF ~d.ok THEN d
    ELSE LET r == Unpack(t, Drop(d.buf, d.pos))
         IN IF r.ok THEN [d EXCEPT !.pos = @ + r.n, !.val = r.val]
            ELSE [d EXCEPT !.ok = FALSE]

(* The result of a composite unpack: its record, and dec.get_pos().        *)
DecResult(d, v) == IF d.ok THEN Ok(v, d.pos) ELSE Abort

(***************************************************************************)
(* Fixed byte arrays: Float128, Checksum160/256/512, ECCPublicKey.         *)
(* pack copies data into enc.alloc(size); unpack checks the length first.  *)
(***************************************************************************)
PackBytes(v) == v.data

UnpackBytes(size, raw) ==
    IF Len(raw) < size THEN Abort ELSE Ok([data |-> SubSeq(raw, 1, size)], size)

\* Mutant: ECCPublicKey::unpack returns 34, the size of a PublicKey.
UnpackECCPublicKeyTagSize(raw) ==
    LET r == UnpackBytes(33, raw) IN IF r.ok THEN Ok(r.val, 34) ELSE r

UnpackFloat128(raw) == UnpackBytes(16, raw)
UnpackChecksum160(raw) == UnpackBytes(20, raw)
UnpackChecksum256(raw) == UnpackBytes(32, raw)
UnpackChecksum512(raw) == UnpackBytes(64, raw)
UnpackECCPublicKey(raw) == UnpackBytes(33, raw)

(***************************************************************************)
(* UserPresence: one byte, 0, 1 or 2; any other byte aborts.               *)
(***************************************************************************)
\* Mutant: the `_ =>` arm does not abort and leaves the default None.
UnpackUserPresenceNoReject(raw) ==
    IF Len(raw) < 1 THEN Abort ELSE Ok(IF raw[1] \in 0..2 THEN raw[1] ELSE 0, 1)

UnpackUserPresence(raw) ==
    IF Len(raw) < 1 \/ raw[1] \notin 0..2 THEN Abort ELSE Ok(raw[1], 1)

(***************************************************************************)
(* WebAuthNPublicKey: key, user_presence, rpid in this order.              *)
(***************************************************************************)
\* Mutant: size() leaves out user_presence.size().
SizeWebAuthNNoPresence(v) == 33 + SizeString(v.rpid)

SizeWebAuthN(v) == 33 + 1 + SizeString(v.rpid)

PackWebAuthN(v) == PackBytes(v.key) \o PackU8(v.user_presence) \o PackString(v.rpid)

UnpackWebAuthN(raw) ==
    LET d1 == DecUnpack(DecNew(raw), "ECCPublicKey")
        d2 == DecUnpack(d1, "UserPresence")
        d3 == DecUnpack(d2, "String")
    IN IF Len(raw) < 33 THEN Abort
       ELSE DecResult(d3, [key |-> d1.val, user_presence |-> d2.val, rpid |-> d3.val])

(***************************************************************************)
(* PublicKey: a tag byte (K1 = 0, R1 = 1, WebAuth = 2), then the payload.  *)
(***************************************************************************)
KeyTag == [K1 |-> 0, R1 |-> 1, WebAuth |-> 2]
KeyPayload == [K1 |-> "ECCPublicKey", R1 |-> "ECCPublicKey", WebAuth |-> "WebAuthNPublicKey"]

SizePublicKey(v) == Size(KeyPayload[v.variant], v.x) + 1

PackPublicKey(v) == PackU8(KeyTag[v.variant]) \o Pack(KeyPayload[v.variant], v.x)

\* Mutant: the length guard asks for 35 bytes.
UnpackPublicKeyGuard35(raw) ==
    IF Len(raw) < 35 THEN Abort
    ELSE LET d1 == DecUnpack(DecNew(raw), "u8")
             tagged == {k \in DOMAIN KeyTag : KeyTag[k] = d1.val}
         IN IF tagged = {} THEN Abort
            ELSE LET k == CHOOSE k \in tagged : TRUE
                     d2 == DecUnpack(d1, KeyPayload[k])
                 IN DecResult(d2, [variant |-> k, x |-> d2.val])

\* Mutant: the arm of tag 1 builds PublicKey::K1.
UnpackPublicKeyR1AsK1(raw) ==
    IF Len(raw) < 34 THEN Abort
    ELSE LET d1 == DecUnpack(DecNew(raw), "u8")
             tagged == {k \in DOMAIN KeyTag : KeyTag[k] = d1.val}
         IN IF tagged = {} THEN Abort
            ELSE LET k == CHOOSE k \in tagged : TRUE
                     d2 == DecUnpack(d1, KeyPayload[k])
                 IN DecResult(d2, [variant |-> IF k = "R1" THEN "K1" ELSE k, x |-> d2.val])

UnpackPublicKey(raw) ==
    IF Len(raw) < 34 THEN Abort
    ELSE LET d1 == DecUnpack(DecNew(raw), "u8")
             tagged == {k \in DOMAIN KeyTag : KeyTag[k] = d1.val}
         IN IF tagged = {} THEN Abort
            ELSE LET k == CHOOSE k \in tagged : TRUE
                     d2 == DecUnpack(d1, KeyPayload[k])
                 IN DecResult(d2, [variant |-> k, x |-> d2.val])

(***************************************************************************)
(* Signature: the type byte, which must be 0, then 65 bytes.               *)
(***************************************************************************)
PackSignature(v) == PackU8(v.ty) \o v.data

UnpackSignature(raw) ==
    IF Len(raw) < 66 \/ raw[1] # 0 THEN Abort
    ELSE Ok([ty |-> raw[1], data |-> SubSeq(raw, 2, 66)], 66)

(***************************************************************************)
(* Uint256: the two u128 limbs data[0], data[1]; no length check of its    *)
(* own, each limb's unpack checks.                                         *)
(***************************************************************************)
\* Uint256::new(lo, hi)
Uint256New(lo, hi) == [data |-> <<lo, hi>>]

\* Uint256::swap: a new value with data[1] and data[0] exchanged.
Uint256Swap(x) == [data |-> <<x.data[2], x.data[1]>>]

PackUint256(v) == PackUInt(v.data[1]) \o PackUInt(v.data[2])

UnpackUint256(raw) ==
    LET d1 == DecUnpack(DecNew(raw), "u128")
        d2 == DecUnpack(d1, "u128")
    IN DecResult(d2, [data |-> <<d1.val, d2.val>>])

(***************************************************************************)
(* TimePoint (u64 elapsed), TimePointSec (u32 seconds), BlockTimeStampType *)
(* (u32 slot): check the length, then unpack the integer.                  *)
(***************************************************************************)
UnpackTimePoint(raw) ==
    LET r == UnpackUInt(8, raw) IN
    IF Len(raw) < 8 THEN Abort ELSE Ok([elapsed |-> r.val], r.n)

UnpackTimePointSec(raw) ==
    LET r == UnpackUInt(4, raw) IN
    IF Len(raw) < 4 THEN Abort ELSE Ok([seconds |-> r.val], r.n)

UnpackBlockTimeStamp(raw) ==
    LET r == UnpackUInt(4, raw) IN
    IF Len(raw) < 4 THEN Abort ELSE Ok([slot |-> r.val], r.n)

(***************************************************************************)
(* ProducerKey: producer_name (a Name, 8 bytes), then block_signing_key.   *)
(***************************************************************************)
SizeProducerKey(v) == 8 + Size("PublicKey", v.block_signing_key)

PackProducerKey(v) == PackUInt(v.producer_name) \o Pack("PublicKey", v.block_signing_key)

UnpackProducerKey(raw) ==
    LET d1 == DecUnpack(DecNew(raw), "Name")
        d2 == DecUnpack(d1, "PublicKey")
    IN DecResult(d2, [producer_name |-> d1.val, block_signing_key |-> d2.val])

(***************************************************************************)
(* KeyWeight: key, then the u16 weight.                                    *)
(***************************************************************************)
SizeKeyWeight(v) == 2 + Size("PublicKey", v.key)

PackKeyWeight(v) == Pack("PublicKey", v.key) \o PackU16(v.weight)

UnpackKeyWeight(raw) ==
    LET d1 == DecUnpack(DecNew(raw), "PublicKey")
        d2 == DecUnpack(d1, "u16")
    IN DecResult(d2, [key |-> d1.val, weight |-> d2.val])

(***************************************************************************)
(* Vec<KeyWeight> (serializer.rs, spec 4.4): a VarUint32 count, then the   *)
(* elements; unpack reads the count and then that many default elements.   *)
(***************************************************************************)
PackKeys(keys) ==
    PackVarUint32(Len(keys)) \o FlattenSeq([i \in DOMAIN keys |-> Pack("KeyWeight", keys[i])])

UnpackKeys(raw) ==
    LET count == UnpackVarUint32(raw)
        RECURSIVE Elems(_, _, _)
        \* d: the decoder over the bytes after the count, acc: the elements read
        Elems(d, left, acc) ==
            IF ~d.ok \/ left = 0 THEN [d EXCEPT !.val = acc]
            ELSE LET d2 == DecUnpack(d, "KeyWeight")
                 IN Elems(d2, left - 1, IF d2.ok THEN Append(acc, d2.val) ELSE acc)
        d == Elems(DecNew(Drop(raw, count.n)), count.val, <<>>)
    IN IF ~count.ok \/ ~d.ok THEN Abort ELSE Ok(d.val, count.n + d.pos)

(***************************************************************************)
(* BlockSigningAuthorityV0: the u32 threshold, then keys.  size() counts   *)
(* 2 bytes for the threshold, as it is written in structs.rs.              *)
(***************************************************************************)
SizeAuthorityV0(v) ==
    LET RECURSIVE Sum(_)
        Sum(i) == IF i = 0 THEN 0 ELSE Sum(i - 1) + Size("KeyWeight", v.keys[i])
    IN 2 + SizeVarUint32(Len(v.keys)) + Sum(Len(v.keys))

PackAuthorityV0(v) == PackUInt(v.threshold) \o PackKeys(v.keys)

UnpackAuthorityV0(raw) ==
    LET d1 == DecUnpack(DecNew(raw), "u32")
        d2 == DecUnpack(d1, "Vec<KeyWeight>")
    IN DecResult(d2, [threshold |-> d1.val, keys |-> d2.val])

(***************************************************************************)
(* BlockSigningAuthority: tag byte 0, then the V0 payload; any other tag   *)
(* aborts.                                                                 *)
(***************************************************************************)
SizeAuthority(v) == 1 + Size("BlockSigningAuthorityV0", v.x)

PackAuthority(v) == PackU8(0) \o Pack("BlockSigningAuthorityV0", v.x)

UnpackAuthority(raw) ==
    LET d1 == DecUnpack(DecNew(raw), "u8")
        d2 == DecUnpack(d1, "BlockSigningAuthorityV0")
    IN IF ~d1.ok \/ d1.val # 0 THEN Abort
       ELSE DecResult(d2, [variant |-> "V0", x |-> d2.val])

(***************************************************************************)
(* ProducerAuthority: producer_name, then authority.                       *)
(***************************************************************************)
SizeProducerAuthority(v) == 8 + Size("BlockSigningAuthority", v.authority)

PackProducerAuthority(v) ==
    PackUInt(v.producer_name) \o Pack("BlockSigningAuthority", v.authority)

UnpackProducerAuthority(raw) ==
    LET d1 == DecUnpack(DecNew(raw), "Name")
        d2 == DecUnpack(d1, "BlockSigningAuthority")
    IN DecResult(d2, [producer_name |-> d1.val, authority |-> d2.val])

-----------------------------------------------------------------------------
(***************************************************************************)
(* The Packer trait: each type's implementation of size, pack and unpack.  *)
(***************************************************************************)
Size(t, v) ==
    CASE t = "Float128" -> 16
      [] t = "Checksum160" -> 20
      [] t = "Checksum256" -> 32
      [] t = "Checksum512" -> 64
      [] t = "ECCPublicKey" -> 33
      [] t = "UserPresence" -> 1
      [] t = "WebAuthNPublicKey" -> SizeWebAuthN(v)
      [] t = "PublicKey" -> SizePublicKey(v)
      [] t = "Signature" -> 66
      [] t = "Uint256" -> 32
      [] t = "TimePoint" -> 8
      [] t \in {"TimePointSec", "BlockTimeStampType"} -> 4
      [] t = "ProducerKey" -> SizeProducerKey(v)
      [] t = "KeyWeight" -> SizeKeyWeight(v)
      [] t = "BlockSigningAuthorityV0" -> SizeAuthorityV0(v)
      [] t = "BlockSigningAuthority" -> SizeAuthority(v)
      [] t = "ProducerAuthority" -> SizeProducerAuthority(v)

Pack(t, v) ==
    CASE t \in {"Float128", "Checksum160", "Checksum256", "Checksum512",
                "ECCPublicKey"} -> PackBytes(v)
      [] t = "UserPresence" -> PackU8(v)
      [] t = "WebAuthNPublicKey" -> PackWebAuthN(v)
      [] t = "PublicKey" -> PackPublicKey(v)
      [] t = "Signature" -> PackSignature(v)
      [] t = "Uint256" -> PackUint256(v)
      [] t = "TimePoint" -> PackUInt(v.elapsed)
      [] t = "TimePointSec" -> PackUInt(v.seconds)
      [] t = "BlockTimeStampType" -> PackUInt(v.slot)
      [] t = "ProducerKey" -> PackProducerKey(v)
      [] t = "KeyWeight" -> PackKeyWeight(v)
      [] t = "BlockSigningAuthorityV0" -> PackAuthorityV0(v)
      [] t = "BlockSigningAuthority" -> PackAuthority(v)
      [] t = "ProducerAuthority" -> PackProducerAuthority(v)

(* pack() returns self.size() in the fixed-size types and Signature, the   *)
(* encoder's growth (get_size() after minus before) in the others.         *)
PackRet(t, v) ==
    IF t \in {"Float128", "Checksum160", "Checksum256", "Checksum512", "ECCPublicKey",
              "Signature", "Uint256"}
    THEN Size(t, v) ELSE Len(Pack(t, v))

Unpack(t, raw) ==
    CASE t = "u8" -> UnpackU8(raw)
      [] t = "u16" -> UnpackU16(raw)
      [] t = "u32" -> UnpackUInt(4, raw)
      [] t \in {"u64", "Name"} -> UnpackUInt(8, raw)
      [] t = "u128" -> UnpackUInt(16, raw)
      [] t = "String" -> UnpackString(raw)
      [] t = "Vec<KeyWeight>" -> UnpackKeys(raw)
      [] t = "Float128" -> UnpackFloat128(raw)
      [] t = "Checksum160" -> UnpackChecksum160(raw)
      [] t = "Checksum256" -> UnpackChecksum256(raw)
      [] t = "Checksum512" -> UnpackChecksum512(raw)
      [] t = "ECCPublicKey" -> UnpackECCPublicKey(raw)
      [] t = "UserPresence" -> UnpackUserPresence(raw)
      [] t = "WebAuthNPublicKey" -> UnpackWebAuthN(raw)
      [] t = "PublicKey" -> UnpackPublicKey(raw)
      [] t = "Signature" -> UnpackSignature(raw)
      [] t = "Uint256" -> UnpackUint256(raw)
      [] t = "TimePoint" -> UnpackTimePoint(raw)
      [] t = "TimePointSec" -> UnpackTimePointSec(raw)
      [] t = "BlockTimeStampType" -> UnpackBlockTimeStamp(raw)
      [] t = "ProducerKey" -> UnpackProducerKey(raw)
      [] t = "KeyWeight" -> UnpackKeyWeight(raw)
      [] t = "BlockSigningAuthorityV0" -> UnpackAuthorityV0(raw)
      [] t = "BlockSigningAuthority" -> UnpackAuthority(raw)
      [] t = "ProducerAuthority" -> UnpackProducerAuthority(raw)


-----------------------------------------------------------------------------
(***************************************************************************)
(* The from_hex constructors.  A hex string is a sequence of hex digits,   *)
(* each its value 0..15.  decode_hex (utils.rs) turns two digits into a    *)
(* byte, high digit first; slice_copy copies the bytes into the array.     *)
(***************************************************************************)
DecodeHex(h) == [k \in 1..(Len(h) \div 2) |-> 16 * h[2 * k - 1] + h[2 * k]]

\* check(s.len() == len, ..); decode_hex(s); slice_copy(&mut ret.data, &data)
FromHexArray(len, h) == IF Len(h) # len THEN Abort ELSE Ok([data |-> DecodeHex(h)], 0)

FromHexChecksum160(h) == FromHexArray(40, h)
FromHexChecksum256(h) == FromHexArray(64, h)
FromHexChecksum512(h) == FromHexArray(128, h)
FromHexECCPublicKey(h) == FromHexArray(33 * 2, h)

\* Mutant: the length is checked against size() * 2, counting the type byte.
FromHexSignatureSize(h) ==
    IF Len(h) # 66 * 2 THEN Abort ELSE Ok([ty |-> 0, data |-> DecodeHex(h)], 0)

\* Signature::from_hex: 65 bytes, and ty = 0.
FromHexSignature(h) ==
    IF Len(h) # 65 * 2 THEN Abort ELSE Ok([ty |-> 0, data |-> DecodeHex(h)], 0)

HexTypes == {"Checksum160", "Checksum256", "Checksum512", "ECCPublicKey", "Signature"}

FromHex(t, h) ==
    CASE t = "Checksum160" -> FromHexChecksum160(h)
      [] t = "Checksum256" -> FromHexChecksum256(h)
      [] t = "Checksum512" -> FromHexChecksum512(h)
      [] t = "ECCPublicKey" -> FromHexECCPublicKey(h)
      [] t = "Signature" -> FromHexSignature(h)

=============================================================================
