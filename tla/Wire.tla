-------------------------------- MODULE Wire --------------------------------
(***************************************************************************)
(* The base cases of the Packer contract that structs.rs builds on: the    *)
(* fixed-width integers, VarUint32, String and the result of an unpack.    *)
(* Their code (serializer.rs, varint.rs, name.rs) is not part of the       *)
(* modelled sources; they follow the wire format of spec.md sections 4.3,  *)
(* 4.4 and 6.                                                              *)
(*                                                                         *)
(* A byte is a natural in 0..255.  u8 and u16 values are naturals.  An     *)
(* integer of 4 bytes or more (u32, u64, u128) is written as its base-256  *)
(* digits, most significant first (TLC's integers are 32-bit); packing it  *)
(* little-endian reverses the digits.                                      *)
(***************************************************************************)
EXTENDS Naturals, Sequences, SequencesExt

Byte == 0..255

(* The bytes of raw after the first n: the slice &raw[n..].                *)
Drop(raw, n) == SubSeq(raw, n + 1, Len(raw))

(* The w base-256 digits of a small natural x, most significant first.     *)
RECURSIVE Digits(_, _)
Digits(x, w) == IF w = 0 THEN <<>> ELSE Digits(x \div 256, w - 1) \o <<x % 256>>

(***************************************************************************)
(* The outcome of an unpack: the value read and the bytes consumed, or an  *)
(* abort through check(false, ...).                                        *)
(***************************************************************************)
Ok(v, n) == [ok |-> TRUE, val |-> v, n |-> n]
Abort == [ok |-> FALSE, val |-> "abort", n |-> 0]

(***************************************************************************)
(* u8 and u16: little-endian, aborting on a buffer shorter than the width. *)
(***************************************************************************)
PackU8(x) == <<x>>
UnpackU8(raw) == IF Len(raw) < 1 THEN Abort ELSE Ok(raw[1], 1)

PackU16(x) == <<x % 256, x \div 256>>
UnpackU16(raw) == IF Len(raw) < 2 THEN Abort ELSE Ok(raw[1] + 256 * raw[2], 2)

(* u32, u64 and u128 (Name is a u64): the digits in reverse order.         *)
PackUInt(digits) == Reverse(digits)
UnpackUInt(w, raw) ==
    IF Len(raw) < w THEN Abort ELSE Ok(Reverse(SubSeq(raw, 1, w)), w)

(***************************************************************************)
(* VarUint32: seven bits per byte, least significant group first, the high *)
(* bit set on every byte but the last.  The decoder reads at most five     *)
(* bytes.  A count is saturated at VarUintCap, far beyond any buffer of a  *)
(* model, so that TLC's integers never overflow: every larger count makes  *)
(* the following reads abort just as the real count would.                *)
(***************************************************************************)
VarUintCap == 2^24

RECURSIVE PackVarUint32(_)
PackVarUint32(n) ==
    IF n < 128 THEN <<n>> ELSE <<(n % 128) + 128>> \o PackVarUint32(n \div 128)

SizeVarUint32(n) == Len(PackVarUint32(n))

UnpackVarUint32(raw) ==
    LET RECURSIVE Read(_, _)
        \* i: index of the next byte, acc: the value of the bytes before it
        Read(i, acc) ==
            IF i > Len(raw) \/ i > 5 THEN Abort
            ELSE LET group == IF i < 5 THEN (raw[i] % 128) * 128^(i - 1)
                              ELSE IF raw[i] % 128 = 0 THEN 0 ELSE VarUintCap
                     v == IF acc + group > VarUintCap THEN VarUintCap ELSE acc + group
                 IN IF raw[i] < 128 THEN Ok(v, i) ELSE Read(i + 1, v)
    IN Read(1, 0)

(***************************************************************************)
(* String: a VarUint32 length, then the bytes.                             *)
(***************************************************************************)
SizeString(s) == SizeVarUint32(Len(s)) + Len(s)
PackString(s) == PackVarUint32(Len(s)) \o s
UnpackString(raw) ==
    LET len == UnpackVarUint32(raw)
    IN IF ~len.ok \/ Len(raw) - len.n < len.val THEN Abort
       ELSE Ok(SubSeq(raw, len.n + 1, len.n + len.val), len.n + len.val)

=============================================================================
