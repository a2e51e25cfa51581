------------------------------- MODULE MCCodec ------------------------------
(***************************************************************************)
(* Values for checking Codec with TLC.  Fixed arrays keep their real       *)
(* widths (the length guards compare against 33, 34, 66, ...); their      *)
(* contents are all zero or a ramp 1, 2, 3, ... so that a byte-order slip  *)
(* shows.  The values include the scenarios of spec.md section 8.         *)
(***************************************************************************)
EXTENDS Codec

Zeros(n) == [i \in 1..n |-> 0]
Ramp(n) == [i \in 1..n |-> i % 256]

EccZero == [data |-> Zeros(33)]
EccRamp == [data |-> Ramp(33)]

\* WebAuthn key, presence Verified, relying party "x" (scenario 3), and one
\* with presence None and an empty relying party
WebVerified == [key |-> EccZero, user_presence |-> 2, rpid |-> <<120>>]
WebNone == [key |-> EccRamp, user_presence |-> 0, rpid |-> <<>>]

PublicKeys ==
    {[variant |-> "K1", x |-> EccZero], [variant |-> "R1", x |-> EccRamp],
     [variant |-> "WebAuth", x |-> WebVerified]}

\* a Name whose top and bottom bytes differ, as u64 digits
ProducerName == <<171, 0, 0, 0, 0, 0, 0, 1>>

KeyWeights == {[key |-> k, weight |-> 10] : k \in PublicKeys}

AuthoritiesV0 ==
    {[threshold |-> Digits(1, 4), keys |-> <<>>]}
    \cup {[threshold |-> Digits(258, 4), keys |-> <<kw>>] : kw \in KeyWeights}

Authorities == {[variant |-> "V0", x |-> a] : a \in AuthoritiesV0}

\* a Uint256 whose limbs differ, and differ from their byte reversal
U256 == Uint256New(Digits(1, 16), Digits(65536, 16))

\* the Uint256 values a caller swaps
MCSwaps == {U256}

AllValues == [
    Float128 |-> {[data |-> Ramp(16)]},
    Checksum160 |-> {[data |-> Ramp(20)]},
    Checksum256 |-> {[data |-> Zeros(32)]},
    Checksum512 |-> {[data |-> Ramp(64)]},
    ECCPublicKey |-> {EccZero, EccRamp},
    UserPresence |-> {0, 2},
    WebAuthNPublicKey |-> {WebVerified, WebNone},
    PublicKey |-> PublicKeys,
    Signature |-> {[ty |-> 0, data |-> Ramp(65)]},
    Uint256 |-> {U256, Uint256Swap(U256)},
    TimePoint |-> {[elapsed |-> Digits(1000000, 8)]},
    TimePointSec |-> {[seconds |-> Digits(86400, 4)]},
    BlockTimeStampType |-> {[slot |-> Digits(513, 4)]},
    ProducerKey |-> {[producer_name |-> ProducerName, block_signing_key |-> k] : k \in PublicKeys},
    KeyWeight |-> KeyWeights,
    BlockSigningAuthorityV0 |-> AuthoritiesV0,
    BlockSigningAuthority |-> Authorities,
    ProducerAuthority |-> {[producer_name |-> ProducerName, authority |-> a] : a \in Authorities}
]

AllTypes == DOMAIN AllValues

\* the types whose size() is not computed by BlockSigningAuthorityV0::size
SizedTypes == AllTypes \ {"BlockSigningAuthorityV0", "BlockSigningAuthority", "ProducerAuthority"}

MCDomain == [t \in AllTypes |-> AllValues[t]]

\* The hex digits of a byte string, high digit first.
HexOf(bytes) == [k \in 1..(2 * Len(bytes)) |->
                    IF k % 2 = 1 THEN bytes[(k + 1) \div 2] \div 16
                    ELSE bytes[k \div 2] % 16]

\* The hex of every array value, and the same one byte short.
MCHexes == [t \in HexTypes |->
               UNION {{HexOf(v.data), HexOf(Tail(v.data))} : v \in AllValues[t]}]

NoHexes == [t \in HexTypes |-> {}]

=============================================================================
