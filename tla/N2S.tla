-------------------------------- MODULE N2S ---------------------------------
(***************************************************************************)
(* n2s (client.rs): the string of a 64-bit account name.  A u64 is a       *)
(* sequence of 64 bits, least significant first (TLC's integers are        *)
(* 32-bit); a character is its index in the charmap                        *)
(* ".12345abcdefghijklmnopqrstuvwxyz", so '.' is 0.                        *)
(*                                                                         *)
(* The reference is the name packing of the chain (name.rs, outside the    *)
(* modelled sources): the j-th of the first 12 characters fills 5 bits     *)
(* from bit 64 - 5j up, the 13th the low 4 bits, and the string of a name  *)
(* is its 13 characters without trailing dots.                             *)
(***************************************************************************)
EXTENDS Naturals, Sequences

CONSTANTS
    Alphabet,   \* the characters tried at the checked positions
    Positions,  \* the positions (1..13) that carry a character of Alphabet
    Last        \* the values tried for the 13th, 4-bit character

\* The value of a sequence of bits, least significant first.
RECURSIVE BitsVal(_)
BitsVal(b) == IF b = <<>> THEN 0 ELSE Head(b) + 2 * BitsVal(Tail(b))

\* The w low bits of c, least significant first.
RECURSIVE BitsOf(_, _)
BitsOf(c, w) == IF w = 0 THEN <<>> ELSE <<c % 2>> \o BitsOf(c \div 2, w - 1)

\* tmp >>= w on a u64.
ShiftRight(tmp, w) == SubSeq(tmp, w + 1, 64) \o [k \in 1..w |-> 0]

\* Mutant: the first character is also taken with the mask 0x1f and a
\* shift of 5.
N2SNoNibble(value) ==
    LET RECURSIVE Fill(_, _, _)
        Fill(s, tmp, i) ==
            IF i = 13 THEN s
            ELSE Fill([s EXCEPT ![13 - i] = BitsVal(SubSeq(tmp, 1, 5))],
                      ShiftRight(tmp, 5), i + 1)
        s == Fill([k \in 1..13 |-> 0], value, 0)
        RECURSIVE Trim(_)
        Trim(i) == IF i # 0 /\ s[i + 1] = 0 THEN Trim(i - 1) ELSE i
    IN SubSeq(s, 1, Trim(12) + 1)

(***************************************************************************)
(* n2s(value): for i in 0..13, s[12 - i] = charmap[tmp & mask] with the    *)
(* mask 0x0f for i = 0 and 0x1f after, then tmp >>= 4 or 5; then i walks   *)
(* down from 12 while s[i] is '.' and stops at 0, and the result is        *)
(* s[0..i+1].  The bytes are ASCII, so from_utf8 never fails.  Rust's      *)
(* s[k] is s[k + 1] here.                                                  *)
(***************************************************************************)
N2S(value) ==
    LET RECURSIVE Fill(_, _, _)
        Fill(s, tmp, i) ==
            IF i = 13 THEN s
            ELSE LET w == IF i = 0 THEN 4 ELSE 5
                 IN Fill([s EXCEPT ![13 - i] = BitsVal(SubSeq(tmp, 1, w))],
                         ShiftRight(tmp, w), i + 1)
        s == Fill([k \in 1..13 |-> 0], value, 0)
        RECURSIVE Trim(_)
        Trim(i) == IF i # 0 /\ s[i + 1] = 0 THEN Trim(i - 1) ELSE i
    IN SubSeq(s, 1, Trim(12) + 1)

-----------------------------------------------------------------------------
(* The reference: the bits of a name from its characters c[1..Len(c)].     *)
S2N(c) ==
    LET Field(j) == IF j > Len(c) THEN <<>> ELSE
                    IF j = 13 THEN BitsOf(c[13] % 16, 4) ELSE BitsOf(c[j], 5)
        RECURSIVE Below(_)
        \* the bits under character j: those of the characters after it
        Below(j) == IF j = 13 THEN Field(13) ELSE Below(j + 1) \o Field(j)
        low == IF Len(c) = 13 THEN Below(1)
               ELSE [k \in 1..(64 - 5 * Len(c)) |-> 0] \o Below(1)
    IN low

\* The 13 characters of a set of checked names.
Names ==
    {[j \in 1..13 |-> IF j = 13 THEN l ELSE IF j \in Positions THEN f[j] ELSE 0] :
        f \in [Positions -> Alphabet], l \in Last}

VARIABLE name   \* the 13 characters of the name n2s is given

Init == name \in Names
Next == UNCHANGED name
Spec == Init /\ [][Next]_name

Value == S2N(name)

(***************************************************************************)
(* n2s loses nothing: the string it returns names the value it was given,  *)
(* for every checked name.  Each 5-bit field lands at its position, the    *)
(* 4-bit 13th character included, and the trimming only drops dots.        *)
(***************************************************************************)
RoundTrip == S2N(N2S(Value)) = Value


=============================================================================
