------------------------- MODULE IdentityObfuscation -------------------------
(***************************************************************************)
(* The obfuscated identity form of EccKeyPrivP256 (src/tsproto/src/       *)
(* crypto.rs): to_ts_obfuscated and from_ts_obfuscated.                    *)
(*                                                                         *)
(* The plain text is the base64 tomcrypt key to_ts produces: bytes that   *)
(* are never NUL.  Encoding XORs the first min(len, 100) bytes with the   *)
(* fixed pad IDENTITY_OBFUSCATION, then XORs the first 20 bytes with the  *)
(* SHA-1 of the bytes from offset 20 up to the first NUL; decoding undoes *)
(* the two steps in the other order.  Bytes are BitWidth wide, 100 is     *)
(* PadLen and 20 is HashLen; SHA-1 is a fixed function Sha1 of the window *)
(* onto HashLen bytes.  The base64 wrapping of both sides is a bijection   *)
(* and is left out.                                                       *)
(***************************************************************************)
EXTENDS Integers, Sequences, SequencesExt, Bitwise

CONSTANTS
    BitWidth,  \* bits of a byte
    HashLen,   \* the 20 bytes the SHA-1 covers
    PadLen,    \* the 100 bytes of IDENTITY_OBFUSCATION
    MaxLen,    \* bound on the length of the plain text
    Pad        \* IDENTITY_OBFUSCATION: 1..PadLen -> Bytes

Bytes == 0..(2^BitWidth - 1)
Nul == 0

ASSUME /\ HashLen \in Nat \ {0} /\ PadLen >= HashLen /\ MaxLen >= HashLen
       /\ Pad \in [1..PadLen -> Bytes]

VARIABLES
    data,     \* the plain text to_ts produced for the key
    stored,   \* the obfuscated bytes to_ts_obfuscated wrote, <<>> before
    decoded   \* what from_ts_obfuscated read back, NoResult before

vars == <<data, stored, decoded>>

NoResult == [ok |-> FALSE, key |-> <<>>]

\* A fixed stand-in for SHA-1: HashLen bytes that depend on every byte of
\* the window and on its length.
Sha1(s) ==
    [i \in 1..HashLen |->
        (Len(s) * i + FoldLeft(LAMBDA acc, b : (acc * 3 + b + i) % 2^BitWidth, 0, s))
            % 2^BitWidth]

\* data[i] ^= k[i] for i in 1..n
XorPrefix(d, k, n) == [i \in DOMAIN d |-> IF i <= n THEN d[i] ^^ k[i] ELSE d[i]]

\* data[20..].iter().position(|b| *b == 0).unwrap_or(data.len() - 20)
NulPos(d) ==
    LET i == SelectInSubSeq(d, HashLen + 1, Len(d), LAMBDA b : b = Nul)
    IN IF i = 0 THEN Len(d) - HashLen ELSE i - HashLen - 1

\* SHA-1 of the bytes from offset 20 up to the first NUL
HashWindow(d) == Sha1(SubSeq(d, HashLen + 1, HashLen + NulPos(d)))

MinOf(a, b) == IF a < b THEN a ELSE b

\* Mutant: the hash step done before the pad step.
to_ts_obfuscated_hash_first(d) ==
    LET d1 == XorPrefix(d, HashWindow(d), HashLen)
    IN XorPrefix(d1, Pad, MinOf(Len(d1), PadLen))

to_ts_obfuscated(d) ==
    LET d1 == XorPrefix(d, Pad, MinOf(Len(d), PadLen))
    IN XorPrefix(d1, HashWindow(d1), HashLen)

\* Err when the input is shorter than 20 bytes.
from_ts_obfuscated(d) ==
    IF Len(d) < HashLen THEN [ok |-> FALSE]
    ELSE LET d1 == XorPrefix(d, HashWindow(d), HashLen)
         IN [ok |-> TRUE, key |-> XorPrefix(d1, Pad, MinOf(Len(d1), PadLen))]

\* Every plain text to_ts can produce: at least HashLen bytes, no NUL.
Init ==
    /\ data \in {s \in BoundedSeq(Bytes \ {Nul}, MaxLen) : Len(s) >= HashLen}
    /\ stored = <<>>
    /\ decoded = NoResult

\* The identity is stored in obfuscated form.
Encode ==
    /\ stored = <<>>
    /\ stored' = to_ts_obfuscated(data)
    /\ UNCHANGED <<data, decoded>>

\* The stored identity is read back.
Decode ==
    /\ stored # <<>>
    /\ decoded = NoResult
    /\ decoded' = from_ts_obfuscated(stored)
    /\ UNCHANGED <<data, stored>>

Next == Encode \/ Decode

Spec == Init /\ [][Next]_vars

\* Spec 4.1 and the test obfuscated_priv_key: decoding the obfuscated form
\* gives back the key, although the pad may turn window bytes into NUL and
\* so shorten the hashed window.
ObfuscationRoundTrip == decoded # NoResult => decoded = [ok |-> TRUE, key |-> data]

=============================================================================
