------------------------------ MODULE KeyImport ------------------------------
(***************************************************************************)
(* The import cascade of EccKeyPrivP256 (src/tsproto/src/crypto.rs):       *)
(* import, import_str, from_tomcrypt, from_short, from_ts and              *)
(* from_ts_obfuscated, and the exports that produce their inputs.          *)
(*                                                                         *)
(* A byte string is a term that says how it was made:                      *)
(*   Der(len, priv, ints, k)  the tomcrypt DER of key k: a BitString of    *)
(*                            len bits whose first bit is priv, then the   *)
(*                            ASN.1 Integers ints ("size","x","y","d")     *)
(*   Short(k)                 the big-endian scalar of k (to_short)        *)
(*   B64(x)                   the base64 text of the bytes x               *)
(*   Obf(x)                   x after the two XOR steps of                 *)
(*                            to_ts_obfuscated                             *)
(*   Junk                     bytes that encode nothing                    *)
(* What the code asks of raw bytes (is it UTF-8, does openssl take it as   *)
(* a scalar) depends on their value or on the openssl build; where the     *)
(* term does not decide it, the answer is a set of possible outcomes.      *)
(* Every decoder returns the set of results it can give.                   *)
(***************************************************************************)
EXTENDS Naturals, Sequences

CONSTANTS
    Keys,       \* the private keys of the model
    MaxDepth    \* bound on the nesting of B64 and Obf in an input

VARIABLES
    input,      \* the bytes handed to EccKeyPrivP256::import
    result      \* Pending, then the Result import returned

vars == <<input, result>>

-----------------------------------------------------------------------------
(* Byte strings and results.                                               *)

Der(len, priv, ints, k) == [kind |-> "der", len |-> len, priv |-> priv, ints |-> ints, key |-> k]
Short(k) == [kind |-> "short", key |-> k]
B64(x) == [kind |-> "b64", of |-> x]
Obf(x) == [kind |-> "obf", of |-> x]
Junk == [kind |-> "junk"]

Pending == [r |-> "pending", key |-> <<>>]
Err == [r |-> "err", key |-> <<>>]
Ok(k) == [r |-> "key", key |-> <<k>>]
\* A key openssl builds from bytes that are not the scalar of a key.
WrongKey == [r |-> "wrong", key |-> <<>>]

\* EccKeyPrivP256::to_tomcrypt: BitString(1, [0x80]), size, x, y, d.
to_tomcrypt(k) == Der(1, TRUE, <<"size", "x", "y", "d">>, k)
\* The TS3AudioBot form: two 1 bits, the size, then d without the public key.
audiobot_tomcrypt(k) == Der(2, TRUE, <<"size", "d">>, k)
\* EccKeyPubP256::to_tomcrypt: BitString(1, [0]), size, x, y.
pub_to_tomcrypt(k) == Der(1, FALSE, <<"size", "x", "y">>, k)
to_short(k) == Short(k)
to_ts(k) == B64(to_tomcrypt(k))
to_ts_obfuscated(k) == B64(Obf(to_ts(k)))

\* str::from_utf8: private DER holds the lone continuation byte 0x80 and
\* base64 text is ASCII; scalars, obfuscated bytes and junk may be either.
from_utf8(t) ==
    CASE t.kind = "b64" -> {TRUE}
      [] t.kind = "der" /\ t.priv -> {FALSE}
      [] OTHER -> {FALSE, TRUE}

\* base64::decode: only base64 text decodes.
base64_decode(t) == IF t.kind = "b64" THEN {t.of} ELSE {Err}

\* from_short: the scalar of k gives k; openssl takes any other octet
\* string as a big number too, unless the build rejects its length.
from_short(t) == IF t.kind = "short" THEN {Ok(t.key)} ELSE {WrongKey, Err}

\* The bytes of an ASN.1 Integer of the DER, passed on to from_short.
IntBytes(d, i) == IF d.ints[i] = "d" THEN Short(d.key) ELSE Junk

\* Mutant: the private key read from block 2 for a one-bit BitString.
from_tomcrypt_swapped(t) ==
    IF t.kind # "der" THEN {Err}
    ELSE IF (t.len # 1 /\ t.len # 2) \/ ~t.priv THEN {Err}
    ELSE IF Len(t.ints) >= 2 THEN from_short(IntBytes(t, 2))
    ELSE {Err}

\* from_tomcrypt: a DER that is not a sequence starting with a BitString is
\* an error; a BitString of 1 or 2 bits with the first bit set marks a
\* private key, found in block 4 (1 bit) or block 2 (2 bits).
from_tomcrypt(t) ==
    IF t.kind # "der" THEN {Err}
    ELSE IF (t.len # 1 /\ t.len # 2) \/ ~t.priv THEN {Err}
    ELSE IF t.len = 1
         THEN IF Len(t.ints) >= 4 THEN from_short(IntBytes(t, 4)) ELSE {Err}
    ELSE IF Len(t.ints) >= 2 THEN from_short(IntBytes(t, 2))
    ELSE {Err}

\* from_ts: base64::decode, then from_tomcrypt.
from_ts(t) == UNION {IF d = Err THEN {Err} ELSE from_tomcrypt(d) : d \in base64_decode(t)}

\* Undoing the XOR steps gives x back for Obf(x) and junk for anything else.
Deobfuscate(t) == IF t.kind = "obf" THEN t.of ELSE Junk

\* from_ts_obfuscated: base64::decode, undo the XORs, from_utf8, from_ts.
from_ts_obfuscated(t) ==
    UNION {IF d = Err THEN {Err}
           ELSE UNION {IF u THEN from_ts(Deobfuscate(d)) ELSE {Err}
                       : u \in from_utf8(Deobfuscate(d))}
           : d \in base64_decode(t)}

\* `if let Ok(r) = first { return Ok(r) }` followed by the next attempt.
OrElse(first, next) == UNION {IF r = Err THEN next ELSE {r} : r \in first}

RECURSIVE import(_), import_str(_)

\* import: as text (import_str), then from_tomcrypt, then from_short.
import(t) ==
    OrElse(UNION {IF u THEN import_str(t) ELSE {Err} : u \in from_utf8(t)},
           OrElse(from_tomcrypt(t), OrElse(from_short(t), {Err})))

\* import_str: base64::decode and import the bytes, then from_ts_obfuscated.
import_str(t) ==
    OrElse(UNION {IF d = Err THEN {Err} ELSE import(d) : d \in base64_decode(t)},
           OrElse(from_ts_obfuscated(t), {Err}))

-----------------------------------------------------------------------------
(* The inputs: every export of a key, and the terms built from them by     *)
(* base64 and obfuscation up to MaxDepth.                                  *)

Base == {to_tomcrypt(k) : k \in Keys} \cup {audiobot_tomcrypt(k) : k \in Keys}
        \cup {pub_to_tomcrypt(k) : k \in Keys} \cup {to_short(k) : k \in Keys} \cup {Junk}

RECURSIVE Terms(_)
Terms(n) ==
    IF n = 0 THEN Base
    ELSE Terms(n - 1) \cup {B64(x) : x \in Terms(n - 1)} \cup {Obf(x) : x \in Terms(n - 1)}

Init ==
    /\ input \in Terms(MaxDepth)
    /\ result = Pending

\* One call of EccKeyPrivP256::import.
Import ==
    /\ result = Pending
    /\ result' \in import(input)
    /\ UNCHANGED input

Next == Import

Spec == Init /\ [][Next]_vars

-----------------------------------------------------------------------------
(* Properties.                                                             *)

\* The forms of spec 3 (a) and (b) and their base64 text: the raw tomcrypt
\* DER, the TS3AudioBot DER, to_ts, the short scalar and its base64.
PlainForms(k) ==
    {to_tomcrypt(k), audiobot_tomcrypt(k), to_ts(k), B64(audiobot_tomcrypt(k)),
     to_short(k), B64(to_short(k))}

\* import tries the forms in order and, whatever the bytes of the key and
\* whichever openssl accepts scalars of any length, returns the key that
\* to_tomcrypt, to_ts or to_short exported.
ImportRecoversPlain ==
    \A k \in Keys : input \in PlainForms(k) /\ result # Pending => result = Ok(k)

\* Spec 3 (c): the obfuscated form to_ts_obfuscated produces imports as the
\* key too.
ImportRecoversObfuscated ==
    \A k \in Keys : input = to_ts_obfuscated(k) /\ result # Pending => result = Ok(k)

=============================================================================
