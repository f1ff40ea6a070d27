----------------------------- MODULE MC_Identity -----------------------------
(***************************************************************************)
(* The identity key's obfuscated path, checked in one run: the byte-level *)
(* to_ts_obfuscated / from_ts_obfuscated of IdentityObfuscation and the    *)
(* import cascade of KeyImport.  KeyImport takes de-obfuscation as the     *)
(* inverse of obfuscation (Deobfuscate(Obf(x)) = x); the byte-level model *)
(* is what checks it.  The two share no state and their steps interleave.  *)
(***************************************************************************)
EXTENDS IdentityObfuscation

CONSTANTS k1, k2

VARIABLES input, result

\* a pad that contains every plain byte value, so the XOR produces NULs
\* inside the hashed window
MCPad == <<1, 2, 3, 1>>
MCKeys == {k1, k2}

KI == INSTANCE KeyImport WITH Keys <- MCKeys, MaxDepth <- 3

importVars == <<input, result>>

IdentityInit == Init /\ KI!Init
IdentityNext == (Next /\ UNCHANGED importVars) \/ (KI!Next /\ UNCHANGED vars)
IdentitySpec == IdentityInit /\ [][IdentityNext]_<<vars, importVars>>

\* KeyImport's property under this run's keys: EccKeyPrivP256::import
\* returns the key for every plain export of it (to_tomcrypt, the
\* TS3AudioBot DER, to_ts, to_short and their base64).
ImportRecoversPlain == KI!ImportRecoversPlain
=============================================================================
