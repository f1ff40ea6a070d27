--------------------------------- MODULE Eax ---------------------------------
(***************************************************************************)
(* The EAX authenticated encryption of tsproto (Eax::encrypt, Eax::decrypt *)
(* and Eax::cmac_with_iv in src/tsproto/src/crypto.rs), between a sender   *)
(* and a receiver that share a key, with an attacker on the wire.          *)
(*                                                                         *)
(* AES and CMAC are out of reach of a model checker; they are random       *)
(* functions here.  A 16-byte value is the XOR of a set of independent     *)
(* random values (atoms), so XOR is symmetric difference and two values    *)
(* are equal when their atom sets are: a chance collision of truncated     *)
(* 64-bit tags is ignored.  CMAC of (key, iv, data) and the AES-CTR        *)
(* keystream of (key, iv) are atoms; a nonce, a header or a plaintext is   *)
(* an atom of its own.                                                     *)
(*                                                                         *)
(* The packet layer (spec 4.3, not in the repository) keeps MacLen bytes   *)
(* of the tag in the packet header and gives every packet its own nonce.   *)
(* The attacker replays what it saw, flips bits of a ciphertext or a tag,  *)
(* and XORs observed tags together.  The tag is linear in the three OMACs, *)
(* so with a nonce used twice the XOR of three tags is the tag of a packet *)
(* nobody sent; the model's sender keeps the packet layer's promise.       *)
(***************************************************************************)
EXTENDS Naturals, FiniteSets, FiniteSetsExt

CONSTANTS
    Key,       \* the 16-byte key both sides derived
    Blocks,    \* the values a nonce or a header may take
    Datas,     \* the plaintexts the sender encrypts
    MacLen,    \* bytes of the tag the packet header carries
    MaxSends   \* bound on the packets the sender encrypts

\* l = block cipher size = 16 bytes
BlockLen == 16

ASSUME MacLen \in 1..BlockLen /\ MaxSends \in Nat

VARIABLE
    sent       \* the packets encrypt produced, with the data of each

vars == <<sent>>

-----------------------------------------------------------------------------
(* 16-byte values.                                                         *)

In(x) == {[atom |-> "in", of |-> x]}
\* A bit flip the attacker applies.
Flip == {[atom |-> "flip", of |-> 0]}
Xor(a, b) == SymDiff(a, b)

\* A value of len bytes; a tag is a prefix of a 16-byte value.
Bytes(len, v) == [len |-> len, v |-> v]
\* .take(len): the first len bytes.  A prefix of a random value is random
\* and prefixes of equal values are equal; the empty prefix is empty.
take(x, len) ==
    LET l == IF len < x.len THEN len ELSE x.len
    IN Bytes(l, IF l = 0 THEN {} ELSE x.v)

WrongMac == [ok |-> FALSE, err |-> "WrongMac", data |-> {}]
\* openssl::memcmp::eq asserts that both slices have the same length.
Panic == [ok |-> FALSE, err |-> "panic", data |-> {}]
Ok(d) == [ok |-> TRUE, err |-> "none", data |-> d]

-----------------------------------------------------------------------------
(* Eax.                                                                    *)

\* Mutant: the iv block is not fed to the signer, so the three OMACs are
\* one function.
cmac_with_iv_no_iv(key, iv, data) ==
    {[atom |-> "cmac", key |-> key, iv |-> 0, of |-> data]}

\* CMAC over the 16-byte block [0; 15] || iv followed by data.
cmac_with_iv(key, iv, data) ==
    {[atom |-> "cmac", key |-> key, iv |-> iv, of |-> data]}

\* symm::encrypt / symm::decrypt with aes_128_ctr and iv n: XOR with the
\* keystream of (key, n).
Ctr(key, n, data) == Xor(data, {[atom |-> "ctr", key |-> key, iv |-> n]})

\* 5. tag <- n ^ h ^ c
Tag(n, h, c) == Bytes(BlockLen, Xor(Xor(n, h), c))

encrypt(key, nonce, header, data) ==
    LET n == cmac_with_iv(key, 0, nonce)
        h == cmac_with_iv(key, 1, header)
        enc == Ctr(key, n, data)
        c == cmac_with_iv(key, 2, enc)
    IN [mac |-> Tag(n, h, c), enc |-> enc]

\* Mutant: the last OMAC taken over the decrypted data.
decrypt_mac_over_plain(key, nonce, header, data, mac) ==
    LET n == cmac_with_iv(key, 0, nonce)
        h == cmac_with_iv(key, 1, header)
        c == cmac_with_iv(key, 2, Ctr(key, n, data))
        mac2 == take(Tag(n, h, c), mac.len)
    IN IF mac.len # mac2.len THEN Panic
       ELSE IF mac # mac2 THEN WrongMac
       ELSE Ok(Ctr(key, n, data))

\* The tag is recomputed over the ciphertext and cut to the length of the
\* given mac; the data is decrypted only when they match.
decrypt(key, nonce, header, data, mac) ==
    LET n == cmac_with_iv(key, 0, nonce)
        h == cmac_with_iv(key, 1, header)
        c == cmac_with_iv(key, 2, data)
        mac2 == take(Tag(n, h, c), mac.len)
    IN IF mac.len # mac2.len THEN Panic
       ELSE IF mac # mac2 THEN WrongMac
       ELSE Ok(Ctr(key, n, data))

-----------------------------------------------------------------------------
(* The wire.                                                               *)

Values(S) == {In(x) : x \in S}

\* What the attacker can put on the wire: any nonce and header, a
\* ciphertext it saw or a plaintext it knows, each possibly with a bit
\* flipped, and the XOR of any of the tags it saw, possibly flipped.
Tags ==
    {Bytes(MacLen, Xor(FoldSet(Xor, {}, {p.mac.v : p \in S}), f)) :
        S \in SUBSET sent, f \in {{}, Flip}}
Ciphers ==
    {Xor(x, f) : x \in {p.cipher : p \in sent} \cup Values(Datas), f \in {{}, Flip}}
Packets ==
    [nonce : Values(Blocks), header : Values(Blocks), cipher : Ciphers, mac : Tags]

Init == sent = {}

\* The packet layer encrypts data under a nonce and a header and keeps
\* MacLen bytes of the tag (spec 4.3).  It derives the nonce of a packet
\* from the packet's type, id and generation, so no two packets share one;
\* a resend of a packet repeats it whole.
Send(nonce, header, d) ==
    /\ Cardinality(sent) < MaxSends
    /\ \A s \in sent : s.nonce = In(nonce) => s.header = In(header) /\ s.data = In(d)
    /\ LET r == encrypt(Key, In(nonce), In(header), In(d))
       IN sent' = sent \cup {[nonce |-> In(nonce), header |-> In(header), cipher |-> r.enc,
                             mac |-> take(r.mac, MacLen), data |-> In(d)]}

Next == \E nonce, header \in Blocks, d \in Datas : Send(nonce, header, d)

Spec == Init /\ [][Next]_vars

-----------------------------------------------------------------------------
(* Properties.                                                             *)

\* The packet of sent that p replays, if any.
Original(p) ==
    {s \in sent : s.nonce = p.nonce /\ s.header = p.header /\ s.cipher = p.cipher /\ s.mac = p.mac}

\* Spec 8.2, against an attacker: after any packets the sender encrypted,
\* Eax::decrypt gives the receiver the data of a packet Eax::encrypt
\* produced, and WrongMac (never a panic) for every other nonce, header,
\* ciphertext and tag the attacker builds from them by replay, bit flips
\* and XOR of tags.
AcceptsExactlySent ==
    \A p \in Packets :
        decrypt(Key, p.nonce, p.header, p.cipher, p.mac) =
            IF Original(p) = {} THEN WrongMac ELSE Ok((CHOOSE s \in Original(p) : TRUE).data)

=============================================================================
