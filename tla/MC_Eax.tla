------------------------------- MODULE MC_Eax -------------------------------
(* Model values for Eax.                                                   *)
EXTENDS Eax

CONSTANTS k1, b1, b2, b3, d1, d2

\* three values a nonce or a header can take: three packets with their own
\* nonces, and a nonce equal to another packet's header
MCBlocks == {b1, b2, b3}
MCDatas == {d1, d2}
=============================================================================
