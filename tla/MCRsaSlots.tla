----------------------------- MODULE MCRsaSlots -----------------------------
(***************************************************************************)
(* RsaSlots with a key small enough for TLC: p = 13 and q = 11 have their  *)
(* top bit set in 4 bits, as the primes of a real key have in 512, so that *)
(* r1 + p does overflow.  n = 143, e = 7, d = 103.                         *)
(***************************************************************************)
EXTENDS RsaSlots

D == 103

\* The reference: c^D mod n one multiplication at a time.
PrivatePower(c) ==
  LET power[e \in 0 .. D] == IF e = 0 THEN 1 ELSE (power[e - 1] * c) % (P * Q)
  IN power[D]

\* The Chinese remainder form of this key is the power.
ASSUME DecryptionIsPower == \A c \in 0 .. P * Q - 1 : Decryption(c) = PrivatePower(c)

=============================================================================
