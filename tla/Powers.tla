------------------------------- MODULE Powers -------------------------------
(***************************************************************************)
(* What a modular exponentiation is to yield: the reference for RsaSlots   *)
(* and RsaSlow.                                                            *)
(***************************************************************************)
EXTENDS Integers

\* b to the power of e modulo n, one multiplication at a time.
PowerMod(b, e, n) ==
  LET power[k \in Nat] == IF k = 0 THEN 1 % n ELSE (power[k - 1] * b) % n
  IN  power[e]

=============================================================================
