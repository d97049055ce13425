------------------------------- MODULE TlsPrf -------------------------------
(***************************************************************************)
(* crypto/prf/prf.c and crypto/tls/tls-prf.c: the master secret, the keys  *)
(* of a connection and the check values of its two Finished messages.      *)
(*                                                                         *)
(* A text is a sequence of terms, <<name>> for one that is given; the HMAC *)
(* of a text is a free symbol of 32 bytes.                                 *)
(***************************************************************************)
EXTENDS Integers, Sequences

HmacSha256Of(secret, text) == <<"hmac", secret, text>>

\* thisA[j] is A(j) of RFC 5246: j of the code's loop is one less.
PrfHmacSha256(secret, seed, number) ==
  LET thisA[j \in 1 .. number] ==
        HmacSha256Of(secret, IF j = 1 THEN seed ELSE <<thisA[j - 1]>>)
  IN  [j \in 1 .. number |-> HmacSha256Of(secret, <<thisA[j]>> \o seed)]

\* n bytes from byte `from' on.
Slice(output, from, n) == [of |-> output, from |-> from, n |-> n]

TlsPrfMasterSecret(preMaster, clientRandom, serverRandom) ==
  Slice(PrfHmacSha256(preMaster, <<<<"master secret">>, clientRandom, serverRandom>>, 2), 0, 48)

\* Mutant: the keys are made with the randoms in the order of the master secret.
TlsPrfKeysAsMaster(master, clientRandom, serverRandom) ==
  LET hash == PrfHmacSha256(master, <<<<"key expansion">>, clientRandom, serverRandom>>, 4)
  IN  [clientMacKey |-> Slice(hash, 0, 20), serverMacKey |-> Slice(hash, 20, 20),
       clientWriteKey |-> Slice(hash, 40, 16), serverWriteKey |-> Slice(hash, 56, 16)]

TlsPrfKeysAes128Sha1(master, clientRandom, serverRandom) ==
  LET hash == PrfHmacSha256(master, <<<<"key expansion">>, serverRandom, clientRandom>>, 4)
  IN  [clientMacKey |-> Slice(hash, 0, 20), serverMacKey |-> Slice(hash, 20, 20),
       clientWriteKey |-> Slice(hash, 40, 16), serverWriteKey |-> Slice(hash, 56, 16)]

TlsPrfServerFinished(master, handshakeHash) ==
  Slice(PrfHmacSha256(master, <<<<"server finished">>, handshakeHash>>, 1), 0, 12)

=============================================================================
