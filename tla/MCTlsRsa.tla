------------------------------ MODULE MCTlsRsa ------------------------------
(***************************************************************************)
(* The two sides of DecryptSlots, for one run: in every behaviour either   *)
(* the TLS server works, for which the RSA slots are those of the promise, *)
(* or the engine that is to keep it.  The other stays as it began.         *)
(***************************************************************************)
EXTENDS MCTls, MCRsaSlots

VARIABLE side

sidesVars == <<side, vars, rsaVars>>

SidesInit == side \in {"tls", "rsa"} /\ ClientsInit /\ RsaInit

SidesNext ==
  /\ UNCHANGED side
  /\ IF side = "tls" THEN Next    ELSE UNCHANGED vars
  /\ IF side = "rsa" THEN RsaNext ELSE UNCHANGED rsaVars

\* Only the side that works is fair.
SidesFairness ==
  \/ side = "tls" /\ Fairness
  \/ side = "rsa" /\ RsaFairness

SidesSpec == SidesInit /\ [][SidesNext]_sidesVars /\ SidesFairness

=============================================================================
