------------------------------- MODULE MCTls --------------------------------
(***************************************************************************)
(* TlsClients on a small set of clients.  Where all the clients may do the *)
(* same things they are interchangeable.                                   *)
(***************************************************************************)
EXTENDS TlsClients, TLC

Interchangeable == Permutations(Clients)

=============================================================================
