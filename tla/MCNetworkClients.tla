--------------------------- MODULE MCNetworkClients ---------------------------
(***************************************************************************)
(* Small instances of NetworkClients.                                      *)
(***************************************************************************)
EXTENDS NetworkClients

=============================================================================
