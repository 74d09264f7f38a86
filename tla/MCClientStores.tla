--------------------------- MODULE MCClientStores ---------------------------
(* A small instance of ClientStores for TLC.                               *)
EXTENDS ClientStores

=============================================================================
