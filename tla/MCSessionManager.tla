-------------------------- MODULE MCSessionManager -------------------------
(* Small instances of the control plane for TLC.                           *)
EXTENDS SessionManager, TLC

MCSymmetry == Permutations(Conn) \cup Permutations(Instance)

=============================================================================
