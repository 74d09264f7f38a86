----------------------------- MODULE MCPathOps -----------------------------
(* Small instances of PathOps for TLC.                                     *)
EXTENDS PathOps, TLC

CONSTANTS c1, c2

MCConn == {c1, c2}

MCSymmetry == Permutations(MCConn)

=============================================================================
