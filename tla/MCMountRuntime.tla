--------------------------- MODULE MCMountRuntime ---------------------------
(* Small instances of MountRuntime for TLC.                                *)
EXTENDS MountRuntime

MCOneCaller == {"c1"}

MCTwoCallers == {"c1", "c2"}

=============================================================================
