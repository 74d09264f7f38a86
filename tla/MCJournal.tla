----------------------------- MODULE MCJournal -----------------------------
(* A small instance of the journal for TLC.                                *)
EXTENDS Journal, TLC

\* A watched directory and an entry in it.
MCPath == {<<"d", "f">>}
MCRoot == {<<"d">>}

MCSymmetry == Permutations(Writer)

=============================================================================
