----------------------------- MODULE MCBackend -----------------------------
(* Small instances of Backend for TLC.                                     *)
EXTENDS Backend

MCNested == {Root, <<"d">>}

MCNestedFiles == {<<"d", "f">>}

MCFlat == {Root}

MCFlatFiles == {<<"f">>}

=============================================================================
