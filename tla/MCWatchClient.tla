--------------------------- MODULE MCWatchClient ---------------------------
(* Small instances of the watching client for TLC.                         *)
EXTENDS WatchClient, TLC

\* One entry inside the watched directory and one beside it.
MCPath == {<<"d", "f">>, <<"g">>}
MCWatchRoot == <<"d">>
MCRoot == {MCWatchRoot}

=============================================================================
