---------------------------- MODULE MCMountPaths ----------------------------
(* A small instance of MountPaths and Materializer for TLC: two files d, one *)
(* in a directory F, whose name comes first as bytes and last in lower case, *)
(* and a name that begins with a space for other clients to use.             *)
EXTENDS Materializer, TLC

MCPath == {<<>>, <<"F">>, <<"F", "d">>, <<"d">>}
MCRaw == MCPath \cup {<<"", "F", ".", "d">>, <<"F", "..", "d">>}
MCBytes == " d" :> 0 @@ "F" :> 1 @@ "d" :> 2
MCFolded == " d" :> 0 @@ "F" :> 2 @@ "d" :> 1
MCTrimmed == " d" :> "d" @@ "F" :> "F" @@ "d" :> "d"

MCTree == [n \in Nodes |-> CASE n = 2 -> <<1, "F">> [] n = 3 -> <<2, "d">> [] n = 4 -> <<1, "d">> [] OTHER -> Gone]

MCSymmetry == Permutations(Thread)

=============================================================================
