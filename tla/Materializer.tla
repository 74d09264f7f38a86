---------------------------- MODULE Materializer ----------------------------
(***************************************************************************)
(* A copy of a part of the volume into a local directory                   *)
(* (internal/materialize/materialize.go), as devmount-winfsp and the       *)
(* console's runner (internal/winclient/runner.go) make it: one thread with*)
(* a mount of its own, which calls MountPaths, while other clients change  *)
(* the tree.                                                               *)
(*                                                                         *)
(* Either the mount is a volume, with threads that call as they like, or   *)
(* Sync runs on it.  Every error ends Sync, so what its calls of           *)
(* syncDirectory have still to do is one list.  A directory's entries come *)
(* in one page, and local files are written without error.                 *)
(***************************************************************************)
EXTENDS MountPaths

VARIABLES
    mode,       \* volume, sync while Sync runs, done or failed when it has ended
    target,     \* the path that Sync copies
    work,       \* the entries that are still to be copied, in order
    copy        \* per path: the file whose bytes the local copy has, 0 for none

syncVars == <<mode, target, work, copy>>
allVars == <<vars, syncVars>>

\* GetAttr tells Sync whether to copy a file or a directory.
SyncInit ==
    /\ Init
    /\ copy = [p \in Path |-> 0]
    /\ \/ mode = "volume" /\ target = <<>> /\ work = <<>>
       \/ mode = "sync" /\ target \in Path /\ work = <<[path |-> target, goal |-> "info"]>>

\* The volume's threads.
Volume == mode = "volume" /\ Next /\ UNCHANGED syncVars

OthersChange == mode # "volume" /\ OtherClient /\ UNCHANGED syncVars

-----------------------------------------------------------------------------
Ends(how) == mode' = how /\ work' = <<>>

\* The next file or directory.
SyncCall(t) ==
    /\ mode = "sync" /\ work # <<>> /\ \A u \in Thread : pc[u] = "idle"
    /\ Begin(t, work[1].goal, work[1].path)
    /\ UNCHANGED syncVars

SyncResolve(t) ==
    /\ mode = "sync"
    /\ Resolve(t) \/ \E e \in reg[t].todo : CacheEntry(t, e)
    /\ UNCHANGED syncVars

\* Sync learns the type, or an entry has another type than the listing said.
SyncAttr(t) ==
    /\ mode = "sync" /\ CacheAttr(t)
    /\ LET r == reg[t] IN
       IF r.goal = "info"
       THEN /\ work' = <<[path |-> r.path, goal |-> IF r.node \in DirNodes THEN "list" ELSE "file"]>>
            /\ UNCHANGED mode
       ELSE IF Wanted(r) THEN UNCHANGED <<mode, work>> ELSE Ends("failed")
    /\ UNCHANGED <<target, copy>>

\* What a directory's entries come to, in the order of the listing.
Below(r) ==
    LET names == InByteOrder({e[1] : e \in Listed(r)})
    IN  [i \in DOMAIN names |->
            [path |-> JoinMountPath(r.path, names[i]),
             goal |-> IF Child(place, r.node, names[i]) \in DirNodes THEN "list" ELSE "file"]]

\* Variant: the entries of a directory replace what was left to do.
syncDirectoryOnly(t) ==
    /\ mode = "sync" /\ OpenDir(t)
    /\ work' = Below(reg[t])
    /\ UNCHANGED <<mode, target, copy>>

\* The entries of the directory come next.
syncDirectory(t) ==
    /\ mode = "sync" /\ OpenDir(t)
    /\ work' = Below(reg[t]) \o Tail(work)
    /\ UNCHANGED <<mode, target, copy>>

\* The bytes are read through the handle.
syncFile(t) ==
    /\ mode = "sync" /\ OpenFile(t)
    /\ copy' = [copy EXCEPT ![work[1].path] = reg[t].node]
    /\ work' = Tail(work)
    /\ UNCHANGED <<mode, target>>

SyncFails(t) ==
    /\ mode = "sync" /\ Fail(t)
    /\ Ends("failed")
    /\ UNCHANGED <<target, copy>>

\* Nothing is left to do, or the context was cancelled.
SyncEnds ==
    /\ mode = "sync" /\ \A t \in Thread : pc[t] = "idle"
    /\ Ends(IF work = <<>> THEN "done" ELSE "failed")
    /\ UNCHANGED <<vars, target, copy>>

SyncNext ==
    \/ Volume \/ OthersChange \/ SyncEnds
    \/ \E t \in Thread : \/ SyncCall(t) \/ SyncResolve(t) \/ SyncAttr(t)
                         \/ syncDirectory(t) \/ syncFile(t) \/ SyncFails(t)

SyncSpec == SyncInit /\ [][SyncNext]_allVars

-----------------------------------------------------------------------------
(* Properties.                                                             *)

\* Path p is path q or one below it.
Under(q, p) == Len(q) <= Len(p) /\ SubSeq(p, 1, Len(q)) = q

\* As long as no directory was renamed and no name had spaces to trim, a copied
\* file has the bytes of a file that has been at its path; and when Sync succeeds
\* and nobody changed the tree, it has copied every file at and below its target
\* and no other (materialize.go, syncDirectory, syncFile).
CopyFaithful ==
    /\ ~disturbed => \A p \in Path : Plain(p) /\ copy[p] # 0 => copy[p] \in everAt[p]
    /\ mode = "done" /\ changes = 0 /\ ~disturbed /\ Plain(target) =>
           \A p \in Path : {copy[p]} \ {0} = IF Under(target, p) THEN NodesAt(place, p) \ DirNodes ELSE {}

=============================================================================
