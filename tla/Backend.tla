------------------------------ MODULE Backend ------------------------------
(***************************************************************************)
(* The metadata backend of the server: node ids, file handles and the four *)
(* caches (attributes, missing names, directory snapshots, small files) in *)
(* front of the exported tree (internal/server/metadata_backend.go).       *)
(*                                                                         *)
(* One action is one whole request: this module is about what a SEQUENCE   *)
(* of requests leaves in the caches, so requests do not overlap here.      *)
(* Overlapping requests are the subject of PathOps.                        *)
(*                                                                         *)
(* Time is abstracted to Expire: a cache entry past its deadline is        *)
(* treated by every reader as absent, so expiry is the removal of an entry *)
(* at an arbitrary moment.  A file's content, size and modification time   *)
(* are one version number that every write or truncation increments.       *)
(* Nothing but the server changes the tree.                                *)
(***************************************************************************)
EXTENDS Integers, FiniteSets, TLC, SequencesExt

CONSTANTS
    Name,           \* entry names
    MaxDepth,       \* bound: length of a path
    InitDirs,       \* paths of the directories of the exported tree
    InitFiles,      \* paths of the files it holds at the start
    HotName,        \* names workspaceProfile.IsHotDir accepts
    SmallName,      \* names workspaceProfile.IsSmallFileCandidate accepts
    MaxObjects,     \* bound: files and directories that ever exist
    MaxVersion,     \* bound: changes of one file's content
    MaxNodes,       \* bound: node ids handed out
    MaxHandles,     \* bound: file handles handed out
    MaxCursors      \* bound: directory cursors handed out

VARIABLES
    tree,       \* the exported tree: what is at a path, and each object
    b,          \* metadataBackend: node maps and caches
    handles,    \* metadataBackend.handles
    nextHandleID,
    cursors,    \* metadataBackend.cursors
    nextCursorID

vars == <<tree, b, handles, nextHandleID, cursors, nextCursorID>>

Path == UNION {[1..n -> Name] : n \in 0..MaxDepth}

Root == <<>>

RootNodeID == 1

HandleIDBase == 2000

CursorIDBase == 1000

Put(f, x, v) == (x :> v) @@ f

Drop(f, x) == [y \in DOMAIN f \ {x} |-> f[y]]

-----------------------------------------------------------------------------
(* The file system.  t.disk maps the paths that exist to objects, t.obj    *)
(* gives each object its type and its version.                             *)

Exists(t, p) == p \in DOMAIN t.disk

IsDir(t, p) == Exists(t, p) /\ t.obj[t.disk[p]].dir

IsFile(t, p) == Exists(t, p) /\ ~t.obj[t.disk[p]].dir

Children(t, p) == {q \in DOMAIN t.disk : q # Root /\ Front(q) = p}

Descendants(t, p) == {q \in DOMAIN t.disk : q # p /\ IsPrefix(p, q)}

\* os.Stat fails with "not a directory", which is not os.ErrNotExist.
BelowFile(t, p) == \E q \in DOMAIN t.disk : IsFile(t, q) /\ IsStrictPrefix(q, p)

Touched(t, o) == [t EXCEPT !.obj[o].ver = @ + 1]

WithNewFile(t, p) ==
    LET o == Cardinality(DOMAIN t.obj) + 1
    IN  [disk |-> Put(t.disk, p, o), obj |-> Put(t.obj, o, [dir |-> FALSE, ver |-> 0])]

Without(t, p) == [t EXCEPT !.disk = Drop(@, p)]

\* os.Rename refuses a destination that is a directory, a directory over a
\* file, and a directory into itself.
CanRename(t, src, dst) ==
    /\ Exists(t, src)
    /\ dst # Root /\ IsDir(t, Front(dst))
    /\ ~IsDir(t, dst)
    /\ IsDir(t, src) => ~Exists(t, dst) /\ ~IsPrefix(src, dst)

Renamed(t, src, dst) ==
    LET moved == {src} \cup Descendants(t, src)
        Target(q) == dst \o SubSeq(q, Len(src) + 1, Len(q))
        kept == DOMAIN t.disk \ (moved \cup {dst})
        landed == {Target(q) : q \in moved}
        Origin(q) == src \o SubSeq(q, Len(dst) + 1, Len(q))
    IN  [t EXCEPT !.disk = [q \in kept \cup landed |->
                                IF q \in landed THEN t.disk[Origin(q)] ELSE t.disk[q]]]

-----------------------------------------------------------------------------
(* The node maps and caches.  An operator takes the tree t and the         *)
(* backend k a helper starts from and returns the backend it leaves.       *)

\* attributes of the object at p under the node id `node'
AttrOf(t, p, node) == [node |-> node, dir |-> IsDir(t, p), ver |-> t.obj[t.disk[p]].ver]

EnsureNode(t, k, p, hint) ==
    IF p \in DOMAIN k.paths THEN k
    ELSE LET id == k.next + 1
         IN  [k EXCEPT !.next = id,
                       !.paths = Put(@, p, id),
                       !.ids = Put(@, id, [parent |-> hint, path |-> p,
                                           born |-> IF Exists(t, p) THEN t.disk[p] ELSE 0])]

\* What is cached is fresh: to go stale is to be dropped, in Expire.
CachedNodeInfo(k, p) == p \in DOMAIN k.attr
CachedDirSnapshot(k, id) == id \in DOMAIN k.snap
CachedSmallFileData(k, p) == p \in DOMAIN k.small
IsNegativeCached(k, p) == p \in k.neg

\* Variant: cached file content survives.
InvalidateEntryKeepSmall(k, p) == [k EXCEPT !.attr = Drop(@, p), !.neg = @ \ {p}]

InvalidateEntry(k, p) ==
    [k EXCEPT !.attr = Drop(@, p), !.neg = @ \ {p}, !.small = Drop(@, p)]

StoreNodeInfo(k, p, attr) == [k EXCEPT !.neg = @ \ {p}, !.attr = Put(@, p, attr)]

RecordNegative(k, p) == [k EXCEPT !.neg = @ \cup {p}]

RefreshNodeInfo(t, k, p, hint) ==
    IF Exists(t, p)
    THEN LET k1 == EnsureNode(t, [k EXCEPT !.neg = @ \ {p}], p, hint)
         IN  [k1 EXCEPT !.attr = Put(@, p, AttrOf(t, p, k1.paths[p]))]
    ELSE IF BelowFile(t, p) THEN k ELSE RecordNegative(k, p)

\* upsertCachedDirSnapshot, removeCachedDirSnapshotEntry, invalidateDirSnapshot
UpsertCached(k, pid, name, attr) ==
    IF pid \in DOMAIN k.snap THEN [k EXCEPT !.snap[pid] = Put(@, name, attr)] ELSE k

RemoveCached(k, pid, name) ==
    IF pid \in DOMAIN k.snap THEN [k EXCEPT !.snap[pid] = Drop(@, name)] ELSE k

InvalidateDirSnapshot(k, id) == [k EXCEPT !.snap = Drop(@, id)]

\* Variant: the attributes are refreshed, the listing is not.
RefreshWithoutPatch(t, k, p, pid) == RefreshNodeInfo(t, k, p, pid)

RefreshAndPatchParent(t, k, p, pid) ==
    LET k1 == RefreshNodeInfo(t, k, p, pid)
    IN  IF Exists(t, p) THEN UpsertCached(k1, pid, Last(p), k1.attr[p])
                        ELSE InvalidateDirSnapshot(k1, pid)

\* A cached "missing" hides an entry; a cached attribute is used as it is.
NodeInfoForSnapshotPath(t, k, p, hint) ==
    IF IsNegativeCached(k, p) \/ CachedNodeInfo(k, p) THEN k ELSE RefreshNodeInfo(t, k, p, hint)

RefreshDirSnapshot(t, k, id) ==
    IF id \notin DOMAIN k.ids \/ ~IsDir(t, k.ids[id].path) THEN k
    ELSE LET dir    == k.ids[id].path
             kids   == Children(t, dir)
             k1     == FoldSet(LAMBDA p, acc : NodeInfoForSnapshotPath(t, acc, p, id), k, kids)
             listed == {Last(p) : p \in kids \ k.neg}
         IN  [k1 EXCEPT !.snap = Put(@, id, [n \in listed |-> k1.attr[Append(dir, n)]])]

SnapshotDir(t, k, id) == IF CachedDirSnapshot(k, id) THEN k ELSE RefreshDirSnapshot(t, k, id)

IsSmall(p, attr) == ~attr.dir /\ p # Root /\ Last(p) \in SmallName

IsHot(p, attr) == attr.dir /\ p # Root /\ Last(p) \in HotName

LoadSmallFileCache(t, k, p) ==
    IF CachedSmallFileData(k, p) THEN k
    ELSE LET k0 == EnsureNode(t, k, Front(p), RootNodeID)
             k1 == IF CachedNodeInfo(k, p) THEN k
                   ELSE RefreshNodeInfo(t, k0, p, k0.paths[Front(p)])
         IN  IF CachedNodeInfo(k1, p) /\ IsSmall(p, k1.attr[p]) /\ IsFile(t, p)
             THEN [k1 EXCEPT !.small = Put(@, p, t.obj[t.disk[p]].ver)]
             ELSE k1

MaybeWarmNode(t, k, p, attr) ==
    IF IsHot(p, attr) THEN SnapshotDir(t, k, attr.node)
    ELSE IF IsSmall(p, attr) THEN LoadSmallFileCache(t, k, p) ELSE k

\* nodeInfoForPath: Found is whether it answers, NodeInfo what it leaves.
Found(t, k, p) == ~IsNegativeCached(k, p) /\ (CachedNodeInfo(k, p) \/ Exists(t, p))

NodeInfo(t, k, p, hint) ==
    IF IsNegativeCached(k, p) THEN k
    ELSE LET k1 == IF CachedNodeInfo(k, p) THEN k ELSE RefreshNodeInfo(t, k, p, hint)
         IN  IF CachedNodeInfo(k1, p) THEN MaybeWarmNode(t, k1, p, k1.attr[p]) ELSE k1

FoundAttr(t, k, p) == IF CachedNodeInfo(k, p) THEN k.attr[p] ELSE AttrOf(t, p, RootNodeID)

RemovePathMapping(k, p) ==
    LET gone == IF p \in DOMAIN k.paths THEN {k.paths[p]} ELSE {}
    IN  [InvalidateEntry(k, p) EXCEPT !.paths = Drop(@, p),
                                      !.ids = [i \in DOMAIN @ \ gone |-> @[i]]]

\* Variant: the id is entered under the new path and keeps its old record.
MovePathMappingHalf(k, src, dst, dstParent) ==
    LET k1 == InvalidateEntry(InvalidateEntry(k, src), dst)
    IN  IF src \notin DOMAIN k.paths THEN k1
        ELSE [k1 EXCEPT !.paths = Put(Drop(@, src), dst, k.paths[src])]

MovePathMapping(k, src, dst, dstParent) ==
    LET k1 == InvalidateEntry(InvalidateEntry(k, src), dst)
    IN  IF src \notin DOMAIN k.paths THEN k1
        ELSE LET id == k.paths[src]
             IN  [k1 EXCEPT !.paths = Put(Drop(@, src), dst, id),
                            !.ids[id].path = dst, !.ids[id].parent = dstParent]

-----------------------------------------------------------------------------
(* Requests.                                                               *)

Node == DOMAIN b.ids

Handle == DOMAIN handles

idle == UNCHANGED <<handles, nextHandleID, cursors, nextCursorID>>

Lookup(id, name) ==
    /\ Len(b.ids[id].path) < MaxDepth
    /\ b' = NodeInfo(tree, b, Append(b.ids[id].path, name), id)
    /\ UNCHANGED tree /\ idle

GetAttr(id) ==
    /\ b' = NodeInfo(tree, b, b.ids[id].path, b.ids[id].parent)
    /\ UNCHANGED tree /\ idle

\* The cursor keeps the listing just made, of which ReadDir returns pages; the
\* model keeps whose listing it is.
OpenDir(id) ==
    /\ nextCursorID < CursorIDBase + MaxCursors
    /\ b' = SnapshotDir(tree, b, id)
    /\ CachedDirSnapshot(b', id)
    /\ nextCursorID' = nextCursorID + 1
    /\ cursors' = Put(cursors, nextCursorID', id)
    /\ UNCHANGED <<tree, handles, nextHandleID>>

CloseDir(c) ==
    /\ cursors' = Drop(cursors, c)
    /\ UNCHANGED <<tree, b, handles, nextHandleID, nextCursorID>>

AddHandle(h) ==
    /\ nextHandleID < HandleIDBase + MaxHandles
    /\ nextHandleID' = nextHandleID + 1
    /\ handles' = Put(handles, nextHandleID', h)

\* `dirty' is history: the handle wrote and has not been flushed since.
NewHandle(node, parent, path, o, writable, doc) ==
    [node |-> node, parent |-> parent, path |-> path, obj |-> o,
     writable |-> writable, deleteOnClose |-> doc, dirty |-> FALSE]

\* A read-only open that asks for truncation truncates nothing, but still
\* drops and refreshes the cached entry.
OpenFile(id, writable, truncate) ==
    LET rec == b.ids[id]
        o   == tree.disk[rec.path]
        t1  == IF writable /\ truncate THEN Touched(tree, o) ELSE tree
        k1  == InvalidateEntry(b, rec.path)
    IN  /\ IsFile(tree, rec.path)
        /\ writable /\ truncate => tree.obj[o].ver < MaxVersion
        /\ AddHandle(NewHandle(id, rec.parent, rec.path, o, writable, FALSE))
        /\ tree' = t1
        /\ b' = IF truncate THEN RefreshAndPatchParent(t1, k1, rec.path, rec.parent)
                ELSE IF writable THEN k1 ELSE b
        /\ UNCHANGED <<cursors, nextCursorID>>

RecoverFileHandle(id, writable, doc) ==
    LET rec == b.ids[id]
    IN  /\ IsFile(tree, rec.path)
        /\ AddHandle(NewHandle(id, rec.parent, rec.path, tree.disk[rec.path], writable, doc))
        /\ b' = IF writable THEN InvalidateEntry(b, rec.path) ELSE b
        /\ UNCHANGED <<tree, cursors, nextCursorID>>

\* os.OpenFile with O_CREATE: O_TRUNC when overwriting, O_EXCL otherwise.
CanCreate(t, p, overwrite) ==
    /\ IsDir(t, Front(p))
    /\ ~IsDir(t, p)
    /\ Exists(t, p) => overwrite

CreateChecked(id) == NodeInfo(tree, b, b.ids[id].path, b.ids[id].parent)

ParentIsDir(id) ==
    /\ Found(tree, b, b.ids[id].path)
    /\ FoundAttr(tree, b, b.ids[id].path).dir

\* Variant: the listing is patched, the entry's own caches are not.
CreateFilePatchOnly(id, name, overwrite) ==
    LET p  == Append(b.ids[id].path, name)
        t1 == IF Exists(tree, p) THEN Touched(tree, tree.disk[p]) ELSE WithNewFile(tree, p)
        k1 == EnsureNode(t1, CreateChecked(id), p, id)
    IN  /\ Len(p) <= MaxDepth
        /\ ParentIsDir(id) /\ CanCreate(tree, p, overwrite)
        /\ IF Exists(tree, p) THEN tree.obj[tree.disk[p]].ver < MaxVersion
                              ELSE Cardinality(DOMAIN tree.obj) < MaxObjects
        /\ tree' = t1
        /\ AddHandle(NewHandle(k1.paths[p], id, p, t1.disk[p], TRUE, FALSE))
        /\ b' = UpsertCached(k1, id, name, AttrOf(t1, p, k1.paths[p]))
        /\ UNCHANGED <<cursors, nextCursorID>>

CreateFile(id, name, overwrite) ==
    LET p    == Append(b.ids[id].path, name)
        t1   == IF Exists(tree, p) THEN Touched(tree, tree.disk[p]) ELSE WithNewFile(tree, p)
        k1   == EnsureNode(t1, CreateChecked(id), p, id)
        attr == AttrOf(t1, p, k1.paths[p])
    IN  /\ Len(p) <= MaxDepth
        /\ ParentIsDir(id) /\ CanCreate(tree, p, overwrite)
        /\ IF Exists(tree, p) THEN tree.obj[tree.disk[p]].ver < MaxVersion
                              ELSE Cardinality(DOMAIN tree.obj) < MaxObjects
        /\ tree' = t1
        /\ AddHandle(NewHandle(k1.paths[p], id, p, t1.disk[p], TRUE, FALSE))
        /\ b' = UpsertCached(StoreNodeInfo(InvalidateEntry(k1, p), p, attr), id, name, attr)
        /\ UNCHANGED <<cursors, nextCursorID>>

CreateRefused(id, name, overwrite) ==
    /\ Len(b.ids[id].path) < MaxDepth
    /\ ~(ParentIsDir(id) /\ CanCreate(tree, Append(b.ids[id].path, name), overwrite))
    /\ b' = CreateChecked(id)
    /\ UNCHANGED tree /\ idle

\* A read through a writable handle goes to the open file and changes nothing.
ReadFile(h) ==
    /\ ~handles[h].writable
    /\ b' = LoadSmallFileCache(tree, b, handles[h].path)
    /\ UNCHANGED tree /\ idle

WriteFile(h) ==
    /\ handles[h].writable /\ tree.obj[handles[h].obj].ver < MaxVersion
    /\ tree' = Touched(tree, handles[h].obj)
    /\ b' = InvalidateEntry(b, handles[h].path)
    /\ handles' = [handles EXCEPT ![h].dirty = TRUE]
    /\ UNCHANGED <<nextHandleID, cursors, nextCursorID>>

FlushHandle(h) ==
    LET r    == handles[h]
        attr == [node |-> r.node, dir |-> FALSE, ver |-> tree.obj[r.obj].ver]
    IN  /\ b' = UpsertCached(StoreNodeInfo(InvalidateEntry(b, r.path), r.path, attr),
                             r.parent, Last(r.path), attr)
        /\ handles' = [handles EXCEPT ![h].dirty = FALSE]
        /\ UNCHANGED <<tree, nextHandleID, cursors, nextCursorID>>

TruncateHandle(h) ==
    LET r  == handles[h]
        t1 == Touched(tree, r.obj)
    IN  /\ r.writable /\ tree.obj[r.obj].ver < MaxVersion
        /\ tree' = t1
        /\ b' = RefreshAndPatchParent(t1, InvalidateEntry(b, r.path), r.path, r.parent)
        /\ idle

SetDeleteOnClose(h, enabled) ==
    /\ handles' = [handles EXCEPT ![h].deleteOnClose = enabled]
    /\ UNCHANGED <<tree, b, nextHandleID, cursors, nextCursorID>>

\* os.Remove fails on a directory that is not empty and below a file.
CanRemove(t, p) == ~BelowFile(t, p) /\ Descendants(t, p) = {}

CloseHandle(h) ==
    LET r == handles[h]
        p == r.path
    IN  /\ handles' = Drop(handles, h)
        /\ UNCHANGED <<nextHandleID, cursors, nextCursorID>>
        /\ \/ /\ r.deleteOnClose /\ CanRemove(tree, p)
              /\ tree' = Without(tree, p)
              /\ b' = RecordNegative(RemoveCached(RemovePathMapping(b, p), r.parent, Last(p)), p)
           \/ /\ r.deleteOnClose /\ ~CanRemove(tree, p)
              /\ UNCHANGED <<tree, b>>
           \/ /\ ~r.deleteOnClose /\ r.writable
              /\ b' = RefreshAndPatchParent(tree, InvalidateEntry(b, p), p, r.parent)
              /\ UNCHANGED tree
           \/ /\ ~r.deleteOnClose /\ ~r.writable
              /\ UNCHANGED <<tree, b>>

RenamePath(sid, sname, did, dname, replace) ==
    LET src  == Append(b.ids[sid].path, sname)
        dst  == Append(b.ids[did].path, dname)
        t1   == Renamed(tree, src, dst)
        k1   == RemoveCached(MovePathMapping(b, src, dst, did), sid, sname)
        k2   == EnsureNode(t1, k1, dst, did)
        attr == AttrOf(t1, dst, k2.paths[dst])
    IN  /\ CanRename(tree, src, dst)
        /\ Exists(tree, dst) => replace
        /\ DOMAIN t1.disk \subseteq Path
        /\ tree' = t1
        /\ b' = UpsertCached(StoreNodeInfo(k2, dst, attr), did, dname, attr)
        /\ idle

\* Resync and Subscribe's listing: every entry below the node is looked up
\* with that node as its parent.  A cached "missing" aborts the walk.
Walked(id, recursive) ==
    LET p == b.ids[id].path
    IN  IF recursive THEN Descendants(tree, p) ELSE Children(tree, p)

SnapshotSubtree(id, recursive) ==
    LET k0   == NodeInfo(tree, b, b.ids[id].path, b.ids[id].parent)
        all  == IF IsDir(tree, b.ids[id].path) THEN Walked(id, recursive) ELSE {}
    IN  /\ \E seen \in SUBSET all :
              /\ seen \cap k0.neg = {}
              /\ all \cap k0.neg = {} => seen = all
              /\ b' = IF Found(tree, b, b.ids[id].path)
                      THEN FoldSet(LAMBDA p, acc : NodeInfo(tree, acc, p, id), k0, seen)
                      ELSE k0
        /\ UNCHANGED tree /\ idle

RevalidateNode(id) ==
    LET p  == b.ids[id].path
        k1 == NodeInfo(tree, b, p, b.ids[id].parent)
    IN  /\ b' = IF Found(tree, b, p) \/ (~IsNegativeCached(b, p) /\ BelowFile(tree, p))
                THEN k1 ELSE RemovePathMapping(k1, p)
        /\ UNCHANGED tree /\ idle

Expire ==
    /\ \/ \E p \in DOMAIN b.attr : b' = [b EXCEPT !.attr = Drop(@, p)]
       \/ \E p \in b.neg : b' = [b EXCEPT !.neg = @ \ {p}]
       \/ \E id \in DOMAIN b.snap : b' = [b EXCEPT !.snap = Drop(@, id)]
       \/ \E p \in DOMAIN b.small : b' = [b EXCEPT !.small = Drop(@, p)]
    /\ UNCHANGED tree /\ idle

-----------------------------------------------------------------------------
(* newMetadataBackend: the root gets node 1, its attributes and a snapshot *)
(* that warms hot directories and small files.                             *)

InitTree ==
    LET all == SetToSeq(InitDirs \cup InitFiles)
    IN  [disk |-> [p \in InitDirs \cup InitFiles |-> CHOOSE i \in DOMAIN all : all[i] = p],
         obj  |-> [i \in DOMAIN all |-> [dir |-> all[i] \in InitDirs, ver |-> 0]]]

\* The root is listed, and its hot directories and small files are read.
PrefetchRoot(t, k) ==
    LET k1 == RefreshDirSnapshot(t, k, RootNodeID)
    IN  FoldSet(LAMBDA p, acc : MaybeWarmNode(t, acc, p, k1.attr[p]), k1, Children(t, Root))

InitBackend(t) ==
    LET k0 == [next |-> RootNodeID, paths |-> Root :> RootNodeID,
               ids |-> RootNodeID :> [parent |-> RootNodeID, path |-> Root, born |-> t.disk[Root]],
               attr |-> <<>>, neg |-> {}, snap |-> <<>>, small |-> <<>>]
    IN  PrefetchRoot(t, RefreshNodeInfo(t, k0, Root, RootNodeID))

Init ==
    /\ tree = InitTree
    /\ b = InitBackend(tree)
    /\ handles = <<>> /\ nextHandleID = HandleIDBase
    /\ cursors = <<>> /\ nextCursorID = CursorIDBase

\* The handle's path still names the file the handle has open.
InPlace(h) == Exists(tree, handles[h].path) /\ tree.disk[handles[h].path] = handles[h].obj

MetadataRequest ==
    \/ \E id \in Node, name \in Name : Lookup(id, name)
    \/ \E id \in Node : GetAttr(id) \/ OpenDir(id) \/ SnapshotSubtree(id, FALSE)
    \/ \E c \in DOMAIN cursors : CloseDir(c)

OpenRequest ==
    \/ \E id \in Node, writable, truncate \in BOOLEAN : OpenFile(id, writable, truncate)
    \/ \E id \in Node, name \in Name, overwrite \in BOOLEAN :
          CreateFile(id, name, overwrite) \/ CreateRefused(id, name, overwrite)

\* dispatchRecovery; the watches are in Journal.
RecoveryRequest ==
    \/ \E id \in Node : RevalidateNode(id)
    \/ \E id \in Node, writable, doc \in BOOLEAN : RecoverFileHandle(id, writable, doc)

HarmlessRequest(h) ==
    ReadFile(h) \/ \E enabled \in BOOLEAN : SetDeleteOnClose(h, enabled)

ContentRequest(h) == WriteFile(h) \/ FlushHandle(h) \/ TruncateHandle(h)

RenameRequest(sid, sname) ==
    \E did \in Node, dname \in Name, replace \in BOOLEAN : RenamePath(sid, sname, did, dname, replace)

Bounded == b'.next <= MaxNodes

Next ==
    /\ \/ MetadataRequest \/ OpenRequest \/ RecoveryRequest \/ Expire
       \/ \E id \in Node : SnapshotSubtree(id, TRUE)
       \/ \E h \in Handle : HarmlessRequest(h) \/ ContentRequest(h) \/ CloseHandle(h)
       \/ \E id \in Node, name \in Name : RenameRequest(id, name)
    /\ Bounded

Spec == Init /\ [][Next]_vars

\* A client that keeps to the discipline the caches need: it writes, flushes,
\* truncates and deletes through a handle only while the handle's path still
\* names the open file, renames files only, and does not resync recursively.
DisciplinedNext ==
    /\ \/ MetadataRequest \/ OpenRequest \/ RecoveryRequest \/ Expire
       \/ \E h \in Handle : HarmlessRequest(h)
       \/ \E h \in Handle : InPlace(h) /\ ContentRequest(h)
       \/ \E h \in Handle : (handles[h].deleteOnClose => InPlace(h)) /\ CloseHandle(h)
       \/ \E id \in Node, name \in Name :
             IsFile(tree, Append(b.ids[id].path, name)) /\ RenameRequest(id, name)
    /\ Bounded

DisciplinedSpec == Init /\ [][DisciplinedNext]_vars

-----------------------------------------------------------------------------
(* Properties.                                                             *)

\* A name the negative cache calls missing is missing: creating or renaming
\* onto it, whoever asks, clears the entry.
NegativesTruthful == \A p \in b.neg : ~Exists(tree, p)

\* A cached attribute, and the cached content of a small file that read-only
\* handles are served, is the current one, whatever was written, truncated,
\* renamed or deleted since it was stored, and the attribute's node id names its
\* path (invalidateEntry, refreshAndPatchParent).
CachesExact ==
    /\ \A p \in DOMAIN b.attr :
          /\ Exists(tree, p)
          /\ b.attr[p].dir = IsDir(tree, p)
          /\ b.attr[p].ver = tree.obj[tree.disk[p]].ver
          /\ b.attr[p].node \in Node /\ b.ids[b.attr[p].node].path = p
    /\ \A p \in DOMAIN b.small : IsFile(tree, p) /\ b.small[p] = tree.obj[tree.disk[p]].ver

HasUnflushedWrite(p) == \E h \in Handle : handles[h].path = p /\ handles[h].dirty

\* A cached directory listing names exactly the entries the directory has,
\* each with a node id that leads to it, and with current attributes unless
\* a write through a handle that is still open has not been flushed.
ListingsExact ==
    \A id \in DOMAIN b.snap :
        LET dir == b.ids[id].path
        IN  /\ id \in Node
            /\ DOMAIN b.snap[id] = {Last(p) : p \in Children(tree, dir)}
            /\ \A n \in DOMAIN b.snap[id] :
                  LET e == b.snap[id][n]
                      p == Append(dir, n)
                  IN  /\ e.node \in Node /\ b.ids[e.node].path = p
                      /\ e.ver = tree.obj[tree.disk[p]].ver \/ HasUnflushedWrite(p)

\* A node id follows its file: while the file the id was handed out for is
\* in the tree, under whatever name renames gave it, revalidating or asking
\* for the node finds it (movePathMapping, RevalidateNode).
NodesFollowRenames ==
    \A id \in Node :
        (\E p \in DOMAIN tree.disk : tree.disk[p] = b.ids[id].born) => Found(tree, b, b.ids[id].path)

=============================================================================
