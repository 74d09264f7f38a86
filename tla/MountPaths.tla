----------------------------- MODULE MountPaths -----------------------------
(***************************************************************************)
(* Paths on a mounted volume: the mount core's cache from path to node     *)
(* (internal/mountcore/mount.go: resolvePath, GetAttr, Lookup,             *)
(* ReadDirectory, cachePath), which is filled from what the server answers *)
(* and never emptied, and the enumeration of a directory by WinFsp         *)
(* (internal/winfsp/dispatcher_native_windows.go: goReadDirectory).        *)
(*                                                                         *)
(* Several threads resolve and list while other clients change the tree.   *)
(* One action is one critical section of m.mu or one request to the        *)
(* server; a request may fail.                                             *)
(***************************************************************************)
EXTENDS Integers, Sequences, Functions, FiniteSets

CONSTANTS
    Thread,         \* goroutines and WinFsp threads that use the mount
    Path,           \* paths of the volume: sequences of names; with a path, what
                    \* it begins with, without the spaces that are trimmed
    Nodes,          \* node ids the server may give out; 1 is the root
    DirNodes,       \* the directories among them
    InitTree,       \* the tree the volume is mounted with
    Raw,            \* paths callers use, with empty, "." and ".." components
    Bytes, Folded,  \* the rank of a name among the names, and of its lower case
    Trimmed,        \* a name without the spaces it begins with; none is all spaces
    MaxChanges,     \* bound: changes other clients make to the tree
    MaxEntries      \* bound: entries of a page, or of WinFsp's buffer

ASSUME NameAssumption == Bytes \in [DOMAIN Bytes -> Nat] /\ Folded \in [DOMAIN Bytes -> Nat]
ASSUME BytesAssumption == \A x, y \in DOMAIN Bytes : Bytes[x] = Bytes[y] => x = y
ASSUME TrimAssumption == /\ Trimmed \in [DOMAIN Bytes -> DOMAIN Bytes]
                         /\ \A x \in DOMAIN Bytes : Trimmed[Trimmed[x]] = Trimmed[x]
ASSUME PathAssumption == /\ Path \subseteq Seq(DOMAIN Bytes) /\ <<>> \in Path
                         /\ \A p \in Path : \A k \in 0..Len(p) : [i \in 1..k |-> Trimmed[p[i]]] \in Path
ASSUME NodeAssumption == /\ Nodes \subseteq Nat \ {0} /\ IsFiniteSet(Nodes)
                         /\ DirNodes \subseteq Nodes /\ 1 \in DirNodes
ASSUME BoundAssumption == MaxChanges \in Nat /\ MaxEntries \in Nat

VARIABLES
    place,          \* server: the directory and the name of each node
    pathCache,      \* Mount.pathCache: the node of each path, 0 when absent
    pc,             \* per thread: the next step of its call
    reg,            \* per thread: the variables of its call
    given,          \* server: the node ids it has given out
    changes,        \* changes so far
    everAt,         \* history: the nodes that have been at each path
    disturbed       \* history: a directory has been renamed, or a name in the
                    \* tree began with a space

server == <<place, given, changes, everAt, disturbed>>
vars == <<place, pathCache, pc, reg, given, changes, everAt, disturbed>>

Name == DOMAIN Bytes

Gone == <<0, "">>

\* goal: info (attributes), file or list (to open a file, or a directory and read
\* its entries); path: the normalized path; at, cur, node: the component resolvePath
\* has come to, its currentPath and current; todo: entries not cached yet.
NoReg == [goal |-> "none", path |-> <<>>, at |-> 0, cur |-> <<>>, node |-> 0, todo |-> {}]

-----------------------------------------------------------------------------
(* The server (external): a node keeps its id when it moves, and an id is  *)
(* not given out again.                                                    *)

\* The node called x in directory d of tree w, 0 when there is none.
Child(w, d, x) == IF \E n \in Nodes : w[n] = <<d, x>>
                  THEN CHOOSE n \in Nodes : w[n] = <<d, x>> ELSE 0

\* f gives the nodes on the way down path p of tree w, from the root.
Leads(w, p, f) == f[0] = 1 /\ \A i \in DOMAIN p : w[f[i]] = <<f[i - 1], p[i]>>

\* The node at path p of tree w: none or one.
NodesAt(w, p) == {f[Len(p)] : f \in {g \in [0..Len(p) -> Nodes] : Leads(w, p, g)}}

Spaced(w) == \E n \in Nodes : w[n] # Gone /\ Trimmed[w[n][2]] # w[n][2]

Alive(n) == n = 1 \/ place[n] # Gone

Entries(d) == {e \in Name \X Nodes : place[e[2]] = <<d, e[1]>>}

\* The server gives a name to one node of a directory, and the root has no name.
ASSUME TreeAssumption == /\ InitTree \in [Nodes -> (DirNodes \X Name) \cup {Gone}]
                         /\ InitTree[1] = Gone
                         /\ \A m, n \in Nodes : \A x \in Name :
                                InitTree[m] = <<n, x>> => n = 1 \/ InitTree[n] # Gone
                         /\ \A m, n \in Nodes : InitTree[m] = InitTree[n] /\ InitTree[n] # Gone => m = n

Init ==
    /\ place = InitTree
    /\ pathCache = [p \in Path |-> IF p = <<>> THEN 1 ELSE 0]
    /\ pc = [t \in Thread |-> "idle"]
    /\ reg = [t \in Thread |-> NoReg]
    /\ given = {1} \cup {n \in Nodes : InitTree[n] # Gone}
    /\ changes = 0
    /\ everAt = [p \in Path |-> NodesAt(InitTree, p)]
    /\ disturbed = Spaced(InitTree)

\* Another client has made the tree w.
Change(w) ==
    /\ changes < MaxChanges
    /\ changes' = changes + 1
    /\ place' = w
    /\ everAt' = [p \in Path |-> everAt[p] \cup NodesAt(w, p)]
    /\ UNCHANGED <<pathCache, pc, reg>>

Occupiable(d, x) == d \in DirNodes /\ Alive(d) /\ Child(place, d, x) = 0

OtherCreates(n, d, x) ==
    /\ n \notin given /\ Occupiable(d, x)
    /\ Change([place EXCEPT ![n] = <<d, x>>])
    /\ given' = given \cup {n}
    /\ disturbed' = (disturbed \/ Trimmed[x] # x)

OtherRemoves(n) ==
    /\ n # 1 /\ Alive(n) /\ Entries(n) = {}
    /\ Change([place EXCEPT ![n] = Gone])
    /\ UNCHANGED <<given, disturbed>>

\* A directory is renamed within the root, so that none enters itself.
OtherRenames(n, d, x) ==
    /\ n # 1 /\ Alive(n) /\ Occupiable(d, x)
    /\ n \in DirNodes => d = 1
    /\ Change([place EXCEPT ![n] = <<d, x>>])
    /\ disturbed' = (disturbed \/ n \in DirNodes \/ Trimmed[x] # x)
    /\ UNCHANGED given

-----------------------------------------------------------------------------
(* The mount core.                                                         *)

Go(t, step, r) ==
    /\ pc' = [pc EXCEPT ![t] = step]
    /\ reg' = [reg EXCEPT ![t] = r]

Return(t) == Go(t, "idle", NoReg)

\* NormalizeMountPath drops empty components and "."; ".." is refused.  Only the
\* spaces around the whole path are trimmed, which begins with a separator.
Refused(raw) == ".." \in Range(raw)
NormalizeMountPath(raw) == SelectSeq(raw, LAMBDA x : x \notin {"", "."})

ASSUME NormalAssumption == /\ \A p \in Path : ~Refused(p) /\ NormalizeMountPath(p) = p
                           /\ \A raw \in Raw : ~Refused(raw) => NormalizeMountPath(raw) \in Path

\* JoinMountPath trims the spaces of the name.
JoinMountPath(parent, x) == Append(parent, Trimmed[x])

\* GetAttr, Open and OpenDirectory begin; resolvePath looks for the whole path
\* before it walks from the root.
Begin(t, goal, raw) ==
    /\ pc[t] = "idle" /\ ~Refused(raw)
    /\ LET p == NormalizeMountPath(raw)
           r == [NoReg EXCEPT !.goal = goal, !.path = p]
       IN  IF pathCache[p] # 0
           THEN Go(t, "getattr", [r EXCEPT !.node = pathCache[p]])
           ELSE Go(t, "walk", [r EXCEPT !.node = 1])
    /\ UNCHANGED <<server, pathCache>>

\* The next component of resolvePath, and what its nextPath is.
Part(t) == reg[t].path[reg[t].at + 1]
NextPath(t) == JoinMountPath(reg[t].cur, Part(t))

\* One component is resolved to node n.
Walked(t, n) == [reg[t] EXCEPT !.at = @ + 1, !.cur = NextPath(t), !.node = n]

\* resolvePath goes on to the next component, or returns to its caller.
GoOn(t, r) == IF r.at = Len(r.path) THEN Go(t, "getattr", [r EXCEPT !.at = 0, !.cur = <<>>])
              ELSE Go(t, "walk", r)

\* One component of resolvePath, from the cache.
WalkCached(t) ==
    /\ pc[t] = "walk"
    /\ LET n == pathCache[NextPath(t)]
       IN  n # 0 /\ GoOn(t, Walked(t, n))
    /\ UNCHANGED <<server, pathCache>>

\* Or asked of the server, which looks in the node reached so far.
WalkAsk(t) ==
    /\ pc[t] = "walk" /\ pathCache[NextPath(t)] = 0
    /\ LET n == Child(place, reg[t].node, Part(t))
       IN  n # 0 /\ Alive(reg[t].node) /\ Go(t, "cache", Walked(t, n))
    /\ UNCHANGED <<server, pathCache>>

\* Variant: the answer is cached under the path that was asked for.
CacheWalkedWhole(t) ==
    /\ pc[t] = "cache"
    /\ pathCache' = [pathCache EXCEPT ![reg[t].path] = reg[t].node]
    /\ GoOn(t, reg[t])
    /\ UNCHANGED server

\* cachePath, in resolvePath.
CacheWalked(t) ==
    /\ pc[t] = "cache"
    /\ pathCache' = [pathCache EXCEPT ![reg[t].cur] = reg[t].node]
    /\ GoOn(t, reg[t])
    /\ UNCHANGED server

\* The server answers GetAttr while the node is there.
GetAttr(t) ==
    /\ pc[t] = "getattr" /\ Alive(reg[t].node)
    /\ Go(t, "cacheattr", reg[t])
    /\ UNCHANGED <<server, pathCache>>

\* cachePath, in GetAttr.  Open refuses a directory, OpenDirectory a file.
Wanted(r) == r.goal = (IF r.node \in DirNodes THEN "list" ELSE "file")

CacheAttr(t) ==
    /\ pc[t] = "cacheattr"
    /\ pathCache' = [pathCache EXCEPT ![reg[t].path] = reg[t].node]
    /\ IF Wanted(reg[t]) THEN Go(t, "open", reg[t]) ELSE Return(t)
    /\ UNCHANGED server

\* The handle stands for the node, wherever it moves.
OpenFile(t) ==
    /\ pc[t] = "open" /\ reg[t].goal = "file" /\ Alive(reg[t].node)
    /\ Return(t)
    /\ UNCHANGED <<server, pathCache>>

\* The server's cursor holds the entries the directory has now.  Entries whose
\* path is not in Path are left out.
Listed(r) == {e \in Entries(r.node) : JoinMountPath(r.path, e[1]) \in Path}

OpenDir(t) ==
    /\ pc[t] = "open" /\ reg[t].goal = "list" /\ Alive(reg[t].node)
    /\ LET got == Listed(reg[t])
       IN  IF got = {} THEN Return(t) ELSE Go(t, "readdir", [reg[t] EXCEPT !.todo = got])
    /\ UNCHANGED <<server, pathCache>>

\* ReadDirectory caches each entry under the path the handle was opened by.
CacheEntry(t, e) ==
    /\ pc[t] = "readdir" /\ e \in reg[t].todo
    /\ pathCache' = [pathCache EXCEPT ![JoinMountPath(reg[t].path, e[1])] = e[2]]
    /\ IF reg[t].todo = {e} THEN Return(t) ELSE Go(t, "readdir", [reg[t] EXCEPT !.todo = @ \ {e}])
    /\ UNCHANGED server

\* The server does not find what it is asked for, or the request fails.
Fail(t) ==
    /\ \/ pc[t] = "walk" /\ pathCache[NextPath(t)] = 0
       \/ pc[t] \in {"getattr", "open", "readdir"}
    /\ Return(t)
    /\ UNCHANGED <<server, pathCache>>

Resolve(t) == WalkCached(t) \/ WalkAsk(t) \/ CacheWalked(t) \/ GetAttr(t)

OtherClient ==
    \E n \in Nodes :
        \/ OtherRemoves(n)
        \/ \E d \in DirNodes, x \in Name : OtherCreates(n, d, x) \/ OtherRenames(n, d, x)

\* To the cache Open is the same as GetAttr: files are opened in Materializer.
Next ==
    \/ \E t \in Thread :
           \/ \E raw \in Raw, goal \in {"info", "list"} : Begin(t, goal, raw)
           \/ Resolve(t) \/ CacheAttr(t) \/ OpenDir(t)
           \/ \E e \in reg[t].todo : CacheEntry(t, e)
           \/ Fail(t)
    \/ OtherClient

Spec == Init /\ [][Next]_vars

-----------------------------------------------------------------------------
(* Enumerating a directory.                                                *)

\* A finite set of names, in byte order.
InByteOrder(S) == CHOOSE s \in [1..Cardinality(S) -> S] :
                      \A i, j \in 1..Cardinality(S) : i < j => Bytes[s[i]] < Bytes[s[j]]

\* The names the server lists.
Listing(d) == InByteOrder({e[1] : e \in Entries(d)})

\* Variant: the first page is taken for all of it.
collectOnePage(listing, page) == SubSeq(listing, 1, IF page < Len(listing) THEN page ELSE Len(listing))

\* collectDirectoryEntries: pages of the listing until EOF.
collectDirectoryEntries(listing, page) ==
    LET rest[cookie \in 0..Len(listing)] ==
            LET last == IF cookie + page < Len(listing) THEN cookie + page ELSE Len(listing)
                got  == SubSeq(listing, cookie + 1, last)
            IN  IF last = Len(listing) THEN got ELSE got \o rest[last]
    IN  rest[0]

\* The entries that follow the marker: ToLower(name) <= ToLower(marker) is skipped.
AfterMarker(name, marker) == Folded[name] > Folded[marker]

\* goReadDirectory: what follows the marker, as far as the buffer goes.
goReadDirectory(entries, marker, buffer) ==
    LET wanted == IF marker = <<>> THEN entries
                  ELSE SelectSeq(entries, LAMBDA e : AfterMarker(e, marker[1]))
    IN  SubSeq(wanted, 1, IF buffer < Len(wanted) THEN buffer ELSE Len(wanted))

\* WinFsp (external) calls again with the last name it was given until it is
\* given nothing; calls is more than it can need.
Enumerate(listing, page, buffer) ==
    LET entries == collectDirectoryEntries(listing, page)
        after[calls \in 0..Len(listing) + 1, marker \in {<<>>} \cup {<<x>> : x \in Name}] ==
            LET got == goReadDirectory(entries, marker, buffer)
            IN  IF calls = 0 \/ got = <<>> THEN <<>>
                ELSE got \o after[calls - 1, <<got[Len(got)]>>]
    IN  after[Len(listing) + 1, <<>>]

-----------------------------------------------------------------------------
(* Properties.                                                             *)

Plain(p) == \A i \in DOMAIN p : Trimmed[p[i]] = p[i]

\* A cached path names a node that has been at that path, as long as no
\* directory was renamed and no name had spaces to trim: after a rename a walk
\* may go on from where the directory has gone, and a name that is trimmed takes
\* the place of another (mount.go, resolvePath, ReadDirectory, cachePath).
CacheWasTrue ==
    ~disturbed => \A p \in Path : Plain(p) /\ pathCache[p] # 0 => pathCache[p] \in everAt[p]

\* An enumeration gives every entry of the directory once and in order, whatever
\* the sizes of the server's pages and of WinFsp's buffer, when no two names
\* differ in case only and folding case does not reorder them.  When it does,
\* names are skipped or given twice (dispatcher_native_windows.go,
\* goReadDirectory).
EnumerationComplete ==
    \A d \in DirNodes :
        LET s == Listing(d)
        IN  (\A i, j \in DOMAIN s : i < j => Folded[s[i]] < Folded[s[j]]) =>
                \A page, buffer \in 1..MaxEntries : Enumerate(s, page, buffer) = s

=============================================================================
