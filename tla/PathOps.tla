------------------------------ MODULE PathOps ------------------------------
(***************************************************************************)
(* Overlapping requests on one directory of the metadata backend           *)
(* (internal/server/metadata_backend.go): Lookup, CreateFile, RenamePath   *)
(* and CloseHandle, served by one goroutine per connection and             *)
(* interleaved wherever the code holds no lock.  One action is one system  *)
(* call, one atomic operation or one critical section of b.mu.             *)
(*                                                                         *)
(* The directory is flat: a path is a name.  Directory snapshots and       *)
(* small-file contents, which the requests also patch, are left to Backend.*)
(***************************************************************************)
EXTENDS Integers, FiniteSets

CONSTANTS
    Conn,           \* connections, one request in progress on each
    Name,           \* names in the directory
    NoName,         \* stands for an absent map entry
    InitName,       \* names that exist when the server starts
    MaxFiles,       \* bound: files that ever exist
    MaxNodes,       \* bound: values of nextNodeID
    MaxHandles,     \* bound: handles that are ever opened
    MaxRequests     \* bound: requests served

ASSUME NameAssumption == NoName \notin Name /\ InitName \subseteq Name /\ IsFiniteSet(InitName)
ASSUME BoundAssumption == MaxFiles \in Nat /\ MaxNodes \in Nat \ {0} /\ MaxHandles \in Nat
                           /\ MaxRequests \in Nat

VARIABLES
    disk,           \* the file a name leads to, 0 when there is none
    files,          \* files created so far
    nodesByPath,    \* node id of a name, 0 when it has none
    nodesByID,      \* name of a node id, NoName when it is unknown
    nextNodeID,     \* atomic counter; node 1 is the directory itself
    attrCache,      \* names with a cached attribute
    negativeCache,  \* names cached as missing
    handles,        \* name of an open handle, NoName when it is closed
    nextHandleID,   \* atomic counter, counted from 0
    pc,             \* per connection: the next step of its request
    req,            \* per connection: the locals of its request
    requests,       \* requests that have arrived
    agreed,         \* history: see SameNodeForAll
    raced           \* history: renames whose target was taken since they looked

fsVars    == <<disk, files>>
nodeVars  == <<nodesByPath, nodesByID, nextNodeID>>
cacheVars == <<attrCache, negativeCache>>
hdlVars   == <<handles, nextHandleID>>
vars == <<disk, files, nodesByPath, nodesByID, nextNodeID, attrCache, negativeCache,
          handles, nextHandleID, pc, req, requests, agreed, raced>>

-----------------------------------------------------------------------------
Kind == {"lookup", "create", "rename", "close"}

\* name: the entry the request is about (a rename's destination); src: a
\* rename's source; flag: overwrite, replace or deleteOnClose; node: the id
\* taken from the counter and, later, the one ensureNode returned.
Request == [kind : Kind, name : Name, src : Name, flag : BOOLEAN, node : 0..MaxNodes]

Step == {"idle", "negative", "attr", "stat", "recordNegative", "clearNegative",
         "find", "alloc", "insert", "store", "open", "addHandle", "invalidate",
         "statSrc", "statDst", "rename", "move", "invalidateSrc", "remove", "unmap"}

Goto(c, step) == pc' = [pc EXCEPT ![c] = step]

\* A request arrives: its step `first' is next.
Begin(c, r, first) ==
    /\ pc[c] = "idle" /\ requests < MaxRequests
    /\ requests' = requests + 1
    /\ req' = [req EXCEPT ![c] = r]
    /\ agreed' = [agreed EXCEPT ![c] = FALSE]
    /\ Goto(c, first)
    /\ UNCHANGED <<disk, files, nodesByPath, nodesByID, nextNodeID, attrCache,
                   negativeCache, handles, nextHandleID, raced>>

New(kind, n, s, flag) == [kind |-> kind, name |-> n, src |-> s, flag |-> flag, node |-> 0]

-----------------------------------------------------------------------------
(* Lookup: nodeInfoForPath and refreshNodeInfo.                            *)

Lookup(c, n) == Begin(c, New("lookup", n, n, FALSE), "negative")

\* isNegativeCached: a hit answers ErrNotExist.
CheckNegative(c) ==
    /\ pc[c] = "negative"
    /\ Goto(c, IF req[c].name \in negativeCache THEN "idle" ELSE "attr")
    /\ UNCHANGED <<fsVars, nodeVars, cacheVars, hdlVars, req, requests, agreed, raced>>

\* cachedNodeInfo: a hit answers from the cache.
CheckAttr(c) ==
    /\ pc[c] = "attr"
    /\ Goto(c, IF req[c].name \in attrCache THEN "idle" ELSE "stat")
    /\ UNCHANGED <<fsVars, nodeVars, cacheVars, hdlVars, req, requests, agreed, raced>>

Stat(c) ==
    /\ pc[c] = "stat"
    /\ Goto(c, IF disk[req[c].name] = 0 THEN "recordNegative" ELSE "clearNegative")
    /\ UNCHANGED <<fsVars, nodeVars, cacheVars, hdlVars, req, requests, agreed, raced>>

RecordNegative(c) ==
    /\ pc[c] = "recordNegative"
    /\ negativeCache' = negativeCache \cup {req[c].name}
    /\ Goto(c, "idle")
    /\ UNCHANGED <<fsVars, nodeVars, attrCache, hdlVars, req, requests, agreed, raced>>

ClearNegative(c) ==
    /\ pc[c] = "clearNegative"
    /\ negativeCache' = negativeCache \ {req[c].name}
    /\ Goto(c, IF req[c].kind \in {"lookup", "close"} THEN "find" ELSE "store")
    /\ UNCHANGED <<fsVars, nodeVars, attrCache, hdlVars, req, requests, agreed, raced>>

-----------------------------------------------------------------------------
(* ensureNode: look under the read lock, take an id from the counter, look *)
(* again and insert under the write lock.                                  *)

\* What follows ensureNode in the request that called it.
AfterEnsure(kind) ==
    CASE kind = "create" -> "addHandle"
      [] kind = "rename" -> "clearNegative"
      [] OTHER -> "store"

Ensured(c, id) ==
    /\ req' = [req EXCEPT ![c].node = id]
    /\ agreed' = [agreed EXCEPT ![c] = TRUE]
    /\ Goto(c, AfterEnsure(req[c].kind))

FindNode(c) ==
    /\ pc[c] = "find"
    /\ IF nodesByPath[req[c].name] # 0
       THEN Ensured(c, nodesByPath[req[c].name])
       ELSE Goto(c, "alloc") /\ UNCHANGED <<req, agreed>>
    /\ UNCHANGED <<fsVars, nodeVars, cacheVars, hdlVars, requests, raced>>

AllocNode(c) ==
    /\ pc[c] = "alloc" /\ nextNodeID < MaxNodes
    /\ nextNodeID' = nextNodeID + 1
    /\ req' = [req EXCEPT ![c].node = nextNodeID + 1]
    /\ Goto(c, "insert")
    /\ UNCHANGED <<fsVars, nodesByPath, nodesByID, cacheVars, hdlVars, requests, agreed, raced>>

\* Variant: the second look is left out.
InsertNodeBlindly(c) ==
    LET n == req[c].name
    IN  /\ pc[c] = "insert"
        /\ nodesByPath' = [nodesByPath EXCEPT ![n] = req[c].node]
        /\ nodesByID' = [nodesByID EXCEPT ![req[c].node] = n]
        /\ Ensured(c, req[c].node)
        /\ UNCHANGED <<fsVars, nextNodeID, cacheVars, hdlVars, requests, raced>>

InsertNode(c) ==
    LET n == req[c].name
    IN  /\ pc[c] = "insert"
        /\ IF nodesByPath[n] # 0
           THEN /\ Ensured(c, nodesByPath[n])
                /\ UNCHANGED <<nodesByPath, nodesByID>>
           ELSE /\ nodesByPath' = [nodesByPath EXCEPT ![n] = req[c].node]
                /\ nodesByID' = [nodesByID EXCEPT ![req[c].node] = n]
                /\ Ensured(c, req[c].node)
        /\ UNCHANGED <<fsVars, nextNodeID, cacheVars, hdlVars, requests, raced>>

\* The last step of refreshNodeInfo and of storeNodeInfo.
StoreAttr(c) ==
    /\ pc[c] = "store"
    /\ attrCache' = attrCache \cup {req[c].name}
    /\ Goto(c, "idle")
    /\ UNCHANGED <<fsVars, nodeVars, negativeCache, hdlVars, req, requests, agreed, raced>>

-----------------------------------------------------------------------------
(* CreateFile.                                                             *)

CreateFile(c, n, overwrite) == Begin(c, New("create", n, n, overwrite), "open")

\* The renames that have looked at name n and are about to take it.
AboutToTake(n) == {c \in Conn : pc[c] = "rename" /\ req[c].name = n}

\* os.OpenFile with O_CREATE and, without overwrite, O_EXCL: atomic.
OpenNew(c) ==
    LET n == req[c].name
    IN  /\ pc[c] = "open"
        /\ \/ /\ disk[n] = 0 /\ files < MaxFiles
              /\ files' = files + 1
              /\ disk' = [disk EXCEPT ![n] = files + 1]
              /\ raced' = raced \cup AboutToTake(n)
              /\ Goto(c, "find")
           \/ /\ disk[n] # 0 /\ req[c].flag
              /\ Goto(c, "find") /\ UNCHANGED <<fsVars, raced>>
           \/ /\ disk[n] # 0 /\ ~req[c].flag
              /\ Goto(c, "idle") /\ UNCHANGED <<fsVars, raced>>
        /\ UNCHANGED <<nodeVars, cacheVars, hdlVars, req, requests, agreed>>

AddHandle(c) ==
    /\ pc[c] = "addHandle" /\ nextHandleID < MaxHandles
    /\ nextHandleID' = nextHandleID + 1
    /\ handles' = [handles EXCEPT ![nextHandleID + 1] = req[c].name]
    /\ Goto(c, "invalidate")
    /\ UNCHANGED <<fsVars, nodeVars, cacheVars, req, requests, agreed, raced>>

\* invalidateEntry of the entry itself, in a create, a rename or a close.
Invalidate(c) ==
    LET r == req[c]
    IN  /\ pc[c] = "invalidate"
        /\ attrCache' = attrCache \ {r.name}
        /\ negativeCache' = negativeCache \ {r.name}
        /\ Goto(c, CASE r.kind = "create" -> "clearNegative"
                     [] r.kind = "rename" -> "find"
                     [] r.kind = "close" /\ r.flag -> "recordNegative"
                     [] OTHER -> "stat")
        /\ UNCHANGED <<fsVars, nodeVars, hdlVars, req, requests, agreed, raced>>

-----------------------------------------------------------------------------
(* RenamePath.                                                             *)

RenamePath(c, s, d, replace) == Begin(c, New("rename", d, s, replace), "statSrc")

\* Variant: the target is not looked at.
StatSrcOnly(c) ==
    /\ pc[c] = "statSrc"
    /\ Goto(c, IF disk[req[c].src] = 0 THEN "idle" ELSE "rename")
    /\ UNCHANGED <<fsVars, nodeVars, cacheVars, hdlVars, req, requests, agreed, raced>>

StatSrc(c) ==
    /\ pc[c] = "statSrc"
    /\ Goto(c, IF disk[req[c].src] = 0 THEN "idle"
               ELSE IF req[c].flag THEN "rename" ELSE "statDst")
    /\ UNCHANGED <<fsVars, nodeVars, cacheVars, hdlVars, req, requests, agreed, raced>>

StatDst(c) ==
    /\ pc[c] = "statDst"
    /\ Goto(c, IF disk[req[c].name] # 0 THEN "idle" ELSE "rename")
    /\ UNCHANGED <<fsVars, nodeVars, cacheVars, hdlVars, req, requests, agreed, raced>>

\* os.Rename replaces a file at the destination.
Rename(c) ==
    LET s == req[c].src
        d == req[c].name
    IN  /\ pc[c] = "rename"
        /\ IF disk[s] = 0
           THEN Goto(c, "idle") /\ raced' = raced \ {c} /\ UNCHANGED disk
           ELSE /\ disk' = [n \in Name |-> IF n = d THEN disk[s]
                                           ELSE IF n = s THEN 0 ELSE disk[n]]
                /\ raced' = (raced \cup AboutToTake(d)) \ {c}
                /\ Goto(c, "move")
        /\ UNCHANGED <<files, nodeVars, cacheVars, hdlVars, req, requests, agreed>>

\* A change of the mapping of the names N takes back what ensureNode told
\* the requests on them.
Disagree(N) == agreed' = [d \in Conn |-> agreed[d] /\ req[d].name \notin N]

MovePathMapping(c) ==
    LET s == req[c].src
        d == req[c].name
        id == nodesByPath[s]
    IN  /\ pc[c] = "move"
        /\ IF id = 0
           THEN UNCHANGED <<nodesByPath, nodesByID>>
           ELSE /\ nodesByPath' = [n \in Name |-> IF n = d THEN id
                                                  ELSE IF n = s THEN 0 ELSE nodesByPath[n]]
                /\ nodesByID' = [nodesByID EXCEPT ![id] = d]
        /\ attrCache' = attrCache \ {s, d}
        /\ negativeCache' = negativeCache \ {s, d}
        /\ Disagree({s, d})
        /\ Goto(c, "invalidateSrc")
        /\ UNCHANGED <<fsVars, nextNodeID, hdlVars, req, requests, raced>>

InvalidateSrc(c) ==
    /\ pc[c] = "invalidateSrc"
    /\ attrCache' = attrCache \ {req[c].src}
    /\ negativeCache' = negativeCache \ {req[c].src}
    /\ Goto(c, "invalidate")
    /\ UNCHANGED <<fsVars, nodeVars, hdlVars, req, requests, agreed, raced>>

-----------------------------------------------------------------------------
(* CloseHandle of a writable handle, marked for deletion or not.           *)

CloseHandle(c, h, deleteOnClose) ==
    /\ pc[c] = "idle" /\ requests < MaxRequests
    /\ handles[h] # NoName
    /\ requests' = requests + 1
    /\ req' = [req EXCEPT ![c] = New("close", handles[h], handles[h], deleteOnClose)]
    /\ handles' = [handles EXCEPT ![h] = NoName]
    /\ agreed' = [agreed EXCEPT ![c] = FALSE]
    /\ Goto(c, IF deleteOnClose THEN "remove" ELSE "invalidate")
    /\ UNCHANGED <<fsVars, nodeVars, cacheVars, nextHandleID, raced>>

Remove(c) ==
    /\ pc[c] = "remove"
    /\ disk' = [disk EXCEPT ![req[c].name] = 0]
    /\ Goto(c, "unmap")
    /\ UNCHANGED <<files, nodeVars, cacheVars, hdlVars, req, requests, agreed, raced>>

RemovePathMapping(c) ==
    LET n == req[c].name
    IN  /\ pc[c] = "unmap"
        /\ IF nodesByPath[n] = 0
           THEN UNCHANGED <<nodesByPath, nodesByID>>
           ELSE /\ nodesByID' = [nodesByID EXCEPT ![nodesByPath[n]] = NoName]
                /\ nodesByPath' = [nodesByPath EXCEPT ![n] = 0]
        /\ attrCache' = attrCache \ {n}
        /\ negativeCache' = negativeCache \ {n}
        /\ Disagree({n})
        /\ Goto(c, "invalidate")
        /\ UNCHANGED <<fsVars, nextNodeID, hdlVars, req, requests, raced>>

Expire ==
    /\ \/ /\ \E n \in attrCache : attrCache' = attrCache \ {n}
          /\ UNCHANGED negativeCache
       \/ /\ \E n \in negativeCache : negativeCache' = negativeCache \ {n}
          /\ UNCHANGED attrCache
    /\ UNCHANGED <<fsVars, nodeVars, hdlVars, pc, req, requests, agreed, raced>>

-----------------------------------------------------------------------------
\* The files there at the start are numbered and not yet looked up.
Init ==
    /\ files = Cardinality(InitName)
    /\ disk \in {f \in [Name -> 0..Cardinality(InitName)] :
                    /\ \A n \in Name : f[n] # 0 <=> n \in InitName
                    /\ \A m, n \in InitName : f[m] = f[n] => m = n}
    /\ nodesByPath = [n \in Name |-> 0]
    /\ nodesByID = [i \in 1..MaxNodes |-> NoName]
    /\ nextNodeID = 1
    /\ attrCache = {} /\ negativeCache = {}
    /\ handles = [h \in 1..MaxHandles |-> NoName] /\ nextHandleID = 0
    /\ pc = [c \in Conn |-> "idle"]
    /\ req \in {[c \in Conn |-> New("lookup", n, n, FALSE)] : n \in Name}
    /\ requests = 0
    /\ agreed = [c \in Conn |-> FALSE]
    /\ raced = {}

Request1(c) ==
    \/ \E n \in Name : Lookup(c, n)
    \/ \E n \in Name, f \in BOOLEAN : CreateFile(c, n, f)
    \/ \E s, d \in Name, f \in BOOLEAN : RenamePath(c, s, d, f)
    \/ \E h \in 1..MaxHandles, f \in BOOLEAN : CloseHandle(c, h, f)

Work(c) ==
    \/ CheckNegative(c) \/ CheckAttr(c) \/ Stat(c) \/ RecordNegative(c) \/ ClearNegative(c)
    \/ FindNode(c) \/ AllocNode(c) \/ InsertNode(c) \/ StoreAttr(c)
    \/ OpenNew(c) \/ AddHandle(c) \/ Invalidate(c)
    \/ StatSrc(c) \/ StatDst(c) \/ Rename(c) \/ MovePathMapping(c) \/ InvalidateSrc(c)
    \/ Remove(c) \/ RemovePathMapping(c)

Next == Expire \/ \E c \in Conn : Request1(c) \/ Work(c)

Spec == Init /\ [][Next]_vars

-----------------------------------------------------------------------------
(* Properties.                                                             *)

\* Every map and every request's locals hold values of their types.
TypeOK ==
    /\ disk \in [Name -> Nat] /\ files \in Nat
    /\ nodesByPath \in [Name -> 0..MaxNodes]
    /\ nodesByID \in [1..MaxNodes -> Name \cup {NoName}]
    /\ nextNodeID \in 1..MaxNodes
    /\ attrCache \subseteq Name /\ negativeCache \subseteq Name
    /\ handles \in [1..MaxHandles -> Name \cup {NoName}] /\ nextHandleID \in 0..MaxHandles
    /\ pc \in [Conn -> Step]
    /\ req \in [Conn -> Request]
    /\ requests \in Nat
    /\ agreed \in [Conn -> BOOLEAN]
    /\ raced \subseteq Conn

\* However requests interleave, the id a name maps to is known and leads
\* back to that name, so no client holds a current id the server rejects.
PathsInverse == \A n \in Name : nodesByPath[n] # 0 => nodesByID[nodesByPath[n]] = n

\* All requests that ensure a node for the same name get the same id: what
\* ensureNode returned is what the map says until a rename or a deletion
\* of that name changes the map.
SameNodeForAll == \A c \in Conn : agreed[c] => nodesByPath[req[c].name] = req[c].node

\* A rename that may not replace finds nothing to replace, unless another
\* request took the target's name after the rename had looked at it: the
\* check and the rename are two system calls.
NoSilentReplace ==
    \A c \in Conn : pc[c] = "rename" /\ ~req[c].flag /\ c \notin raced => disk[req[c].name] = 0

=============================================================================
