--------------------------- MODULE PathOpsProofs ---------------------------
(***************************************************************************)
(* Proofs about overlapping requests on the metadata backend: the node     *)
(* maps stay inverse and every request that ensures a node for a name gets *)
(* the id all the others get, for any number of connections and names.     *)
(***************************************************************************)
EXTENDS PathOps, FiniteSetTheorems, TLAPS

-----------------------------------------------------------------------------
(* The strengthening.  An id taken from the counter belongs to one request *)
(* until it is inserted, and the request that has been told an id is past  *)
(* the steps that could change its mind.                                   *)

Fresh(c) ==
    pc[c] = "insert" =>
        /\ req[c].node \in 2..nextNodeID
        /\ nodesByID[req[c].node] = NoName

Owned == \A c, d \in Conn :
    pc[c] = "insert" /\ pc[d] = "insert" /\ c # d => req[c].node # req[d].node

Unused == \A i \in 1..MaxNodes : i > nextNodeID => nodesByID[i] = NoName

Told(c) ==
    agreed[c] =>
        /\ req[c].node # 0
        /\ \/ pc[c] \in {"idle", "store"}
           \/ req[c].kind = "create" /\ pc[c] \in {"addHandle", "invalidate", "clearNegative"}
           \/ req[c].kind = "rename" /\ pc[c] = "clearNegative"

NodeInv ==
    /\ TypeOK
    /\ PathsInverse
    /\ SameNodeForAll
    /\ \A c \in Conn : Fresh(c)
    /\ Owned
    /\ Unused
    /\ \A c \in Conn : Told(c)

-----------------------------------------------------------------------------
\* NodeInv holds when the server starts: no name has a node yet.
LEMMA NodeInvInit == Init => NodeInv
<1> SUFFICES ASSUME Init PROVE NodeInv OBVIOUS
<1> USE NameAssumption, BoundAssumption DEF Init
<1>1. TypeOK
  <2>1. Cardinality(InitName) \in Nat
    BY Zenon, FS_CardinalityType
  <2>2. disk \in [Name -> Nat] /\ files \in Nat
    BY <2>1
  <2>3. req \in [Conn -> Request]
    <3>1. PICK n \in Name : req = [c \in Conn |-> New("lookup", n, n, FALSE)]
      BY Zenon
    <3>2. New("lookup", n, n, FALSE) \in Request
      BY DEF Request, Kind, New
    <3> QED BY Zenon, <3>1, <3>2
  <2> QED BY <2>2, <2>3 DEF TypeOK, Step
<1>2. PathsInverse /\ SameNodeForAll /\ Owned /\ Unused
  BY Zenon DEF PathsInverse, SameNodeForAll, Owned, Unused
<1>3. \A c \in Conn : Fresh(c) /\ Told(c)
  BY Zenon DEF Fresh, Told
<1> QED BY Zenon, <1>1, <1>2, <1>3 DEF NodeInv

-----------------------------------------------------------------------------
(* Steps that leave the node maps alone.                                   *)

\* A new request forgets what the connection was told before.
LEMMA BeginKeeps ==
    ASSUME NodeInv, NEW c \in Conn, NEW r \in Request, NEW first \in Step,
           first \notin {"insert"}, Begin(c, r, first)
    PROVE  NodeInv'
<1> USE DEF Begin, Goto
<1>1. TypeOK'
  BY DEF NodeInv, TypeOK
<1>2. PathsInverse' /\ Unused'
  BY Zenon DEF NodeInv, PathsInverse, Unused
<1>3. SameNodeForAll' /\ Owned'
  BY Zenon DEF NodeInv, TypeOK, SameNodeForAll, Owned
<1>4. \A d \in Conn : Fresh(d)' /\ Told(d)'
  BY Zenon DEF NodeInv, TypeOK, Fresh, Told
<1> QED BY Zenon, <1>1, <1>2, <1>3, <1>4 DEF NodeInv

\* A step that changes neither node maps nor locals moves the connection to
\* a step its request may be at; only AllocNode leads to "insert".
LEMMA QuietKeeps ==
    ASSUME NodeInv, NEW c \in Conn, NEW next \in Step, next # "insert", Goto(c, next),
           UNCHANGED <<nodesByPath, nodesByID, nextNodeID, req, agreed>>,
           agreed[c] => \/ next \in {"idle", "store"}
                        \/ req[c].kind = "create" /\ next \in {"addHandle", "invalidate", "clearNegative"},
           disk' \in [Name -> Nat], files' \in Nat, attrCache' \subseteq Name,
           negativeCache' \subseteq Name, handles' \in [1..MaxHandles -> Name \cup {NoName}],
           nextHandleID' \in 0..MaxHandles, requests' \in Nat, raced' \subseteq Conn
    PROVE  NodeInv'
<1> USE DEF Goto
<1>1. TypeOK'
  BY Zenon DEF NodeInv, TypeOK
<1>2. PathsInverse' /\ Unused' /\ SameNodeForAll'
  BY Zenon DEF NodeInv, PathsInverse, Unused, SameNodeForAll
<1>3. Owned'
  BY Zenon DEF NodeInv, TypeOK, Owned
<1>4. \A d \in Conn : Fresh(d)' /\ Told(d)'
  BY Zenon DEF NodeInv, TypeOK, Fresh, Told
<1> QED BY Zenon, <1>1, <1>2, <1>3, <1>4 DEF NodeInv

-----------------------------------------------------------------------------
(* ensureNode.                                                             *)

\* Setting a request's node keeps the requests' type.
LEMMA NodeTyped ==
    ASSUME req \in [Conn -> Request], NEW c \in Conn, NEW id \in 0..MaxNodes
    PROVE  [req EXCEPT ![c].node = id] \in [Conn -> Request]
<1>1. [req[c] EXCEPT !.node = id] \in Request
  BY Zenon DEF Request
<1> QED BY Zenon, <1>1

\* Finding the node of a name agrees with the maps it was read from.
LEMMA FindNodeKeeps == ASSUME NodeInv, NEW c \in Conn, FindNode(c) PROVE NodeInv'
<1> USE DEF FindNode, Goto
<1>1. CASE nodesByPath[req[c].name] = 0
  <2>1. /\ Goto(c, "alloc")
        /\ UNCHANGED <<fsVars, nodeVars, cacheVars, hdlVars, req, requests, agreed, raced>>
    BY Zenon, <1>1
  <2>2. ~agreed[c]
    BY Zenon DEF NodeInv, Told
  <2> QED BY ZenonT(40), <2>1, <2>2, QuietKeeps
          DEF fsVars, nodeVars, cacheVars, hdlVars, Step, NodeInv, TypeOK
<1>2. CASE nodesByPath[req[c].name] # 0
  <2> DEFINE id == nodesByPath[req[c].name]
  <2>1. /\ req' = [req EXCEPT ![c].node = id]
        /\ agreed' = [agreed EXCEPT ![c] = TRUE]
        /\ pc' = [pc EXCEPT ![c] = AfterEnsure(req[c].kind)]
        /\ UNCHANGED <<disk, files, nodesByPath, nodesByID, nextNodeID, attrCache,
                       negativeCache, handles, nextHandleID, requests, raced>>
    BY Zenon, <1>2 DEF Ensured, fsVars, nodeVars, cacheVars, hdlVars
  <2>2. id \in 1..MaxNodes
    BY <1>2 DEF NodeInv, TypeOK, Request
  <2>3. AfterEnsure(req[c].kind) \in {"addHandle", "clearNegative", "store"}
    BY Zenon DEF AfterEnsure
  <2>4. TypeOK'
    BY ZenonT(30), <2>1, <2>2, <2>3 DEF NodeInv, TypeOK, Request, Step
  <2>5. PathsInverse' /\ Unused'
    BY Zenon, <2>1 DEF NodeInv, PathsInverse, Unused
  <2>6. SameNodeForAll'
    BY SMTT(30), <2>1, <2>3 DEF NodeInv, TypeOK, Request, SameNodeForAll
  <2>9. Owned'
    BY Zenon, <2>1, <2>3 DEF NodeInv, TypeOK, Request, Owned
  <2>7. \A d \in Conn : Fresh(d)'
    BY Zenon, <2>1, <2>3 DEF NodeInv, TypeOK, Request, Fresh
  <2>8. \A d \in Conn : Told(d)'
    BY Zenon, <2>1, <2>2 DEF NodeInv, TypeOK, Request, Told, AfterEnsure
  <2> QED BY Zenon, <2>4, <2>5, <2>6, <2>7, <2>8, <2>9 DEF NodeInv
<1> QED BY Zenon, <1>1, <1>2

\* The id that AllocNode draws is under no name and in no other hands.
LEMMA AllocNodeKeeps == ASSUME NodeInv, NEW c \in Conn, AllocNode(c) PROVE NodeInv'
<1> USE DEF AllocNode, Goto, fsVars, cacheVars, hdlVars
<1> DEFINE id == nextNodeID + 1
<1>0. ~agreed[c]
  BY Zenon DEF NodeInv, Told
<1>1. id \in 2..MaxNodes /\ nextNodeID' = id /\ nodesByID[id] = NoName
  <2>1. nextNodeID \in 1..MaxNodes /\ nextNodeID < MaxNodes /\ MaxNodes \in Nat
    BY Zenon, BoundAssumption DEF NodeInv, TypeOK
  <2>2. id \in 1..MaxNodes /\ id > nextNodeID /\ id \in 2..MaxNodes
    BY <2>1
  <2>3. nodesByID[id] = NoName
    BY Zenon, <2>2 DEF NodeInv, Unused
  <2> QED BY Zenon, <2>2, <2>3
<1>2. /\ req' = [req EXCEPT ![c].node = id]
      /\ pc' = [pc EXCEPT ![c] = "insert"]
      /\ UNCHANGED <<disk, files, nodesByPath, nodesByID, attrCache, negativeCache,
                     handles, nextHandleID, requests, agreed, raced>>
  BY Zenon
<1> HIDE DEF id, AllocNode
<1>3. req' \in [Conn -> Request]
  <2>1. id \in 0..MaxNodes
    BY <1>1, BoundAssumption
  <2> QED BY Zenon, <1>2, <2>1, NodeTyped DEF NodeInv, TypeOK
<1>4. TypeOK'
  BY <1>1, <1>2, <1>3 DEF NodeInv, TypeOK, Step
<1>5. /\ pc'[c] = "insert" /\ req'[c].node = id
      /\ \A d \in Conn \ {c} : pc'[d] = pc[d] /\ req'[d] = req[d]
  BY Zenon, <1>2 DEF NodeInv, TypeOK, Request
<1>6. PathsInverse' /\ Unused'
  BY <1>1, <1>2 DEF NodeInv, TypeOK, PathsInverse, Unused, id
<1>7. SameNodeForAll'
  BY <1>0, <1>2, <1>5 DEF NodeInv, SameNodeForAll
<1>8. \A d \in Conn : Fresh(d)'
  <2>1. Fresh(c)'
    BY <1>1, <1>2, <1>5 DEF Fresh
  <2>2. ASSUME NEW d \in Conn \ {c} PROVE Fresh(d)'
    BY <1>1, <1>2, <1>5 DEF NodeInv, TypeOK, Fresh, id
  <2> QED BY Zenon, <2>1, <2>2
<1>9. Owned'
  <2>1. ASSUME NEW d \in Conn \ {c}, pc[d] = "insert" PROVE req[d].node # id
    BY <2>1, <1>1 DEF NodeInv, TypeOK, Fresh, id
  <2> QED BY <1>5, <2>1 DEF NodeInv, Owned
<1>10. \A d \in Conn : Told(d)'
  BY <1>0, <1>2, <1>5 DEF NodeInv, Told
<1> QED BY Zenon, <1>4, <1>6, <1>7, <1>8, <1>9, <1>10 DEF NodeInv

\* The second look under the lock either adopts the id that is there or
\* stores a fresh one for a name that has none.
LEMMA InsertNodeKeeps == ASSUME NodeInv, NEW c \in Conn, InsertNode(c) PROVE NodeInv'
<1> DEFINE n  == req[c].name
           id == IF nodesByPath[n] # 0 THEN nodesByPath[n] ELSE req[c].node
<1>0. /\ n \in Name /\ pc[c] = "insert" /\ ~agreed[c]
      /\ req[c].node \in 2..MaxNodes /\ nodesByID[req[c].node] = NoName
      /\ \A m \in Name : nodesByPath[m] # req[c].node
  <2>1. n \in Name /\ pc[c] = "insert" /\ ~agreed[c]
    BY Zenon DEF InsertNode, NodeInv, TypeOK, Request, Told
  <2>2. req[c].node \in 2..MaxNodes /\ nodesByID[req[c].node] = NoName
    <3>1. req[c].node \in 2..nextNodeID /\ nodesByID[req[c].node] = NoName
      BY Zenon, <2>1 DEF NodeInv, Fresh
    <3>2. nextNodeID \in 1..MaxNodes /\ MaxNodes \in Nat
      BY Zenon, BoundAssumption DEF NodeInv, TypeOK
    <3> QED BY <3>1, <3>2
  <2>3. ASSUME NEW m \in Name PROVE nodesByPath[m] # req[c].node
    BY <2>2, NameAssumption DEF NodeInv, PathsInverse
  <2> QED BY Zenon, <2>1, <2>2, <2>3
<1>1. id \in 1..MaxNodes
  BY <1>0 DEF NodeInv, TypeOK
<1>2. /\ req' = [req EXCEPT ![c].node = id]
      /\ agreed' = [agreed EXCEPT ![c] = TRUE]
      /\ pc' = [pc EXCEPT ![c] = AfterEnsure(req[c].kind)]
      /\ UNCHANGED <<disk, files, nextNodeID, attrCache, negativeCache, handles,
                     nextHandleID, requests, raced>>
  BY Zenon DEF InsertNode, Ensured, Goto, fsVars, cacheVars, hdlVars
<1>3. nodesByPath' = [nodesByPath EXCEPT ![n] = id]
  BY Zenon, <1>0 DEF InsertNode, NodeInv, TypeOK
<1>4. nodesByID' = [nodesByID EXCEPT ![id] = n]
  BY Zenon, <1>0 DEF InsertNode, NodeInv, TypeOK, PathsInverse
<1>5. \A m \in Name \ {n} : nodesByPath[m] # id
  <2>1. SUFFICES ASSUME NEW m \in Name \ {n}, nodesByPath[m] = id PROVE FALSE
    BY Zenon
  <2>2. CASE nodesByPath[n] # 0
    <3>1. nodesByPath[m] = nodesByPath[n]
      BY Zenon, <2>1, <2>2
    <3>2. nodesByID[nodesByPath[m]] = m /\ nodesByID[nodesByPath[n]] = n
      BY Zenon, <1>0, <2>2, <3>1 DEF NodeInv, PathsInverse
    <3>3. QED
      BY Zenon, <3>1, <3>2
  <2>3. CASE nodesByPath[n] = 0
    BY Zenon, <1>0, <2>1, <2>3
  <2>4. QED
    BY Zenon, <2>2, <2>3
<1>6. \A m \in Name : nodesByPath[m] # 0 => nodesByPath'[m] = nodesByPath[m]
  BY Zenon, <1>3, <1>0 DEF NodeInv, TypeOK
<1>7. ASSUME NEW d \in Conn \ {c}, pc[d] = "insert" PROVE req[d].node # id
  <2>1. req[d].node # req[c].node
    BY Zenon, <1>7, <1>0 DEF NodeInv, Owned
  <2>2. nodesByID[req[d].node] = NoName
    BY Zenon, <1>7 DEF NodeInv, Fresh
  <2> QED BY Zenon, <2>1, <2>2, <1>0, NameAssumption DEF NodeInv, PathsInverse
<1>8. id # 0 /\ (id = nodesByPath[n] \/ id = req[c].node)
  BY Zenon, <1>0, <1>1
<1>9. id <= nextNodeID
  <2>1. req[c].node <= nextNodeID
    BY <1>0 DEF NodeInv, Fresh, TypeOK
  <2>2. nodesByPath[n] # 0 => nodesByPath[n] <= nextNodeID
    <3> SUFFICES ASSUME nodesByPath[n] # 0 PROVE nodesByPath[n] <= nextNodeID
      BY Zenon
    <3>1. nodesByPath[n] \in 1..MaxNodes /\ nodesByID[nodesByPath[n]] # NoName
      BY <1>0, NameAssumption, BoundAssumption DEF NodeInv, PathsInverse, TypeOK
    <3>2. nextNodeID \in Nat /\ ~(nodesByPath[n] > nextNodeID)
      BY <3>1 DEF NodeInv, Unused, TypeOK
    <3> QED BY <3>1, <3>2
  <2> QED BY Zenon, <2>1, <2>2
<1> HIDE DEF id
<1>10. AfterEnsure(req[c].kind) \in {"addHandle", "clearNegative", "store"}
  BY Zenon DEF AfterEnsure
<1>11. req' \in [Conn -> Request]
  <2>1. id \in 0..MaxNodes
    BY <1>1, BoundAssumption
  <2> QED BY Zenon, <1>2, <2>1, NodeTyped DEF NodeInv, TypeOK
<1>12. /\ pc'[c] = AfterEnsure(req[c].kind) /\ agreed'[c]
       /\ req'[c].node = id /\ req'[c].name = n /\ req'[c].kind = req[c].kind
       /\ \A d \in Conn \ {c} : pc'[d] = pc[d] /\ req'[d] = req[d] /\ agreed'[d] = agreed[d]
  BY Zenon, <1>2 DEF NodeInv, TypeOK, Request
<1>13. TypeOK'
  BY SMTT(30), <1>0, <1>1, <1>2, <1>3, <1>4, <1>10, <1>11 DEF NodeInv, TypeOK, Step
<1>14. PathsInverse'
  BY SMTT(30), <1>0, <1>1, <1>3, <1>4, <1>5 DEF NodeInv, TypeOK, PathsInverse
<1>15. Unused'
  BY <1>1, <1>2, <1>4, <1>9 DEF NodeInv, TypeOK, Unused
<1>16. SameNodeForAll'
  <2>1. nodesByPath'[n] = id
    BY Zenon, <1>0, <1>3 DEF NodeInv, TypeOK
  <2>2. ASSUME NEW d \in Conn \ {c}, agreed[d] PROVE nodesByPath'[req[d].name] = req[d].node
    BY SMTT(30), <2>2, <1>6 DEF NodeInv, TypeOK, Request, SameNodeForAll, Told
  <2> QED BY Zenon, <1>12, <2>1, <2>2 DEF SameNodeForAll
<1>17. \A d \in Conn : Fresh(d)'
  <2>1. Fresh(c)'
    BY Zenon, <1>10, <1>12 DEF Fresh
  <2>2. ASSUME NEW d \in Conn \ {c} PROVE Fresh(d)'
    BY <1>2, <1>4, <1>7, <1>12 DEF NodeInv, TypeOK, Fresh
  <2> QED BY Zenon, <2>1, <2>2
<1>18. Owned'
  BY <1>10, <1>12 DEF NodeInv, Owned
<1>19. \A d \in Conn : Told(d)'
  <2>1. Told(c)'
    BY Zenon, <1>8, <1>12 DEF Told, AfterEnsure
  <2>2. ASSUME NEW d \in Conn \ {c} PROVE Told(d)'
    BY <1>12 DEF NodeInv, Told
  <2> QED BY Zenon, <2>1, <2>2
<1> QED BY Zenon, <1>13, <1>14, <1>15, <1>16, <1>17, <1>18, <1>19 DEF NodeInv

-----------------------------------------------------------------------------
(* movePathMapping and removePathMapping.                                  *)

\* Moving an id from the source's name to the target's leaves both maps
\* inverse; requests about either name no longer count on their id.
LEMMA MovePathMappingKeeps == ASSUME NodeInv, NEW c \in Conn, MovePathMapping(c) PROVE NodeInv'
<1> DEFINE s  == req[c].src
           d  == req[c].name
           id == nodesByPath[s]
<1>0. s \in Name /\ d \in Name /\ pc[c] = "move" /\ id \in 0..MaxNodes
  BY Zenon DEF MovePathMapping, NodeInv, TypeOK, Request
<1>1. /\ attrCache' \subseteq attrCache /\ negativeCache' \subseteq negativeCache
      /\ agreed' = [e \in Conn |-> agreed[e] /\ req[e].name \notin {s, d}]
      /\ pc' = [pc EXCEPT ![c] = "invalidateSrc"]
      /\ UNCHANGED <<disk, files, nextNodeID, handles, nextHandleID, req, requests, raced>>
  BY Zenon DEF MovePathMapping, Disagree, Goto, fsVars, hdlVars
<1>2. CASE id = 0
  <2>1. UNCHANGED <<nodesByPath, nodesByID>>
    BY Zenon, <1>2 DEF MovePathMapping
  <2>2. TypeOK'
    BY Zenon, <1>1, <2>1 DEF NodeInv, TypeOK, Step
  <2>3. PathsInverse' /\ Unused' /\ SameNodeForAll'
    BY Zenon, <1>1, <2>1 DEF NodeInv, TypeOK, PathsInverse, Unused, SameNodeForAll
  <2>4. Owned' /\ \A e \in Conn : Fresh(e)' /\ Told(e)'
    BY Zenon, <1>0, <1>1, <2>1 DEF NodeInv, TypeOK, Owned, Fresh, Told
  <2> QED BY Zenon, <2>2, <2>3, <2>4 DEF NodeInv
<1>3. CASE id # 0
  <2>1. /\ nodesByPath' = [n \in Name |-> IF n = d THEN id ELSE IF n = s THEN 0 ELSE nodesByPath[n]]
        /\ nodesByID' = [nodesByID EXCEPT ![id] = d]
    BY Zenon, <1>3 DEF MovePathMapping
  <2>2. id \in 1..MaxNodes /\ nodesByID[id] = s
    BY <1>0, <1>3 DEF NodeInv, PathsInverse
  <2>3. \A n \in Name \ {s} : nodesByPath[n] # id
    BY Zenon, <1>0, <1>3, <2>2 DEF NodeInv, PathsInverse
  <2> HIDE DEF s, d, id
  <2>4. TypeOK'
    <3>1. nodesByPath' \in [Name -> 0..MaxNodes]
      BY <1>0, <2>1, <2>2, BoundAssumption DEF NodeInv, TypeOK
    <3>2. nodesByID' \in [1..MaxNodes -> Name \cup {NoName}]
      BY Zenon, <1>0, <2>1, <2>2 DEF NodeInv, TypeOK
    <3> QED BY Zenon, <1>1, <3>1, <3>2 DEF NodeInv, TypeOK, Step
  <2>5. PathsInverse'
    BY <1>0, <2>1, <2>2, <2>3 DEF NodeInv, TypeOK, PathsInverse
  <2>6. Unused'
    BY Zenon, <1>0, <1>1, <2>1, <2>2, NameAssumption DEF NodeInv, TypeOK, Unused
  <2>7. SameNodeForAll'
    BY Zenon, <1>1, <2>1 DEF NodeInv, TypeOK, Request, SameNodeForAll
  <2>8. \A e \in Conn : pc'[e] = "insert" => pc[e] = "insert"
    BY Zenon, <1>1 DEF NodeInv, TypeOK
  <2>9. Owned'
    BY Zenon, <1>1, <2>8 DEF NodeInv, Owned
  <2>10. \A e \in Conn : Fresh(e)'
    BY SMTT(30), <1>0, <1>1, <2>1, <2>2, <2>8, NameAssumption DEF NodeInv, TypeOK, Fresh
  <2>11. \A e \in Conn : Told(e)'
    BY Zenon, <1>0, <1>1 DEF NodeInv, TypeOK, Told
  <2> QED BY Zenon, <2>4, <2>5, <2>6, <2>7, <2>9, <2>10, <2>11 DEF NodeInv
<1> QED BY Zenon, <1>2, <1>3

\* Removing a name's mapping forgets its id and nothing else.
LEMMA RemovePathMappingKeeps == ASSUME NodeInv, NEW c \in Conn, RemovePathMapping(c) PROVE NodeInv'
<1> DEFINE n  == req[c].name
           id == nodesByPath[n]
<1>0. n \in Name /\ pc[c] = "unmap" /\ id \in 0..MaxNodes
  BY Zenon DEF RemovePathMapping, NodeInv, TypeOK, Request
<1>1. /\ attrCache' \subseteq attrCache /\ negativeCache' \subseteq negativeCache
      /\ agreed' = [e \in Conn |-> agreed[e] /\ req[e].name \notin {n}]
      /\ pc' = [pc EXCEPT ![c] = "invalidate"]
      /\ UNCHANGED <<disk, files, nextNodeID, handles, nextHandleID, req, requests, raced>>
  BY Zenon DEF RemovePathMapping, Disagree, Goto, fsVars, hdlVars
<1>2. CASE id = 0
  <2>1. UNCHANGED <<nodesByPath, nodesByID>>
    BY Zenon, <1>2 DEF RemovePathMapping
  <2>2. TypeOK'
    BY Zenon, <1>1, <2>1 DEF NodeInv, TypeOK, Step
  <2>3. PathsInverse' /\ Unused' /\ SameNodeForAll'
    BY Zenon, <1>1, <2>1 DEF NodeInv, TypeOK, PathsInverse, Unused, SameNodeForAll
  <2>4. Owned' /\ \A e \in Conn : Fresh(e)' /\ Told(e)'
    BY Zenon, <1>0, <1>1, <2>1 DEF NodeInv, TypeOK, Owned, Fresh, Told
  <2> QED BY Zenon, <2>2, <2>3, <2>4 DEF NodeInv
<1>3. CASE id # 0
  <2>1. /\ nodesByPath' = [nodesByPath EXCEPT ![n] = 0]
        /\ nodesByID' = [nodesByID EXCEPT ![id] = NoName]
    BY Zenon, <1>3 DEF RemovePathMapping
  <2>2. id \in 1..MaxNodes /\ nodesByID[id] = n
    BY <1>0, <1>3 DEF NodeInv, PathsInverse
  <2>3. \A m \in Name \ {n} : nodesByPath[m] # id
    BY Zenon, <1>0, <1>3, <2>2 DEF NodeInv, PathsInverse
  <2> HIDE DEF n, id
  <2>4. TypeOK'
    <3>1. nodesByPath' \in [Name -> 0..MaxNodes]
      BY <1>0, <2>1, <2>2, BoundAssumption DEF NodeInv, TypeOK
    <3>2. nodesByID' \in [1..MaxNodes -> Name \cup {NoName}]
      BY Zenon, <1>0, <2>1, <2>2 DEF NodeInv, TypeOK
    <3> QED BY Zenon, <1>1, <3>1, <3>2 DEF NodeInv, TypeOK, Step
  <2>5. PathsInverse'
    BY <1>0, <2>1, <2>2, <2>3 DEF NodeInv, TypeOK, PathsInverse
  <2>6. Unused'
    BY Zenon, <1>0, <1>1, <2>1, <2>2 DEF NodeInv, TypeOK, Unused
  <2>7. SameNodeForAll'
    BY Zenon, <1>1, <2>1 DEF NodeInv, TypeOK, Request, SameNodeForAll
  <2>8. \A e \in Conn : pc'[e] = "insert" => pc[e] = "insert"
    BY Zenon, <1>1 DEF NodeInv, TypeOK
  <2>9. Owned'
    BY Zenon, <1>1, <2>8 DEF NodeInv, Owned
  <2>10. \A e \in Conn : Fresh(e)'
    BY SMTT(30), <1>0, <1>1, <2>1, <2>2, <2>8 DEF NodeInv, TypeOK, Fresh
  <2>11. \A e \in Conn : Told(e)'
    BY Zenon, <1>0, <1>1 DEF NodeInv, TypeOK, Told
  <2> QED BY Zenon, <2>4, <2>5, <2>6, <2>7, <2>9, <2>10, <2>11 DEF NodeInv
<1> QED BY Zenon, <1>2, <1>3

-----------------------------------------------------------------------------
(* Every step.                                                             *)

\* Every step of every connection keeps the invariant, one case per action.
LEMMA NodeInvNext == NodeInv /\ [Next]_vars => NodeInv'
<1> SUFFICES ASSUME NodeInv, [Next]_vars PROVE NodeInv' OBVIOUS
<1> USE DEF fsVars, nodeVars, cacheVars, hdlVars
<1>1. CASE UNCHANGED vars
  BY Zenon, <1>1 DEF vars, NodeInv, TypeOK, PathsInverse, SameNodeForAll, Fresh, Owned, Unused, Told
<1>2. CASE Expire
  <2>1. UNCHANGED <<nodesByPath, nodesByID, nextNodeID, pc, req, agreed>>
    BY Zenon, <1>2 DEF Expire
  <2>2. TypeOK'
    BY Zenon, <1>2 DEF Expire, NodeInv, TypeOK
  <2> QED BY Zenon, <2>1, <2>2 DEF NodeInv, PathsInverse, SameNodeForAll, Fresh, Owned, Unused, Told
<1>3. ASSUME NEW c \in Conn, Request1(c) PROVE NodeInv'
  <2> USE DEF New, Request, Kind, Step
  <2>1. CASE \E n \in Name : Lookup(c, n)
    <3>1. PICK n \in Name : Begin(c, New("lookup", n, n, FALSE), "negative")
      BY Zenon, <2>1 DEF Lookup
    <3>2. New("lookup", n, n, FALSE) \in Request
      BY BoundAssumption
    <3> QED BY Zenon, <3>1, <3>2, BeginKeeps
  <2>2. CASE \E n \in Name, f \in BOOLEAN : CreateFile(c, n, f)
    BY <2>2, BeginKeeps, BoundAssumption DEF CreateFile
  <2>3. CASE \E s, d \in Name, f \in BOOLEAN : RenamePath(c, s, d, f)
    <3>1. PICK s, d \in Name, f \in BOOLEAN : Begin(c, New("rename", d, s, f), "statSrc")
      BY Zenon, <2>3 DEF RenamePath
    <3>2. New("rename", d, s, f) \in Request
      BY BoundAssumption
    <3> QED BY Zenon, <3>1, <3>2, BeginKeeps
  <2>4. ASSUME NEW h \in 1..MaxHandles, NEW f \in BOOLEAN, CloseHandle(c, h, f) PROVE NodeInv'
    <3> DEFINE r == New("close", handles[h], handles[h], f)
               first == IF f THEN "remove" ELSE "invalidate"
    <3>1. r \in Request /\ first \in Step /\ first # "insert"
      BY SMTT(30), <2>4, BoundAssumption DEF CloseHandle, NodeInv, TypeOK
    <3>2. /\ req' = [req EXCEPT ![c] = r]
          /\ agreed' = [agreed EXCEPT ![c] = FALSE]
          /\ pc' = [pc EXCEPT ![c] = first]
          /\ requests' \in Nat /\ handles' \in [1..MaxHandles -> Name \cup {NoName}]
          /\ UNCHANGED <<disk, files, nodesByPath, nodesByID, nextNodeID, attrCache,
                         negativeCache, nextHandleID, raced>>
      BY <2>4 DEF CloseHandle, Goto, NodeInv, TypeOK
    <3> HIDE DEF r, first, New, Request, Step
    <3>3. TypeOK'
      BY Zenon, <3>1, <3>2 DEF NodeInv, TypeOK
    <3>4. PathsInverse' /\ Unused' /\ SameNodeForAll' /\ Owned'
      BY Zenon, <3>1, <3>2 DEF NodeInv, TypeOK, PathsInverse, Unused, SameNodeForAll, Owned
    <3>5. \A d \in Conn : Fresh(d)' /\ Told(d)'
      BY Zenon, <3>1, <3>2 DEF NodeInv, TypeOK, Fresh, Told
    <3> QED BY Zenon, <3>3, <3>4, <3>5 DEF NodeInv
  <2> QED BY Zenon, <1>3, <2>1, <2>2, <2>3, <2>4 DEF Request1
<1>4. ASSUME NEW c \in Conn, Work(c) PROVE NodeInv'
  <2>0. TypeOK /\ Told(c) /\ req[c] \in Request
    BY Zenon DEF NodeInv, TypeOK
  <2> USE DEF Step
  <2>1. CASE CheckNegative(c)
    BY Zenon, <2>0, <2>1, QuietKeeps DEF CheckNegative, TypeOK, Told
  <2>2. CASE CheckAttr(c)
    BY Zenon, <2>0, <2>2, QuietKeeps DEF CheckAttr, TypeOK, Told
  <2>3. CASE Stat(c)
    BY Zenon, <2>0, <2>3, QuietKeeps DEF Stat, TypeOK, Told
  <2>4. CASE RecordNegative(c)
    BY Zenon, <2>0, <2>4, QuietKeeps DEF RecordNegative, TypeOK, Told, Request
  <2>5. CASE ClearNegative(c)
    <3> DEFINE next == IF req[c].kind \in {"lookup", "close"} THEN "find" ELSE "store"
    <3>1. agreed[c] => next = "store"
      BY Zenon, <2>0, <2>5 DEF ClearNegative, Told
    <3>2. /\ Goto(c, next) /\ negativeCache' \subseteq Name
          /\ UNCHANGED <<fsVars, nodeVars, attrCache, hdlVars, req, requests, agreed, raced>>
      BY Zenon, <2>0, <2>5 DEF ClearNegative, TypeOK
    <3> QED BY Zenon, <2>0, <3>1, <3>2, QuietKeeps DEF TypeOK
  <2>6. CASE StoreAttr(c)
    BY Zenon, <2>0, <2>6, QuietKeeps DEF StoreAttr, TypeOK, Told, Request
  <2>7. CASE OpenNew(c)
    <3>1. disk' \in [Name -> Nat] /\ files' \in Nat
      <4>1. \/ UNCHANGED <<disk, files>>
            \/ files' = files + 1 /\ disk' = [disk EXCEPT ![req[c].name] = files + 1]
        BY Zenon, <2>7 DEF OpenNew
      <4>2. files + 1 \in Nat /\ disk \in [Name -> Nat] /\ files \in Nat
        BY <2>0 DEF TypeOK
      <4> QED BY Zenon, <4>1, <4>2
    <3>2. ~agreed[c]
      BY Zenon, <2>0, <2>7 DEF OpenNew, Told
    <3>3. /\ Goto(c, "find") \/ Goto(c, "idle")
          /\ UNCHANGED <<nodeVars, cacheVars, hdlVars, req, requests, agreed>>
      BY Zenon, <2>7 DEF OpenNew
    <3>4. raced' \subseteq Conn
      BY Zenon, <2>0, <2>7 DEF OpenNew, AboutToTake, TypeOK
    <3> QED BY Zenon, <2>0, <3>1, <3>2, <3>3, <3>4, QuietKeeps DEF TypeOK
  <2>8. CASE AddHandle(c)
    <3>1. /\ handles' \in [1..MaxHandles -> Name \cup {NoName}]
          /\ nextHandleID' \in 0..MaxHandles
      BY <2>0, <2>8, BoundAssumption DEF AddHandle, TypeOK, Request
    <3>2. /\ Goto(c, "invalidate") /\ (agreed[c] => req[c].kind = "create")
          /\ UNCHANGED <<fsVars, nodeVars, cacheVars, req, requests, agreed, raced>>
      BY Zenon, <2>0, <2>8 DEF AddHandle, Told
    <3> QED BY Zenon, <2>0, <3>1, <3>2, QuietKeeps DEF TypeOK
  <2>9. CASE Invalidate(c)
    <3> DEFINE next == CASE req[c].kind = "create" -> "clearNegative"
                         [] req[c].kind = "rename" -> "find"
                         [] req[c].kind = "close" /\ req[c].flag -> "recordNegative"
                         [] OTHER -> "stat"
    <3>1. next \in Step /\ next # "insert" /\ (req[c].kind = "create" => next = "clearNegative")
      BY Zenon, <2>0 DEF Request, Kind
    <3>2. agreed[c] => req[c].kind = "create"
      BY Zenon, <2>0, <2>9 DEF Told, Invalidate
    <3>3. /\ Goto(c, next)
          /\ attrCache' \subseteq Name /\ negativeCache' \subseteq Name
          /\ UNCHANGED <<fsVars, nodeVars, hdlVars, req, requests, agreed, raced>>
      BY Zenon, <2>0, <2>9 DEF Invalidate, TypeOK
    <3> HIDE DEF next
    <3> QED BY Zenon, <2>0, <3>1, <3>2, <3>3, QuietKeeps DEF TypeOK
  <2>10. CASE StatSrc(c)
    BY Zenon, <2>0, <2>10, QuietKeeps DEF StatSrc, TypeOK, Told
  <2>11. CASE StatDst(c)
    BY Zenon, <2>0, <2>11, QuietKeeps DEF StatDst, TypeOK, Told
  <2>12. CASE Rename(c)
    <3>1. req[c].src \in Name /\ req[c].name \in Name
      BY Zenon, <2>0 DEF Request
    <3>2. disk' \in [Name -> Nat] /\ raced' \subseteq Conn
      <4>1. CASE disk[req[c].src] = 0
        BY Zenon, <2>0, <2>12, <4>1 DEF Rename, TypeOK
      <4>2. CASE disk[req[c].src] # 0
        <5>1. disk' \in [Name -> Nat]
          BY SMTT(30), <2>0, <2>12, <3>1, <4>2 DEF Rename, TypeOK
        <5>2. raced' \subseteq raced \cup AboutToTake(req[c].name)
          BY Zenon, <2>12, <4>2 DEF Rename
        <5> QED BY Zenon, <2>0, <5>1, <5>2 DEF TypeOK, AboutToTake
      <4> QED BY Zenon, <4>1, <4>2
    <3>3. ~agreed[c]
      BY Zenon, <2>0, <2>12 DEF Told, Rename
    <3>4. /\ Goto(c, "idle") \/ Goto(c, "move")
          /\ UNCHANGED <<files, nodeVars, cacheVars, hdlVars, req, requests, agreed>>
      BY Zenon, <2>12 DEF Rename
    <3> QED BY Zenon, <2>0, <3>2, <3>3, <3>4, QuietKeeps DEF TypeOK
  <2>13. CASE InvalidateSrc(c)
    BY Zenon, <2>0, <2>13, QuietKeeps DEF InvalidateSrc, TypeOK, Told
  <2>14. CASE Remove(c)
    BY Zenon, <2>0, <2>14, QuietKeeps DEF Remove, TypeOK, Told, Request
  <2> QED
    BY Zenon, <1>4, <2>1, <2>2, <2>3, <2>4, <2>5, <2>6, <2>7, <2>8, <2>9, <2>10, <2>11, <2>12,
       <2>13, <2>14, FindNodeKeeps, AllocNodeKeeps, InsertNodeKeeps, MovePathMappingKeeps,
       RemovePathMappingKeeps DEF Work
<1> QED BY Zenon, <1>1, <1>2, <1>3, <1>4 DEF Next

\* The invariant holds throughout.
LEMMA NodeInvAlways == Spec => []NodeInv
BY NodeInvInit, NodeInvNext, PTL DEF Spec

-----------------------------------------------------------------------------
(* Renames that may not replace.                                           *)

\* A request that arrives changes its connection's locals, and no name.
LEMMA RequestMoves ==
    ASSUME NEW c \in Conn, Request1(c)
    PROVE  /\ disk' = disk
           /\ \E r, first : /\ req' = [req EXCEPT ![c] = r] /\ pc' = [pc EXCEPT ![c] = first]
                           /\ first # "rename" /\ raced' = raced
<1>1. ASSUME NEW r, NEW first, first # "rename", Begin(c, r, first)
      PROVE  /\ disk' = disk /\ req' = [req EXCEPT ![c] = r] /\ pc' = [pc EXCEPT ![c] = first]
             /\ raced' = raced
  BY Zenon, <1>1 DEF Begin, Goto
<1>2. CASE \E n \in Name : Lookup(c, n)
  BY Zenon, <1>1, <1>2 DEF Lookup
<1>3. CASE \E n \in Name, f \in BOOLEAN : CreateFile(c, n, f)
  BY Zenon, <1>1, <1>3 DEF CreateFile
<1>4. CASE \E s, d \in Name, f \in BOOLEAN : RenamePath(c, s, d, f)
  BY Zenon, <1>1, <1>4 DEF RenamePath
<1>5. ASSUME NEW h \in 1..MaxHandles, NEW f \in BOOLEAN, CloseHandle(c, h, f)
      PROVE  /\ disk' = disk
             /\ \E r, first : /\ req' = [req EXCEPT ![c] = r] /\ pc' = [pc EXCEPT ![c] = first]
                             /\ first # "rename" /\ raced' = raced
  <2> DEFINE first == IF f THEN "remove" ELSE "invalidate"
  <2>1. first # "rename"
    BY Zenon
  <2>2. /\ disk' = disk /\ raced' = raced /\ pc' = [pc EXCEPT ![c] = first]
        /\ req' = [req EXCEPT ![c] = New("close", handles[h], handles[h], f)]
    BY Zenon, <1>5 DEF CloseHandle, Goto, fsVars
  <2> HIDE DEF first
  <2> QED BY Zenon, <2>1, <2>2
<1> QED BY Zenon, <1>2, <1>3, <1>4, <1>5 DEF Request1

\* A request's step moves only its own connection and keeps its target and
\* flag; it reaches "rename" by finding nothing at the target, or when it may
\* replace.
LEMMA OthersStay ==
    ASSUME NodeInv, NEW c \in Conn, Request1(c) \/ Work(c), NEW d \in Conn, pc'[d] = "rename"
    PROVE  \/ /\ pc[d] = "rename" /\ d # c
              /\ req'[d] = req[d] /\ (d \in raced => d \in raced')
           \/ /\ d = c /\ req'[c] = req[c]
              /\ req[c].flag \/ (disk[req[c].name] = 0 /\ disk' = disk)
<1>0. pc \in [Conn -> Step] /\ req \in [Conn -> Request]
  BY Zenon DEF NodeInv, TypeOK
<1>1. CASE Request1(c)
  <2>1. PICK r, first : /\ req' = [req EXCEPT ![c] = r] /\ pc' = [pc EXCEPT ![c] = first]
                        /\ first # "rename" /\ raced' = raced
    BY Zenon, <1>1, RequestMoves
  <2> QED BY Zenon, <1>0, <2>1
<1>2. CASE Work(c)
  <2>1. CASE StatSrc(c) \/ StatDst(c)
    <3>1. req' = req /\ raced' = raced /\ disk' = disk
      BY Zenon, <2>1 DEF StatSrc, StatDst, fsVars
    <3>2. PICK step : pc' = [pc EXCEPT ![c] = step]
      BY Zenon, <2>1 DEF StatSrc, StatDst, Goto
    <3>3. pc'[c] = step /\ \A e \in Conn \ {c} : pc'[e] = pc[e]
      BY Zenon, <1>0, <3>2
    <3>4. CASE d = c
      <4>1. CASE StatSrc(c)
        <5>1. pc'[c] = IF disk[req[c].src] = 0 THEN "idle"
                       ELSE IF req[c].flag THEN "rename" ELSE "statDst"
          BY Zenon, <1>0, <4>1 DEF StatSrc, Goto
        <5>2. req[c].flag
          BY Zenon, <3>4, <5>1
        <5>3. QED
          BY Zenon, <3>1, <3>4, <5>2
      <4>2. CASE StatDst(c)
        <5>1. pc'[c] = IF disk[req[c].name] # 0 THEN "idle" ELSE "rename"
          BY Zenon, <1>0, <4>2 DEF StatDst, Goto
        <5>2. disk[req[c].name] = 0
          BY Zenon, <3>4, <5>1
        <5>3. QED
          BY Zenon, <3>1, <3>4, <5>2
      <4>3. QED
        BY Zenon, <2>1, <4>1, <4>2
    <3>5. CASE d # c
      BY Zenon, <3>1, <3>3, <3>5
    <3>6. QED
      BY Zenon, <3>4, <3>5
  <2>2. CASE OpenNew(c)
    BY Zenon, <1>0, <2>2 DEF OpenNew, Goto
  <2>3. CASE Rename(c)
    BY Zenon, <1>0, <2>3 DEF Rename, Goto
  <2>4. CASE FindNode(c) \/ AllocNode(c) \/ InsertNode(c)
    BY Zenon, <1>0, <2>4 DEF FindNode, AllocNode, InsertNode, Ensured, AfterEnsure, Goto
  <2>5. CASE \/ CheckNegative(c) \/ CheckAttr(c) \/ Stat(c) \/ RecordNegative(c)
             \/ ClearNegative(c) \/ StoreAttr(c)
    BY Zenon, <1>0, <2>5
       DEF CheckNegative, CheckAttr, Stat, RecordNegative, ClearNegative, StoreAttr, Goto
  <2>6. CASE \/ AddHandle(c) \/ Invalidate(c) \/ MovePathMapping(c) \/ InvalidateSrc(c)
             \/ Remove(c) \/ RemovePathMapping(c)
    BY Zenon, <1>0, <2>6
       DEF AddHandle, Invalidate, MovePathMapping, InvalidateSrc, Remove, RemovePathMapping, Goto
  <2> QED BY Zenon, <1>2, <2>1, <2>2, <2>3, <2>4, <2>5, <2>6 DEF Work
<1> QED BY Zenon, <1>1, <1>2

\* A name comes into use only by a create or a rename, which leave word with
\* the renames that are about to take it.
LEMMA NewcomersTell ==
    ASSUME NodeInv, NEW c \in Conn, Request1(c) \/ Work(c), NEW n \in Name,
           disk[n] = 0, disk'[n] # 0
    PROVE  \A d \in Conn : pc[d] = "rename" /\ req[d].name = n /\ d # c => d \in raced'
<1>0. disk \in [Name -> Nat] /\ req \in [Conn -> Request]
  BY Zenon DEF NodeInv, TypeOK
<1>1. CASE OpenNew(c)
  BY Zenon, <1>0, <1>1 DEF OpenNew, AboutToTake, fsVars
<1>2. CASE Rename(c)
  BY Zenon, <1>0, <1>2 DEF Rename, AboutToTake
<1>3. CASE Remove(c)
  BY Zenon, <1>0, <1>3 DEF Remove
<1>4. CASE Request1(c)
  BY Zenon, <1>4, RequestMoves
<1>5. CASE \/ CheckNegative(c) \/ CheckAttr(c) \/ Stat(c) \/ RecordNegative(c) \/ ClearNegative(c)
           \/ FindNode(c) \/ AllocNode(c) \/ InsertNode(c) \/ StoreAttr(c)
  BY Zenon, <1>5 DEF CheckNegative, CheckAttr, Stat, RecordNegative, ClearNegative, FindNode, AllocNode,
              InsertNode, StoreAttr, fsVars
<1>6. CASE \/ AddHandle(c) \/ Invalidate(c) \/ StatSrc(c) \/ StatDst(c) \/ MovePathMapping(c)
           \/ InvalidateSrc(c) \/ RemovePathMapping(c)
  BY Zenon, <1>6 DEF AddHandle, Invalidate, StatSrc, StatDst, MovePathMapping, InvalidateSrc,
              RemovePathMapping, fsVars
<1> QED BY Zenon, <1>1, <1>2, <1>3, <1>4, <1>5, <1>6 DEF Work

LEMMA ReplaceNext == NodeInv /\ NoSilentReplace /\ [Next]_vars => NoSilentReplace'
<1> SUFFICES ASSUME NodeInv, NoSilentReplace, [Next]_vars PROVE NoSilentReplace' OBVIOUS
<1>1. CASE UNCHANGED vars
  BY Zenon, <1>1 DEF vars, NoSilentReplace
<1>2. CASE Expire
  BY Zenon, <1>2 DEF Expire, fsVars, NoSilentReplace
<1>3. ASSUME NEW c \in Conn, Request1(c) \/ Work(c) PROVE NoSilentReplace'
  <2> SUFFICES ASSUME NEW d \in Conn, pc'[d] = "rename", ~req'[d].flag, d \notin raced'
               PROVE  disk'[req'[d].name] = 0
    BY Zenon DEF NoSilentReplace
  <2>1. CASE d = c
    BY Zenon, <1>3, <2>1, OthersStay
  <2>2. CASE d # c
    <3>1. pc[d] = "rename" /\ req'[d] = req[d] /\ d \notin raced
      BY Zenon, <1>3, <2>2, OthersStay
    <3>2. disk[req[d].name] = 0 /\ req[d].name \in Name
      BY Zenon, <3>1 DEF NoSilentReplace, NodeInv, TypeOK, Request
    <3> QED BY Zenon, <1>3, <2>2, <3>1, <3>2, NewcomersTell
  <2> QED BY Zenon, <2>1, <2>2
<1> QED BY Zenon, <1>1, <1>2, <1>3 DEF Next

-----------------------------------------------------------------------------
\* Maps and locals keep their types however requests interleave.
THEOREM TypeCorrect == Spec => []TypeOK
<1>1. NodeInv => TypeOK
  BY Zenon DEF NodeInv
<1> QED BY <1>1, NodeInvAlways, PTL

\* The id a name maps to leads back to the name, with any number of
\* connections creating, renaming and deleting at once.
THEOREM NodeMapsAreInverse == Spec => []PathsInverse
<1>1. NodeInv => PathsInverse
  BY Zenon DEF NodeInv
<1> QED BY <1>1, NodeInvAlways, PTL

\* ensureNode's double check gives all requests for a name the same id.
THEOREM OneNodePerName == Spec => []SameNodeForAll
<1>1. NodeInv => SameNodeForAll
  BY Zenon DEF NodeInv
<1> QED BY <1>1, NodeInvAlways, PTL

\* A rename that may not replace finds nothing to replace unless its target
\* was taken after it looked, with any number of connections.
THEOREM NothingToReplace == Spec => []NoSilentReplace
<1>1. Init => NoSilentReplace
  BY Zenon DEF Init, NoSilentReplace
<1> QED BY <1>1, NodeInvAlways, ReplaceNext, PTL DEF Spec

=============================================================================
