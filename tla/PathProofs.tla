----------------------------- MODULE PathProofs -----------------------------
(***************************************************************************)
(* Proofs about the paths of a mounted volume and the materializer: for    *)
(* any tree, any number of threads and any changes by other clients, what  *)
(* the mount core caches for a path was there, and a copy is faithful.     *)
(***************************************************************************)
EXTENDS Materializer, FiniteSetTheorems, SequenceTheorems, WellFoundedInduction, TLAPS

-----------------------------------------------------------------------------
(* The inductive invariant of the cache.  A directory that is still in the *)
(* tree is wherever it has ever been, since it was not renamed and what    *)
(* is above it is not empty: so a walk that goes on from a directory it    *)
(* reached earlier goes on from a path the directory has now.              *)

Goal == {"none", "info", "file", "list"}

Reg == [goal : Goal, path : Path, at : Nat, cur : Path, node : Nodes \cup {0},
        todo : SUBSET (Name \X Nodes)]

\* A tree: every entry is in a directory.
Tree == [Nodes -> (DirNodes \X Name) \cup {Gone}]

CacheType(c) == c \in [Path -> Nodes \cup {0}] /\ c[<<>>] # 0

Types ==
    /\ place \in Tree /\ place[1] = Gone
    /\ CacheType(pathCache)
    /\ pc = [t \in Thread |-> pc[t]]
    /\ reg \in [Thread -> Reg]
    /\ given \subseteq Nodes /\ 1 \in given
    /\ everAt \in [Path -> SUBSET Nodes]
    /\ disturbed \in BOOLEAN

TreeInv ==
    /\ \A n \in Nodes : place[n] # Gone => n \in given
    /\ \A m, n \in Nodes : \A x \in Name : place[m] = <<n, x>> => n \in given
    /\ \A p \in Path : NodesAt(place, p) \subseteq everAt[p] /\ everAt[p] \subseteq given
    /\ ~disturbed => ~Spaced(place)

DirsStay == \A p \in Path : \A d \in DirNodes : d \in everAt[p] /\ Alive(d) => d \in NodesAt(place, p)

\* The first k components of p, trimmed: the currentPath of resolvePath.
Begun(p, k) == [i \in 1..k |-> Trimmed[p[i]]]

\* What a thread at step s has in hand was at the path it takes it for.
HandOK(s, r) ==
    /\ s # "idle" => r.node \in Nodes
    /\ s \in {"walk", "cache"} => r.at \in 0..Len(r.path) /\ r.cur = Begun(r.path, r.at)
    /\ s = "walk" => r.at # Len(r.path)
    /\ s = "readdir" => \A e \in r.todo : JoinMountPath(r.path, e[1]) \in Path

HandTrue(s, r, at) ==
    /\ s \in {"walk", "cache"} => r.node \in at[r.cur]
    /\ s \in {"getattr", "cacheattr", "open"} /\ Plain(r.path) => r.node \in at[r.path]
    /\ s = "readdir" /\ Plain(r.path) =>
           \A e \in r.todo : e[2] \in at[JoinMountPath(r.path, e[1])]

\* A cache that, as long as disturbed is FALSE, has for each path what was there.
CacheTrue(c, at) == \A p \in Path : Plain(p) /\ c[p] # 0 => c[p] \in at[p]

PathsInv ==
    /\ Types /\ TreeInv /\ \A t \in Thread : HandOK(pc[t], reg[t])
    /\ ~disturbed => /\ DirsStay /\ CacheTrue(pathCache, everAt)
                     /\ \A t \in Thread : HandTrue(pc[t], reg[t], everAt)

-----------------------------------------------------------------------------
(* Paths and trees.                                                        *)

\* What currentPath is after k components.
LEMMA BegunFacts ==
    ASSUME NEW p \in Path, NEW k \in 0..Len(p)
    PROVE  /\ Begun(p, k) \in Path /\ Begun(p, k) \in Seq(Name)
           /\ Len(Begun(p, k)) = k /\ DOMAIN Begun(p, k) = 1..k /\ Plain(Begun(p, k))
  <1>1. p \in Seq(Name) /\ Len(p) \in Nat
    BY PathAssumption DEF Name
  <1>2. Begun(p, k) \in Path
    BY Zenon, PathAssumption DEF Begun
  <1>3. \A i \in 1..k : p[i] \in Name
    BY <1>1
  <1>4. \A i \in 1..k : Trimmed[p[i]] \in Name /\ Trimmed[Trimmed[p[i]]] = Trimmed[p[i]]
    BY Zenon, <1>3, TrimAssumption DEF Name
  <1>5. DOMAIN Begun(p, k) = 1..k
    BY Zenon DEF Begun
  <1>6. Begun(p, k) \in Seq(Name)
    BY Zenon, <1>2, PathAssumption DEF Name
  <1>7. Len(Begun(p, k)) = k
    BY <1>1, <1>5, <1>6, LenProperties
  <1>8. Plain(Begun(p, k))
    BY Zenon, <1>4, <1>5 DEF Plain, Begun
  <1>9. QED
    BY Zenon, <1>2, <1>5, <1>6, <1>7, <1>8

\* A path with no spaces to trim is what currentPath comes to.
LEMMA BegunWhole ==
    ASSUME NEW p \in Path, Plain(p)
    PROVE  Begun(p, Len(p)) = p
  <1>1. p \in Seq(Name) /\ Len(p) \in Nat /\ DOMAIN p = 1..Len(p)
    BY PathAssumption DEF Name
  <1>2. p = [i \in 1..Len(p) |-> p[i]]
    BY <1>1
  <1>3. \A i \in 1..Len(p) : Trimmed[p[i]] = p[i]
    BY Zenon, <1>1 DEF Plain
  <1>4. QED
    BY Zenon, <1>2, <1>3 DEF Begun

\* One more component.
LEMMA BegunNext ==
    ASSUME NEW p \in Path, NEW k \in 0..Len(p), k # Len(p)
    PROVE  /\ k + 1 \in 0..Len(p) /\ p[k + 1] \in Name
           /\ JoinMountPath(Begun(p, k), p[k + 1]) = Begun(p, k + 1)
  <1>1. p \in Seq(Name) /\ Len(p) \in Nat
    BY PathAssumption DEF Name
  <1>2. k + 1 \in 0..Len(p) /\ k + 1 \in 1..Len(p) /\ k \in Nat
    BY <1>1
  <1>3. p[k + 1] \in Name
    BY <1>1, <1>2
  <1>4. PICK x \in Name : x = Trimmed[p[k + 1]]
    BY Zenon, <1>3, TrimAssumption DEF Name
  <1>5. PICK s \in Seq(Name) : s = Begun(p, k) /\ Len(s) = k /\ \A i \in 1..k : s[i] = Trimmed[p[i]]
    BY Zenon, BegunFacts DEF Begun
  <1>6. PICK q \in Seq(Name) : /\ q = Begun(p, k + 1) /\ Len(q) = k + 1
                               /\ \A i \in 1..(k + 1) : q[i] = Trimmed[p[i]]
    <2>1. PICK m : m = k + 1
      BY Zenon
    <2>2. Begun(p, m) \in Seq(Name) /\ Len(Begun(p, m)) = m
      BY Zenon, <1>2, <2>1, BegunFacts
    <2>3. \A i \in 1..m : Begun(p, m)[i] = Trimmed[p[i]]
      BY Zenon DEF Begun
    <2>4. QED
      BY Zenon, <2>1, <2>2, <2>3
  <1>7. q[k + 1] = x /\ \A i \in 1..k : q[i] = s[i]
    BY <1>2, <1>4, <1>5, <1>6
  <1>8. Append(s, x) = q
    <2>1. Append(s, x) \in Seq(Name) /\ Len(Append(s, x)) = k + 1
      BY <1>5
    <2>2. \A i \in 1..(k + 1) : Append(s, x)[i] = q[i]
      BY <1>2, <1>5, <1>7
    <2>3. QED
      BY Zenon, <1>6, <2>1, <2>2, SeqEqual
  <1>9. QED
    BY Zenon, <1>2, <1>3, <1>4, <1>5, <1>6, <1>8 DEF JoinMountPath

\* Gone is nowhere.
LEMMA NotGone ==
    ASSUME NEW d \in Nodes, NEW x
    PROVE  <<d, x>> # Gone
  <1>1. d \in Nat \ {0}
    BY Zenon, NodeAssumption
  <1>2. SUFFICES ASSUME <<d, x>> = <<0, "">> PROVE FALSE
    BY Zenon DEF Gone
  <1>3. <<d, x>>[1] = d /\ <<0, "">>[1] = 0
    BY Zenon
  <1>4. d = 0
    BY Zenon, <1>2, <1>3
  <1>5. QED
    BY Zenon, <1>1, <1>4

\* The place of an entry is a directory.
LEMMA EntryInDirectory ==
    ASSUME NEW w \in Tree, NEW m \in Nodes, NEW n \in Nodes, NEW x, w[m] = <<n, x>>
    PROVE  n \in DirNodes /\ x \in Name
  <1>1. w[m] \in (DirNodes \X Name) \cup {Gone}
    BY Zenon DEF Tree
  <1>2. <<n, x>> \in DirNodes \X Name
    BY Zenon, <1>1, NotGone
  <1>3. QED
    BY Zenon, <1>2

\* A node is at a path when nodes lead down to it.
LEMMA AtPath ==
    ASSUME NEW w, NEW p, NEW f \in [0..Len(p) -> Nodes], Leads(w, p, f)
    PROVE  f[Len(p)] \in NodesAt(w, p)
  BY Zenon DEF NodesAt

LEMMA WayDown ==
    ASSUME NEW w, NEW p, NEW d \in NodesAt(w, p)
    PROVE  \E f \in [0..Len(p) -> Nodes] : Leads(w, p, f) /\ d = f[Len(p)]
  BY Zenon DEF NodesAt

\* The root is at the empty path.
LEMMA RootAt ==
    ASSUME NEW w
    PROVE  1 \in NodesAt(w, <<>>)
  <1>1. Len(<<>>) = 0 /\ DOMAIN <<>> = {} /\ 0 \in 0..0 /\ 1 \in Nodes
    BY NodeAssumption
  <1>2. PICK f : f = [i \in 0..0 |-> 1]
    BY Zenon
  <1>3. f \in [0..0 -> Nodes] /\ f[0] = 1
    BY Zenon, <1>1, <1>2
  <1>4. Leads(w, <<>>, f)
    BY Zenon, <1>1, <1>3 DEF Leads
  <1>5. QED
    BY Zenon, <1>1, <1>3, <1>4, AtPath

\* An entry of a directory is at the directory's path with its name added.
LEMMA EntryAt ==
    ASSUME NEW w, NEW p \in Seq(Name), NEW d \in NodesAt(w, p), NEW n \in Nodes, NEW x \in Name,
           w[n] = <<d, x>>
    PROVE  n \in NodesAt(w, Append(p, x))
  <1>1. PICK k \in Nat : k = Len(p)
    OBVIOUS
  <1>2. DOMAIN p = 1..k
    BY <1>1
  <1>3. PICK f \in [0..k -> Nodes] : Leads(w, p, f) /\ d = f[k]
    <2>1. \E f \in [0..Len(p) -> Nodes] : Leads(w, p, f) /\ d = f[Len(p)]
      BY Zenon DEF NodesAt
    <2>2. QED
      BY Zenon, <1>1, <2>1
  <1>4. PICK q \in Seq(Name) : q = Append(p, x)
    BY Zenon, AppendProperties
  <1>5. /\ Len(q) = k + 1 /\ DOMAIN q = 1..(k + 1) /\ q[k + 1] = x
        /\ \A i \in 1..k : q[i] = p[i]
    BY <1>1, <1>4
  <1>6. PICK g : g = [i \in 0..(k + 1) |-> IF i = k + 1 THEN n ELSE f[i]]
    BY Zenon
  <1>7. /\ \A i \in 0..k : i \in 0..(k + 1) /\ i # k + 1
        /\ k + 1 \in 0..(k + 1) /\ 0 \in 0..k /\ k \in 0..k /\ (k + 1) - 1 = k
        /\ \A i \in 0..(k + 1) : i # k + 1 => i \in 0..k
        /\ \A i \in 1..(k + 1) : i # k + 1 => i \in 1..k /\ i \in 0..k /\ i - 1 \in 0..k
    BY <1>1
  <1>8. g \in [0..(k + 1) -> Nodes] /\ g[k + 1] = n /\ \A i \in 0..k : g[i] = f[i]
    BY Zenon, <1>3, <1>6, <1>7
  <1>9. ASSUME NEW i \in DOMAIN q PROVE w[g[i]] = <<g[i - 1], q[i]>>
    <2>1. CASE i = k + 1
      BY Zenon, <1>3, <1>5, <1>7, <1>8, <2>1
    <2>2. CASE i # k + 1
      <3>1. i \in 1..k /\ i \in 0..k /\ i - 1 \in 0..k
        BY Zenon, <1>5, <1>7, <2>2
      <3>2. w[f[i]] = <<f[i - 1], p[i]>>
        BY Zenon, <1>2, <1>3, <3>1 DEF Leads
      <3>3. QED
        BY Zenon, <1>5, <1>8, <3>1, <3>2
    <2>3. QED
      BY Zenon, <2>1, <2>2
  <1>10. Leads(w, q, g)
    BY Zenon, <1>3, <1>7, <1>8, <1>9 DEF Leads
  <1>11. QED
    BY Zenon, <1>4, <1>5, <1>8, <1>10, AtPath

\* The root has no entry and every other node at a path has one.
LEMMA AtIsAlive ==
    ASSUME NEW w, NEW p \in Path, NEW d \in NodesAt(w, p)
    PROVE  d \in Nodes /\ (d = 1 \/ w[d] # Gone)
  <1>1. p \in Seq(Name)
    BY Zenon, PathAssumption DEF Name
  <1>2. PICK k \in Nat : k = Len(p)
    BY <1>1
  <1>3. DOMAIN p = 1..k /\ k \in 0..k /\ (k # 0 => k \in 1..k /\ k - 1 \in 0..k)
    BY <1>1, <1>2
  <1>4. PICK f \in [0..k -> Nodes] : Leads(w, p, f) /\ d = f[k]
    <2>1. \E f \in [0..Len(p) -> Nodes] : Leads(w, p, f) /\ d = f[Len(p)]
      BY Zenon, WayDown
    <2>2. QED
      BY Zenon, <1>2, <2>1
  <1>5. d \in Nodes
    BY Zenon, <1>3, <1>4
  <1>6. ASSUME k # 0 PROVE w[d] # Gone
    <2>1. w[d] = <<f[k - 1], p[k]>> /\ f[k - 1] \in Nodes
      BY Zenon, <1>3, <1>4, <1>6 DEF Leads
    <2>2. QED
      BY Zenon, <2>1, NotGone
  <1>7. k = 0 => d = 1
    BY Zenon, <1>4 DEF Leads
  <1>8. QED
    BY Zenon, <1>5, <1>6, <1>7

\* When a node without entries comes, goes or moves, what is at a path stays.
LEMMA OthersStay ==
    ASSUME NEW w, NEW v, NEW n, n # 1, NEW p \in Seq(Name), NEW d \in NodesAt(w, p), d # n,
           \A m \in Nodes : m # n => v[m] = w[m],
           \A m \in Nodes : \A x \in Name : w[m] # <<n, x>>
    PROVE  d \in NodesAt(v, p)
  <1>1. PICK k \in Nat : k = Len(p)
    OBVIOUS
  <1>2. DOMAIN p = 1..k /\ \A i \in 1..k : p[i] \in Name
    BY <1>1
  <1>3. PICK f \in [0..k -> Nodes] : Leads(w, p, f) /\ d = f[k]
    <2>1. \E f \in [0..Len(p) -> Nodes] : Leads(w, p, f) /\ d = f[Len(p)]
      BY SMTT(10), WayDown
    <2>2. QED
      BY Zenon, <1>1, <2>1
  <1>4. ASSUME NEW i \in 1..k PROVE f[i] # n
    <2>1. CASE i = k
      BY Zenon, <1>3, <2>1
    <2>2. CASE i # k
      <3>1. i + 1 \in 1..k /\ (i + 1) - 1 = i /\ i + 1 \in 0..k
        BY <2>2
      <3>2. w[f[i + 1]] = <<f[i], p[i + 1]>>
        BY Zenon, <1>2, <1>3, <3>1 DEF Leads
      <3>3. QED
        BY Zenon, <1>2, <1>3, <3>1, <3>2
    <2>3. QED
      BY Zenon, <2>1, <2>2
  <1>5. \A i \in 1..k : f[i] \in Nodes
    BY <1>3
  <1>6. Leads(v, p, f)
    BY Zenon, <1>2, <1>3, <1>4, <1>5 DEF Leads
  <1>7. QED
    BY Zenon, <1>1, <1>3, <1>6, AtPath

-----------------------------------------------------------------------------
(* Every step keeps PathsInv.                                              *)

\* PathsInv holds when the volume is mounted.
LEMMA PathsInvInit == Init => PathsInv
  <1>1. SUFFICES ASSUME Init PROVE PathsInv
    BY Zenon
  <1>2. 1 \in Nodes /\ <<>> \in Path
    BY Zenon, NodeAssumption, PathAssumption
  <1>3. Types
    <2>1. NoReg \in Reg
      BY Zenon, <1>2 DEF NoReg, Reg, Goal
    <2>2. place \in Tree /\ place[1] = Gone
      BY Zenon, <1>1, TreeAssumption DEF Init, Tree
    <2>3. CacheType(pathCache)
      BY <1>1, <1>2 DEF Init, CacheType
    <2>4. pc = [t \in Thread |-> pc[t]] /\ reg \in [Thread -> Reg]
      BY Zenon, <1>1, <2>1 DEF Init
    <2>5. given \subseteq Nodes /\ 1 \in given
      BY Zenon, <1>1, <1>2 DEF Init
    <2>6. everAt \in [Path -> SUBSET Nodes]
      <3>1. ASSUME NEW p \in Path PROVE NodesAt(InitTree, p) \subseteq Nodes
        BY Zenon, <3>1, AtIsAlive
      <3>2. QED
        BY Zenon, <1>1, <3>1 DEF Init
    <2>7. disturbed \in BOOLEAN
      BY Zenon, <1>1 DEF Init, Spaced
    <2>8. QED
      BY Zenon, <2>2, <2>3, <2>4, <2>5, <2>6, <2>7 DEF Types
  <1>4. \A p \in Path : everAt[p] = NodesAt(place, p)
    BY Zenon, <1>1 DEF Init
  <1>5. TreeInv
    <2>1. ASSUME NEW p \in Path, NEW d \in NodesAt(place, p) PROVE d \in given
      BY Zenon, <1>1, <2>1, AtIsAlive DEF Init
    <2>2. ASSUME NEW m \in Nodes, NEW n \in Nodes, NEW x \in Name, place[m] = <<n, x>> PROVE n \in given
      <3>1. n = 1 \/ InitTree[n] # Gone
        <4>1. InitTree[m] = <<n, x>>
          BY Zenon, <1>1, <2>2 DEF Init
        <4>2. \A i, j \in Nodes, y \in Name : InitTree[i] = <<j, y>> => j = 1 \/ InitTree[j] # Gone
          BY Zenon, TreeAssumption
        <4>3. QED
          BY Zenon, <2>2, <4>1, <4>2
      <3>2. QED
        BY Zenon, <1>1, <3>1 DEF Init
    <2>3. \A n \in Nodes : place[n] # Gone => n \in given
      BY Zenon, <1>1 DEF Init
    <2>4. ~disturbed => ~Spaced(place)
      BY Zenon, <1>1 DEF Init
    <2>5. QED
      BY Zenon, <1>4, <2>1, <2>2, <2>3, <2>4 DEF TreeInv
  <1>6. \A t \in Thread : HandOK(pc[t], reg[t]) /\ HandTrue(pc[t], reg[t], everAt)
    BY Zenon, <1>1 DEF Init, HandOK, HandTrue
  <1>7. DirsStay
    BY Zenon, <1>4 DEF DirsStay
  <1>8. CacheTrue(pathCache, everAt)
    <2>1. ASSUME NEW p \in Path, pathCache[p] # 0 PROVE p = <<>> /\ pathCache[p] = 1
      BY Zenon, <1>1, <2>1 DEF Init
    <2>2. 1 \in everAt[<<>>]
      BY Zenon, <1>2, <1>4, RootAt
    <2>3. QED
      BY Zenon, <2>1, <2>2 DEF CacheTrue
  <1>9. QED
    BY Zenon, <1>3, <1>5, <1>6, <1>7, <1>8 DEF PathsInv

\* Another client's change keeps what was in the tree, but for one node.
LEMMA ChangeKeeps ==
    ASSUME PathsInv, NEW n \in Nodes, n # 1, NEW e \in (DirNodes \X Name) \cup {Gone},
           Change([place EXCEPT ![n] = e]),
           given \subseteq given', given' \subseteq Nodes, e # Gone => n \in given',
           \A k \in Nodes : \A x \in Name : e = <<k, x>> => k \in given,
           disturbed' \in BOOLEAN, disturbed => disturbed',
           ~disturbed' /\ e # Gone => Trimmed[e[2]] = e[2],
           ~disturbed' => \A m \in Nodes : \A x \in Name : place[m] # <<n, x>>,
           ~disturbed' /\ n \in DirNodes /\ e # Gone => \A p \in Path : n \notin everAt[p]
    PROVE  PathsInv'
  <1>1. /\ place' = [place EXCEPT ![n] = e] /\ UNCHANGED <<pathCache, pc, reg>>
        /\ everAt' = [p \in Path |-> everAt[p] \cup NodesAt(place', p)]
    BY Zenon DEF Change
  <1>2. /\ place' \in Tree /\ place'[n] = e /\ \A m \in Nodes : m # n => place'[m] = place[m]
    BY Zenon, <1>1 DEF PathsInv, Types, Tree
  <1>3. \A p \in Path : everAt'[p] = everAt[p] \cup NodesAt(place', p)
    BY Zenon, <1>1
  <1>4. ASSUME NEW p \in Path, NEW d \in NodesAt(place', p) PROVE d \in given' /\ d \in Nodes
    <2>1. (d = 1 \/ place'[d] # Gone) /\ d \in Nodes
      BY Zenon, <1>2, <1>4, AtIsAlive
    <2>2. QED
      BY Zenon, <1>2, <2>1 DEF PathsInv, Types, TreeInv
  <1>5. Types'
    <2>1. everAt' \in [Path -> SUBSET Nodes]
      BY Zenon, <1>1, <1>3, <1>4 DEF PathsInv, Types
    <2>2. place'[1] = Gone
      BY Zenon, <1>2, NodeAssumption DEF PathsInv, Types
    <2>3. QED
      BY Zenon, <1>1, <1>2, <2>1, <2>2 DEF PathsInv, Types, Tree
  <1>6. TreeInv'
    <2>1. ASSUME NEW m \in Nodes, place'[m] # Gone PROVE m \in given'
      BY Zenon, <1>2, <2>1 DEF PathsInv, TreeInv
    <2>2. ASSUME NEW p \in Path PROVE NodesAt(place', p) \subseteq everAt'[p] /\ everAt'[p] \subseteq given'
      BY Zenon, <1>3, <1>4 DEF PathsInv, TreeInv
    <2>3. ASSUME NEW m \in Nodes, NEW k \in Nodes, NEW x \in Name, place'[m] = <<k, x>> PROVE k \in given'
      BY Zenon, <1>2, <2>3, NotGone DEF PathsInv, TreeInv
    <2>4. ASSUME ~disturbed' PROVE ~Spaced(place')
      <3>1. ASSUME NEW m \in Nodes, place'[m] # Gone PROVE Trimmed[place'[m][2]] = place'[m][2]
        BY Zenon, <1>2, <2>4, <3>1 DEF PathsInv, TreeInv, Spaced
      <3>2. QED
        BY Zenon, <3>1 DEF Spaced
    <2>5. QED
      BY Zenon, <2>1, <2>3, <2>2, <2>4 DEF TreeInv
  <1>7. \A t \in Thread : HandOK(pc'[t], reg'[t])
    BY Zenon, <1>1 DEF PathsInv
  <1>8. ASSUME ~disturbed' PROVE /\ DirsStay' /\ CacheTrue(pathCache', everAt')
                                 /\ \A t \in Thread : HandTrue(pc'[t], reg'[t], everAt')
    <2>1. DirsStay /\ CacheTrue(pathCache, everAt) /\ \A t \in Thread : HandTrue(pc[t], reg[t], everAt)
      BY Zenon, <1>8 DEF PathsInv
    <2>2. CacheTrue(pathCache', everAt')
      BY Zenon, <1>1, <1>3, <2>1 DEF CacheTrue
    <2>3. ASSUME NEW t \in Thread PROVE HandTrue(pc'[t], reg'[t], everAt')
      <3>1. PICK r \in Reg : r = reg[t] /\ reg'[t] = r
        BY Zenon, <1>1 DEF PathsInv, Types
      <3>2. r.cur \in Path /\ r.path \in Path
        BY Zenon, <3>1 DEF Reg
      <3>3. pc[t] = "readdir" => \A x \in r.todo : JoinMountPath(r.path, x[1]) \in Path
        BY Zenon, <3>1 DEF PathsInv, HandOK
      <3>4. QED
        BY Zenon, <1>1, <1>3, <2>1, <3>1, <3>2, <3>3 DEF HandTrue
    <2>4. ASSUME NEW p \in Path, NEW d \in DirNodes, d \in everAt'[p], Alive(d)'
          PROVE  d \in NodesAt(place', p)
      <3>1. SUFFICES ASSUME d \in everAt[p] PROVE d \in NodesAt(place', p)
        BY Zenon, <1>3, <2>4, <3>1
      <3>2. d # n
        BY Zenon, <1>2, <1>8, <2>4, <3>1 DEF Alive
      <3>3. Alive(d) /\ d \in Nodes
        BY Zenon, <1>2, <2>4, <3>2, NodeAssumption DEF Alive
      <3>4. d \in NodesAt(place, p) /\ p \in Seq(Name)
        BY Zenon, <2>1, <3>1, <3>3, PathAssumption DEF DirsStay, Name
      <3>5. QED
        BY Zenon, <1>2, <1>8, <3>2, <3>4, OthersStay
    <2>5. QED
      BY Zenon, <2>2, <2>3, <2>4 DEF DirsStay
  <1>9. QED
    BY Zenon, <1>5, <1>6, <1>7, <1>8 DEF PathsInv

\* Creating, removing and renaming keep PathsInv.
LEMMA OtherKeeps == PathsInv /\ OtherClient => PathsInv'
  <1>1. SUFFICES ASSUME PathsInv, OtherClient PROVE PathsInv'
    BY Zenon
  <1>2. PICK n \in Nodes : \/ OtherRemoves(n)
                           \/ \E d \in DirNodes, x \in Name : OtherCreates(n, d, x) \/ OtherRenames(n, d, x)
    BY Zenon, <1>1 DEF OtherClient
  <1>3. disturbed \in BOOLEAN /\ given \subseteq Nodes /\ 1 \in given
    BY Zenon, <1>1 DEF PathsInv, Types
  <1>4. ASSUME NEW d \in DirNodes, NEW x \in Name PROVE <<d, x>> \in DirNodes \X Name /\ <<d, x>>[2] = x
    BY Zenon, <1>4
  <1>5. ASSUME NEW d \in DirNodes, NEW x \in Name, Alive(d), NEW k \in Nodes, NEW y \in Name, <<d, x>> = <<k, y>>
        PROVE  k \in given
    <2>1. k = d
      BY Zenon, <1>5
    <2>2. QED
      BY Zenon, <1>1, <1>3, <1>5, <2>1 DEF PathsInv, TreeInv, Alive
  <1>6. CASE OtherRemoves(n)
    <2>1. \A m \in Nodes : \A x \in Name : place[m] # <<n, x>>
      <3>1. ASSUME NEW m \in Nodes, NEW x \in Name, place[m] = <<n, x>> PROVE FALSE
        <4>1. <<x, m>> \in Name \X Nodes /\ <<x, m>>[1] = x /\ <<x, m>>[2] = m
          BY Zenon, <3>1
        <4>2. <<x, m>> \in Entries(n)
          BY Zenon, <3>1, <4>1 DEF Entries
        <4>3. QED
          BY Zenon, <1>6, <4>2 DEF OtherRemoves
      <3>2. QED
        BY Zenon, <3>1
    <2>2. n # 1 /\ Change([place EXCEPT ![n] = Gone]) /\ UNCHANGED <<given, disturbed>>
      BY Zenon, <1>6 DEF OtherRemoves
    <2>3. PICK e \in (DirNodes \X Name) \cup {Gone} : e = Gone
      BY Zenon
    <2>4. \A k \in Nodes : \A x \in Name : e # <<k, x>>
      BY Zenon, <2>3, NotGone
    <2>5. Change([place EXCEPT ![n] = e]) /\ given \subseteq given' /\ given' \subseteq Nodes
      BY Zenon, <1>3, <2>2, <2>3
    <2>6. disturbed' \in BOOLEAN /\ (disturbed => disturbed')
      BY Zenon, <1>3, <2>2
    <2>7. QED
      BY Zenon, <1>1, <2>1, <2>2, <2>3, <2>4, <2>5, <2>6, ChangeKeeps
  <1>7. ASSUME NEW d \in DirNodes, NEW x \in Name, OtherCreates(n, d, x) PROVE PathsInv'
    <2>1. PICK e \in (DirNodes \X Name) \cup {Gone} : e = <<d, x>> /\ e[2] = x
      BY Zenon, <1>4
    <2>2. /\ n \notin given /\ Change([place EXCEPT ![n] = e]) /\ given' = given \cup {n}
          /\ disturbed' = (disturbed \/ Trimmed[x] # x)
      BY Zenon, <1>7, <2>1 DEF OtherCreates
    <2>3. \A m \in Nodes : \A y \in Name : place[m] # <<n, y>>
      BY Zenon, <1>1, <2>2 DEF PathsInv, TreeInv
    <2>4. \A p \in Path : n \notin everAt[p]
      BY Zenon, <1>1, <2>2 DEF PathsInv, TreeInv
    <2>5. n # 1 /\ given' \subseteq Nodes /\ n \in given'
      BY Zenon, <1>3, <2>2
    <2>6. disturbed' \in BOOLEAN /\ (disturbed => disturbed') /\ (~disturbed' => Trimmed[x] = x)
      BY Zenon, <1>3, <2>2
    <2>7. given \subseteq given' /\ \A k \in Nodes : \A y \in Name : e = <<k, y>> => k \in given
      BY Zenon, <1>7, <1>5, <2>1, <2>2 DEF OtherCreates, Occupiable
    <2>8. QED
      BY Zenon, <1>1, <2>1, <2>2, <2>3, <2>4, <2>5, <2>6, <2>7, ChangeKeeps
  <1>8. ASSUME NEW d \in DirNodes, NEW x \in Name, OtherRenames(n, d, x) PROVE PathsInv'
    <2>1. PICK e \in (DirNodes \X Name) \cup {Gone} : e = <<d, x>> /\ e[2] = x
      BY Zenon, <1>4
    <2>2. /\ n # 1 /\ Alive(n) /\ Change([place EXCEPT ![n] = e]) /\ UNCHANGED given
          /\ disturbed' = (disturbed \/ n \in DirNodes \/ Trimmed[x] # x)
      BY Zenon, <1>8, <2>1 DEF OtherRenames
    <2>3. n \in given
      BY Zenon, <1>1, <2>2 DEF PathsInv, TreeInv, Alive
    <2>4. ASSUME n \notin DirNodes, NEW m \in Nodes, NEW y \in Name PROVE place[m] # <<n, y>>
      BY Zenon, <1>1, <2>4, EntryInDirectory DEF PathsInv, Types, Tree
    <2>5. disturbed' \in BOOLEAN /\ (disturbed => disturbed') /\ (~disturbed' => Trimmed[x] = x /\ n \notin DirNodes)
      BY Zenon, <1>3, <2>2
    <2>6. \A k \in Nodes : \A y \in Name : e = <<k, y>> => k \in given
      BY Zenon, <1>8, <1>5, <2>1 DEF OtherRenames, Occupiable
    <2>7. QED
      BY Zenon, <1>1, <1>3, <2>1, <2>2, <2>3, <2>4, <2>5, <2>6, ChangeKeeps
  <1>9. QED
    BY Zenon, <1>2, <1>6, <1>7, <1>8

\* What a thread's step leaves in hand and in the cache decides whether PathsInv
\* is kept.
LEMMA GoKeeps ==
    ASSUME PathsInv, NEW t \in Thread, NEW s, NEW r \in Reg, Go(t, s, r), UNCHANGED server,
           CacheType(pathCache'), ~disturbed => CacheTrue(pathCache', everAt),
           HandOK(s, r), ~disturbed => HandTrue(s, r, everAt)
    PROVE  PathsInv'
  <1>1. /\ pc' = [pc EXCEPT ![t] = s] /\ reg' = [reg EXCEPT ![t] = r]
        /\ place' = place /\ given' = given /\ everAt' = everAt /\ disturbed' = disturbed
    BY Zenon DEF Go, server
  <1>2. pc = [u \in Thread |-> pc[u]] /\ reg \in [Thread -> Reg]
    BY Zenon DEF PathsInv, Types
  <1>3. /\ pc' = [u \in Thread |-> pc'[u]] /\ reg' \in [Thread -> Reg]
        /\ pc'[t] = s /\ reg'[t] = r
        /\ \A u \in Thread : u # t => pc'[u] = pc[u] /\ reg'[u] = reg[u]
    BY Zenon, <1>1, <1>2
  <1>4. Types'
    BY Zenon, <1>1, <1>3 DEF PathsInv, Types
  <1>5. TreeInv'
    BY Zenon, <1>1 DEF PathsInv, TreeInv, Spaced
  <1>6. \A u \in Thread : HandOK(pc'[u], reg'[u])
    BY Zenon, <1>3 DEF PathsInv
  <1>7. ASSUME ~disturbed PROVE \A u \in Thread : HandTrue(pc'[u], reg'[u], everAt)
    BY Zenon, <1>3, <1>7 DEF PathsInv
  <1>8. ~disturbed => DirsStay'
    BY Zenon, <1>1 DEF PathsInv, DirsStay, Alive
  <1>9. QED
    BY Zenon, <1>1, <1>4, <1>5, <1>6, <1>7, <1>8 DEF PathsInv

\* The cache that PathsInv describes is such a cache, and so is one with a node
\* added to it that was at its path.
LEMMA SameCache ==
    ASSUME PathsInv
    PROVE  CacheType(pathCache) /\ (~disturbed => CacheTrue(pathCache, everAt))
  BY Zenon DEF PathsInv, Types

LEMMA CachePut ==
    ASSUME PathsInv, NEW p \in Path, NEW n \in Nodes, pathCache' = [pathCache EXCEPT ![p] = n],
           ~disturbed /\ Plain(p) => n \in everAt[p]
    PROVE  CacheType(pathCache') /\ (~disturbed => CacheTrue(pathCache', everAt))
  <1>1. CacheType(pathCache) /\ (~disturbed => CacheTrue(pathCache, everAt))
    BY Zenon, SameCache
  <1>2. /\ pathCache' \in [Path -> Nodes \cup {0}] /\ pathCache'[p] = n
        /\ \A q \in Path : q # p => pathCache'[q] = pathCache[q]
    BY Zenon, <1>1 DEF CacheType
  <1>3. n # 0 /\ <<>> \in Path
    BY Zenon, NodeAssumption, PathAssumption
  <1>4. pathCache'[<<>>] # 0
    BY Zenon, <1>1, <1>2, <1>3 DEF CacheType
  <1>5. QED
    BY Zenon, <1>1, <1>2, <1>4 DEF CacheType, CacheTrue

\* What a call has in hand.
LEMMA RegFacts ==
    ASSUME PathsInv, NEW t \in Thread
    PROVE  /\ reg[t] \in Reg /\ reg[t].path \in Path /\ reg[t].cur \in Path /\ reg[t].goal \in Goal
           /\ HandOK(pc[t], reg[t]) /\ (~disturbed => HandTrue(pc[t], reg[t], everAt))
  <1>1. reg[t] \in Reg
    BY Zenon DEF PathsInv, Types
  <1>2. reg[t].path \in Path /\ reg[t].cur \in Path /\ reg[t].goal \in Goal
    BY Zenon, <1>1 DEF Reg
  <1>3. QED
    BY Zenon, <1>1, <1>2 DEF PathsInv

\* A call that returns has nothing in hand.
LEMMA ReturnKeeps ==
    ASSUME PathsInv, NEW t \in Thread, Return(t), UNCHANGED server,
           CacheType(pathCache'), ~disturbed => CacheTrue(pathCache', everAt)
    PROVE  PathsInv'
  <1>1. NoReg \in Reg
    BY Zenon, PathAssumption DEF NoReg, Reg, Goal
  <1>2. HandOK("idle", NoReg) /\ HandTrue("idle", NoReg, everAt)
    BY Zenon DEF HandOK, HandTrue
  <1>3. QED
    BY Zenon, <1>1, <1>2, GoKeeps DEF Return

\* resolvePath goes on from a node that was at its currentPath.
LEMMA GoOnKeeps ==
    ASSUME PathsInv, NEW t \in Thread, NEW r \in Reg, GoOn(t, r), UNCHANGED server,
           CacheType(pathCache'), ~disturbed => CacheTrue(pathCache', everAt),
           HandOK("cache", r), ~disturbed => HandTrue("cache", r, everAt)
    PROVE  PathsInv'
  <1>1. /\ r.node \in Nodes /\ r.at \in 0..Len(r.path) /\ r.cur = Begun(r.path, r.at)
        /\ ~disturbed => r.node \in everAt[r.cur]
    BY Zenon DEF HandOK, HandTrue
  <1>2. CASE r.at = Len(r.path)
    <2>1. PICK q : q = [r EXCEPT !.at = 0, !.cur = <<>>]
      BY Zenon
    <2>2. q \in Reg /\ q.node = r.node /\ q.path = r.path /\ q.path \in Path
      BY Zenon, <2>1, PathAssumption DEF Reg
    <2>3. HandOK("getattr", q)
      BY Zenon, <1>1, <2>2 DEF HandOK
    <2>4. ~disturbed /\ Plain(q.path) => q.node \in everAt[q.path]
      BY Zenon, <1>1, <1>2, <2>2, BegunWhole
    <2>5. ~disturbed => HandTrue("getattr", q, everAt)
      BY Zenon, <2>4 DEF HandTrue
    <2>6. Go(t, "getattr", q)
      BY Zenon, <1>2, <2>1 DEF GoOn
    <2>7. QED
      BY Zenon, <2>2, <2>3, <2>5, <2>6, GoKeeps
  <1>3. CASE r.at # Len(r.path)
    <2>1. HandOK("walk", r) /\ (~disturbed => HandTrue("walk", r, everAt))
      BY Zenon, <1>1, <1>3 DEF HandOK, HandTrue
    <2>2. Go(t, "walk", r)
      BY Zenon, <1>3 DEF GoOn
    <2>3. QED
      BY Zenon, <2>1, <2>2, GoKeeps
  <1>4. QED
    BY Zenon, <1>2, <1>3

\* An entry of a directory that is where a call takes it to be is at the path of
\* the directory and its name, since no name has spaces to trim.
LEMMA EntryWasAt ==
    ASSUME PathsInv, ~disturbed, NEW p \in Path, NEW d \in Nodes, d \in everAt[p], Alive(d),
           NEW n \in Nodes, NEW x \in Name, place[n] = <<d, x>>, JoinMountPath(p, x) \in Path
    PROVE  n \in everAt[JoinMountPath(p, x)]
  <1>1. place \in Tree /\ p \in Seq(Name)
    BY Zenon, PathAssumption DEF PathsInv, Types, Name
  <1>2. d \in DirNodes
    BY Zenon, <1>1, EntryInDirectory
  <1>3. d \in NodesAt(place, p)
    BY Zenon, <1>2 DEF PathsInv, DirsStay
  <1>4. n \in NodesAt(place, Append(p, x))
    BY Zenon, <1>1, <1>3, EntryAt
  <1>5. Trimmed[x] = x
    <2>1. place[n] # Gone
      BY Zenon, NotGone
    <2>2. place[n][2] = x
      BY SMTT(10)
    <2>3. QED
      BY Zenon, <2>1, <2>2 DEF PathsInv, TreeInv, Spaced
  <1>6. QED
    BY Zenon, <1>4, <1>5 DEF PathsInv, TreeInv, JoinMountPath

\* The node that the server finds by its name.
LEMMA ChildIs ==
    ASSUME NEW w, NEW d, NEW x, NEW n, n = Child(w, d, x), n # 0
    PROVE  n \in Nodes /\ w[n] = <<d, x>>
  BY Zenon DEF Child

\* The component that resolvePath has come to.
LEMMA NextFacts ==
    ASSUME PathsInv, NEW t \in Thread, pc[t] = "walk"
    PROVE  /\ NextPath(t) \in Path /\ Plain(NextPath(t)) /\ Part(t) \in Name
           /\ NextPath(t) = Begun(reg[t].path, reg[t].at + 1)
           /\ reg[t].at + 1 \in 0..Len(reg[t].path) /\ reg[t].at + 1 \in Nat
  <1>1. /\ reg[t].path \in Path /\ HandOK("walk", reg[t])
    BY Zenon, RegFacts
  <1>2. PICK p \in Path : \E k \in 0..Len(p) :
            p = reg[t].path /\ k = reg[t].at /\ k # Len(p) /\ reg[t].cur = Begun(p, k)
    BY Zenon, <1>1 DEF HandOK
  <1>3. PICK k \in 0..Len(p) : p = reg[t].path /\ k = reg[t].at /\ k # Len(p) /\ reg[t].cur = Begun(p, k)
    BY Zenon, <1>2
  <1>4. /\ k + 1 \in 0..Len(p) /\ p[k + 1] \in Name
        /\ JoinMountPath(Begun(p, k), p[k + 1]) = Begun(p, k + 1)
    BY Zenon, <1>3, BegunNext
  <1>5. k + 1 \in Nat
    BY <1>3
  <1>6. Begun(p, k + 1) \in Path /\ Plain(Begun(p, k + 1))
    BY Zenon, <1>4, BegunFacts
  <1>7. QED
    BY Zenon, <1>3, <1>4, <1>5, <1>6 DEF NextPath, Part

\* One component resolved to a node that was there.
LEMMA WalkedFacts ==
    ASSUME PathsInv, NEW t \in Thread, pc[t] = "walk", NEW n \in Nodes,
           ~disturbed => n \in everAt[NextPath(t)]
    PROVE  /\ Walked(t, n) \in Reg /\ HandOK("cache", Walked(t, n))
           /\ ~disturbed => HandTrue("cache", Walked(t, n), everAt)
  <1>1. reg[t] \in Reg
    BY Zenon, RegFacts
  <1>2. /\ NextPath(t) \in Path /\ NextPath(t) = Begun(reg[t].path, reg[t].at + 1)
        /\ reg[t].at + 1 \in 0..Len(reg[t].path) /\ reg[t].at + 1 \in Nat
    BY Zenon, NextFacts
  <1>3. PICK r : r = Walked(t, n)
    BY Zenon
  <1>4. /\ r \in Reg /\ r.at = reg[t].at + 1 /\ r.cur = NextPath(t) /\ r.node = n
        /\ r.path = reg[t].path
    BY Zenon, <1>1, <1>2, <1>3 DEF Reg, Walked
  <1>5. HandOK("cache", r) /\ (~disturbed => HandTrue("cache", r, everAt))
    BY Zenon, <1>2, <1>4 DEF HandOK, HandTrue
  <1>6. QED
    BY Zenon, <1>3, <1>4, <1>5

\* GetAttr, Open and OpenDirectory begin.
LEMMA BeginKeeps ==
    ASSUME PathsInv, NEW t \in Thread, NEW goal \in Goal, NEW raw,
           NormalizeMountPath(raw) \in Path, Begin(t, goal, raw)
    PROVE  PathsInv'
  <1>1. PICK p \in Path : p = NormalizeMountPath(raw)
    BY Zenon
  <1>2. PICK r : r = [NoReg EXCEPT !.goal = goal, !.path = p]
    BY Zenon
  <1>3. /\ UNCHANGED server /\ pathCache' = pathCache
        /\ pathCache[p] # 0 => Go(t, "getattr", [r EXCEPT !.node = pathCache[p]])
        /\ pathCache[p] = 0 => Go(t, "walk", [r EXCEPT !.node = 1])
    BY Zenon, <1>1, <1>2 DEF Begin
  <1>4. CacheType(pathCache) /\ (~disturbed => CacheTrue(pathCache, everAt))
    BY Zenon, SameCache
  <1>5. ASSUME NEW n \in Nodes, NEW q, q = [r EXCEPT !.node = n]
        PROVE  q \in Reg /\ q.node = n /\ q.path = p /\ q.at = 0 /\ q.cur = <<>>
    BY Zenon, <1>2, <1>5, PathAssumption DEF Reg, NoReg
  <1>6. CASE pathCache[p] # 0
    <2>1. PICK n \in Nodes : n = pathCache[p]
      BY Zenon, <1>4, <1>6 DEF CacheType
    <2>2. PICK q : q = [r EXCEPT !.node = n]
      BY Zenon
    <2>3. q \in Reg /\ q.node = n /\ q.path = p
      BY Zenon, <1>5, <2>2
    <2>4. ~disturbed /\ Plain(p) => n \in everAt[p]
      BY Zenon, <1>4, <1>6, <2>1 DEF CacheTrue
    <2>5. HandOK("getattr", q) /\ (~disturbed => HandTrue("getattr", q, everAt))
      BY Zenon, <2>3, <2>4 DEF HandOK, HandTrue
    <2>6. Go(t, "getattr", q)
      BY Zenon, <1>3, <1>6, <2>1, <2>2
    <2>7. QED
      BY Zenon, <1>3, <1>4, <2>3, <2>5, <2>6, GoKeeps
  <1>7. CASE pathCache[p] = 0
    <2>1. 1 \in Nodes /\ <<>> \in Path
      BY Zenon, NodeAssumption, PathAssumption
    <2>2. PICK q : q = [r EXCEPT !.node = 1]
      BY Zenon
    <2>3. q \in Reg /\ q.node = 1 /\ q.path = p /\ q.at = 0 /\ q.cur = <<>>
      BY Zenon, <1>5, <2>1, <2>2
    <2>4. p \in Seq(Name) /\ p # <<>>
      BY Zenon, <1>4, <1>7, PathAssumption DEF CacheType, Name
    <2>5. Len(p) \in Nat /\ Len(p) # 0 /\ 0 \in 0..Len(p)
      BY <2>4
    <2>6. Begun(p, 0) = <<>>
      BY DEF Begun
    <2>7. 1 \in everAt[<<>>]
      BY Zenon, <2>1, RootAt DEF PathsInv, TreeInv
    <2>8. HandOK("walk", q) /\ HandTrue("walk", q, everAt)
      BY Zenon, <2>1, <2>3, <2>5, <2>6, <2>7 DEF HandOK, HandTrue
    <2>9. Go(t, "walk", q)
      BY Zenon, <1>3, <1>7, <2>2
    <2>10. QED
      BY Zenon, <1>3, <1>4, <2>3, <2>8, <2>9, GoKeeps
  <1>8. QED
    BY Zenon, <1>6, <1>7

\* One component of resolvePath, from the cache, or asked of the server.
LEMMA WalkKeeps ==
    ASSUME PathsInv, NEW t \in Thread, WalkCached(t) \/ WalkAsk(t)
    PROVE  PathsInv'
  <1>1. pc[t] = "walk" /\ UNCHANGED server /\ pathCache' = pathCache
    BY Zenon DEF WalkCached, WalkAsk
  <1>2. /\ NextPath(t) \in Path /\ Plain(NextPath(t)) /\ Part(t) \in Name
    BY Zenon, <1>1, NextFacts
  <1>3. CacheType(pathCache) /\ (~disturbed => CacheTrue(pathCache, everAt))
    BY Zenon, SameCache
  <1>4. CASE WalkCached(t)
    <2>1. pathCache[NextPath(t)] \in Nodes \cup {0} /\ pathCache[NextPath(t)] # 0
      BY Zenon, <1>2, <1>3, <1>4 DEF CacheType, WalkCached
    <2>2. PICK n \in Nodes : n = pathCache[NextPath(t)]
      BY Zenon, <2>1
    <2>3. ~disturbed => n \in everAt[NextPath(t)]
      BY Zenon, <1>2, <1>3, <2>1, <2>2 DEF CacheTrue
    <2>4. GoOn(t, Walked(t, n))
      BY Zenon, <1>4, <2>2 DEF WalkCached
    <2>5. QED
      BY Zenon, <1>1, <1>3, <2>3, <2>4, WalkedFacts, GoOnKeeps
  <1>5. CASE WalkAsk(t)
    <2>1. PICK n : /\ n = Child(place, reg[t].node, Part(t)) /\ n # 0
                   /\ Alive(reg[t].node) /\ Go(t, "cache", Walked(t, n))
      BY Zenon, <1>5 DEF WalkAsk
    <2>2. n \in Nodes /\ place[n] = <<reg[t].node, Part(t)>>
      <3>1. n = Child(place, reg[t].node, Part(t)) /\ n # 0
        BY Zenon, <2>1
      <3>2. QED
        BY <3>1, ChildIs
    <2>3. /\ reg[t].cur \in Path /\ HandOK("walk", reg[t])
          /\ ~disturbed => HandTrue("walk", reg[t], everAt)
      BY Zenon, <1>1, RegFacts
    <2>4. reg[t].node \in Nodes /\ (~disturbed => reg[t].node \in everAt[reg[t].cur])
      BY Zenon, <2>3 DEF HandOK, HandTrue
    <2>5. ~disturbed => n \in everAt[NextPath(t)]
      BY Zenon, <1>2, <2>1, <2>2, <2>3, <2>4, EntryWasAt DEF NextPath
    <2>6. QED
      BY Zenon, <1>1, <1>3, <2>1, <2>2, <2>5, WalkedFacts, GoKeeps
  <1>6. QED
    BY Zenon, <1>4, <1>5

\* The answer is cached under currentPath.
LEMMA CacheWalkedKeeps ==
    ASSUME PathsInv, NEW t \in Thread, CacheWalked(t)
    PROVE  PathsInv'
  <1>1. /\ pc[t] = "cache" /\ UNCHANGED server /\ GoOn(t, reg[t])
        /\ pathCache' = [pathCache EXCEPT ![reg[t].cur] = reg[t].node]
    BY Zenon DEF CacheWalked
  <1>2. /\ reg[t] \in Reg /\ reg[t].cur \in Path /\ HandOK("cache", reg[t])
        /\ ~disturbed => HandTrue("cache", reg[t], everAt)
    BY Zenon, <1>1, RegFacts
  <1>3. reg[t].node \in Nodes /\ (~disturbed => reg[t].node \in everAt[reg[t].cur])
    BY Zenon, <1>2 DEF HandOK, HandTrue
  <1>4. CacheType(pathCache') /\ (~disturbed => CacheTrue(pathCache', everAt))
    BY Zenon, <1>1, <1>2, <1>3, CachePut
  <1>5. QED
    BY Zenon, <1>1, <1>2, <1>4, GoOnKeeps

\* The server answers GetAttr.
LEMMA GetAttrKeeps ==
    ASSUME PathsInv, NEW t \in Thread, GetAttr(t)
    PROVE  PathsInv'
  <1>1. /\ pc[t] = "getattr" /\ UNCHANGED server /\ pathCache' = pathCache
        /\ Go(t, "cacheattr", reg[t])
    BY Zenon DEF GetAttr
  <1>2. /\ reg[t] \in Reg /\ HandOK("getattr", reg[t])
        /\ ~disturbed => HandTrue("getattr", reg[t], everAt)
    BY Zenon, <1>1, RegFacts
  <1>3. HandOK("cacheattr", reg[t]) /\ (~disturbed => HandTrue("cacheattr", reg[t], everAt))
    BY Zenon, <1>2 DEF HandOK, HandTrue
  <1>4. QED
    BY Zenon, <1>1, <1>2, <1>3, SameCache, GoKeeps

\* The node of GetAttr is cached, and opened if it is of the type wanted.
LEMMA CacheAttrKeeps ==
    ASSUME PathsInv, NEW t \in Thread, CacheAttr(t)
    PROVE  PathsInv'
  <1>1. /\ pc[t] = "cacheattr" /\ UNCHANGED server
        /\ pathCache' = [pathCache EXCEPT ![reg[t].path] = reg[t].node]
        /\ Go(t, "open", reg[t]) \/ Return(t)
    BY Zenon DEF CacheAttr
  <1>2. /\ reg[t] \in Reg /\ reg[t].path \in Path /\ HandOK("cacheattr", reg[t])
        /\ ~disturbed => HandTrue("cacheattr", reg[t], everAt)
    BY Zenon, <1>1, RegFacts
  <1>3. /\ reg[t].node \in Nodes
        /\ ~disturbed /\ Plain(reg[t].path) => reg[t].node \in everAt[reg[t].path]
    BY Zenon, <1>2 DEF HandOK, HandTrue
  <1>4. CacheType(pathCache') /\ (~disturbed => CacheTrue(pathCache', everAt))
    BY Zenon, <1>1, <1>2, <1>3, CachePut
  <1>5. HandOK("open", reg[t]) /\ (~disturbed => HandTrue("open", reg[t], everAt))
    BY Zenon, <1>2 DEF HandOK, HandTrue
  <1>6. QED
    BY Zenon, <1>1, <1>2, <1>4, <1>5, GoKeeps, ReturnKeeps

\* The entries a directory has when it is opened are at its path and their names.
LEMMA OpenDirKeeps ==
    ASSUME PathsInv, NEW t \in Thread, OpenDir(t)
    PROVE  PathsInv'
  <1>1. /\ pc[t] = "open" /\ Alive(reg[t].node) /\ UNCHANGED server /\ pathCache' = pathCache
        /\ Return(t) \/ Go(t, "readdir", [reg[t] EXCEPT !.todo = Listed(reg[t])])
    BY Zenon DEF OpenDir
  <1>2. /\ reg[t] \in Reg /\ reg[t].path \in Path /\ HandOK("open", reg[t])
        /\ ~disturbed => HandTrue("open", reg[t], everAt)
    BY Zenon, <1>1, RegFacts
  <1>3. /\ reg[t].node \in Nodes
        /\ ~disturbed /\ Plain(reg[t].path) => reg[t].node \in everAt[reg[t].path]
    BY Zenon, <1>2 DEF HandOK, HandTrue
  <1>4. Listed(reg[t]) \in SUBSET (Name \X Nodes)
    BY Zenon DEF Listed, Entries
  <1>5. PICK q : q = [reg[t] EXCEPT !.todo = Listed(reg[t])]
    BY Zenon
  <1>6. /\ q \in Reg /\ q.path = reg[t].path /\ q.node = reg[t].node /\ q.todo = Listed(reg[t])
    BY Zenon, <1>2, <1>4, <1>5 DEF Reg
  <1>7. ASSUME NEW e \in Listed(reg[t])
        PROVE  /\ JoinMountPath(reg[t].path, e[1]) \in Path
               /\ ~disturbed /\ Plain(reg[t].path) => e[2] \in everAt[JoinMountPath(reg[t].path, e[1])]
    <2>1. /\ JoinMountPath(reg[t].path, e[1]) \in Path /\ place[e[2]] = <<reg[t].node, e[1]>>
      BY Zenon, <1>7 DEF Listed, Entries
    <2>2. e[1] \in Name /\ e[2] \in Nodes
      BY Zenon, <1>4
    <2>3. QED
      BY Zenon, <1>1, <1>2, <1>3, <2>1, <2>2, EntryWasAt
  <1>8. HandOK("readdir", q)
    BY Zenon, <1>3, <1>6, <1>7 DEF HandOK
  <1>9. ~disturbed => HandTrue("readdir", q, everAt)
    BY Zenon, <1>6, <1>7 DEF HandTrue
  <1>10. QED
    BY Zenon, <1>1, <1>5, <1>6, <1>8, <1>9, SameCache, GoKeeps, ReturnKeeps

\* What a path without spaces to trim begins with has none either.
LEMMA JoinPlain ==
    ASSUME NEW p \in Path, NEW x \in Name, Plain(JoinMountPath(p, x))
    PROVE  Plain(p)
  <1>1. PICK y \in Name : y = Trimmed[x]
    BY Zenon, TrimAssumption DEF Name
  <1>2. p \in Seq(Name)
    BY Zenon, PathAssumption DEF Name
  <1>3. PICK q : q = Append(p, y) /\ Plain(q)
    BY Zenon, <1>1 DEF JoinMountPath
  <1>4. \A i \in DOMAIN p : i \in DOMAIN q /\ q[i] = p[i]
    BY <1>1, <1>2, <1>3
  <1>5. QED
    BY Zenon, <1>3, <1>4 DEF Plain

\* ReadDirectory caches an entry.
LEMMA CacheEntryKeeps ==
    ASSUME PathsInv, NEW t \in Thread, NEW e \in reg[t].todo, CacheEntry(t, e)
    PROVE  PathsInv'
  <1>1. /\ pc[t] = "readdir" /\ UNCHANGED server
        /\ pathCache' = [pathCache EXCEPT ![JoinMountPath(reg[t].path, e[1])] = e[2]]
        /\ Return(t) \/ Go(t, "readdir", [reg[t] EXCEPT !.todo = @ \ {e}])
    BY Zenon DEF CacheEntry
  <1>2. /\ reg[t] \in Reg /\ reg[t].path \in Path /\ HandOK("readdir", reg[t])
        /\ ~disturbed => HandTrue("readdir", reg[t], everAt)
    BY Zenon, <1>1, RegFacts
  <1>3. reg[t].todo \in SUBSET (Name \X Nodes)
    BY Zenon, <1>2 DEF Reg
  <1>4. e[1] \in Name /\ e[2] \in Nodes
    BY Zenon, <1>3
  <1>5. /\ reg[t].node \in Nodes
        /\ \A x \in reg[t].todo :
               /\ JoinMountPath(reg[t].path, x[1]) \in Path
               /\ ~disturbed /\ Plain(reg[t].path) => x[2] \in everAt[JoinMountPath(reg[t].path, x[1])]
    BY Zenon, <1>2 DEF HandOK, HandTrue
  <1>6. CacheType(pathCache') /\ (~disturbed => CacheTrue(pathCache', everAt))
    <2>1. PICK p \in Path, n \in Nodes : p = JoinMountPath(reg[t].path, e[1]) /\ n = e[2]
      BY Zenon, <1>4, <1>5
    <2>2. ~disturbed /\ Plain(p) => n \in everAt[p]
      BY Zenon, <1>2, <1>4, <1>5, <2>1, JoinPlain
    <2>3. QED
      BY Zenon, <1>1, <2>1, <2>2, CachePut
  <1>7. PICK q : q = [reg[t] EXCEPT !.todo = @ \ {e}]
    BY Zenon
  <1>8. /\ q \in Reg /\ q.path = reg[t].path /\ q.node = reg[t].node /\ q.todo \subseteq reg[t].todo
    BY Zenon, <1>2, <1>3, <1>7 DEF Reg
  <1>9. HandOK("readdir", q)
    BY Zenon, <1>5, <1>8 DEF HandOK
  <1>10. ~disturbed => HandTrue("readdir", q, everAt)
    BY Zenon, <1>5, <1>8 DEF HandTrue
  <1>11. QED
    BY Zenon, <1>1, <1>6, <1>7, <1>8, <1>9, <1>10, GoKeeps, ReturnKeeps

\* A call that fails, or has opened its file, returns.
LEMMA FailKeeps ==
    ASSUME PathsInv, NEW t \in Thread, Fail(t) \/ OpenFile(t)
    PROVE  PathsInv'
  BY Zenon, SameCache, ReturnKeeps DEF Fail, OpenFile

\* A thread resolves.
LEMMA ResolveKeeps ==
    ASSUME PathsInv, NEW t \in Thread, Resolve(t)
    PROVE  PathsInv'
  BY Zenon, WalkKeeps, CacheWalkedKeeps, GetAttrKeeps DEF Resolve

\* PathsInv is inductive.
LEMMA NextKeeps == PathsInv /\ [Next]_vars => PathsInv'
  <1>1. SUFFICES ASSUME PathsInv, [Next]_vars PROVE PathsInv'
    BY Zenon
  <1>2. ASSUME NEW t \in Thread, NEW raw \in Raw, NEW goal \in {"info", "list"}, Begin(t, goal, raw)
        PROVE  PathsInv'
    <2>1. goal \in Goal
      BY Zenon, <1>2 DEF Goal
    <2>2. NormalizeMountPath(raw) \in Path
      BY Zenon, <1>2, NormalAssumption DEF Begin
    <2>3. QED
      BY Zenon, <1>1, <1>2, <2>1, <2>2, BeginKeeps
  <1>3. CASE UNCHANGED vars
    <2>1. /\ place' = place /\ pathCache' = pathCache /\ pc' = pc /\ reg' = reg /\ given' = given
          /\ everAt' = everAt /\ disturbed' = disturbed
      BY Zenon, <1>3 DEF vars
    <2>2. QED
      BY Zenon, <1>1, <2>1 DEF PathsInv, Types, TreeInv, DirsStay, Alive, Spaced
  <1>4. QED
    BY Zenon, <1>1, <1>2, <1>3, OtherKeeps, ResolveKeeps, CacheAttrKeeps, OpenDirKeeps,
       CacheEntryKeeps, FailKeeps DEF Next

\* Whatever the threads resolve and list, and whatever other clients change, the
\* cache has for a path a node that has been there, as long as no directory was
\* renamed and no name had spaces to trim (mount.go, resolvePath, GetAttr,
\* ReadDirectory, cachePath).
THEOREM VolumeCacheWasTrue == Spec => []CacheWasTrue
  <1>1. PathsInv => CacheWasTrue
    BY Zenon DEF PathsInv, CacheTrue, CacheWasTrue
  <1>2. QED
    BY PTL, PathsInvInit, NextKeeps, <1>1 DEF Spec

-----------------------------------------------------------------------------
(* The listing of a directory.                                             *)

\* A set of numbers that is not empty has a least member.
LEMMA LeastNumber ==
    ASSUME NEW S, S \subseteq Nat, S # {}
    PROVE  \E e \in S : \A x \in S : e <= x
  <1>1. PICK e \in S : \A m \in S : ~(<<m, e>> \in OpToRel(<, Nat))
    BY Zenon, WFMin, NatLessThanWellFounded
  <1>2. ASSUME NEW x \in S PROVE e <= x
    <2>1. x \in Nat /\ e \in Nat /\ ~(x < e)
      BY Zenon, <1>1 DEF OpToRel
    <2>2. QED
      BY <2>1
  <1>3. QED
    BY Zenon, <1>2

Ranked(s, n) == \A i, j \in 1..n : i < j => Bytes[s[i]] < Bytes[s[j]]
HasOrder(S) == \E s \in [1..Cardinality(S) -> S] : Ranked(s, Cardinality(S))

\* A name put before names that come later.
LEMMA PutFirst ==
    ASSUME NEW n \in Nat, n # 0, NEW T, T \subseteq Name, NEW e \in T, NEW s \in [1..(n - 1) -> T],
           Ranked(s, n - 1), \A i \in 1..(n - 1) : Bytes[e] < Bytes[s[i]]
    PROVE  \E q \in [1..n -> T] : Ranked(q, n)
  <1>1. PICK q : q = [i \in 1..n |-> IF i = 1 THEN e ELSE s[i - 1]]
    BY Zenon
  <1>2. \A i \in 1..n : i # 1 => i - 1 \in 1..(n - 1)
    OBVIOUS
  <1>3. /\ q \in [1..n -> T]
        /\ \A i \in 1..n : (i = 1 => q[i] = e) /\ (i # 1 => q[i] = s[i - 1])
    BY Zenon, <1>1, <1>2
  <1>4. ASSUME NEW i \in 1..n, NEW j \in 1..n, i < j PROVE Bytes[q[i]] < Bytes[q[j]]
    <2>1. j # 1 /\ (i # 1 => i - 1 < j - 1)
      BY <1>4
    <2>2. QED
      BY Zenon, <1>2, <1>3, <2>1 DEF Ranked
  <1>5. QED
    BY Zenon, <1>3, <1>4 DEF Ranked

\* Every finite set of names can be put in order.
LEMMA OrderExists ==
    ASSUME NEW S, S \subseteq Name, IsFiniteSet(S)
    PROVE  HasOrder(S)
  <1>1. PICK Bad : Bad = {n \in Nat : \E T : /\ T \subseteq Name /\ IsFiniteSet(T) /\ Cardinality(T) = n
                                             /\ ~HasOrder(T)}
    BY Zenon
  <1>2. SUFFICES Bad = {}
    BY Zenon, <1>1, <1>2, FS_CardinalityType
  <1>3. SUFFICES ASSUME Bad # {} PROVE FALSE
    BY Zenon
  <1>4. PICK n \in Bad : \A m \in Bad : n <= m
    BY Zenon, <1>1, <1>3, LeastNumber
  <1>5. PICK T : T \subseteq Name /\ IsFiniteSet(T) /\ Cardinality(T) = n /\ ~HasOrder(T)
    BY Zenon, <1>1, <1>4
  <1>6. n \in Nat
    BY Zenon, <1>1, <1>4
  <1>7. n # 0
    <2>1. SUFFICES ASSUME n = 0 PROVE HasOrder(T)
      BY Zenon, <1>5, <2>1
    <2>2. 1..Cardinality(T) = {}
      BY <1>5, <2>1
    <2>3. [i \in {} |-> 0] \in [{} -> T]
      BY Zenon
    <2>4. QED
      BY Zenon, <2>2, <2>3 DEF HasOrder, Ranked
  <1>8. PICK R : R = {Bytes[x] : x \in T}
    BY Zenon
  <1>9. R \subseteq Nat /\ R # {}
    <2>1. T # {}
      BY Zenon, <1>5, <1>7, FS_EmptySet
    <2>2. QED
      BY Zenon, <1>5, <1>8, <2>1, NameAssumption DEF Name
  <1>10. PICK b \in R : \A r \in R : b <= r
    BY Zenon, <1>9, LeastNumber
  <1>11. PICK e \in T : b = Bytes[e]
    BY Zenon, <1>8
  <1>12. ASSUME NEW x \in T, x # e PROVE Bytes[e] < Bytes[x]
    <2>1. Bytes[e] <= Bytes[x] /\ Bytes[e] # Bytes[x]
      BY Zenon, <1>5, <1>8, <1>10, <1>11, <1>12, BytesAssumption DEF Name
    <2>2. Bytes[e] \in Nat /\ Bytes[x] \in Nat
      BY Zenon, <1>5, NameAssumption DEF Name
    <2>3. QED
      BY <2>1, <2>2
  <1>13. PICK U : U = T \ {e}
    BY Zenon
  <1>14. IsFiniteSet(U) /\ Cardinality(U) = n - 1 /\ U \subseteq Name
    BY Zenon, <1>5, <1>13, FS_RemoveElement
  <1>15. n - 1 \in Nat /\ ~(n <= n - 1)
    BY <1>6, <1>7
  <1>16. HasOrder(U)
    BY Zenon, <1>1, <1>4, <1>14, <1>15
  <1>17. PICK s \in [1..(n - 1) -> U] : Ranked(s, n - 1)
    BY Zenon, <1>14, <1>16 DEF HasOrder
  <1>18. s \in [1..(n - 1) -> T] /\ \A i \in 1..(n - 1) : s[i] \in T /\ s[i] # e
    BY Zenon, <1>13, <1>17
  <1>19. \E q \in [1..n -> T] : Ranked(q, n)
    BY Zenon, <1>5, <1>6, <1>7, <1>12, <1>17, <1>18, PutFirst
  <1>20. QED
    BY Zenon, <1>5, <1>19 DEF HasOrder

\* InByteOrder lists each name.
LEMMA InByteOrderFacts ==
    ASSUME NEW S, S \subseteq Name, IsFiniteSet(S)
    PROVE  \E n \in Nat : /\ InByteOrder(S) \in [1..n -> S]
                          /\ \A x \in S : \E i \in 1..n : InByteOrder(S)[i] = x
  <1>1. PICK n \in Nat : n = Cardinality(S)
    BY Zenon, FS_CardinalityType
  <1>2. PICK s : s = InByteOrder(S)
    BY Zenon
  <1>3. s \in [1..n -> S] /\ Ranked(s, n)
    BY Zenon, <1>1, <1>2, OrderExists DEF HasOrder, Ranked, InByteOrder
  <1>4. ASSUME NEW i \in 1..n, NEW j \in 1..n, s[i] = s[j] PROVE i = j
    <2>1. Bytes[s[i]] \in Nat
      BY Zenon, <1>3, NameAssumption DEF Name
    <2>2. ~(Bytes[s[i]] < Bytes[s[i]])
      BY <2>1
    <2>3. ~(i < j) /\ ~(j < i)
      BY Zenon, <1>3, <1>4, <2>2 DEF Ranked
    <2>4. QED
      BY <2>3
  <1>5. s \in Injection(1..n, S)
    BY Zenon, <1>3, <1>4 DEF Injection, IsInjective
  <1>6. Cardinality(1..n) = n /\ IsFiniteSet(1..n)
    BY FS_Interval
  <1>7. s \in Surjection(1..n, S)
    BY Zenon, <1>1, <1>5, <1>6, FS_Injection
  <1>8. \A x \in S : \E i \in 1..n : s[i] = x
    BY Zenon, <1>7 DEF Surjection
  <1>9. QED
    BY Zenon, <1>2, <1>3, <1>8

-----------------------------------------------------------------------------
(* Where a path leads.                                                     *)

\* No two nodes have the same place.
OneEach(w) == \A m, n \in Nodes : w[m] = w[n] /\ w[n] # Gone => m = n

Agree(f, g, q) == \A i \in 0..Len(q) : f[i] = g[i]

\* What the way down a path and the way down one below it have in common.
LEMMA SameWay ==
    ASSUME NEW w, OneEach(w), NEW p \in Path, NEW q \in Path, Under(q, p),
           NEW f \in [0..Len(p) -> Nodes], Leads(w, p, f), NEW g \in [0..Len(q) -> Nodes], Leads(w, q, g)
    PROVE  Agree(f, g, q)
  <1>1. p \in Seq(Name) /\ q \in Seq(Name)
    BY Zenon, PathAssumption DEF Name
  <1>2. PICK k \in Nat, l \in Nat : k = Len(p) /\ l = Len(q)
    BY Zenon, <1>1, LenProperties
  <1>3. l <= k /\ DOMAIN p = 1..k /\ DOMAIN q = 1..l /\ \A i \in 1..l : q[i] = p[i]
    <2>1. l <= k /\ q = SubSeq(p, 1, l)
      BY Zenon, <1>2 DEF Under
    <2>2. QED
      BY <1>1, <1>2, <2>1
  <1>4. PICK Bad : Bad = {i \in 0..l : f[i] # g[i]}
    BY Zenon
  <1>5. SUFFICES ASSUME Bad # {} PROVE FALSE
    BY Zenon, <1>2, <1>4 DEF Agree
  <1>6. Bad \subseteq Nat
    BY <1>2, <1>4
  <1>7. PICK i \in Bad : \A j \in Bad : i <= j
    BY Zenon, <1>5, <1>6, LeastNumber
  <1>8. i \in 0..l /\ f[i] # g[i] /\ f[0] = 1 /\ g[0] = 1
    BY Zenon, <1>4, <1>7 DEF Leads
  <1>9. i # 0
    BY Zenon, <1>8
  <1>10. /\ i \in 1..l /\ i \in 1..k /\ i - 1 \in 0..l /\ ~(i <= i - 1)
         /\ i \in 0..k /\ i \in 0..l
    BY <1>2, <1>3, <1>8, <1>9
  <1>11. f[i - 1] = g[i - 1]
    BY Zenon, <1>4, <1>7, <1>10
  <1>12. w[f[i]] = <<f[i - 1], p[i]>> /\ w[g[i]] = <<g[i - 1], q[i]>>
    BY Zenon, <1>3, <1>10 DEF Leads
  <1>13. w[f[i]] = w[g[i]] /\ f[i] \in Nodes /\ g[i] \in Nodes /\ g[i - 1] \in Nodes
    BY Zenon, <1>2, <1>3, <1>10, <1>11, <1>12
  <1>14. w[g[i]] # Gone
    BY Zenon, <1>12, <1>13, NotGone
  <1>15. QED
    BY Zenon, <1>8, <1>13, <1>14 DEF OneEach

\* Path p goes on, below q, with an entry of d.
GoesOn(w, q, d, p) ==
    \E m \in Nodes, x \in Name : /\ w[m] = <<d, x>> /\ JoinMountPath(q, x) \in Path
                                 /\ Under(JoinMountPath(q, x), p)

\* A path below q goes on with an entry of the node at q.
LEMMA NextOnWay ==
    ASSUME NEW w \in Tree, OneEach(w), ~Spaced(w), NEW p \in Path, NEW q \in Path, Under(q, p),
           NEW d \in NodesAt(w, q), NEW n \in NodesAt(w, p)
    PROVE  (p = q /\ n = d) \/ GoesOn(w, q, d, p)
  <1>1. p \in Seq(Name) /\ q \in Seq(Name)
    BY Zenon, PathAssumption DEF Name
  <1>2. PICK k \in Nat, l \in Nat : k = Len(p) /\ l = Len(q)
    BY Zenon, <1>1, LenProperties
  <1>3. PICK f \in [0..Len(p) -> Nodes] : Leads(w, p, f) /\ n = f[Len(p)]
    BY Zenon, WayDown
  <1>4. PICK g \in [0..Len(q) -> Nodes] : Leads(w, q, g) /\ d = g[Len(q)]
    BY Zenon, WayDown
  <1>5. f \in [0..k -> Nodes] /\ g \in [0..l -> Nodes] /\ n = f[k] /\ d = g[l]
    BY Zenon, <1>2, <1>3, <1>4
  <1>6. \A i \in 0..l : f[i] = g[i]
    <2>1. Agree(f, g, q)
      BY Zenon, <1>3, <1>4, SameWay
    <2>2. QED
      BY Zenon, <1>2, <2>1 DEF Agree
  <1>7. l <= k /\ q = SubSeq(p, 1, l) /\ l \in 0..l
    <2>1. l <= k /\ q = SubSeq(p, 1, l)
      BY Zenon, <1>2 DEF Under
    <2>2. QED
      BY <1>2, <2>1
  <1>8. CASE l = k
    <2>1. SubSeq(p, 1, k) = p
      BY <1>1, <1>2
    <2>2. QED
      BY Zenon, <1>5, <1>6, <1>7, <1>8, <2>1
  <1>9. CASE l # k
    <2>1. PICK x \in Name : x = p[l + 1]
      BY <1>1, <1>2, <1>7, <1>9
    <2>2. /\ l + 1 \in DOMAIN p /\ l + 1 \in 0..k /\ (l + 1) - 1 = l /\ l + 1 <= k
          /\ l + 1 \in 0..Len(p) /\ DOMAIN p = 1..k
      BY <1>1, <1>2, <1>7, <1>9
    <2>3. PICK m \in Nodes : m = f[l + 1]
      BY Zenon, <1>5, <2>2
    <2>4. w[m] = <<d, x>>
      BY Zenon, <1>3, <1>5, <1>6, <1>7, <2>1, <2>2, <2>3 DEF Leads
    <2>5. ASSUME NEW i \in 1..k PROVE Trimmed[p[i]] = p[i]
      <3>1. i \in 0..k /\ i - 1 \in 0..k
        BY <2>5
      <3>2. w[f[i]] = <<f[i - 1], p[i]>> /\ f[i] \in Nodes /\ f[i - 1] \in Nodes
        BY Zenon, <1>3, <1>5, <2>2, <3>1 DEF Leads
      <3>3. w[f[i]] # Gone
        BY Zenon, <3>2, NotGone
      <3>4. w[f[i]][2] = p[i]
        BY <3>2
      <3>5. QED
        BY Zenon, <3>2, <3>3, <3>4 DEF Spaced
    <2>6. Append(q, x) = SubSeq(p, 1, l + 1)
      BY <1>1, <1>2, <1>7, <2>1, <2>2
    <2>7. JoinMountPath(q, x) = Append(q, x)
      BY Zenon, <2>1, <2>2, <2>5 DEF JoinMountPath
    <2>8. Append(q, x) \in Path
      <3>1. [i \in 1..(l + 1) |-> Trimmed[p[i]]] \in Path
        BY Zenon, <2>2, PathAssumption
      <3>2. \A i \in 1..(l + 1) : i \in 1..k
        BY <1>2, <2>2
      <3>3. [i \in 1..(l + 1) |-> Trimmed[p[i]]] = [i \in 1..(l + 1) |-> p[i]]
        BY Zenon, <2>5, <3>2
      <3>4. SubSeq(p, 1, l + 1) = [i \in 1..(l + 1) |-> p[i]]
        BY <1>1, <1>2, <2>2
      <3>5. QED
        BY Zenon, <2>6, <3>1, <3>3, <3>4
    <2>9. Under(Append(q, x), p)
      <3>1. Len(Append(q, x)) = l + 1
        BY <1>1, <1>2
      <3>2. QED
        BY Zenon, <1>2, <2>2, <2>6, <3>1 DEF Under
    <2>10. QED
      BY Zenon, <2>3, <2>4, <2>7, <2>8, <2>9 DEF GoesOn
  <1>10. QED
    BY Zenon, <1>8, <1>9

\* A name added to a path.
LEMMA JoinFacts ==
    ASSUME NEW g \in Path, NEW q \in Path, NEW x \in Name
    PROVE  /\ Under(g, q) => Under(g, JoinMountPath(q, x))
           /\ Plain(q) => Plain(JoinMountPath(q, x))
  <1>1. g \in Seq(Name) /\ q \in Seq(Name)
    BY Zenon, PathAssumption DEF Name
  <1>2. PICK y \in Name : y = Trimmed[x] /\ Trimmed[y] = y
    BY Zenon, TrimAssumption DEF Name
  <1>3. PICK r \in Seq(Name) : r = Append(q, y)
    BY Zenon, <1>1, <1>2, AppendProperties
  <1>4. r = JoinMountPath(q, x)
    BY Zenon, <1>2, <1>3 DEF JoinMountPath
  <1>5. ASSUME Under(g, q) PROVE Under(g, r)
    <2>1. Len(g) <= Len(q) /\ SubSeq(q, 1, Len(g)) = g
      BY Zenon, <1>5 DEF Under
    <2>2. Len(g) <= Len(r) /\ SubSeq(r, 1, Len(g)) = g
      BY <1>1, <1>2, <1>3, <2>1
    <2>3. QED
      BY Zenon, <2>2 DEF Under
  <1>6. ASSUME Plain(q) PROVE Plain(r)
    <2>1. PICK k \in Nat : DOMAIN q = 1..k /\ DOMAIN r = 1..(k + 1) /\ r[k + 1] = y
      BY <1>1, <1>2, <1>3
    <2>2. \A i \in 1..(k + 1) : i # k + 1 => i \in 1..k /\ r[i] = q[i]
      BY <1>1, <1>2, <1>3, <2>1
    <2>3. QED
      BY Zenon, <1>2, <1>6, <2>1, <2>2 DEF Plain
  <1>7. QED
    BY Zenon, <1>4, <1>5, <1>6

-----------------------------------------------------------------------------
(* The inductive invariant of the copy.  What is still to be copied is at  *)
(* or below an item of work; the one thread that is busy is at the first.  *)

Item == [path : Path, goal : {"info", "file", "list"}]

WorkOK(w) == w \in Seq(Item) /\ \A i \in DOMAIN w : w[i].goal = "info" => Len(w) = 1

CopyType(c) == c \in [Path -> Nodes \cup {0}]

\* The call of the first item, until its directory is open or its file is copied.
CallOK(s, r, w) ==
    /\ s \in {"walk", "cache", "getattr", "cacheattr", "open"} =>
           w # <<>> /\ r.path = w[1].path /\ r.goal = w[1].goal
    /\ s = "open" => Wanted(r)

\* Nothing is copied, or still to be copied, that is not at or below g.
Sound(g, w, c, tr) ==
    /\ \A i \in DOMAIN w : Plain(w[i].path) /\ Under(g, w[i].path)
    /\ \A p \in Path : c[p] # 0 => Under(g, p) /\ c[p] \in NodesAt(tr, p) \ DirNodes

\* What is not copied is still to be copied.
Complete(g, w, c, tr) ==
    \A p \in Path : \A n \in NodesAt(tr, p) \ DirNodes :
        Under(g, p) => c[p] = n \/ \E i \in DOMAIN w : Under(w[i].path, p)

SyncTypes ==
    /\ mode \in {"volume", "sync", "done", "failed"} /\ target \in Path
    /\ changes \in Nat /\ WorkOK(work) /\ CopyType(copy)

\* The tree is the one the volume was mounted with.
Untouched == changes = 0 => place = InitTree /\ \A p \in Path : everAt[p] = NodesAt(place, p)

OneCall ==
    mode = "sync" => /\ \A t \in Thread : CallOK(pc[t], reg[t], work)
                     /\ \A t, u \in Thread : pc[t] # "idle" /\ pc[u] # "idle" => t = u

Quiet == mode \in {"sync", "done"} /\ changes = 0 /\ ~disturbed /\ Plain(target)

SyncInv ==
    /\ PathsInv /\ SyncTypes /\ Untouched /\ OneCall
    /\ ~disturbed => CacheTrue(copy, everAt)
    /\ mode = "done" => work = <<>>
    /\ Quiet => Sound(target, work, copy, place) /\ Complete(target, work, copy, place)

-----------------------------------------------------------------------------
(* Every step keeps SyncInv.                                               *)

\* Sync begins with its target.
LEMMA SyncInvInit == SyncInit => SyncInv
  <1>1. SUFFICES ASSUME SyncInit PROVE SyncInv
    BY Zenon
  <1>2. PathsInv
    BY Zenon, <1>1, PathsInvInit DEF SyncInit
  <1>3. /\ copy = [p \in Path |-> 0] /\ changes = 0 /\ place = InitTree
        /\ everAt = [p \in Path |-> NodesAt(InitTree, p)] /\ pc = [t \in Thread |-> "idle"]
    BY Zenon, <1>1 DEF SyncInit, Init
  <1>4. \A p \in Path : copy[p] = 0 /\ everAt[p] = NodesAt(place, p)
    BY Zenon, <1>3
  <1>5. CopyType(copy)
    BY Zenon, <1>3 DEF CopyType
  <1>6. Untouched
    BY Zenon, <1>3, <1>4 DEF Untouched
  <1>7. CacheTrue(copy, everAt)
    BY Zenon, <1>4 DEF CacheTrue
  <1>8. \A t \in Thread : pc[t] = "idle"
    BY Zenon, <1>3
  <1>9. \A t \in Thread : CallOK(pc[t], reg[t], work)
    BY Zenon, <1>8 DEF CallOK
  <1>10. OneCall
    BY Zenon, <1>8, <1>9 DEF OneCall
  <1>11. CASE mode = "volume" /\ target = <<>> /\ work = <<>>
    <2>1. WorkOK(work) /\ target \in Path
      BY <1>11, PathAssumption DEF WorkOK
    <2>2. 0 \in Nat /\ "volume" \notin {"sync", "done"} /\ "volume" # "done"
      BY Zenon
    <2>3. SyncTypes
      BY Zenon, <1>3, <1>5, <1>11, <2>1, <2>2 DEF SyncTypes
    <2>4. QED
      BY Zenon, <1>2, <1>6, <1>7, <1>10, <1>11, <2>2, <2>3 DEF SyncInv, Quiet
  <1>12. CASE mode = "sync" /\ target \in Path /\ work = <<[path |-> target, goal |-> "info"]>>
    <2>1. /\ work \in Seq(Item) /\ Len(work) = 1 /\ DOMAIN work = {1} /\ work[1].path = target
      BY <1>12 DEF Item
    <2>2. 0 \in Nat /\ "sync" # "done"
      BY Zenon
    <2>3. WorkOK(work)
      BY Zenon, <2>1 DEF WorkOK
    <2>4. SyncTypes
      BY Zenon, <1>3, <1>5, <1>12, <2>2, <2>3 DEF SyncTypes
    <2>5. Under(target, target)
      <3>1. target \in Seq(Name)
        BY Zenon, <1>12, PathAssumption DEF Name
      <3>2. QED
        BY <3>1 DEF Under
    <2>6. Plain(target) => Sound(target, work, copy, place)
      BY Zenon, <1>4, <2>1, <2>5 DEF Sound
    <2>7. Complete(target, work, copy, place)
      BY Zenon, <2>1 DEF Complete
    <2>8. QED
      BY Zenon, <1>2, <1>6, <1>7, <1>10, <1>12, <2>2, <2>4, <2>6, <2>7 DEF SyncInv, Quiet
  <1>13. QED
    BY Zenon, <1>1, <1>11, <1>12 DEF SyncInit

\* What a step of Sync leaves to do decides whether SyncInv is kept.
LEMMA SyncGo ==
    ASSUME SyncInv, PathsInv', mode = "sync", NEW t \in Thread, \A u \in Thread : u # t => pc[u] = "idle",
           NEW s, NEW r, Go(t, s, r), UNCHANGED server, mode' = "sync", target' = target,
           WorkOK(work'), CopyType(copy'), ~disturbed => CacheTrue(copy', everAt), CallOK(s, r, work'),
           Quiet => Sound(target, work', copy', place) /\ Complete(target, work', copy', place)
    PROVE  SyncInv'
  <1>1. /\ pc' = [pc EXCEPT ![t] = s] /\ reg' = [reg EXCEPT ![t] = r]
        /\ place' = place /\ everAt' = everAt /\ disturbed' = disturbed /\ changes' = changes
    BY Zenon DEF Go, server
  <1>2. pc = [u \in Thread |-> pc[u]] /\ reg \in [Thread -> Reg]
    BY Zenon DEF SyncInv, PathsInv, Types
  <1>3. pc'[t] = s /\ reg'[t] = r /\ \A u \in Thread : u # t => pc'[u] = pc[u]
    BY Zenon, <1>1, <1>2
  <1>4. \A q : CallOK("idle", q, work')
    BY Zenon DEF CallOK
  <1>5. OneCall'
    BY Zenon, <1>3, <1>4 DEF OneCall
  <1>6. SyncTypes'
    BY Zenon, <1>1 DEF SyncInv, SyncTypes
  <1>7. Untouched'
    BY Zenon, <1>1 DEF SyncInv, Untouched
  <1>8. "sync" # "done"
    BY Zenon
  <1>9. Quiet' => Quiet
    BY Zenon, <1>1 DEF Quiet
  <1>10. QED
    BY Zenon, <1>1, <1>5, <1>6, <1>7, <1>8, <1>9 DEF SyncInv

\* Sync ends with an error.
LEMMA SyncOver ==
    ASSUME SyncInv, PathsInv', UNCHANGED server, Ends("failed"), target' = target, copy' = copy
    PROVE  SyncInv'
  <1>1. /\ place' = place /\ everAt' = everAt /\ disturbed' = disturbed /\ changes' = changes
        /\ mode' = "failed" /\ work' = <<>>
    BY Zenon DEF server, Ends
  <1>2. "failed" \notin {"sync", "done"} /\ WorkOK(<<>>)
    BY DEF WorkOK
  <1>3. SyncTypes'
    BY Zenon, <1>1, <1>2 DEF SyncInv, SyncTypes
  <1>4. Untouched'
    BY Zenon, <1>1 DEF SyncInv, Untouched
  <1>5. OneCall' /\ ~Quiet'
    BY Zenon, <1>1, <1>2 DEF OneCall, Quiet
  <1>6. QED
    BY Zenon, <1>1, <1>2, <1>3, <1>4, <1>5 DEF SyncInv

\* Another client has changed the tree.
LEMMA OtherChanged ==
    ASSUME OtherClient
    PROVE  /\ changes' = changes + 1 /\ pc' = pc /\ reg' = reg /\ (disturbed => disturbed')
           /\ everAt' = [p \in Path |-> everAt[p] \cup NodesAt(place', p)]
  <1>1. PICK w : Change(w) /\ (disturbed => disturbed')
    <2>1. PICK n \in Nodes : \/ OtherRemoves(n)
                             \/ \E d \in DirNodes, x \in Name : OtherCreates(n, d, x) \/ OtherRenames(n, d, x)
      BY Zenon DEF OtherClient
    <2>2. CASE OtherRemoves(n)
      BY Zenon, <2>2 DEF OtherRemoves
    <2>3. ASSUME NEW d \in DirNodes, NEW x \in Name, OtherCreates(n, d, x) \/ OtherRenames(n, d, x)
          PROVE  \E w : Change(w) /\ (disturbed => disturbed')
      BY Zenon, <2>3 DEF OtherCreates, OtherRenames
    <2>4. QED
      BY Zenon, <2>1, <2>2, <2>3
  <1>2. QED
    BY Zenon, <1>1 DEF Change

\* After it the tree is no longer the first, and what was copied was still there.
LEMMA OtherKeepsSync ==
    ASSUME SyncInv, OtherClient, UNCHANGED syncVars
    PROVE  SyncInv'
  <1>1. /\ changes' = changes + 1 /\ pc' = pc /\ reg' = reg /\ (disturbed => disturbed')
        /\ everAt' = [p \in Path |-> everAt[p] \cup NodesAt(place', p)]
    BY Zenon, OtherChanged
  <1>2. mode' = mode /\ target' = target /\ work' = work /\ copy' = copy
    BY Zenon DEF syncVars
  <1>3. PathsInv'
    BY Zenon, OtherKeeps DEF SyncInv
  <1>4. changes' \in Nat /\ changes' # 0
    BY <1>1 DEF SyncInv, SyncTypes
  <1>5. SyncTypes'
    BY Zenon, <1>2, <1>4 DEF SyncInv, SyncTypes
  <1>6. Untouched' /\ ~Quiet'
    BY Zenon, <1>4 DEF Untouched, Quiet
  <1>7. OneCall'
    BY Zenon, <1>1, <1>2 DEF SyncInv, OneCall
  <1>8. ~disturbed' => CacheTrue(copy', everAt')
    <2>1. \A p \in Path : everAt'[p] = everAt[p] \cup NodesAt(place', p)
      BY Zenon, <1>1
    <2>2. QED
      BY Zenon, <1>1, <1>2, <2>1 DEF SyncInv, CacheTrue
  <1>9. QED
    BY Zenon, <1>2, <1>3, <1>5, <1>6, <1>7, <1>8 DEF SyncInv

\* A step of the volume's threads leaves the tree alone.
LEMMA ThreadsLeaveTree ==
    ASSUME Next
    PROVE  OtherClient \/ UNCHANGED server
  BY Zenon DEF Next, Begin, Resolve, WalkCached, WalkAsk, CacheWalked, GetAttr, CacheAttr, OpenDir,
     CacheEntry, Fail

\* A volume is not copied.
LEMMA VolumeKeeps ==
    ASSUME SyncInv, Volume
    PROVE  SyncInv'
  <1>1. mode = "volume" /\ Next /\ UNCHANGED syncVars
    BY Zenon DEF Volume
  <1>2. CASE OtherClient
    BY Zenon, <1>1, <1>2, OtherKeepsSync
  <1>3. CASE UNCHANGED server
    <2>1. /\ place' = place /\ everAt' = everAt /\ disturbed' = disturbed /\ changes' = changes
          /\ mode' = mode /\ target' = target /\ work' = work /\ copy' = copy
      BY Zenon, <1>1, <1>3 DEF server, syncVars
    <2>2. PathsInv'
      BY Zenon, <1>1, NextKeeps DEF SyncInv
    <2>3. "volume" \notin {"sync", "done"}
      BY Zenon
    <2>4. SyncTypes' /\ Untouched'
      BY Zenon, <2>1 DEF SyncInv, SyncTypes, Untouched
    <2>5. OneCall' /\ ~Quiet'
      BY Zenon, <1>1, <2>1, <2>3 DEF OneCall, Quiet
    <2>6. QED
      BY Zenon, <1>1, <2>1, <2>2, <2>4, <2>5 DEF SyncInv
  <1>4. QED
    BY Zenon, <1>1, <1>2, <1>3, ThreadsLeaveTree

\* Nothing is left to do, or the context was cancelled.
LEMMA EndsKeeps ==
    ASSUME SyncInv, SyncEnds
    PROVE  SyncInv'
  <1>1. /\ mode = "sync" /\ mode' = (IF work = <<>> THEN "done" ELSE "failed") /\ work' = <<>>
        /\ UNCHANGED <<vars, target, copy>>
    BY Zenon DEF SyncEnds, Ends
  <1>2. /\ UNCHANGED vars /\ UNCHANGED server /\ place' = place /\ everAt' = everAt
        /\ disturbed' = disturbed /\ changes' = changes /\ target' = target /\ copy' = copy
    BY Zenon, <1>1 DEF vars, server
  <1>3. PathsInv'
    BY Zenon, <1>2, NextKeeps DEF SyncInv
  <1>4. CASE work # <<>>
    BY Zenon, <1>1, <1>2, <1>3, <1>4, SyncOver DEF Ends
  <1>5. CASE work = <<>>
    <2>1. mode' = "done" /\ work' = work /\ "done" # "sync"
      BY Zenon, <1>1, <1>5
    <2>2. SyncTypes' /\ Untouched'
      BY Zenon, <1>2, <2>1 DEF SyncInv, SyncTypes, Untouched
    <2>3. OneCall' /\ (Quiet' => Quiet)
      BY Zenon, <1>1, <1>2, <2>1 DEF OneCall, Quiet
    <2>4. QED
      BY Zenon, <1>1, <1>2, <1>3, <2>1, <2>2, <2>3 DEF SyncInv
  <1>6. QED
    BY Zenon, <1>4, <1>5

\* What a directory's entries come to.
LEMMA BelowFacts ==
    ASSUME NEW r, r.path \in Path
    PROVE  \E n \in Nat : 
               /\ Below(r) \in Seq(Item) /\ DOMAIN Below(r) = 1..n
               /\ \A i \in 1..n : /\ Below(r)[i].goal # "info"
                                  /\ \E e \in Listed(r) : Below(r)[i].path = JoinMountPath(r.path, e[1])
               /\ \A e \in Listed(r) : \E i \in 1..n : Below(r)[i].path = JoinMountPath(r.path, e[1])
  <1>1. PICK S : S = {e[1] : e \in Listed(r)}
    BY Zenon
  <1>2. /\ Listed(r) \subseteq Name \X Nodes
        /\ \A e \in Listed(r) : place[e[2]] = <<r.node, e[1]>> /\ JoinMountPath(r.path, e[1]) \in Path
    BY Zenon DEF Listed, Entries
  <1>3. \A e \in Listed(r) : e[1] \in Name /\ e[2] \in Nodes /\ place[e[2]][2] = e[1]
    BY <1>2
  <1>4. S \subseteq Name
    BY Zenon, <1>1, <1>3
  <1>5. IsFiniteSet(S)
    <2>1. PICK N \in SUBSET Nodes : N = {e[2] : e \in Listed(r)}
      BY Zenon, <1>3
    <2>2. IsFiniteSet(N)
      BY Zenon, NodeAssumption, FS_Subset
    <2>3. PICK f : f = [n \in N |-> place[n][2]]
      BY Zenon
    <2>4. \A e \in Listed(r) : e[2] \in N /\ f[e[2]] = e[1]
      BY Zenon, <1>3, <2>1, <2>3
    <2>5. f \in [N -> S]
      <3>1. \A n \in N : place[n][2] \in S
        BY Zenon, <1>1, <1>3, <2>1
      <3>2. QED
        BY Zenon, <2>3, <3>1
    <2>6. \A x \in S : \E n \in N : f[n] = x
      BY Zenon, <1>1, <2>4
    <2>7. f \in Surjection(N, S)
      BY Zenon, <2>5, <2>6 DEF Surjection
    <2>8. QED
      BY Zenon, <2>2, <2>7, FS_Surjection
  <1>6. PICK n \in Nat : /\ InByteOrder(S) \in [1..n -> S]
                         /\ \A x \in S : \E i \in 1..n : InByteOrder(S)[i] = x
    BY Zenon, <1>4, <1>5, InByteOrderFacts
  <1>7. PICK names \in [1..n -> S] : /\ names = InByteOrder(S)
                                     /\ \A x \in S : \E i \in 1..n : names[i] = x
    BY Zenon, <1>6
  <1>8. PICK kind \in [1..n -> {"list", "file"}] :
            kind = [i \in 1..n |-> IF Child(place, r.node, names[i]) \in DirNodes THEN "list" ELSE "file"]
    BY Zenon
  <1>9. DOMAIN names = 1..n
    BY Zenon
  <1>10. \A i \in 1..n : JoinMountPath(r.path, names[i]) \in Path /\ \E e \in Listed(r) : names[i] = e[1]
    BY Zenon, <1>1, <1>2
  <1>11. PICK b : b = [i \in 1..n |-> [path |-> JoinMountPath(r.path, names[i]), goal |-> kind[i]]]
    BY Zenon
  <1>12. Below(r) = b
    BY Zenon, <1>1, <1>7, <1>8, <1>9, <1>11 DEF Below
  <1>13. /\ DOMAIN b = 1..n
         /\ \A i \in 1..n : b[i] = [path |-> JoinMountPath(r.path, names[i]), goal |-> kind[i]]
    BY Zenon, <1>11
  <1>14. ASSUME NEW i \in 1..n
         PROVE  /\ b[i] \in Item /\ b[i].goal # "info" /\ b[i].path = JoinMountPath(r.path, names[i])
    <2>1. PICK k \in {"list", "file"} : k = kind[i]
      BY Zenon, <1>8
    <2>2. PICK p \in Path : p = JoinMountPath(r.path, names[i])
      BY Zenon, <1>10
    <2>3. b[i] = [path |-> p, goal |-> k]
      BY Zenon, <1>13, <2>1, <2>2
    <2>4. b[i] \in Item /\ b[i].goal # "info" /\ b[i].path = p
      BY <2>3 DEF Item
    <2>5. QED
      BY Zenon, <2>2, <2>4
  <1>15. b \in Seq(Item)
    <2>1. b \in [1..n -> Item]
      BY Zenon, <1>11, <1>13, <1>14
    <2>2. QED
      BY <2>1
  <1>16. ASSUME NEW i \in 1..n PROVE \E e \in Listed(r) : b[i].path = JoinMountPath(r.path, e[1])
    <2>1. PICK e \in Listed(r) : names[i] = e[1]
      BY Zenon, <1>10
    <2>2. QED
      BY Zenon, <1>14, <2>1
  <1>17. ASSUME NEW e \in Listed(r) PROVE \E i \in 1..n : b[i].path = JoinMountPath(r.path, e[1])
    <2>1. e[1] \in S
      BY Zenon, <1>1
    <2>2. PICK i \in 1..n : names[i] = e[1]
      BY Zenon, <1>7, <2>1
    <2>3. QED
      BY Zenon, <1>14, <2>2
  <1>18. QED
    BY Zenon, <1>12, <1>13, <1>14, <1>15, <1>16, <1>17

\* The call of an item begins.
LEMMA CallKeeps ==
    ASSUME SyncInv, NEW t \in Thread, SyncCall(t)
    PROVE  SyncInv'
  <1>1. /\ mode = "sync" /\ work # <<>> /\ \A u \in Thread : pc[u] = "idle"
        /\ Begin(t, work[1].goal, work[1].path) /\ UNCHANGED syncVars
    BY Zenon DEF SyncCall
  <1>2. PICK p \in Path, goal \in Goal : p = work[1].path /\ goal = work[1].goal
    <2>1. work[1] \in Item
      BY <1>1 DEF SyncInv, SyncTypes, WorkOK
    <2>2. QED
      BY Zenon, <2>1 DEF Item, Goal
  <1>3. NormalizeMountPath(p) = p
    BY Zenon, NormalAssumption
  <1>4. PathsInv'
    BY Zenon, <1>1, <1>2, <1>3, BeginKeeps DEF SyncInv
  <1>5. mode' = mode /\ target' = target /\ work' = work /\ copy' = copy
    BY Zenon, <1>1 DEF syncVars
  <1>6. PICK q : q = [NoReg EXCEPT !.goal = goal, !.path = p]
    BY Zenon
  <1>7. /\ UNCHANGED server
        /\ \/ Go(t, "getattr", [q EXCEPT !.node = pathCache[p]])
           \/ Go(t, "walk", [q EXCEPT !.node = 1])
    BY Zenon, <1>1, <1>2, <1>3, <1>6 DEF Begin
  <1>8. ASSUME NEW s \in {"getattr", "walk"}, NEW n PROVE CallOK(s, [q EXCEPT !.node = n], work)
    <2>1. PICK r : r = [q EXCEPT !.node = n]
      BY Zenon
    <2>2. r.path = p /\ r.goal = goal
      BY Zenon, <1>6, <2>1 DEF NoReg
    <2>3. QED
      BY Zenon, <1>1, <1>2, <2>1, <2>2 DEF CallOK
  <1>9. PICK s, r : Go(t, s, r) /\ CallOK(s, r, work)
    BY Zenon, <1>7, <1>8
  <1>10. QED
    BY Zenon, <1>1, <1>4, <1>5, <1>7, <1>9, SyncGo DEF SyncInv, SyncTypes

\* In a call, the other threads are idle.
LEMMA OthersIdle ==
    ASSUME SyncInv, mode = "sync", NEW t \in Thread, pc[t] # "idle"
    PROVE  CallOK(pc[t], reg[t], work) /\ \A u \in Thread : u # t => pc[u] = "idle"
  BY Zenon DEF SyncInv, OneCall

\* resolvePath and ReadDirectory go on.
LEMMA SyncResolveKeeps ==
    ASSUME SyncInv, NEW t \in Thread, SyncResolve(t)
    PROVE  SyncInv'
  <1>1. /\ mode = "sync" /\ UNCHANGED syncVars
        /\ Resolve(t) \/ \E e \in reg[t].todo : CacheEntry(t, e)
    BY Zenon DEF SyncResolve
  <1>2. mode' = mode /\ target' = target /\ work' = work /\ copy' = copy
    BY Zenon, <1>1 DEF syncVars
  <1>3. PathsInv'
    BY Zenon, <1>1, ResolveKeeps, CacheEntryKeeps DEF SyncInv
  <1>4. reg[t] \in Reg
    BY Zenon DEF SyncInv, PathsInv, Types
  <1>5. ASSUME NEW s \in {"walk", "cache", "getattr", "cacheattr"}, NEW r,
               r.path = reg[t].path, r.goal = reg[t].goal,
               pc[t] \in {"walk", "cache", "getattr"}
        PROVE  CallOK(s, r, work)
    <2>1. CallOK(pc[t], reg[t], work)
      BY Zenon, <1>1 DEF SyncInv, OneCall
    <2>2. QED
      BY Zenon, <1>5, <2>1 DEF CallOK
  <1>6. ASSUME NEW r, NEW q, q = [r EXCEPT !.at = 0, !.cur = <<>>], GoOn(t, r),
               r.path = reg[t].path, r.goal = reg[t].goal, q.path = reg[t].path, q.goal = reg[t].goal,
               pc[t] \in {"walk", "cache", "getattr"}
        PROVE  \E s, x : Go(t, s, x) /\ CallOK(s, x, work)
    <2>1. Go(t, "getattr", q) \/ Go(t, "walk", r)
      BY Zenon, <1>6 DEF GoOn
    <2>2. QED
      BY Zenon, <1>5, <1>6, <2>1
  <1>7. ASSUME NEW n PROVE Walked(t, n).path = reg[t].path /\ Walked(t, n).goal = reg[t].goal
    BY Zenon, <1>4 DEF Walked, Reg
  <1>8. /\ pc[t] # "idle" /\ UNCHANGED server
        /\ \E s, r : Go(t, s, r) /\ CallOK(s, r, work)
    <2>1. CASE WalkCached(t)
      <3>1. PICK n : GoOn(t, Walked(t, n)) /\ pc[t] = "walk" /\ UNCHANGED server
        BY Zenon, <2>1 DEF WalkCached
      <3>2. PICK r, q : r = Walked(t, n) /\ q = [r EXCEPT !.at = 0, !.cur = <<>>]
        BY Zenon
      <3>3. r.path = reg[t].path /\ r.goal = reg[t].goal /\ GoOn(t, r)
        BY Zenon, <1>7, <3>1, <3>2
      <3>4. "walk" # "idle" /\ "walk" \in {"walk", "cache", "getattr"}
        BY Zenon
      <3>5. q.path = reg[t].path /\ q.goal = reg[t].goal
        BY Zenon, <1>4, <3>2 DEF Walked, Reg
      <3>6. QED
        BY Zenon, <1>6, <3>1, <3>2, <3>3, <3>4, <3>5
    <2>2. CASE WalkAsk(t)
      <3>1. PICK n : Go(t, "cache", Walked(t, n)) /\ pc[t] = "walk" /\ UNCHANGED server
        BY Zenon, <2>2 DEF WalkAsk
      <3>2. CallOK("cache", Walked(t, n), work)
        BY Zenon, <1>5, <1>7, <3>1
      <3>3. QED
        BY Zenon, <3>1, <3>2
    <2>3. CASE CacheWalked(t)
      <3>1. GoOn(t, reg[t]) /\ pc[t] = "cache" /\ UNCHANGED server
        BY Zenon, <2>3 DEF CacheWalked
      <3>2. PICK q : q = [reg[t] EXCEPT !.at = 0, !.cur = <<>>]
        BY Zenon
      <3>3. q.path = reg[t].path /\ q.goal = reg[t].goal
        BY Zenon, <1>4, <3>2 DEF Reg
      <3>4. QED
        BY Zenon, <1>6, <3>1, <3>2, <3>3
    <2>4. CASE GetAttr(t)
      <3>1. Go(t, "cacheattr", reg[t]) /\ pc[t] = "getattr" /\ UNCHANGED server
        BY Zenon, <2>4 DEF GetAttr
      <3>2. QED
        BY Zenon, <1>5, <3>1
    <2>5. CASE \E e \in reg[t].todo : CacheEntry(t, e)
      <3>1. /\ pc[t] = "readdir" /\ UNCHANGED server
            /\ Return(t) \/ \E r : Go(t, "readdir", r)
        BY Zenon, <2>5 DEF CacheEntry
      <3>2. \A r : CallOK("readdir", r, work) /\ CallOK("idle", r, work)
        BY Zenon DEF CallOK
      <3>3. QED
        BY Zenon, <3>1, <3>2 DEF Return
    <2>6. QED
      BY Zenon, <1>1, <2>1, <2>2, <2>3, <2>4, <2>5 DEF Resolve
  <1>9. PICK s, r : Go(t, s, r) /\ CallOK(s, r, work)
    BY Zenon, <1>8
  <1>10. QED
    BY Zenon, <1>1, <1>2, <1>3, <1>8, <1>9, OthersIdle, SyncGo DEF SyncInv, SyncTypes

\* Sync's call of GetAttr tells it the type, or an item is not of its type.
LEMMA SyncAttrKeeps ==
    ASSUME SyncInv, NEW t \in Thread, SyncAttr(t)
    PROVE  SyncInv'
  <1>1. mode = "sync" /\ CacheAttr(t) /\ target' = target /\ copy' = copy
    BY Zenon DEF SyncAttr
  <1>2. /\ pc[t] = "cacheattr" /\ UNCHANGED server
        /\ Wanted(reg[t]) => Go(t, "open", reg[t])
        /\ ~Wanted(reg[t]) => Go(t, "idle", NoReg)
    BY Zenon, <1>1 DEF CacheAttr, Return
  <1>3. PathsInv'
    BY Zenon, <1>1, CacheAttrKeeps DEF SyncInv
  <1>4. /\ CallOK("cacheattr", reg[t], work) /\ \A u \in Thread : u # t => pc[u] = "idle"
    BY Zenon, <1>1, <1>2, OthersIdle
  <1>5. work # <<>> /\ reg[t].path = work[1].path /\ reg[t].goal = work[1].goal
    BY Zenon, <1>4 DEF CallOK
  <1>6. WorkOK(work) /\ CopyType(copy) /\ (~disturbed => CacheTrue(copy, everAt))
    BY Zenon DEF SyncInv, SyncTypes
  <1>7. CASE reg[t].goal = "info"
    <2>1. PICK k \in {"list", "file"} :
              work' = <<[path |-> reg[t].path, goal |-> k]>> /\ mode' = mode
      BY Zenon, <1>7 DEF SyncAttr
    <2>2. ~Wanted(reg[t])
      BY Zenon, <1>7 DEF Wanted
    <2>3. CallOK("idle", NoReg, work')
      BY Zenon DEF CallOK
    <2>4. Len(work) = 1 /\ DOMAIN work = {1} /\ work[1].path \in Path
      <3>1. work \in Seq(Item) /\ \A i \in DOMAIN work : work[i].goal = "info" => Len(work) = 1
        BY Zenon, <1>6 DEF WorkOK
      <3>2. 1 \in DOMAIN work /\ work[1] \in Item
        BY <1>5, <3>1
      <3>3. Len(work) = 1 /\ work[1].path \in Path
        BY Zenon, <1>5, <1>7, <3>1, <3>2 DEF Item
      <3>4. QED
        BY <3>1, <3>3
    <2>5. /\ work' \in Seq(Item) /\ Len(work') = 1 /\ DOMAIN work' = {1} /\ work'[1].path = work[1].path
      BY <1>5, <2>1, <2>4 DEF Item
    <2>6. WorkOK(work')
      BY Zenon, <2>5 DEF WorkOK
    <2>7. Quiet => Sound(target, work', copy, place) /\ Complete(target, work', copy, place)
      BY Zenon, <2>4, <2>5 DEF SyncInv, Sound, Complete
    <2>8. QED
      BY Zenon, <1>1, <1>2, <1>3, <1>4, <1>6, <2>1, <2>2, <2>3, <2>6, <2>7, SyncGo
  <1>8. CASE reg[t].goal # "info" /\ Wanted(reg[t])
    <2>1. work' = work /\ mode' = mode
      BY Zenon, <1>8 DEF SyncAttr
    <2>2. CallOK("open", reg[t], work)
      BY Zenon, <1>5, <1>8 DEF CallOK
    <2>3. QED
      BY Zenon, <1>1, <1>2, <1>3, <1>4, <1>6, <1>8, <2>1, <2>2, SyncGo DEF SyncInv
  <1>9. CASE reg[t].goal # "info" /\ ~Wanted(reg[t])
    BY Zenon, <1>1, <1>2, <1>3, <1>9, SyncOver DEF SyncAttr
  <1>10. QED
    BY Zenon, <1>7, <1>8, <1>9

\* A call of Sync fails.
LEMMA SyncFailsKeeps ==
    ASSUME SyncInv, NEW t \in Thread, SyncFails(t)
    PROVE  SyncInv'
  <1>1. Fail(t) /\ UNCHANGED server /\ Ends("failed") /\ target' = target /\ copy' = copy
    BY Zenon DEF SyncFails, Fail
  <1>2. PathsInv'
    BY Zenon, <1>1, FailKeeps DEF SyncInv
  <1>3. QED
    BY Zenon, <1>1, <1>2, SyncOver

\* What is left to do after the first item.
LEMMA RestFacts ==
    ASSUME NEW w, WorkOK(w), w # <<>>
    PROVE  /\ 1 \in DOMAIN w /\ w[1].path \in Path /\ Tail(w) \in Seq(Item)
           /\ \A i \in DOMAIN Tail(w) : \E j \in DOMAIN w : Tail(w)[i] = w[j]
           /\ \A j \in DOMAIN w : w[j] = w[1] \/ \E i \in DOMAIN Tail(w) : Tail(w)[i] = w[j]
           /\ w[1].goal # "info" => \A j \in DOMAIN w : w[j].goal # "info"
  <1>1. w \in Seq(Item) /\ \A i \in DOMAIN w : w[i].goal = "info" => Len(w) = 1
    BY Zenon DEF WorkOK
  <1>2. PICK k \in Nat : Len(w) = k + 1 /\ DOMAIN w = 1..(k + 1)
    <2>1. Len(w) \in Nat /\ Len(w) # 0 /\ DOMAIN w = 1..Len(w)
      BY <1>1
    <2>2. Len(w) - 1 \in Nat /\ Len(w) = (Len(w) - 1) + 1
      BY <2>1
    <2>3. QED
      BY Zenon, <2>1, <2>2
  <1>3. 1 \in DOMAIN w /\ w[1] \in Item
    BY <1>1, <1>2
  <1>4. w[1].path \in Path
    BY Zenon, <1>3 DEF Item
  <1>5. /\ Tail(w) \in Seq(Item) /\ DOMAIN Tail(w) = 1..k /\ \A i \in 1..k : Tail(w)[i] = w[i + 1]
    BY <1>1, <1>2
  <1>6. \A i \in 1..k : i + 1 \in 1..(k + 1)
    BY <1>2
  <1>7. \A j \in 1..(k + 1) : j = 1 \/ (j - 1 \in 1..k /\ (j - 1) + 1 = j)
    BY <1>2
  <1>8. \A j \in 1..(k + 1) : k + 1 = 1 => j = 1
    BY <1>2
  <1>9. \A i \in DOMAIN Tail(w) : \E j \in DOMAIN w : Tail(w)[i] = w[j]
    BY Zenon, <1>2, <1>5, <1>6
  <1>10. ASSUME NEW j \in DOMAIN w PROVE w[j] = w[1] \/ \E i \in DOMAIN Tail(w) : Tail(w)[i] = w[j]
    <2>1. j = 1 \/ (j - 1 \in 1..k /\ (j - 1) + 1 = j)
      BY Zenon, <1>2, <1>7
    <2>2. QED
      BY Zenon, <1>5, <2>1
  <1>11. w[1].goal # "info" => \A j \in DOMAIN w : w[j].goal # "info"
    BY Zenon, <1>1, <1>2, <1>8
  <1>12. QED
    BY Zenon, <1>3, <1>4, <1>5, <1>9, <1>10, <1>11

\* The items of c are those of b and of v.
Joined(b, v, c) ==
    /\ c \in Seq(Item)
    /\ \A i \in DOMAIN c : (\E j \in DOMAIN b : c[i] = b[j]) \/ \E j \in DOMAIN v : c[i] = v[j]
    /\ \A j \in DOMAIN b : \E i \in DOMAIN c : c[i] = b[j]
    /\ \A j \in DOMAIN v : \E i \in DOMAIN c : c[i] = v[j]

\* Items put before others.
LEMMA JoinedFacts ==
    ASSUME NEW b \in Seq(Item), NEW v \in Seq(Item), NEW c, c = b \o v
    PROVE  Joined(b, v, c)
  <1>1. PICK k \in Nat, l \in Nat : k = Len(b) /\ l = Len(v) /\ DOMAIN b = 1..k /\ DOMAIN v = 1..l
    BY Zenon, LenProperties
  <1>2. c \in Seq(Item)
    BY Zenon, ConcatProperties
  <1>3. DOMAIN c = 1..(k + l)
    BY <1>1, <1>2
  <1>4. \A i \in 1..(k + l) : c[i] = (IF i <= k THEN b[i] ELSE v[i - k])
    BY Zenon, <1>1, <1>2, ConcatProperties
  <1>5. \A i \in 1..(k + l) : IF i <= k THEN i \in 1..k ELSE i - k \in 1..l
    BY <1>1
  <1>6. /\ \A j \in 1..k : j \in 1..(k + l) /\ j <= k
        /\ \A j \in 1..l : j + k \in 1..(k + l) /\ ~(j + k <= k) /\ (j + k) - k = j
    BY <1>1
  <1>7. \A i \in DOMAIN c : (\E j \in DOMAIN b : c[i] = b[j]) \/ \E j \in DOMAIN v : c[i] = v[j]
    BY Zenon, <1>1, <1>3, <1>4, <1>5
  <1>8. ASSUME NEW j \in DOMAIN b PROVE \E i \in DOMAIN c : c[i] = b[j]
    BY Zenon, <1>1, <1>3, <1>4, <1>6
  <1>9. ASSUME NEW j \in DOMAIN v PROVE \E i \in DOMAIN c : c[i] = v[j]
    <2>1. j + k \in 1..(k + l) /\ ~(j + k <= k) /\ (j + k) - k = j
      BY Zenon, <1>1, <1>6
    <2>2. c[j + k] = v[(j + k) - k]
      BY Zenon, <1>4, <2>1
    <2>3. QED
      BY Zenon, <1>3, <2>1, <2>2
  <1>10. QED
    BY Zenon, <1>2, <1>7, <1>8, <1>9 DEF Joined

\* An item whose file or directory is to be opened.
LEMMA OpenFacts ==
    ASSUME SyncInv, mode = "sync", NEW t \in Thread, pc[t] = "open"
    PROVE  /\ \A u \in Thread : u # t => pc[u] = "idle"
           /\ WorkOK(work) /\ work # <<>> /\ reg[t].path = work[1].path /\ reg[t].goal = work[1].goal
           /\ Wanted(reg[t]) /\ reg[t].path \in Path /\ reg[t].node \in Nodes
           /\ ~disturbed /\ Plain(reg[t].path) => reg[t].node \in everAt[reg[t].path]
           /\ Quiet => /\ place \in Tree /\ OneEach(place) /\ ~Spaced(place)
                       /\ Plain(reg[t].path) /\ Under(target, reg[t].path)
                       /\ reg[t].node \in NodesAt(place, reg[t].path)
  <1>1. CallOK("open", reg[t], work) /\ \A u \in Thread : u # t => pc[u] = "idle"
    <2>1. "open" # "idle"
      BY Zenon
    <2>2. QED
      BY Zenon, <2>1, OthersIdle
  <1>2. work # <<>> /\ reg[t].path = work[1].path /\ reg[t].goal = work[1].goal /\ Wanted(reg[t])
    BY Zenon, <1>1 DEF CallOK
  <1>3. WorkOK(work)
    BY Zenon DEF SyncInv, SyncTypes
  <1>4. /\ reg[t].path \in Path /\ HandOK("open", reg[t])
        /\ ~disturbed => HandTrue("open", reg[t], everAt)
    BY Zenon, RegFacts DEF SyncInv
  <1>5. /\ reg[t].node \in Nodes
        /\ ~disturbed /\ Plain(reg[t].path) => reg[t].node \in everAt[reg[t].path]
    BY Zenon, <1>4 DEF HandOK, HandTrue
  <1>6. ASSUME Quiet
        PROVE  /\ place \in Tree /\ OneEach(place) /\ ~Spaced(place)
               /\ Plain(reg[t].path) /\ Under(target, reg[t].path)
               /\ reg[t].node \in NodesAt(place, reg[t].path)
    <2>1. changes = 0 /\ ~disturbed /\ Sound(target, work, copy, place)
      BY Zenon, <1>6 DEF Quiet, SyncInv
    <2>2. place = InitTree /\ \A p \in Path : everAt[p] = NodesAt(place, p)
      BY Zenon, <2>1 DEF SyncInv, Untouched
    <2>3. place \in Tree /\ ~Spaced(place)
      BY Zenon, <2>1 DEF SyncInv, PathsInv, Types, TreeInv
    <2>4. OneEach(place)
      BY Zenon, <2>2, TreeAssumption DEF OneEach
    <2>5. 1 \in DOMAIN work
      BY Zenon, <1>2, <1>3, RestFacts
    <2>6. Plain(reg[t].path) /\ Under(target, reg[t].path)
      BY Zenon, <1>2, <2>1, <2>5 DEF Sound
    <2>7. reg[t].node \in NodesAt(place, reg[t].path)
      BY Zenon, <1>4, <1>5, <2>1, <2>2, <2>6
    <2>8. QED
      BY Zenon, <2>3, <2>4, <2>6, <2>7
  <1>7. QED
    BY Zenon, <1>1, <1>2, <1>3, <1>4, <1>5, <1>6

\* The file is copied.
LEMMA syncFileKeeps ==
    ASSUME SyncInv, NEW t \in Thread, syncFile(t)
    PROVE  SyncInv'
  <1>1. /\ mode = "sync" /\ OpenFile(t) /\ mode' = mode /\ target' = target
        /\ copy' = [copy EXCEPT ![work[1].path] = reg[t].node] /\ work' = Tail(work)
    BY Zenon DEF syncFile
  <1>2. pc[t] = "open" /\ reg[t].goal = "file" /\ Return(t) /\ UNCHANGED <<server, pathCache>>
    BY Zenon, <1>1 DEF OpenFile
  <1>3. UNCHANGED server /\ pathCache' = pathCache /\ Go(t, "idle", NoReg)
    BY Zenon, <1>2 DEF Return
  <1>4. PathsInv'
    BY Zenon, <1>2, <1>3, SameCache, ReturnKeeps DEF SyncInv
  <1>5. PICK q, n : q = reg[t].path /\ n = reg[t].node
    BY Zenon
  <1>6. /\ \A u \in Thread : u # t => pc[u] = "idle"
        /\ WorkOK(work) /\ work # <<>> /\ q = work[1].path /\ work[1].goal = "file"
        /\ Wanted(reg[t]) /\ q \in Path /\ n \in Nodes
        /\ ~disturbed /\ Plain(q) => n \in everAt[q]
        /\ Quiet => /\ place \in Tree /\ OneEach(place) /\ ~Spaced(place)
                    /\ Plain(q) /\ Under(target, q) /\ n \in NodesAt(place, q)
    BY Zenon, <1>1, <1>2, <1>5, OpenFacts
  <1>7. n \notin DirNodes
    BY Zenon, <1>2, <1>5, <1>6 DEF Wanted
  <1>8. /\ Tail(work) \in Seq(Item)
        /\ \A i \in DOMAIN Tail(work) : \E j \in DOMAIN work : Tail(work)[i] = work[j]
        /\ \A j \in DOMAIN work : work[j] = work[1] \/ \E i \in DOMAIN Tail(work) : Tail(work)[i] = work[j]
        /\ work[1].goal # "info" => \A j \in DOMAIN work : work[j].goal # "info"
    BY Zenon, <1>6, RestFacts
  <1>9. "file" # "info"
    BY Zenon
  <1>10. WorkOK(work')
    BY Zenon, <1>1, <1>6, <1>8, <1>9 DEF WorkOK
  <1>11. /\ CopyType(copy) /\ (~disturbed => CacheTrue(copy, everAt))
         /\ Quiet => Sound(target, work, copy, place) /\ Complete(target, work, copy, place)
    BY Zenon DEF SyncInv, SyncTypes
  <1>12. copy' = [copy EXCEPT ![q] = n]
    BY Zenon, <1>1, <1>5, <1>6
  <1>13. CopyType(copy') /\ copy'[q] = n /\ \A p \in Path : p # q => copy'[p] = copy[p]
    BY Zenon, <1>6, <1>11, <1>12 DEF CopyType
  <1>14. ~disturbed => CacheTrue(copy', everAt)
    BY Zenon, <1>6, <1>11, <1>13 DEF CacheTrue
  <1>15. ASSUME Quiet PROVE Sound(target, work', copy', place)
    <2>1. \A i \in DOMAIN work' : Plain(work'[i].path) /\ Under(target, work'[i].path)
      BY Zenon, <1>1, <1>8, <1>11, <1>15 DEF Sound
    <2>2. \A p \in Path : copy'[p] # 0 => Under(target, p) /\ copy'[p] \in NodesAt(place, p) \ DirNodes
      BY Zenon, <1>6, <1>7, <1>11, <1>13, <1>15 DEF Sound
    <2>3. QED
      BY Zenon, <2>1, <2>2 DEF Sound
  <1>16. ASSUME Quiet PROVE Complete(target, work', copy', place)
    <2>1. SUFFICES ASSUME NEW p \in Path, NEW m \in NodesAt(place, p) \ DirNodes, Under(target, p)
                   PROVE  copy'[p] = m \/ \E i \in DOMAIN work' : Under(work'[i].path, p)
      BY Zenon DEF Complete
    <2>2. copy[p] = m \/ \E j \in DOMAIN work : Under(work[j].path, p)
      BY Zenon, <1>11, <1>16, <2>1 DEF Complete
    <2>3. ASSUME p = q \/ Under(q, p) PROVE copy'[p] = m
      <3>1. Under(q, p)
        <4>1. q \in Seq(Name)
          BY Zenon, <1>6, PathAssumption DEF Name
        <4>2. Under(q, q)
          BY <4>1 DEF Under
        <4>3. QED
          BY Zenon, <2>3, <4>2
      <3>2. ~ \E k \in Nodes, x \in Name : place[k] = <<n, x>>
        BY Zenon, <1>6, <1>7, <1>16, EntryInDirectory
      <3>3. m \in NodesAt(place, p)
        BY Zenon, <2>1
      <3>4. p = q /\ m = n
        <4>1. place \in Tree /\ OneEach(place) /\ ~Spaced(place) /\ n \in NodesAt(place, q)
          BY Zenon, <1>6, <1>16
        <4>2. (p = q /\ m = n) \/ GoesOn(place, q, n, p)
          BY Zenon, <1>6, <2>1, <3>1, <3>3, <4>1, NextOnWay
        <4>3. QED
          BY Zenon, <3>2, <4>2 DEF GoesOn
      <3>5. QED
        BY Zenon, <1>13, <3>4
    <2>4. QED
      BY Zenon, <1>1, <1>6, <1>8, <1>13, <2>2, <2>3
  <1>17. CallOK("idle", NoReg, work')
    BY Zenon DEF CallOK
  <1>18. QED
    BY Zenon, <1>1, <1>3, <1>4, <1>6, <1>10, <1>13, <1>14, <1>15, <1>16, <1>17, SyncGo

\* The entries of the directory come next.
LEMMA syncDirectoryKeeps ==
    ASSUME SyncInv, NEW t \in Thread, syncDirectory(t)
    PROVE  SyncInv'
  <1>1. /\ mode = "sync" /\ OpenDir(t) /\ mode' = mode /\ target' = target /\ copy' = copy
        /\ work' = Below(reg[t]) \o Tail(work)
    BY Zenon DEF syncDirectory
  <1>2. pc[t] = "open" /\ reg[t].goal = "list" /\ UNCHANGED server
    BY Zenon, <1>1 DEF OpenDir
  <1>3. PICK s \in {"idle", "readdir"} : \E r : Go(t, s, r)
    BY Zenon, <1>1 DEF OpenDir, Return
  <1>4. PICK r : Go(t, s, r)
    BY Zenon, <1>3
  <1>5. PathsInv'
    BY Zenon, <1>1, OpenDirKeeps DEF SyncInv
  <1>6. PICK q, d : q = reg[t].path /\ d = reg[t].node
    BY Zenon
  <1>7. /\ \A u \in Thread : u # t => pc[u] = "idle"
        /\ WorkOK(work) /\ work # <<>> /\ q = work[1].path /\ work[1].goal = "list"
        /\ Wanted(reg[t]) /\ q \in Path /\ d \in Nodes
        /\ Quiet => /\ place \in Tree /\ OneEach(place) /\ ~Spaced(place)
                    /\ Plain(q) /\ Under(target, q) /\ d \in NodesAt(place, q)
    BY Zenon, <1>1, <1>2, <1>6, OpenFacts
  <1>8. d \in DirNodes
    BY Zenon, <1>2, <1>6, <1>7 DEF Wanted
  <1>9. PICK b, v : b = Below(reg[t]) /\ v = Tail(work)
    BY Zenon
  <1>10. /\ v \in Seq(Item)
         /\ \A i \in DOMAIN v : \E j \in DOMAIN work : v[i] = work[j]
         /\ \A j \in DOMAIN work : work[j] = work[1] \/ \E i \in DOMAIN v : v[i] = work[j]
         /\ work[1].goal # "info" => \A j \in DOMAIN work : work[j].goal # "info"
    BY Zenon, <1>7, <1>9, RestFacts
  <1>11. /\ b \in Seq(Item)
         /\ \A i \in DOMAIN b : /\ b[i].goal # "info"
                                /\ \E e \in Listed(reg[t]) : b[i].path = JoinMountPath(q, e[1])
         /\ \A e \in Listed(reg[t]) : \E i \in DOMAIN b : b[i].path = JoinMountPath(q, e[1])
    <2>1. PICK k \in Nat :
              /\ b \in Seq(Item) /\ DOMAIN b = 1..k
              /\ \A i \in 1..k : /\ b[i].goal # "info"
                                 /\ \E e \in Listed(reg[t]) : b[i].path = JoinMountPath(reg[t].path, e[1])
              /\ \A e \in Listed(reg[t]) : \E i \in 1..k : b[i].path = JoinMountPath(reg[t].path, e[1])
      BY Zenon, <1>6, <1>7, <1>9, BelowFacts
    <2>2. QED
      BY Zenon, <1>6, <2>1
  <1>12. /\ work' \in Seq(Item)
         /\ \A i \in DOMAIN work' : (\E j \in DOMAIN b : work'[i] = b[j]) \/ \E j \in DOMAIN v : work'[i] = v[j]
         /\ \A j \in DOMAIN b : \E i \in DOMAIN work' : work'[i] = b[j]
         /\ \A j \in DOMAIN v : \E i \in DOMAIN work' : work'[i] = v[j]
    <2>1. work' = b \o v /\ b \in Seq(Item) /\ v \in Seq(Item)
      BY Zenon, <1>1, <1>9, <1>10, <1>11
    <2>2. Joined(b, v, work')
      BY Zenon, <2>1, JoinedFacts
    <2>3. QED
      BY Zenon, <2>2 DEF Joined
  <1>13. "list" # "info"
    BY Zenon
  <1>14. WorkOK(work')
    <2>1. \A i \in DOMAIN v : v[i].goal # "info"
      BY Zenon, <1>7, <1>10, <1>13
    <2>2. ASSUME NEW i \in DOMAIN work' PROVE work'[i].goal # "info"
      <3>1. CASE \E j \in DOMAIN b : work'[i] = b[j]
        <4>1. PICK j \in DOMAIN b : work'[i] = b[j]
          BY Zenon, <3>1
        <4>2. QED
          BY Zenon, <1>11, <4>1
      <3>2. CASE \E j \in DOMAIN v : work'[i] = v[j]
        BY Zenon, <2>1, <3>2
      <3>3. QED
        BY Zenon, <1>12, <3>1, <3>2
    <2>3. QED
      BY Zenon, <1>12, <2>2 DEF WorkOK
  <1>15. /\ CopyType(copy) /\ (~disturbed => CacheTrue(copy, everAt))
         /\ Quiet => Sound(target, work, copy, place) /\ Complete(target, work, copy, place)
    BY Zenon DEF SyncInv, SyncTypes
  <1>16. target \in Path
    BY Zenon DEF SyncInv, SyncTypes
  <1>17. \A e \in Listed(reg[t]) : e[1] \in Name
    <2>1. Listed(reg[t]) \subseteq Name \X Nodes
      BY Zenon DEF Listed, Entries
    <2>2. QED
      BY Zenon, <2>1
  <1>18. ASSUME Quiet PROVE Sound(target, work', copy, place)
    <2>1. ASSUME NEW j \in DOMAIN b PROVE Plain(b[j].path) /\ Under(target, b[j].path)
      <3>1. PICK e \in Listed(reg[t]) : b[j].path = JoinMountPath(q, e[1])
        BY Zenon, <1>11, <2>1
      <3>2. PICK x \in Name : x = e[1]
        BY Zenon, <1>17
      <3>3. QED
        BY Zenon, <1>7, <1>16, <1>18, <3>1, <3>2, JoinFacts
    <2>2. \A j \in DOMAIN v : Plain(v[j].path) /\ Under(target, v[j].path)
      BY Zenon, <1>10, <1>15, <1>18 DEF Sound
    <2>3. \A i \in DOMAIN work' : Plain(work'[i].path) /\ Under(target, work'[i].path)
      BY Zenon, <1>12, <2>1, <2>2
    <2>4. QED
      BY Zenon, <1>15, <1>18, <2>3 DEF Sound
  <1>19. ASSUME Quiet PROVE Complete(target, work', copy, place)
    <2>1. SUFFICES ASSUME NEW p \in Path, NEW m \in NodesAt(place, p) \ DirNodes, Under(target, p)
                   PROVE  copy[p] = m \/ \E i \in DOMAIN work' : Under(work'[i].path, p)
      BY Zenon DEF Complete
    <2>2. copy[p] = m \/ \E j \in DOMAIN work : Under(work[j].path, p)
      BY Zenon, <1>15, <1>19, <2>1 DEF Complete
    <2>3. ASSUME Under(q, p) PROVE \E j \in DOMAIN b : Under(b[j].path, p)
      <3>1. m \in NodesAt(place, p) /\ m # d
        BY Zenon, <1>8, <2>1
      <3>2. place \in Tree /\ OneEach(place) /\ ~Spaced(place) /\ d \in NodesAt(place, q)
        BY Zenon, <1>7, <1>19
      <3>3. (p = q /\ m = d) \/ GoesOn(place, q, d, p)
        BY Zenon, <1>7, <2>1, <2>3, <3>1, <3>2, NextOnWay
      <3>4. PICK k \in Nodes, x \in Name : /\ place[k] = <<d, x>> /\ JoinMountPath(q, x) \in Path
                                           /\ Under(JoinMountPath(q, x), p)
        BY Zenon, <3>1, <3>3 DEF GoesOn
      <3>5. PICK e \in Name \X Nodes : e[1] = x /\ e[2] = k
        <4>1. <<x, k>> \in Name \X Nodes /\ <<x, k>>[1] = x /\ <<x, k>>[2] = k
          BY Zenon
        <4>2. QED
          BY Zenon, <4>1
      <3>6. e \in Listed(reg[t])
        BY Zenon, <1>6, <3>4, <3>5 DEF Listed, Entries
      <3>7. QED
        BY Zenon, <1>11, <3>4, <3>5, <3>6
    <2>4. ASSUME NEW j \in DOMAIN work, Under(work[j].path, p)
          PROVE  \E i \in DOMAIN work' : Under(work'[i].path, p)
      <3>1. CASE work[j] = work[1]
        BY Zenon, <1>7, <1>12, <2>3, <2>4, <3>1
      <3>2. CASE \E i \in DOMAIN v : v[i] = work[j]
        <4>1. PICK k \in DOMAIN v : v[k] = work[j]
          BY Zenon, <3>2
        <4>2. PICK i \in DOMAIN work' : work'[i] = v[k]
          BY Zenon, <1>12
        <4>3. QED
          BY Zenon, <2>4, <4>1, <4>2
      <3>3. QED
        BY Zenon, <1>10, <2>4, <3>1, <3>2
    <2>5. QED
      BY Zenon, <2>2, <2>4
  <1>20. CallOK(s, r, work')
    BY Zenon DEF CallOK
  <1>21. QED
    BY Zenon, <1>1, <1>2, <1>4, <1>5, <1>7, <1>14, <1>15, <1>18, <1>19, <1>20, SyncGo

\* Every step keeps it.
LEMMA SyncNextKeeps == SyncInv /\ [SyncNext]_allVars => SyncInv'
  <1>1. SUFFICES ASSUME SyncInv, SyncNext \/ UNCHANGED allVars PROVE SyncInv'
    BY Zenon
  <1>2. CASE UNCHANGED allVars
    <2>1. /\ UNCHANGED vars /\ UNCHANGED server /\ UNCHANGED syncVars /\ pc' = pc /\ reg' = reg
      BY Zenon, <1>2 DEF allVars, vars, server
    <2>2. /\ place' = place /\ everAt' = everAt /\ disturbed' = disturbed /\ changes' = changes
          /\ mode' = mode /\ target' = target /\ work' = work /\ copy' = copy
      BY Zenon, <2>1 DEF server, syncVars
    <2>3. PathsInv'
      BY Zenon, <1>1, <2>1, NextKeeps DEF SyncInv
    <2>4. SyncTypes' /\ Untouched' /\ OneCall' /\ (Quiet' => Quiet)
      BY Zenon, <1>1, <2>1, <2>2 DEF SyncInv, SyncTypes, Untouched, OneCall, Quiet
    <2>5. QED
      BY Zenon, <1>1, <2>2, <2>3, <2>4 DEF SyncInv
  <1>3. CASE Volume \/ OthersChange \/ SyncEnds
    BY Zenon, <1>1, <1>3, VolumeKeeps, OtherKeepsSync, EndsKeeps DEF OthersChange
  <1>4. ASSUME NEW t \in Thread, SyncCall(t) \/ SyncResolve(t) \/ SyncAttr(t)
        PROVE  SyncInv'
    BY Zenon, <1>1, <1>4, CallKeeps, SyncResolveKeeps, SyncAttrKeeps
  <1>5. ASSUME NEW t \in Thread, syncDirectory(t) \/ syncFile(t) \/ SyncFails(t)
        PROVE  SyncInv'
    BY Zenon, <1>1, <1>5, syncDirectoryKeeps, syncFileKeeps, SyncFailsKeeps
  <1>6. QED
    BY Zenon, <1>1, <1>2, <1>3, <1>4, <1>5 DEF SyncNext

\* What SyncInv says of a copy that is made.
LEMMA SyncInvCopy == SyncInv => CopyFaithful
  <1>1. SUFFICES ASSUME SyncInv PROVE CopyFaithful
    BY Zenon
  <1>2. ~disturbed => \A p \in Path : Plain(p) /\ copy[p] # 0 => copy[p] \in everAt[p]
    BY Zenon, <1>1 DEF SyncInv, CacheTrue
  <1>3. ASSUME mode = "done", changes = 0, ~disturbed, Plain(target), NEW p \in Path
        PROVE  {copy[p]} \ {0} = IF Under(target, p) THEN NodesAt(place, p) \ DirNodes ELSE {}
    <2>1. Quiet
      BY Zenon, <1>3 DEF Quiet
    <2>2. /\ work = <<>> /\ Sound(target, work, copy, place) /\ Complete(target, work, copy, place)
      BY Zenon, <1>1, <1>3, <2>1 DEF SyncInv
    <2>3. copy[p] # 0 => Under(target, p) /\ copy[p] \in NodesAt(place, p) \ DirNodes
      BY Zenon, <2>2 DEF Sound
    <2>4. DOMAIN work = {}
      BY <2>2
    <2>5. \A n \in NodesAt(place, p) \ DirNodes : Under(target, p) => copy[p] = n
      BY Zenon, <2>2, <2>4 DEF Complete
    <2>6. 0 \notin NodesAt(place, p)
      <3>1. NodesAt(place, p) \subseteq Nodes
        <4>1. NodesAt(place, p) \subseteq everAt[p] /\ everAt[p] \subseteq given /\ given \subseteq Nodes
          BY Zenon, <1>1, <1>3 DEF SyncInv, PathsInv, TreeInv, Types
        <4>2. QED
          BY Zenon, <4>1
      <3>2. QED
        BY Zenon, <3>1, NodeAssumption
    <2>7. QED
      BY Zenon, <2>3, <2>5, <2>6
  <1>4. QED
    BY Zenon, <1>2, <1>3 DEF CopyFaithful

-----------------------------------------------------------------------------
(* The results.                                                            *)

\* As long as no directory was renamed and no name had spaces to trim, a copied
\* file has the bytes of a file that has been at its path; and a copy that
\* succeeds while nobody changes the tree has every file at and below its
\* target and no other.
THEOREM CopiesAreFaithful == SyncSpec => []CopyFaithful
  <1>1. SyncInit => SyncInv
    BY Zenon, SyncInvInit
  <1>2. SyncInv /\ [SyncNext]_allVars => SyncInv'
    BY Zenon, SyncNextKeeps
  <1>3. SyncInv => CopyFaithful
    BY Zenon, SyncInvCopy
  <1>4. QED
    BY <1>1, <1>2, <1>3, PTL DEF SyncSpec

\* The cache of a mount, whether it is a volume or the one that Sync copies
\* from, has for a path a node that has been there.
THEOREM CachedPathsWereTrue == SyncSpec => []CacheWasTrue
  <1>1. SyncInit => SyncInv
    BY Zenon, SyncInvInit
  <1>2. SyncInv /\ [SyncNext]_allVars => SyncInv'
    BY Zenon, SyncNextKeeps
  <1>3. SyncInv => CacheWasTrue
    BY Zenon DEF SyncInv, PathsInv, CacheTrue, CacheWasTrue
  <1>4. QED
    BY <1>1, <1>2, <1>3, PTL DEF SyncSpec

=============================================================================
