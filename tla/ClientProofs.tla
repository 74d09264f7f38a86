---------------------------- MODULE ClientProofs ----------------------------
(***************************************************************************)
(* Proofs about ClientSession, for any files and any bounds, whatever is   *)
(* lost and whenever the server starts again.                              *)
(*                                                                         *)
(* The lock a request takes is enough for the two threads of a client to   *)
(* share its connection (WireInv).  On top of that the handles a client    *)
(* tracks, hands on and recovers stay those of the server (HandlesInv); the*)
(* replay of a recovery's results is followed one result at a time         *)
(* (Replayed).                                                             *)
(***************************************************************************)
EXTENDS ClientSession, FiniteSetTheorems, SequenceTheorems, WellFoundedInduction, TLAPS

Quiet == conn.in = <<>> /\ conn.out = <<>>

\* The thread that waits is the one that has the lock, and all there is on the
\* connection is its request or the answer to it.
WireInv ==
    /\ call = [t \in Thread |-> call[t]]
    /\ conn = [up |-> conn.up, in |-> conn.in, out |-> conn.out]
    /\ reqMu \in Thread \cup {"none"}
    /\ \A t \in Thread : reqMu = t <=> ~Idle(t)
    /\ ~conn.up \/ reqMu = "none" => Quiet
    /\ conn.in = <<>> \/ conn.out = <<>>
    /\ conn.in # <<>> => conn.in = <<[from |-> reqMu, call |-> call[reqMu]]>>
    /\ conn.out # <<>> => conn.out = <<conn.out[1]>> /\ AnswerID(conn.out[1]) = RequestID(reqMu)

LEMMA WireInit == Init => WireInv
  BY SMTT(30) DEF Init, WireInv, Quiet, Offline, Idle, Thread

LEMMA WireMatches == WireInv => AnswersMatched
  BY Zenon DEF WireInv, AnswersMatched, Quiet

\* Nothing is sent or read.
LEMMA SilenceKeepsWire ==
    ASSUME WireInv, UNCHANGED <<conn, reqMu, call>>
    PROVE  WireInv'
  BY Zenon DEF WireInv, Quiet, Idle, AnswerID, RequestID

\* What was on the connection is lost.
LEMMA LossKeepsWire ==
    ASSUME WireInv, conn' = Offline, UNCHANGED <<reqMu, call>>
    PROVE  WireInv'
  BY Zenon DEF WireInv, Quiet, Offline, Idle

\* A thread that has the lock writes its request.
LEMMA RequestKeepsWire ==
    ASSUME WireInv, NEW t \in Thread, NEW c, c # NoCall, Request(t, c)
    PROVE  WireInv'
  <1>1. Quiet /\ conn.up /\ reqMu = "none" /\ reqMu' = t /\ call' = [call EXCEPT ![t] = c]
    BY Zenon DEF WireInv, Request
  <1>2. conn' = [up |-> conn.up, in |-> <<[from |-> t, call |-> c]>>, out |-> <<>>]
    <2>1. PICK f : f = [from |-> t, call |-> c]
      BY Zenon
    <2>2. conn' = [conn EXCEPT !.in = <<f>>]
      BY <1>1, <2>1 DEF Request, Quiet
    <2>3. conn' = [up |-> conn.up, in |-> <<f>>, out |-> conn.out]
      BY Zenon, <2>2 DEF WireInv
    <2>4. QED
      BY Zenon, <1>1, <2>1, <2>3 DEF Quiet
  <1>3. /\ call' = [u \in Thread |-> call'[u]] /\ call'[t] = c
        /\ \A u \in Thread \ {t} : call'[u] = call[u]
    BY Zenon, <1>1 DEF WireInv
  <1>4. \A u \in Thread : reqMu' = u <=> ~Idle(u)'
    BY Zenon, <1>1, <1>3 DEF WireInv, Idle, Thread
  <1>5. conn'.up = conn.up /\ conn'.in = <<[from |-> t, call |-> c]>> /\ conn'.out = <<>>
    BY Zenon, <1>2
  <1>6. conn' = [up |-> conn'.up, in |-> conn'.in, out |-> conn'.out]
    BY Zenon, <1>2, <1>5
  <1>7. conn'.in = <<[from |-> reqMu', call |-> call'[reqMu']]>>
    BY Zenon, <1>1, <1>3, <1>5
  <1>8. reqMu' \in Thread /\ reqMu' # "none" /\ conn'.up
    BY Zenon, <1>1, <1>5 DEF Thread
  <1>9. QED
    BY Zenon, <1>3, <1>4, <1>5, <1>6, <1>7, <1>8 DEF WireInv, Quiet

\* A thread stops waiting and gives the lock back, and the connection is quiet.
LEMMA ReturnKeepsWire ==
    ASSUME WireInv, NEW t \in Thread, ~Idle(t), reqMu' = "none", Done(t),
           conn' = [up |-> conn'.up, in |-> <<>>, out |-> <<>>]
    PROVE  WireInv'
  <1>1. reqMu = t /\ \A u \in Thread \ {t} : Idle(u)
    BY Zenon DEF WireInv
  <1>2. /\ call' = [u \in Thread |-> call'[u]] /\ call'[t] = NoCall
        /\ \A u \in Thread \ {t} : call'[u] = call[u]
    BY Zenon DEF WireInv, Done
  <1>3. \A u \in Thread : Idle(u)' /\ reqMu' # u
    BY Zenon, <1>1, <1>2 DEF Idle, Thread
  <1>4. conn'.in = <<>> /\ conn'.out = <<>>
    OBVIOUS
  <1>5. QED
    BY Zenon, <1>2, <1>3, <1>4 DEF WireInv, Quiet

\* The server answers what it reads.
LEMMA ServeKeepsWire ==
    ASSUME WireInv, Serve
    PROVE  WireInv'
  <1>1. UNCHANGED <<reqMu, call>> /\ conn.in # <<>> /\ \E ok, answer : Reply(ok, answer)
    BY Zenon DEF Serve
  <1>2. PICK ok, answer : Reply(ok, answer)
    BY Zenon, <1>1
  <1>3. /\ conn.up /\ conn.out = <<>> /\ reqMu \in Thread
        /\ conn.in = <<[from |-> reqMu, call |-> call[reqMu]]>>
    BY Zenon, <1>1 DEF WireInv, Quiet
  <1>4. PICK a : a = [from |-> reqMu, op |-> call[reqMu].op, h |-> call[reqMu].h,
                      ok |-> ok, answer |-> answer]
    BY Zenon
  <1>5. conn' = [conn EXCEPT !.in = <<>>, !.out = <<a>>]
    <2>1. Head(conn.in).from = reqMu /\ Head(conn.in).call = call[reqMu] /\ Tail(conn.in) = <<>>
      BY <1>3
    <2>2. Append(conn.out, a) = <<a>>
      BY <1>3
    <2>3. QED
      BY Zenon, <1>2, <1>4, <2>1, <2>2 DEF Reply
  <1>6. conn' = [up |-> conn.up, in |-> <<>>, out |-> <<a>>]
    BY Zenon, <1>5 DEF WireInv
  <1>7. AnswerID(a) = RequestID(reqMu)
    BY Zenon, <1>4 DEF AnswerID, RequestID
  <1>8. \A t \in Thread : reqMu' = t <=> ~Idle(t)'
    BY Zenon, <1>1 DEF WireInv, Idle
  <1>9. conn'.in = <<>> /\ conn'.out = <<a>> /\ conn'.out[1] = a /\ conn'.up = conn.up
    BY Zenon, <1>6
  <1>10. AnswerID(conn'.out[1]) = RequestID(reqMu)'
    BY Zenon, <1>1, <1>7, <1>9 DEF RequestID
  <1>11. QED
    BY Zenon, <1>1, <1>3, <1>6, <1>8, <1>9, <1>10 DEF WireInv, Quiet, AnswerID

\* Every operation of the program and of the heartbeat sends a real request.
LEMMA RequestsAsk ==
    ASSUME CreateSession \/ ResumeSession \/ RecoverHandles
              \/ (\E n \in Node, w \in BOOLEAN : Open(n, w))
              \/ (\E h \in Handles, op \in {"use", "delete", "keep", "close"} : Work(op, h))
              \/ (\E sid \in {SessionID, session} : Heartbeat(sid))
    PROVE  \E t \in Thread : \E c : c # NoCall /\ Request(t, c)
  <1>1. CASE CreateSession
    <2>1. [NoCall EXCEPT !.op = "create"] # NoCall
      BY Zenon DEF NoCall
    <2>2. QED
      BY Zenon, <1>1, <2>1 DEF CreateSession, Thread
  <1>2. CASE ResumeSession
    <2>1. [NoCall EXCEPT !.op = "resume", !.sid = session, !.prev = SessionID] # NoCall
      BY Zenon DEF NoCall
    <2>2. QED
      BY Zenon, <1>2, <2>1 DEF ResumeSession, Thread
  <1>3. CASE RecoverHandles
    <2>1. PICK s : s = carried \o recoverySnapshot
      BY Zenon
    <2>2. [NoCall EXCEPT !.op = "recover", !.sid = SessionID, !.specs = s] # NoCall
      BY Zenon DEF NoCall
    <2>3. QED
      BY Zenon, <1>3, <2>1, <2>2 DEF RecoverHandles, Thread
  <1>4. ASSUME NEW n \in Node, NEW w \in BOOLEAN, Open(n, w)
        PROVE  \E t \in Thread : \E c : c # NoCall /\ Request(t, c)
    <2>1. [NoCall EXCEPT !.op = "open", !.sid = SessionID, !.node = n, !.writable = w] # NoCall
      BY Zenon DEF NoCall
    <2>2. QED
      BY Zenon, <1>4, <2>1 DEF Open, Thread
  <1>5. ASSUME NEW h \in Handles, NEW op \in {"use", "delete", "keep", "close"}, Work(op, h)
        PROVE  \E t \in Thread : \E c : c # NoCall /\ Request(t, c)
    <2>1. [NoCall EXCEPT !.op = op, !.sid = SessionID, !.h = h] # NoCall
      BY Zenon DEF NoCall
    <2>2. QED
      BY Zenon, <1>5, <2>1 DEF Work, Thread
  <1>6. ASSUME NEW sid, Heartbeat(sid)
        PROVE  \E t \in Thread : \E c : c # NoCall /\ Request(t, c)
    <2>1. [NoCall EXCEPT !.op = "beat", !.sid = sid] # NoCall
      BY Zenon DEF NoCall
    <2>2. QED
      BY Zenon, <1>6, <2>1 DEF Heartbeat, Thread
  <1>7. QED
    BY Zenon, <1>1, <1>2, <1>3, <1>4, <1>5, <1>6

LEMMA WireNext == WireInv /\ [Next]_vars => WireInv'
  <1> SUFFICES ASSUME WireInv, [Next]_vars PROVE WireInv'
    BY Zenon
  <1>1. CASE UNCHANGED vars
    BY Zenon, <1>1, SilenceKeepsWire DEF vars
  <1>2. ASSUME NEW t \in Thread, NEW c, c # NoCall, Request(t, c) PROVE WireInv'
    BY Zenon, <1>2, RequestKeepsWire
  <1>3. CASE Connect
    <2>1. /\ conn' = [up |-> TRUE, in |-> <<>>, out |-> <<>>] /\ UNCHANGED <<reqMu, call>>
          /\ \A t \in Thread : Idle(t)
      BY Zenon, <1>3 DEF Connect, Offline
    <2>2. conn'.in = <<>> /\ conn'.out = <<>>
      BY Zenon, <2>1
    <2>3. \A t \in Thread : reqMu' = t <=> ~Idle(t)'
      BY Zenon, <2>1 DEF WireInv, Idle
    <2>4. QED
      BY Zenon, <2>1, <2>2, <2>3 DEF WireInv, Quiet
  <1>4. CASE Replace
    BY Zenon, <1>4, SilenceKeepsWire DEF Replace
  <1>5. ASSUME NEW t \in Thread, Receive(t) PROVE WireInv'
    <2>1. ~Idle(t) /\ conn.out # <<>> /\ reqMu' = "none" /\ Done(t)
      BY Zenon, <1>5 DEF Receive, Failed
    <2>2. conn.in = <<>> /\ conn.out = <<conn.out[1]>>
      BY Zenon, <2>1 DEF WireInv
    <2>3. PICK a : conn.out = <<a>>
      BY Zenon, <2>2
    <2>4. Tail(conn.out) = <<>>
      BY <2>3
    <2>5. conn' = [conn EXCEPT !.out = <<>>]
      BY Zenon, <1>5, <2>4 DEF Receive
    <2>6. conn' = [up |-> conn.up, in |-> <<>>, out |-> <<>>]
      BY Zenon, <2>2, <2>5 DEF WireInv
    <2>7. conn' = [up |-> conn'.up, in |-> <<>>, out |-> <<>>]
      BY Zenon, <2>6
    <2>8. QED
      BY Zenon, <2>1, <2>7, ReturnKeepsWire
  <1>6. ASSUME NEW t \in Thread, ReceiveFails(t) PROVE WireInv'
    <2>1. ~Idle(t) /\ ~conn.up /\ conn' = conn /\ reqMu' = "none" /\ Done(t)
      BY Zenon, <1>6 DEF ReceiveFails, Failed
    <2>2. conn' = [up |-> conn'.up, in |-> <<>>, out |-> <<>>]
      BY Zenon, <2>1 DEF WireInv, Quiet
    <2>3. QED
      BY Zenon, <2>1, <2>2, ReturnKeepsWire
  <1>7. CASE Serve
    BY Zenon, <1>7, ServeKeepsWire
  <1>8. CASE Lose
    BY Zenon, <1>8, LossKeepsWire DEF Lose
  <1>9. ASSUME NEW others \in 0..1, Restart(others) PROVE WireInv'
    BY Zenon, <1>9, LossKeepsWire DEF Restart
  <1>10. ASSUME NEW s \in sessions, Expire(s) PROVE WireInv'
    BY Zenon, <1>10, SilenceKeepsWire DEF Expire
  <1>11. QED
    BY Zenon, <1>1, <1>2, <1>3, <1>4, <1>5, <1>6, <1>7, <1>8, <1>9, <1>10, RequestsAsk DEF Next

\* However the two threads interleave, and whatever is lost in between, a thread
\* that waits never finds the answer to another request next on the connection
\* (rpc.go, request).
THEOREM AnswersAlwaysMatched == Spec => []AnswersMatched
  <1>1. Spec => Init /\ [][Next]_vars
    BY PTL DEF Spec
  <1>2. QED
    BY <1>1, WireInit, WireNext, WireMatches, PTL

-----------------------------------------------------------------------------
(* The handles the client tracks.                                          *)

\* What the client keeps of a handle, what it asks the server to recover, and
\* what the server has.
Entry == [node : Node, writable : BOOLEAN, del : BOOLEAN]
Recovery == [previous : Nat \ {0}, node : Node, writable : BOOLEAN, del : BOOLEAN]
Handle == [node : Node \cup {0}, writable : BOOLEAN, del : BOOLEAN, open : BOOLEAN, mine : BOOLEAN]

\* Specifications name each previous handle once.
Distinct(specs) == \A i, j \in DOMAIN specs : specs[i].previous = specs[j].previous => i = j

\* The tables have the shapes the code gives them, and a client object that
\* was handed specifications tracks nothing yet.
TablesOK ==
    /\ srv \in Seq(Handle)
    /\ IsFiniteSet(Handles) /\ Handles \subseteq Nat \ {0}
    /\ tracked \in [Handles -> Entry]
    /\ carried \in Seq(Recovery) /\ Distinct(carried)
    /\ carried # <<>> => Handles = {}
    /\ conn.up /\ stage = "work" => carried = <<>>

OnHandle == {"use", "delete", "keep", "close"}

\* What a thread waits for was asked in a state that has not changed since.
CallsOK ==
    /\ call["beat"].op \in {"none", "beat"} /\ call["beat"].h = 0
    /\ LET c == call["program"]
       IN  /\ c.op \in {"none", "create", "resume", "recover", "open"} \cup OnHandle
           /\ IF c.op \in OnHandle THEN c.h \in Handles ELSE c.h = 0
           /\ c.op = "open" => c.node \in Node /\ c.writable \in BOOLEAN /\ carried = <<>>
           /\ c.op = "recover" => c.specs = carried \o recoverySnapshot

\* The results of a recovery: one for each specification, in their order; the
\* handles in them are the client's, each on its own.
ResultsOK(results, specs) ==
    /\ results = [i \in DOMAIN specs |-> results[i]]
    /\ \A i \in DOMAIN specs :
         /\ results[i].spec = specs[i]
         /\ results[i].id # 0 => results[i].id \in DOMAIN srv /\ srv[results[i].id] = NewHandle(specs[i])
    /\ \A i, j \in DOMAIN specs : results[i].id # 0 /\ results[i].id = results[j].id => i = j

\* An answer on its way says what the server has done.
AnswerOK ==
    conn.out # <<>> /\ conn.out[1].ok =>
        LET a == conn.out[1]
            c == call["program"]
        IN  /\ a.op = "open" =>
                 /\ a.answer[1] \in DOMAIN srv
                 /\ srv[a.answer[1]] = NewHandle([node |-> c.node, writable |-> c.writable, del |-> FALSE])
            /\ a.op = "recover" => ResultsOK(a.answer, c.specs)
            /\ a.op = "close" => a.h \in DOMAIN srv /\ srv[a.h] = Closed

\* The answer on its way is that op was done to h.
Answered(op, h) == conn.out # <<>> /\ conn.out[1].ok /\ conn.out[1].op = op /\ conn.out[1].h = h

\* What is tracked of h is what the server has, once the answer that is on its
\* way has been read.
Truthful(h) ==
    /\ h \in DOMAIN srv /\ srv[h].open /\ srv[h].mine
    /\ tracked[h].node = srv[h].node
    /\ srv[h].del = IF Answered("delete", h) THEN TRUE
                    ELSE IF Answered("keep", h) THEN FALSE ELSE tracked[h].del
    /\ h \notin borrowed => tracked[h].writable = srv[h].writable

TruthInv ==
    ~stale /\ ~collided => \A h \in Handles \ unsure : Answered("close", h) \/ Truthful(h)

\* The inductive invariant behind the properties of handles.
HandlesInv == WireInv /\ TablesOK /\ CallsOK /\ AnswerOK /\ TruthInv /\ NoneForgotten

-----------------------------------------------------------------------------
(* The operators the model is built from.                                  *)

HasOrder(S) == \E s \in [1..Cardinality(S) -> S] : \A i, j \in 1..Cardinality(S) : i < j => s[i] < s[j]

\* A set of numbers that is not empty has a least member.
LEMMA LeastMember ==
    ASSUME NEW S, S \subseteq Nat, S # {}
    PROVE  \E e \in S : \A x \in S : e <= x
  <1>1. PICK e \in S : \A m \in S : ~(<<m, e>> \in OpToRel(<, Nat))
    BY Zenon, WFMin, NatLessThanWellFounded
  <1>2. ASSUME NEW x \in S PROVE e <= x
    <2>1. x \in Nat /\ e \in Nat /\ ~(x < e)
      BY Zenon, <1>1 DEF OpToRel
    <2>2. QED
      BY <2>1
  <1>3. QED
    BY Zenon, <1>2

\* Every finite set of numbers can be put in order.
LEMMA OrderExists ==
    ASSUME NEW S, S \subseteq Nat, IsFiniteSet(S)
    PROVE  HasOrder(S)
  <1> DEFINE Bad == {n \in Nat : \E T : /\ T \subseteq Nat /\ IsFiniteSet(T) /\ Cardinality(T) = n
                                        /\ ~HasOrder(T)}
  <1>1. SUFFICES Bad = {}
    BY Zenon, <1>1, FS_CardinalityType
  <1>2. SUFFICES ASSUME Bad # {} PROVE FALSE
    BY Zenon, <1>2
  <1>3. PICK n \in Bad : \A m \in Bad : n <= m
    BY Zenon, <1>2, LeastMember
  <1>4. PICK T : T \subseteq Nat /\ IsFiniteSet(T) /\ Cardinality(T) = n /\ ~HasOrder(T)
    BY Zenon, <1>3
  <1>5. n # 0
    <2>1. SUFFICES ASSUME n = 0 PROVE HasOrder(T)
      BY Zenon, <1>4, <2>1
    <2>2. 1..Cardinality(T) = {}
      BY <1>4, <2>1
    <2>3. [i \in {} |-> 0] \in [{} -> T]
      BY Zenon
    <2>4. QED
      BY Zenon, <2>2, <2>3 DEF HasOrder
  <1>6. T # {}
    BY Zenon, <1>4, <1>5, FS_EmptySet
  <1>7. PICK e \in T : \A x \in T : e <= x
    BY Zenon, <1>4, <1>6, LeastMember
  <1> DEFINE U == T \ {e}
  <1>8. IsFiniteSet(U) /\ Cardinality(U) = n - 1 /\ U \subseteq Nat
    BY Zenon, <1>4, <1>7, FS_RemoveElement
  <1>9. HasOrder(U)
    <2>1. n - 1 \in Nat /\ ~(n <= n - 1)
      BY <1>5
    <2> HIDE DEF U
    <2>2. QED
      BY Zenon, <1>3, <1>8, <2>1
  <1>10. PICK s \in [1..(n - 1) -> U] : \A i, j \in 1..(n - 1) : i < j => s[i] < s[j]
    BY Zenon, <1>8, <1>9 DEF HasOrder
  <1> DEFINE q == [i \in 1..n |-> IF i = 1 THEN e ELSE s[i - 1]]
  <1>11. \A i \in 1..n : i # 1 => i - 1 \in 1..(n - 1) /\ s[i - 1] \in U
    BY <1>10
  <1>12. q \in [1..n -> T]
    BY Zenon, <1>7, <1>11
  <1>13. ASSUME NEW i \in 1..n, NEW j \in 1..n, i < j PROVE q[i] < q[j]
    <2>1. j # 1 /\ j - 1 \in 1..(n - 1) /\ s[j - 1] \in U /\ q[j] = s[j - 1]
      BY <1>11, <1>13
    <2>2. q[j] \in T /\ q[j] # e /\ q[j] \in Nat /\ e \in Nat
      BY Zenon, <1>4, <1>7, <2>1
    <2>3. CASE i = 1
      BY <1>7, <2>3, <2>2
    <2>4. CASE i # 1
      BY <1>10, <1>11, <1>13, <2>1, <2>4
    <2>5. QED
      BY Zenon, <2>3, <2>4
  <1>14. HasOrder(T)
    <2> HIDE DEF q
    <2>1. QED
      BY Zenon, <1>4, <1>12, <1>13 DEF HasOrder
  <1>15. QED
    BY Zenon, <1>4, <1>14

\* InOrder lists each member once.
LEMMA InOrderFacts ==
    ASSUME NEW S, S \subseteq Nat, IsFiniteSet(S)
    PROVE  /\ Cardinality(S) \in Nat
           /\ InOrder(S) \in [1..Cardinality(S) -> S]
           /\ \A i, j \in 1..Cardinality(S) : InOrder(S)[i] = InOrder(S)[j] => i = j
           /\ \A x \in S : \E i \in 1..Cardinality(S) : InOrder(S)[i] = x
  <1> DEFINE n == Cardinality(S)
             s == InOrder(S)
  <1>1. n \in Nat
    BY Zenon, FS_CardinalityType
  <1>2. s \in [1..n -> S] /\ \A i, j \in 1..n : i < j => s[i] < s[j]
    BY Zenon, OrderExists DEF HasOrder, InOrder
  <1> HIDE DEF s
  <1>3. \A i \in 1..n : s[i] \in Nat
    BY Zenon, <1>2
  <1>4. ASSUME NEW i \in 1..n, NEW j \in 1..n, s[i] = s[j] PROVE i = j
    BY <1>1, <1>2, <1>3, <1>4
  <1>5. s \in Injection(1..n, S)
    BY Zenon, <1>2, <1>4 DEF Injection, IsInjective
  <1>6. Cardinality(1..n) = n
    BY <1>1, FS_Interval
  <1>7. s \in Surjection(1..n, S)
    BY Zenon, <1>5, <1>6, FS_Injection
  <1>8. \A x \in S : \E i \in 1..n : s[i] = x
    BY Zenon, <1>7 DEF Surjection
  <1>9. QED
    BY Zenon, <1>1, <1>2, <1>4, <1>8 DEF s

\* recoverySnapshot has one specification for each tracked handle.
LEMMA SnapshotFacts ==
    ASSUME TablesOK
    PROVE  /\ recoverySnapshot \in Seq(Recovery) /\ Distinct(recoverySnapshot)
           /\ \A i \in DOMAIN recoverySnapshot :
                LET s == recoverySnapshot[i] IN
                /\ s.previous \in Handles
                /\ s.node = tracked[s.previous].node /\ s.writable = tracked[s.previous].writable
                /\ s.del = tracked[s.previous].del
           /\ \A h \in Handles : \E i \in DOMAIN recoverySnapshot : recoverySnapshot[i].previous = h
           /\ Handles = {} => recoverySnapshot = <<>>
  <1> DEFINE n == Cardinality(Handles)
             s == InOrder(Handles)
             Spec1(h) == [previous |-> h, node |-> tracked[h].node, writable |-> tracked[h].writable,
                          del |-> tracked[h].del]
  <1>1. /\ n \in Nat /\ s \in [1..n -> Handles]
        /\ \A i, j \in 1..n : s[i] = s[j] => i = j
        /\ \A x \in Handles : \E i \in 1..n : s[i] = x
    BY Zenon, InOrderFacts DEF TablesOK
  <1>2. recoverySnapshot = [i \in 1..n |-> Spec1(s[i])]
    BY Zenon DEF recoverySnapshot
  <1>3. Handles = {} => n = 0
    BY Zenon, FS_EmptySet
  <1>4. \A h \in Handles : Spec1(h) \in Recovery
    BY Zenon DEF TablesOK, Entry, Recovery
  <1>5. \A h : /\ Spec1(h).previous = h /\ Spec1(h).node = tracked[h].node
               /\ Spec1(h).writable = tracked[h].writable /\ Spec1(h).del = tracked[h].del
    BY Zenon
  <1> HIDE DEF n, s, Spec1
  <1>6. \A i \in 1..n : s[i] \in Handles /\ recoverySnapshot[i] = Spec1(s[i])
    BY Zenon, <1>1, <1>2
  <1>7. recoverySnapshot \in Seq(Recovery) /\ DOMAIN recoverySnapshot = 1..n
    <2>1. recoverySnapshot \in [1..n -> Recovery]
      BY Zenon, <1>2, <1>4, <1>6
    <2>2. QED
      BY <1>1, <2>1, IsASeq
  <1>8. recoverySnapshot = <<>> \/ Handles # {}
    BY <1>3, <1>7, EmptySeq
  <1>9. \A i \in 1..n : LET u == recoverySnapshot[i] IN
           /\ s[i] \in Handles /\ u.previous = s[i] /\ u.node = tracked[s[i]].node
           /\ u.writable = tracked[s[i]].writable /\ u.del = tracked[s[i]].del
    BY Zenon, <1>6, <1>5
  <1>10. Distinct(recoverySnapshot)
    BY <1>1, <1>6, <1>7, <1>5 DEF Distinct
  <1>11. \A i \in DOMAIN recoverySnapshot :
                LET u == recoverySnapshot[i] IN
                /\ u.previous \in Handles
                /\ u.node = tracked[u.previous].node /\ u.writable = tracked[u.previous].writable
                /\ u.del = tracked[u.previous].del
    BY Zenon, <1>7, <1>9
  <1>12. \A h \in Handles : \E i \in DOMAIN recoverySnapshot : recoverySnapshot[i].previous = h
    BY <1>1, <1>7, <1>9
  <1>13. QED
    BY Zenon, <1>7, <1>8, <1>10, <1>11, <1>12

\* Specifications that name each handle once, and the tracked ones as they are.
SpecsOK(specs) ==
    /\ specs \in Seq(Recovery) /\ Distinct(specs)
    /\ \A h \in Handles : \E i \in DOMAIN specs : specs[i].previous = h
    /\ \A i \in DOMAIN carried : \E j \in DOMAIN specs : specs[j].previous = carried[i].previous
    /\ \A i \in DOMAIN specs : LET s == specs[i] IN
         s.previous \in Handles => /\ s.node = tracked[s.previous].node
                                   /\ s.writable = tracked[s.previous].writable
                                   /\ s.del = tracked[s.previous].del

\* What is asked to be recovered: every handle that is tracked or was handed on,
\* once, and those that are tracked as they are tracked.
LEMMA SpecsFacts ==
    ASSUME TablesOK, NEW specs, specs = carried \o recoverySnapshot
    PROVE  SpecsOK(specs)
  <1>1. carried \in Seq(Recovery) /\ Distinct(carried) /\ (carried # <<>> => Handles = {})
    BY Zenon DEF TablesOK
  <1>2. CASE carried = <<>>
    <2>1. specs = recoverySnapshot
      BY <1>2, SnapshotFacts
    <2>2. DOMAIN carried = {}
      BY <1>2
    <2>3. QED
      BY Zenon, <2>1, <2>2, SnapshotFacts DEF SpecsOK
  <1>3. CASE carried # <<>>
    <2>1. specs = carried /\ Handles = {}
      BY <1>1, <1>3, SnapshotFacts
    <2>2. QED
      BY Zenon, <1>1, <2>1 DEF SpecsOK
  <1>4. QED
    BY Zenon, <1>2, <1>3

\* The server has added a handle of its own for each result but the failed ones.
Adds(specs, results) ==
    /\ srv' \in Seq(Handle) /\ DOMAIN srv \subseteq DOMAIN srv'
    /\ \A h \in DOMAIN srv : srv'[h] = srv[h]
    /\ ResultsOK(results, specs)'
    /\ \A h \in DOMAIN srv' \ DOMAIN srv : \E i \in DOMAIN specs : results[i].id = h

\* What the server does to recover specs but for those in gone.
LEMMA RecoveredFacts ==
    ASSUME srv \in Seq(Handle), NEW specs, specs \in Seq(Recovery), NEW gone \in SUBSET DOMAIN specs,
           NEW results, results = Recovered(specs, gone).results,
           srv' = srv \o Recovered(specs, gone).handles
    PROVE  Adds(specs, results)
  <1> DEFINE S == DOMAIN specs \ gone
             n == Cardinality(S)
             kept == InOrder(S)
             handles == Recovered(specs, gone).handles
             Place(i) == CHOOSE k \in DOMAIN kept : kept[k] = i
  <1>1. DOMAIN specs = 1..Len(specs) /\ Len(specs) \in Nat /\ \A i \in DOMAIN specs : specs[i] \in Recovery
    BY Zenon, ElementOfSeq, LenProperties
  <1>2. S \subseteq Nat /\ IsFiniteSet(S) /\ S \subseteq DOMAIN specs
    <2>1. S \subseteq 1..Len(specs) /\ S \subseteq DOMAIN specs
      BY Zenon, <1>1
    <2>2. IsFiniteSet(1..Len(specs))
      BY <1>1, FS_Interval
    <2> HIDE DEF S
    <2>3. QED
      BY <1>1, <2>1, <2>2, FS_Subset
  <1> HIDE DEF S
  <1>3. /\ n \in Nat /\ kept \in [1..n -> S]
        /\ \A i, j \in 1..n : kept[i] = kept[j] => i = j
        /\ \A x \in S : \E i \in 1..n : kept[i] = x
    BY Zenon, <1>2, InOrderFacts
  <1>4. handles = [k \in 1..n |-> NewHandle(specs[kept[k]])]
    <2>1. DOMAIN kept = 1..n
      BY Zenon, <1>3
    <2>2. handles = [k \in DOMAIN kept |-> NewHandle(specs[kept[k]])]
      BY Zenon DEF Recovered, S
    <2>3. QED
      BY Zenon, <2>1, <2>2
  <1>5. \A i \in DOMAIN specs : NewHandle(specs[i]) \in Handle
    BY Zenon, <1>1 DEF NewHandle, Handle, Recovery
  <1>6. handles \in Seq(Handle) /\ Len(handles) = n
    <2>1. \A k \in 1..n : NewHandle(specs[kept[k]]) \in Handle
      BY Zenon, <1>2, <1>3, <1>5
    <2>2. handles \in [1..n -> Handle]
      BY Zenon, <1>4, <2>1
    <2> HIDE DEF handles
    <2>3. DOMAIN handles = 1..n /\ \A k \in 1..n : handles[k] \in Handle
      BY Zenon, <2>2
    <2>4. handles = [k \in 1..n |-> handles[k]]
      BY Zenon, <2>2
    <2> HIDE DEF n
    <2>5. handles \in Seq(Handle) /\ DOMAIN handles = 1..n
      <3>1. [k \in 1..n |-> handles[k]] \in Seq(Handle)
        BY <1>3, <2>3, IsASeq
      <3>2. QED
        BY Zenon, <2>3, <2>4, <3>1
    <2>6. QED
      BY <1>3, <2>5, LenProperties
  <1>7. results = [i \in DOMAIN specs |->
                     [spec |-> specs[i], id |-> IF i \in gone THEN 0 ELSE Len(srv) + Place(i)]]
    BY Zenon DEF Recovered, S
  <1>8. \A i \in S : Place(i) \in 1..n /\ kept[Place(i)] = i
    <2>1. DOMAIN kept = 1..n
      BY Zenon, <1>3
    <2>2. QED
      BY Zenon, <1>3, <2>1
  <1> HIDE DEF kept, n, handles, Place
  <1>9. /\ Len(srv) \in Nat /\ DOMAIN srv = 1..Len(srv) /\ DOMAIN srv' = 1..(Len(srv) + n)
        /\ srv' \in Seq(Handle)
        /\ \A h \in 1..Len(srv) : srv'[h] = srv[h]
        /\ \A k \in 1..n : srv'[Len(srv) + k] = handles[k]
    <2>1. srv' = srv \o handles
      BY Zenon DEF handles
    <2>2. Len(srv) \in Nat /\ DOMAIN srv = 1..Len(srv)
      BY Zenon, LenProperties
    <2>3. srv' \in Seq(Handle) /\ Len(srv') = Len(srv) + n
      BY Zenon, <1>6, <2>1, ConcatProperties
    <2>4. \A k \in 1..(Len(srv) + n) : srv'[k] = IF k <= Len(srv) THEN srv[k] ELSE handles[k - Len(srv)]
      BY <1>6, <2>1, ConcatProperties
    <2>5. DOMAIN srv' = 1..(Len(srv) + n)
      BY Zenon, <2>3, LenProperties
    <2>6. PICK m \in Nat : m = Len(srv)
      BY Zenon, <2>2
    <2>7. /\ \A h \in 1..m : h \in 1..(m + n) /\ h <= m
          /\ \A k \in 1..n : m + k \in 1..(m + n) /\ ~(m + k <= m) /\ (m + k) - m = k
      BY <1>3
    <2>8. \A h \in 1..Len(srv) : srv'[h] = srv[h]
      BY Zenon, <2>4, <2>6, <2>7
    <2>9. ASSUME NEW k \in 1..n PROVE srv'[Len(srv) + k] = handles[k]
      <3>1. m + k \in 1..(m + n) /\ ~(m + k <= m) /\ (m + k) - m = k
        BY Zenon, <2>7
      <3>2. QED
        BY Zenon, <2>4, <2>6, <3>1
    <2>10. QED
      BY Zenon, <2>2, <2>3, <2>5, <2>8, <2>9
  <1>10. ASSUME NEW i \in DOMAIN specs
         PROVE  /\ results[i].spec = specs[i]
                /\ i \in gone => results[i].id = 0
                /\ i \notin gone => i \in S /\ Place(i) \in 1..n /\ kept[Place(i)] = i
                                    /\ results[i].id = Len(srv) + Place(i)
    BY <1>7, <1>8 DEF S
  <1>11. ASSUME NEW i \in DOMAIN specs, results[i].id # 0
         PROVE  results[i].id \in DOMAIN srv' /\ srv'[results[i].id] = NewHandle(specs[i])
    <2>1. results[i].id = Len(srv) + Place(i) /\ Place(i) \in 1..n /\ kept[Place(i)] = i
      BY Zenon, <1>10, <1>11
    <2>2. srv'[results[i].id] = handles[Place(i)]
      BY Zenon, <1>9, <2>1
    <2>3. handles[Place(i)] = NewHandle(specs[kept[Place(i)]])
      BY Zenon, <1>4, <2>1
    <2>4. results[i].id \in 1..(Len(srv) + n)
      BY SMTT(30), <1>3, <1>9, <2>1
    <2>5. QED
      BY Zenon, <1>9, <2>1, <2>2, <2>3, <2>4
  <1>12. ASSUME NEW i \in DOMAIN specs, NEW j \in DOMAIN specs, results[i].id # 0,
                results[i].id = results[j].id
         PROVE  i = j
    <2>1. Place(i) = Place(j) /\ kept[Place(i)] = i /\ kept[Place(j)] = j
      BY SMTT(30), <1>3, <1>9, <1>10, <1>12
    <2>2. QED
      BY Zenon, <2>1
  <1>13. results = [i \in DOMAIN specs |-> results[i]]
    BY Zenon, <1>7
  <1>14. ResultsOK(results, specs)'
    BY Zenon, <1>10, <1>11, <1>12, <1>13 DEF ResultsOK
  <1>15. ASSUME NEW h \in DOMAIN srv' \ DOMAIN srv PROVE \E i \in DOMAIN specs : results[i].id = h
    <2>1. h - Len(srv) \in 1..n
      BY SMTT(30), <1>3, <1>9
    <2>2. PICK k \in 1..n : k = h - Len(srv)
      BY Zenon, <2>1
    <2>3. h = Len(srv) + k
      BY SMTT(30), <1>3, <1>9, <2>2
    <2>4. kept[k] \in S /\ Place(kept[k]) = k
      <3>1. kept[k] \in S
        BY Zenon, <1>3
      <3>2. QED
        BY Zenon, <1>3, <1>8, <3>1
    <2>5. kept[k] \in DOMAIN specs /\ kept[k] \notin gone
      BY Zenon, <1>2, <2>4 DEF S
    <2>6. results[kept[k]].id = h
      BY Zenon, <1>10, <2>4, <2>5, <2>3
    <2>7. QED
      BY Zenon, <2>5, <2>6
  <1>16. DOMAIN srv \subseteq DOMAIN srv'
    BY <1>3, <1>9
  <1>17. QED
    BY Zenon, <1>9, <1>14, <1>15, <1>16 DEF Adds, ResultsOK

-----------------------------------------------------------------------------
(* applyRecoveredHandles.                                                  *)

\* g has the tables there may be after each of the results.
Unfolds(g, results) ==
    /\ g[0] = {tracked}
    /\ \A i \in 1..Len(results) : g[i] = UNION {OneRecovered(old, results[i]) : old \in g[i - 1]}

LEMMA ApplyUnfolds ==
    ASSUME NEW results, Len(results) \in Nat
    PROVE  \E g : Unfolds(g, results) /\ applyRecoveredHandles(results) = g[Len(results)]
  <1> DEFINE n == Len(results)
             After(i, T) == UNION {OneRecovered(old, results[i]) : old \in T}
             IsFold(g, k) == g = [i \in 0..k |-> IF i = 0 THEN {tracked} ELSE After(i, g[i - 1])]
             Bad == {k \in Nat : ~\E g : IsFold(g, k)}
  <1>1. applyRecoveredHandles(results) = (CHOOSE g : IsFold(g, n))[n]
    BY Zenon DEF applyRecoveredHandles
  <1> HIDE DEF After
  <1>2. Bad = {}
    <2>1. SUFFICES ASSUME Bad # {} PROVE FALSE
      BY Zenon, <2>1
    <2>2. PICK k \in Bad : \A m \in Bad : k <= m
      BY Zenon, <2>1, LeastMember
    <2>3. k # 0
      <3>1. IsFold([i \in 0..0 |-> {tracked}], 0)
        OBVIOUS
      <3> HIDE DEF IsFold
      <3>2. QED
        BY Zenon, <2>2, <3>1
    <2>4. k - 1 \in Nat /\ ~(k <= k - 1)
      BY <2>2, <2>3
    <2>5. PICK f : IsFold(f, k - 1)
      BY Zenon, <2>2, <2>4
    <2> DEFINE g == [i \in 0..k |-> IF i = k THEN After(k, f[k - 1]) ELSE f[i]]
    <2>6. \A i \in 0..(k - 1) : f[i] = IF i = 0 THEN {tracked} ELSE After(i, f[i - 1])
      BY Zenon, <2>5
    <2>7. \A i \in 0..k : g[i] = IF i = 0 THEN {tracked} ELSE After(i, g[i - 1])
      <3>1. SUFFICES ASSUME NEW i \in 0..k
                     PROVE  g[i] = IF i = 0 THEN {tracked} ELSE After(i, g[i - 1])
        BY Zenon
      <3>2. CASE i = 0
        <4>1. 0 \in 0..(k - 1) /\ i # k
          BY <2>2, <2>3, <3>2
        <4>2. QED
          BY Zenon, <2>6, <3>2, <4>1
      <3>3. CASE i = k
        <4>1. k - 1 \in 0..k /\ k - 1 # k
          BY <2>2, <2>3
        <4>2. g[k - 1] = f[k - 1]
          BY Zenon, <4>1
        <4>3. QED
          BY Zenon, <2>3, <3>3, <4>2
      <3>4. CASE i # 0 /\ i # k
        <4>1. i - 1 \in 0..k /\ i - 1 # k /\ i \in 0..(k - 1)
          BY <2>2, <3>4
        <4>2. g[i - 1] = f[i - 1] /\ g[i] = f[i]
          BY Zenon, <3>4, <4>1
        <4>3. QED
          BY Zenon, <2>6, <3>4, <4>1, <4>2
      <3>5. QED
        BY Zenon, <3>2, <3>3, <3>4
    <2>8. g = [i \in 0..k |-> g[i]]
      BY Zenon
    <2> HIDE DEF g
    <2>9. IsFold(g, k)
      BY Zenon, <2>7, <2>8
    <2>10. QED
      BY Zenon, <2>2, <2>9
  <1>3. \E g : IsFold(g, n)
    <2> HIDE DEF IsFold
    <2>1. QED
      BY Zenon, <1>2
  <1>4. PICK g : g = (CHOOSE f : IsFold(f, n)) /\ IsFold(g, n)
    BY Zenon, <1>3
  <1>5. g[0] = {tracked} /\ \A i \in 1..n : g[i] = After(i, g[i - 1])
    <2>1. \A i \in 0..n : g[i] = IF i = 0 THEN {tracked} ELSE After(i, g[i - 1])
      BY Zenon, <1>4
    <2>2. 0 \in 0..n /\ \A i \in 1..n : i \in 0..n /\ i # 0
      OBVIOUS
    <2>3. QED
      BY Zenon, <2>1, <2>2
  <1> HIDE DEF IsFold
  <1>6. applyRecoveredHandles(results) = g[n]
    BY Zenon, <1>1, <1>4
  <1>7. \A i \in 1..n : g[i] = UNION {OneRecovered(old, results[i]) : old \in g[i - 1]}
    BY Zenon, <1>5 DEF After
  <1>8. QED
    BY Zenon, <1>5, <1>6, <1>7 DEF Unfolds

\* What one result does to a table.
Replaces(table, r, new) ==
    LET p == r.spec.previous
    IN  /\ DOMAIN new = (DOMAIN table \ {p}) \cup (IF r.id = 0 THEN {} ELSE {r.id})
        /\ new \in [DOMAIN new -> Entry]
        /\ \A h \in DOMAIN new : r.id = 0 \/ h # r.id => new[h] = table[h]
        /\ r.id # 0 =>
             /\ new[r.id].node = r.spec.node
             /\ new[r.id].del = (r.spec.del \/ (p \in DOMAIN table /\ table[p].del))
             /\ p \in DOMAIN table => new[r.id].writable = table[p].writable

LEMMA OneRecoveredFacts ==
    ASSUME NEW table, table \in [DOMAIN table -> Entry], NEW r, r.spec \in Recovery,
           NEW new \in OneRecovered(table, r)
    PROVE  Replaces(table, r, new)
  <1> DEFINE p == r.spec.previous
             had == p \in DOMAIN table
             rest == Less(table, {p})
             del == r.spec.del \/ (had /\ table[p].del)
             Line(w) == [node |-> r.spec.node, writable |-> w, del |-> del]
             modes == IF had THEN {table[p].writable} ELSE lookupRecoveredWritable(r.spec.node, rest)
  <1>1. rest = [h \in DOMAIN table \ {p} |-> table[h]]
    BY Zenon DEF Less
  <1>2. DOMAIN rest = DOMAIN table \ {p} /\ \A h \in DOMAIN rest : rest[h] = table[h] /\ rest[h] \in Entry
    BY Zenon, <1>1
  <1>3. CASE r.id = 0
    <2>1. new = rest
      BY Zenon, <1>3 DEF OneRecovered
    <2>2. QED
      BY Zenon, <1>1, <1>2, <1>3, <2>1 DEF Replaces
  <1>4. CASE r.id # 0
    <2>1. PICK w \in modes : new = With(rest, r.id, Line(w))
      <3>1. new \in {With(rest, r.id, Line(w)) : w \in modes}
        BY Zenon, <1>4 DEF OneRecovered
      <3> HIDE DEF modes, Line
      <3>2. QED
        BY Zenon, <3>1
    <2>2. modes \subseteq BOOLEAN /\ (had => w = table[p].writable)
      <3>1. CASE had
        BY Zenon, <2>1, <3>1 DEF Entry
      <3>2. CASE ~had
        <4>1. \A g \in DOMAIN rest : rest[g].writable \in BOOLEAN
          BY Zenon, <1>2 DEF Entry
        <4>2. modes = lookupRecoveredWritable(r.spec.node, rest)
          BY Zenon, <3>2
        <4>3. lookupRecoveredWritable(r.spec.node, rest) \subseteq BOOLEAN
          BY Zenon, <4>1 DEF lookupRecoveredWritable
        <4>4. QED
          BY Zenon, <3>2, <4>2, <4>3
      <3>3. QED
        BY Zenon, <3>1, <3>2
    <2>3. del \in BOOLEAN
      BY Zenon
    <2>4. w \in BOOLEAN /\ r.spec.node \in Node
      BY Zenon, <2>1, <2>2 DEF Recovery
    <2> HIDE DEF del, modes
    <2>5. Line(w) \in Entry /\ Line(w).node = r.spec.node /\ Line(w).writable = w /\ Line(w).del = del
      BY Zenon, <2>3, <2>4 DEF Entry
    <2> HIDE DEF Line, rest
    <2>6. new = [h \in DOMAIN rest \cup {r.id} |-> IF h = r.id THEN Line(w) ELSE rest[h]]
      BY Zenon, <2>1 DEF With
    <2>7. DOMAIN new = DOMAIN rest \cup {r.id} /\ new[r.id] = Line(w)
          /\ \A h \in DOMAIN new : h # r.id => new[h] = rest[h] /\ h \in DOMAIN rest
      BY Zenon, <2>6
    <2>8. new \in [DOMAIN new -> Entry]
      BY Zenon, <1>2, <2>5, <2>6, <2>7
    <2>9. new[r.id].node = r.spec.node /\ new[r.id].del = del /\ (had => new[r.id].writable = table[p].writable)
      BY Zenon, <2>2, <2>5, <2>7
    <2>10. DOMAIN new = (DOMAIN table \ {p}) \cup {r.id}
      BY Zenon, <1>2, <2>7
    <2>11. \A h \in DOMAIN new : h # r.id => new[h] = table[h]
      BY Zenon, <1>2, <2>7
    <2>12. QED
      BY Zenon, <1>4, <2>8, <2>9, <2>10, <2>11 DEF del, Replaces
  <1>5. QED
    BY Zenon, <1>3, <1>4

\* After the first i results: what the table has was tracked and not replaced, or
\* was recovered; a recovered handle is there unless it took the id of one that
\* was replaced after it; and if none did, it is there as it was asked for.
Replayed(results, i, table) ==
    LET P(k) == results[k].spec.previous
        id(k) == results[k].id
    IN  /\ table \in [DOMAIN table -> Entry]
        /\ \A h \in DOMAIN table : \/ h \in Handles /\ \A k \in 1..i : P(k) # h
                                   \/ \E k \in 1..i : id(k) = h /\ h # 0
        /\ \A k \in 1..i : id(k) # 0 => id(k) \in DOMAIN table \/ \E j \in 1..i : P(j) = id(k)
        /\ ~Collides(results) => \A k \in 1..i : id(k) # 0 =>
             /\ id(k) \in DOMAIN table
             /\ table[id(k)].node = results[k].spec.node /\ table[id(k)].del = results[k].spec.del
             /\ P(k) \in Handles => table[id(k)].writable = results[k].spec.writable
        /\ ~Collides(results) => \A k \in (i + 1)..Len(results) :
             /\ P(k) \in DOMAIN table <=> P(k) \in Handles
             /\ P(k) \in Handles => table[P(k)] = tracked[P(k)]

\* The results of a recovery of specifications that agree with what is tracked.
Replayable(results) ==
    /\ Len(results) \in Nat /\ DOMAIN results = 1..Len(results)
    /\ \A i \in DOMAIN results : results[i].spec \in Recovery
    /\ \A i, j \in DOMAIN results : results[i].spec.previous = results[j].spec.previous => i = j
    /\ \A i, j \in DOMAIN results : results[i].id # 0 /\ results[i].id = results[j].id => i = j
    /\ \A i \in DOMAIN results : LET s == results[i].spec IN
         s.previous \in Handles =>
             s.writable = tracked[s.previous].writable /\ s.del = tracked[s.previous].del

LEMMA ReplayStep ==
    ASSUME NEW results, Replayable(results), NEW i \in 1..Len(results),
           NEW table, Replayed(results, i - 1, table),
           NEW new \in OneRecovered(table, results[i])
    PROVE  Replayed(results, i, new)
  <1> DEFINE n == Len(results)
             P(k) == results[k].spec.previous
             id(k) == results[k].id
             r == results[i]
  <1>1. /\ n \in Nat /\ DOMAIN results = 1..n /\ r.spec \in Recovery
        /\ \A j, k \in 1..n : P(j) = P(k) => j = k
        /\ \A j, k \in 1..n : id(j) # 0 /\ id(j) = id(k) => j = k
        /\ P(i) \in Handles => r.spec.writable = tracked[P(i)].writable /\ r.spec.del = tracked[P(i)].del
    BY Zenon DEF Replayable
  <1>2. /\ table \in [DOMAIN table -> Entry]
        /\ \A h \in DOMAIN table : \/ h \in Handles /\ \A k \in 1..(i - 1) : P(k) # h
                                   \/ \E k \in 1..(i - 1) : id(k) = h /\ h # 0
        /\ \A k \in 1..(i - 1) : id(k) # 0 => id(k) \in DOMAIN table \/ \E j \in 1..(i - 1) : P(j) = id(k)
        /\ ~Collides(results) => \A k \in 1..(i - 1) : id(k) # 0 =>
             /\ id(k) \in DOMAIN table
             /\ table[id(k)].node = results[k].spec.node /\ table[id(k)].del = results[k].spec.del
             /\ P(k) \in Handles => table[id(k)].writable = results[k].spec.writable
        /\ ~Collides(results) => \A k \in i..n :
             /\ P(k) \in DOMAIN table <=> P(k) \in Handles
             /\ P(k) \in Handles => table[P(k)] = tracked[P(k)]
    <2>1. (i - 1) + 1 = i
      OBVIOUS
    <2>2. QED
      BY Zenon, <2>1 DEF Replayed
  <1>3. /\ DOMAIN new = (DOMAIN table \ {P(i)}) \cup (IF id(i) = 0 THEN {} ELSE {id(i)})
        /\ new \in [DOMAIN new -> Entry]
        /\ \A h \in DOMAIN new : id(i) = 0 \/ h # id(i) => new[h] = table[h]
        /\ id(i) # 0 =>
             /\ new[id(i)].node = r.spec.node
             /\ new[id(i)].del = (r.spec.del \/ (P(i) \in DOMAIN table /\ table[P(i)].del))
             /\ P(i) \in DOMAIN table => new[id(i)].writable = table[P(i)].writable
    <2>1. table \in [DOMAIN table -> Entry] /\ r.spec \in Recovery /\ new \in OneRecovered(table, r)
      BY Zenon, <1>1, <1>2
    <2>2. Replaces(table, r, new)
      BY Zenon, <2>1, OneRecoveredFacts
    <2>3. QED
      BY Zenon, <2>2 DEF Replaces
  <1>4. ~Collides(results) => \A j, k \in 1..n : j < k /\ id(j) # 0 => id(j) # P(k)
    BY Zenon, <1>1 DEF Collides
  <1>5. ~Collides(results) /\ id(i) # 0 =>
          /\ new[id(i)].del = r.spec.del
          /\ P(i) \in Handles => new[id(i)].writable = r.spec.writable
    <2>1. SUFFICES ASSUME ~Collides(results), id(i) # 0
                   PROVE  /\ new[id(i)].del = r.spec.del
                          /\ P(i) \in Handles => new[id(i)].writable = r.spec.writable
      BY Zenon, <2>1
    <2>2. (P(i) \in DOMAIN table <=> P(i) \in Handles) /\ (P(i) \in Handles => table[P(i)] = tracked[P(i)])
      BY SMTT(30), <1>2, <2>1
    <2>3. r.spec.del \in BOOLEAN
      BY Zenon, <1>1 DEF Recovery
    <2>4. CASE P(i) \in Handles
      <3>1. table[P(i)].del = r.spec.del /\ table[P(i)].writable = r.spec.writable /\ P(i) \in DOMAIN table
        BY Zenon, <1>1, <2>2, <2>4
      <3>2. new[id(i)].del = (r.spec.del \/ (P(i) \in DOMAIN table /\ r.spec.del))
        BY Zenon, <1>3, <2>1, <3>1
      <3>3. new[id(i)].writable = r.spec.writable
        BY Zenon, <1>3, <2>1, <3>1
      <3>4. new[id(i)].del = r.spec.del
        BY Zenon, <2>3, <3>1, <3>2
      <3>5. QED
        BY Zenon, <3>3, <3>4
    <2>5. CASE P(i) \notin Handles
      <3>1. P(i) \notin DOMAIN table
        BY Zenon, <2>2, <2>5
      <3>2. new[id(i)].del = r.spec.del
        BY Zenon, <1>3, <2>1, <2>3, <3>1
      <3>3. QED
        BY Zenon, <2>5, <3>2
    <2>6. QED
      BY Zenon, <2>4, <2>5
  <1> HIDE DEF P, id, n, r
  <1>6. \A k \in 1..i : k = i \/ k \in 1..(i - 1)
    OBVIOUS
  <1>7. \A k \in 1..(i - 1) : k \in 1..i /\ k < i /\ k \in 1..n
    BY SMTT(30), <1>1 DEF n
  <1>8. i \in 1..i /\ i \in 1..n
    BY DEF n
  <1>9. \A h \in DOMAIN new : \/ h \in Handles /\ \A k \in 1..i : P(k) # h
                              \/ \E k \in 1..i : id(k) = h /\ h # 0
    BY Zenon, <1>2, <1>3, <1>6, <1>7, <1>8
  <1>10. \A k \in 1..i : id(k) # 0 => id(k) \in DOMAIN new \/ \E j \in 1..i : P(j) = id(k)
    BY Zenon, <1>2, <1>3, <1>6, <1>7, <1>8
  <1>11. ASSUME ~Collides(results), NEW k \in 1..i, id(k) # 0
         PROVE  /\ id(k) \in DOMAIN new
                /\ new[id(k)].node = results[k].spec.node /\ new[id(k)].del = results[k].spec.del
                /\ P(k) \in Handles => new[id(k)].writable = results[k].spec.writable
    <2>1. CASE k = i
      BY Zenon, <1>3, <1>5, <1>11, <2>1 DEF r
    <2>2. CASE k \in 1..(i - 1)
      <3>1. id(k) # id(i) /\ id(k) # P(i)
        BY SMTT(30), <1>1, <1>4, <1>7, <1>8, <1>11, <2>2
      <3>2. id(k) \in DOMAIN table
        BY Zenon, <1>2, <1>11, <2>2
      <3>3. id(k) \in DOMAIN new /\ new[id(k)] = table[id(k)]
        BY Zenon, <1>3, <3>1, <3>2
      <3>4. QED
        BY Zenon, <1>2, <1>11, <2>2, <3>3
    <2>3. QED
      BY Zenon, <1>6, <2>1, <2>2
  <1>12. ASSUME ~Collides(results), NEW k \in (i + 1)..n
         PROVE  /\ P(k) \in DOMAIN new <=> P(k) \in Handles
                /\ P(k) \in Handles => new[P(k)] = tracked[P(k)]
    <2>1. k \in i..n /\ k \in 1..n /\ i < k /\ k # i
      BY SMTT(30), <1>1
    <2>2. P(k) # P(i) /\ (id(i) # 0 => P(k) # id(i))
      BY Zenon, <1>1, <1>4, <1>8, <1>12, <2>1
    <2>3. P(k) \in DOMAIN new <=> P(k) \in DOMAIN table
      BY Zenon, <1>3, <2>2
    <2>4. P(k) \in DOMAIN new => new[P(k)] = table[P(k)]
      BY Zenon, <1>3, <2>2
    <2>5. QED
      BY Zenon, <1>2, <1>12, <2>1, <2>3, <2>4
  <1>13. QED
    BY Zenon, <1>3, <1>9, <1>10, <1>11, <1>12 DEF Replayed, P, id, n

\* Every table that applying the results may leave is as Replayed says.
LEMMA ReplayAll ==
    ASSUME TablesOK, NEW results, Replayable(results), NEW table \in applyRecoveredHandles(results)
    PROVE  Replayed(results, Len(results), table)
  <1> DEFINE n == Len(results)
  <1>1. n \in Nat
    BY Zenon DEF Replayable
  <1>2. PICK g : Unfolds(g, results) /\ applyRecoveredHandles(results) = g[n]
    BY Zenon, <1>1, ApplyUnfolds
  <1>3. /\ applyRecoveredHandles(results) = g[n] /\ g[0] = {tracked}
        /\ \A i \in 1..n : g[i] = UNION {OneRecovered(old, results[i]) : old \in g[i - 1]}
    BY Zenon, <1>2 DEF Unfolds
  <1> DEFINE Bad == {i \in 0..n : \E new \in g[i] : ~Replayed(results, i, new)}
  <1>4. Replayed(results, 0, tracked)
    <2>1. tracked \in [Handles -> Entry]
      BY Zenon DEF TablesOK
    <2>2. QED
      BY <2>1 DEF Replayed, Handles
  <1>5. Bad = {}
    <2>1. SUFFICES ASSUME Bad # {} PROVE FALSE
      BY Zenon, <2>1
    <2>2. PICK i \in Bad : \A m \in Bad : i <= m
      <3>1. Bad \subseteq Nat
        BY <1>1
      <3> HIDE DEF Bad
      <3>2. QED
        BY Zenon, <2>1, <3>1, LeastMember
    <2>3. PICK new \in g[i] : ~Replayed(results, i, new)
      BY Zenon, <2>2
    <2>4. i # 0
      BY Zenon, <1>3, <1>4, <2>3
    <2>5. i \in 1..n /\ i - 1 \in 0..n /\ ~(i <= i - 1)
      BY <1>1, <2>2, <2>4
    <2>6. PICK old \in g[i - 1] : new \in OneRecovered(old, results[i])
      BY <1>3, <2>3, <2>5
    <2>7. Replayed(results, i - 1, old)
      BY Zenon, <2>2, <2>5, <2>6
    <2>8. QED
      BY Zenon, <2>3, <2>5, <2>6, <2>7, ReplayStep
  <1>6. QED
    BY <1>1, <1>3, <1>5

-----------------------------------------------------------------------------
(* Each step keeps HandlesInv.                                             *)

\* Truth and NoneForgotten are about these variables only.
LEMMA UntouchedKeeps ==
    ASSUME TruthInv, NoneForgotten, conn'.out = conn.out,
           UNCHANGED <<srv, tracked, carried, unsure, left, borrowed, stale, collided>>
    PROVE  TruthInv' /\ NoneForgotten'
  <1>1. TruthInv'
    <2>1. Handles' = Handles /\ unsure' = unsure /\ stale' = stale /\ collided' = collided
      BY Zenon DEF Handles
    <2>2. \A h : Answered("close", h)' <=> Answered("close", h)
      BY Zenon DEF Answered
    <2>3. \A h : Truthful(h)' <=> Truthful(h)
      BY Zenon DEF Truthful, Answered
    <2>4. QED
      BY <2>1, <2>2, <2>3 DEF TruthInv
  <1>2. NoneForgotten'
    BY SMTT(30) DEF NoneForgotten, Handles, About
  <1>3. QED
    BY Zenon, <1>1, <1>2

\* The tables stay and the connection does not come up.
LEMMA TablesKept ==
    ASSUME TablesOK, UNCHANGED <<srv, tracked, carried>>,
           conn'.up /\ stage' = "work" => conn.up /\ stage = "work"
    PROVE  TablesOK'
  BY Zenon DEF TablesOK, Handles

\* Nothing is on its way.
LEMMA NoAnswer ==
    ASSUME conn.out = <<>>
    PROVE  AnswerOK /\ \A op, h : ~Answered(op, h)
  BY Zenon DEF AnswerOK, Answered

\* A request changes none of the tables.
LEMMA RequestKeeps ==
    ASSUME HandlesInv, NEW t \in Thread, NEW c, c # NoCall, Request(t, c),
           UNCHANGED <<tracked, carried, stage>>, CallsOK'
    PROVE  HandlesInv'
  <1>1. WireInv'
    BY Zenon, RequestKeepsWire DEF HandlesInv
  <1>2. conn.out = <<>>
    BY Zenon DEF HandlesInv, WireInv, Quiet, Request
  <1>3. conn'.out = conn.out /\ conn'.up = conn.up
    BY Zenon DEF HandlesInv, WireInv, Request
  <1>4. UNCHANGED <<srv, unsure, left, borrowed, stale, collided>>
    BY Zenon DEF Request, server, history
  <1>5. TruthInv' /\ NoneForgotten'
    BY Zenon, <1>3, <1>4, UntouchedKeeps DEF HandlesInv
  <1>6. TablesOK'
    BY Zenon, <1>3, <1>4, TablesKept DEF HandlesInv
  <1>7. AnswerOK'
    BY Zenon, <1>2, <1>3 DEF AnswerOK
  <1>8. QED
    BY Zenon, <1>1, <1>5, <1>6, <1>7 DEF HandlesInv

\* The operations of the program and the heartbeat, which only ask.
LEMMA AskKeeps ==
    ASSUME HandlesInv,
           \/ CreateSession \/ ResumeSession \/ RecoverHandles
           \/ \E n \in Node, w \in BOOLEAN : Open(n, w)
           \/ \E h \in Handles, op \in {"use", "delete", "keep", "close"} : Work(op, h)
           \/ \E sid \in {SessionID, session} : Heartbeat(sid)
    PROVE  HandlesInv'
  <1>1. CallsOK /\ TablesOK /\ call = [t \in Thread |-> call[t]] /\ "program" \in Thread /\ "beat" \in Thread
    BY Zenon DEF HandlesInv, WireInv, Thread
  <1>2. ASSUME NEW c, call' = [call EXCEPT !["program"] = c]
        PROVE  call'["program"] = c /\ call'["beat"] = call["beat"]
    BY Zenon, <1>1, <1>2
  <1>3. call["beat"].op \in {"none", "beat"} /\ call["beat"].h = 0
    BY Zenon, <1>1 DEF CallsOK
  <1>4. CASE CreateSession
    <2>1. PICK c : c = [NoCall EXCEPT !.op = "create"]
      BY Zenon
    <2>2. c # NoCall /\ c.op = "create" /\ c.h = 0
      BY Zenon, <2>1 DEF NoCall
    <2>3. Request("program", c) /\ UNCHANGED <<tracked, carried, stage>>
      BY Zenon, <1>4, <2>1 DEF CreateSession, client
    <2>4. call'["program"] = c /\ call'["beat"] = call["beat"]
      BY Zenon, <1>2, <2>3 DEF Request
    <2>5. CallsOK'
      BY Zenon, <1>3, <2>2, <2>4 DEF CallsOK, OnHandle
    <2>6. QED
      BY Zenon, <1>1, <2>2, <2>3, <2>5, RequestKeeps
  <1>5. CASE ResumeSession
    <2>1. PICK c : c = [NoCall EXCEPT !.op = "resume", !.sid = session, !.prev = SessionID]
      BY Zenon
    <2>2. c # NoCall /\ c.op = "resume" /\ c.h = 0
      BY Zenon, <2>1 DEF NoCall
    <2>3. Request("program", c) /\ UNCHANGED <<tracked, carried, stage>>
      BY Zenon, <1>5, <2>1 DEF ResumeSession
    <2>4. call'["program"] = c /\ call'["beat"] = call["beat"]
      BY Zenon, <1>2, <2>3 DEF Request
    <2>5. CallsOK'
      BY Zenon, <1>3, <2>2, <2>4 DEF CallsOK, OnHandle
    <2>6. QED
      BY Zenon, <1>1, <2>2, <2>3, <2>5, RequestKeeps
  <1>6. CASE RecoverHandles
    <2>1. PICK s : s = carried \o recoverySnapshot
      BY Zenon
    <2>2. PICK c : c = [NoCall EXCEPT !.op = "recover", !.sid = SessionID, !.specs = s]
      BY Zenon
    <2>3. c # NoCall /\ c.op = "recover" /\ c.h = 0 /\ c.specs = s
      BY Zenon, <2>2 DEF NoCall
    <2>4. Request("program", c) /\ UNCHANGED <<tracked, carried, stage>>
      BY Zenon, <1>6, <2>1, <2>2 DEF RecoverHandles, client
    <2>5. call'["program"] = c /\ call'["beat"] = call["beat"]
      BY Zenon, <1>2, <2>4 DEF Request
    <2>6. s = (carried \o recoverySnapshot)'
      BY Zenon, <2>1, <2>4 DEF recoverySnapshot, Handles
    <2>7. CallsOK'
      BY Zenon, <1>3, <2>3, <2>5, <2>6 DEF CallsOK, OnHandle
    <2>8. QED
      BY Zenon, <1>1, <2>3, <2>4, <2>7, RequestKeeps
  <1>7. ASSUME NEW n \in Node, NEW w \in BOOLEAN, Open(n, w) PROVE HandlesInv'
    <2>1. PICK c : c = [NoCall EXCEPT !.op = "open", !.sid = SessionID, !.node = n, !.writable = w]
      BY Zenon
    <2>2. c # NoCall /\ c.op = "open" /\ c.h = 0 /\ c.node = n /\ c.writable = w
      BY Zenon, <2>1 DEF NoCall
    <2>3. Request("program", c) /\ UNCHANGED <<tracked, carried, stage>>
      BY Zenon, <1>7, <2>1 DEF Open, client
    <2>4. call'["program"] = c /\ call'["beat"] = call["beat"]
      BY Zenon, <1>2, <2>3 DEF Request
    <2>5. carried' = <<>>
      BY Zenon, <1>1, <1>7, <2>3 DEF Open, Request, TablesOK
    <2>6. CallsOK'
      BY Zenon, <1>3, <2>2, <2>4, <2>5 DEF CallsOK, OnHandle
    <2>7. QED
      BY Zenon, <1>1, <2>2, <2>3, <2>6, RequestKeeps
  <1>8. ASSUME NEW h \in Handles, NEW op \in {"use", "delete", "keep", "close"}, Work(op, h)
        PROVE  HandlesInv'
    <2>1. PICK c : c = [NoCall EXCEPT !.op = op, !.sid = SessionID, !.h = h]
      BY Zenon
    <2>2. c # NoCall /\ c.op = op /\ c.h = h
      BY Zenon, <2>1 DEF NoCall
    <2>3. Request("program", c) /\ UNCHANGED <<tracked, carried, stage>>
      BY Zenon, <1>8, <2>1 DEF Work, client
    <2>4. call'["program"] = c /\ call'["beat"] = call["beat"]
      BY Zenon, <1>2, <2>3 DEF Request
    <2>5. h \in Handles'
      BY Zenon, <2>3 DEF Handles
    <2>6. CallsOK'
      BY Zenon, <1>3, <2>2, <2>4, <2>5 DEF CallsOK, OnHandle
    <2>7. QED
      BY Zenon, <1>1, <2>2, <2>3, <2>6, RequestKeeps
  <1>9. ASSUME NEW sid, Heartbeat(sid) PROVE HandlesInv'
    <2>1. PICK c : c = [NoCall EXCEPT !.op = "beat", !.sid = sid]
      BY Zenon
    <2>2. c # NoCall /\ c.op = "beat" /\ c.h = 0
      BY Zenon, <2>1 DEF NoCall
    <2>3. Request("beat", c) /\ UNCHANGED <<tracked, carried, stage>>
      BY Zenon, <1>9, <2>1 DEF Heartbeat, client
    <2>4. call'["beat"] = c /\ call'["program"] = call["program"]
      BY Zenon, <1>1, <2>3 DEF Request
    <2>5. UNCHANGED Handles /\ UNCHANGED recoverySnapshot
      BY Zenon, <2>3 DEF Handles, recoverySnapshot
    <2>6. CallsOK'
      BY Zenon, <1>1, <2>2, <2>3, <2>4, <2>5 DEF CallsOK, OnHandle
    <2>7. QED
      BY Zenon, <1>1, <2>2, <2>3, <2>6, RequestKeeps
  <1>10. QED
    BY Zenon, <1>4, <1>5, <1>6, <1>7, <1>8, <1>9

-----------------------------------------------------------------------------
(* Answers are read.                                                       *)

\* The thread that reads an answer has asked for it, and nobody else waits.
LEMMA ReceiveFacts ==
    ASSUME HandlesInv, NEW t \in Thread, Receive(t)
    PROVE  LET a == conn.out[1] IN
           /\ reqMu = t /\ conn.out = <<a>> /\ Head(conn.out) = a /\ conn'.out = <<>> /\ conn'.up = conn.up
           /\ AnswerID(a) = RequestID(t) /\ a.op = call[t].op /\ a.h = call[t].h
           /\ t = "beat" => a.op \in {"none", "beat"} /\ a.h = 0
           /\ a.ok => Apply(call[t], a.answer)
           /\ ~a.ok => Failed(t, TRUE) /\ UNCHANGED history
           /\ UNCHANGED srv /\ WireInv' /\ CallsOK'
  <1> DEFINE a == conn.out[1]
  <1>1. ~Idle(t) /\ conn.out # <<>> /\ UNCHANGED server /\ reqMu' = "none"
    BY Zenon DEF Receive
  <1>2. /\ reqMu = t /\ conn.out = <<a>> /\ AnswerID(a) = RequestID(t)
        /\ conn = [up |-> conn.up, in |-> conn.in, out |-> conn.out]
        /\ call = [u \in Thread |-> call[u]]
    BY Zenon, <1>1 DEF HandlesInv, WireInv
  <1>3. PICK b : conn.out = <<b>>
    BY Zenon, <1>2
  <1>4. Head(conn.out) = b /\ Tail(conn.out) = <<>> /\ a = b
    BY <1>3
  <1>5. conn' = [conn EXCEPT !.out = <<>>]
    BY Zenon, <1>4 DEF Receive
  <1>6. conn'.out = <<>> /\ conn'.up = conn.up
    BY Zenon, <1>2, <1>5
  <1>7. a.from = t /\ a.op = call[t].op /\ a.h = call[t].h
    BY Zenon, <1>2 DEF AnswerID, RequestID
  <1>8. t = "beat" => a.op \in {"none", "beat"} /\ a.h = 0
    BY Zenon, <1>1, <1>7 DEF HandlesInv, CallsOK, Idle
  <1>9. IF a.ok THEN Done(t) /\ Apply(call[t], a.answer) ELSE Failed(t, ~a.ok) /\ UNCHANGED history
    BY Zenon, <1>2, <1>4 DEF Receive
  <1>10. WireInv'
    <2>1. Receive(t) => Next
      BY Zenon DEF Next
    <2>2. QED
      BY Zenon, <2>1, WireNext DEF HandlesInv
  <1>11. call' = [call EXCEPT ![t] = NoCall]
    BY Zenon, <1>9 DEF Failed, Done
  <1>12. \A u \in Thread : u # t => call[u] = NoCall
    BY Zenon, <1>2 DEF HandlesInv, WireInv, Idle
  <1>13. call'["program"] = NoCall /\ call'["beat"] = NoCall
    BY Zenon, <1>2, <1>11, <1>12 DEF Thread
  <1>14. CallsOK'
    BY SMTT(30), <1>13 DEF CallsOK, NoCall, OnHandle
  <1>15. ~a.ok => Failed(t, TRUE)
    BY Zenon, <1>9 DEF Failed
  <1>16. QED
    BY Zenon, <1>1, <1>2, <1>4, <1>6, <1>7, <1>8, <1>9, <1>10, <1>14, <1>15 DEF server

\* A refusal changes none of the tables, nor does an answer that is not about them.
LEMMA PlainAnswerKeeps ==
    ASSUME HandlesInv, NEW t \in Thread, Receive(t),
           ~conn.out[1].ok \/ conn.out[1].op \in {"none", "beat", "create", "resume", "use"}
    PROVE  HandlesInv'
  <1> DEFINE a == conn.out[1]
  <1>1. /\ conn.out = <<a>> /\ conn'.out = <<>> /\ conn'.up = conn.up /\ a.op = call[t].op /\ a.h = call[t].h
        /\ UNCHANGED srv /\ WireInv' /\ CallsOK'
        /\ \/ Failed(t, TRUE) /\ UNCHANGED history
           \/ Apply(call[t], a.answer) /\ call[t].op \in {"none", "beat", "create", "resume", "use"}
        /\ t = "beat" => a.op \in {"none", "beat"} /\ a.h = 0
    BY Zenon, ReceiveFacts
  <1>2. UNCHANGED <<tracked, carried, unsure, left, borrowed, stale, collided>>
    BY Zenon, <1>1 DEF Failed, history, Apply
  <1>3. stage' = "work" => stage = "work"
    BY Zenon, <1>1 DEF Failed, Apply
  <1>4. TablesOK'
    BY Zenon, <1>1, <1>2, <1>3, TablesKept DEF HandlesInv
  <1>5. AnswerOK'
    BY Zenon, <1>1 DEF AnswerOK
  <1>6. TruthInv'
    <2>1. \A op \in {"delete", "keep", "close"} : \A h : ~Answered(op, h) /\ ~Answered(op, h)'
      BY Zenon, <1>1 DEF Answered
    <2>2. \A h : Truthful(h)' <=> Truthful(h)
      BY Zenon, <1>1, <1>2, <2>1 DEF Truthful
    <2>3. QED
      BY Zenon, <1>2, <2>1, <2>2 DEF TruthInv, HandlesInv, Handles
  <1>7. NoneForgotten'
    <2>1. About(a) = {a.h}
      BY Zenon DEF About
    <2>2. a.h \in Handles \/ a.h = 0
      BY Zenon, <1>1 DEF HandlesInv, CallsOK, Thread
    <2>3. 0 \notin DOMAIN srv
      BY SMTT(30), LenProperties DEF HandlesInv, TablesOK
    <2>4. \A i \in DOMAIN conn.out : conn.out[i] = a
      BY SMTT(30), <1>1
    <2>5. \A h \in DOMAIN srv : (\E i \in DOMAIN conn.out : h \in About(conn.out[i])) => h \in Handles
      BY Zenon, <2>1, <2>2, <2>3, <2>4
    <2>6. QED
      BY Zenon, <1>1, <1>2, <2>5 DEF NoneForgotten, HandlesInv, Handles
  <1>8. QED
    BY Zenon, <1>1, <1>4, <1>5, <1>6, <1>7 DEF HandlesInv

\* The program or the heartbeat finds the connection gone.
LEMMA ReceiveFailsKeeps ==
    ASSUME HandlesInv, NEW t \in Thread, ReceiveFails(t)
    PROVE  HandlesInv'
  <1>1. Failed(t, FALSE) /\ UNCHANGED <<srv, conn>> /\ UNCHANGED history /\ ~Idle(t) /\ ~conn.up
    BY Zenon DEF ReceiveFails, server
  <1>2. UNCHANGED <<tracked, carried, unsure, left, borrowed, stale, collided>>
    BY Zenon, <1>1 DEF Failed, history
  <1>3. stage' = "work" => stage = "work"
    BY Zenon, <1>1 DEF Failed
  <1>4. WireInv'
    <2>1. ReceiveFails(t) => Next
      BY Zenon DEF Next
    <2>2. QED
      BY Zenon, <2>1, WireNext DEF HandlesInv
  <1>5. call'["program"] = NoCall /\ call'["beat"] = NoCall
    <2>1. call = [u \in Thread |-> call[u]] /\ \A u \in Thread : u # t => call[u] = NoCall
      BY Zenon, <1>1 DEF HandlesInv, WireInv, Idle
    <2>2. QED
      BY Zenon, <1>1, <2>1 DEF Failed, Done, Thread
  <1>6. CallsOK'
    BY <1>5 DEF CallsOK, NoCall, OnHandle
  <1>7. conn.out = <<>>
    BY Zenon, <1>1 DEF HandlesInv, WireInv, Quiet
  <1>8. TruthInv' /\ NoneForgotten'
    BY Zenon, <1>1, <1>2, UntouchedKeeps DEF HandlesInv
  <1>9. TablesOK'
    BY Zenon, <1>1, <1>2, <1>3, TablesKept DEF HandlesInv
  <1>10. AnswerOK'
    BY Zenon, <1>1, <1>7 DEF AnswerOK
  <1>11. QED
    BY Zenon, <1>4, <1>6, <1>8, <1>9, <1>10 DEF HandlesInv

\* Connecting starts over.
LEMMA ConnectKeeps ==
    ASSUME HandlesInv, Connect
    PROVE  HandlesInv'
  <1>1. /\ conn' = [up |-> TRUE, in |-> <<>>, out |-> <<>>] /\ stage' = "session"
        /\ UNCHANGED <<srv, tracked, carried, call, unsure, left, borrowed, stale, collided>>
        /\ ~conn.up
    BY Zenon DEF Connect, Offline, server, history
  <1>2. conn.out = <<>> /\ conn'.out = <<>>
    BY Zenon, <1>1 DEF HandlesInv, WireInv, Quiet
  <1>3. WireInv'
    <2>1. Next
      BY Zenon DEF Next
    <2>2. QED
      BY Zenon, <2>1, WireNext DEF HandlesInv
  <1>4. UNCHANGED Handles /\ UNCHANGED recoverySnapshot
    BY Zenon, <1>1 DEF Handles, recoverySnapshot
  <1>5. CallsOK'
    BY Zenon, <1>1, <1>4 DEF HandlesInv, CallsOK
  <1>6. TruthInv' /\ NoneForgotten'
    BY Zenon, <1>1, <1>2, UntouchedKeeps DEF HandlesInv
  <1>7. TablesOK'
    BY Zenon, <1>1, TablesKept DEF HandlesInv
  <1>8. AnswerOK'
    BY Zenon, <1>2 DEF AnswerOK
  <1>9. QED
    BY Zenon, <1>3, <1>5, <1>6, <1>7, <1>8 DEF HandlesInv

\* A new client object is handed every handle that was tracked.
LEMMA ReplaceKeeps ==
    ASSUME HandlesInv, Replace
    PROVE  HandlesInv'
  <1>1. /\ tracked' = <<>> /\ carried' = carried \o recoverySnapshot /\ ~conn.up
        /\ UNCHANGED <<srv, conn, call, stage, unsure, left, borrowed, stale, collided>>
        /\ \A t \in Thread : Idle(t)
    BY Zenon DEF Replace, server, history
  <1>2. WireInv'
    <2>1. Next
      BY Zenon DEF Next
    <2>2. QED
      BY Zenon, <2>1, WireNext DEF HandlesInv
  <1>3. call'["program"] = NoCall /\ call'["beat"] = NoCall
    BY Zenon, <1>1 DEF Idle, Thread
  <1>4. CallsOK'
    BY SMTT(30), <1>3 DEF CallsOK, NoCall, OnHandle
  <1>5. conn.out = <<>>
    BY Zenon, <1>1 DEF HandlesInv, WireInv, Quiet
  <1>6. AnswerOK'
    BY Zenon, <1>1, <1>5 DEF AnswerOK
  <1>7. Handles' = {}
    BY <1>1 DEF Handles
  <1>8. TruthInv'
    BY Zenon, <1>7 DEF TruthInv
  <1>9. PICK specs : specs = carried \o recoverySnapshot
    BY Zenon
  <1>10. /\ specs \in Seq(Recovery) /\ Distinct(specs)
         /\ \A h \in Handles : \E i \in DOMAIN specs : specs[i].previous = h
         /\ \A i \in DOMAIN carried : \E j \in DOMAIN specs : specs[j].previous = carried[i].previous
    BY Zenon, <1>9, SpecsFacts DEF HandlesInv, SpecsOK
  <1>11. carried' = specs
    BY Zenon, <1>1, <1>9
  <1>12. TablesOK'
    <2>1. IsFiniteSet({})
      BY Zenon, FS_EmptySet
    <2>2. tracked' \in [{} -> Entry]
      BY <1>1
    <2>3. srv' \in Seq(Handle) /\ ~conn'.up
      BY Zenon, <1>1 DEF HandlesInv, TablesOK
    <2>4. carried' \in Seq(Recovery) /\ Distinct(carried)'
      BY Zenon, <1>10, <1>11 DEF Distinct
    <2>5. QED
      BY Zenon, <1>7, <2>1, <2>2, <2>3, <2>4 DEF TablesOK
  <1>13. NoneForgotten'
    BY SMTT(30), <1>1, <1>5, <1>10, <1>11 DEF HandlesInv, NoneForgotten
  <1>14. QED
    BY Zenon, <1>2, <1>4, <1>6, <1>8, <1>12, <1>13 DEF HandlesInv

\* The handle that was opened is tracked.
LEMMA OpenedKeeps ==
    ASSUME HandlesInv, NEW t \in Thread, Receive(t), conn.out[1].ok, conn.out[1].op = "open"
    PROVE  HandlesInv'
  <1> DEFINE a == conn.out[1]
             c == call["program"]
             line == [node |-> c.node, writable |-> c.writable, del |-> FALSE]
  <1>1. /\ conn.out = <<a>> /\ conn'.out = <<>> /\ conn'.up = conn.up /\ a.op = call[t].op
        /\ Apply(call[t], a.answer) /\ UNCHANGED srv /\ WireInv' /\ CallsOK'
        /\ t = "program"
    BY Zenon, ReceiveFacts DEF Thread
  <1>2. PICK id : id = a.answer[1]
    BY Zenon
  <1>3. /\ tracked' = With(tracked, id, line)
        /\ UNCHANGED <<carried, stage, unsure, left, borrowed, stale, collided>>
    BY Zenon, <1>1, <1>2 DEF Apply
  <1>4. id \in DOMAIN srv /\ srv[id] = NewHandle(line) /\ carried = <<>> /\ c.node \in Node /\ c.writable \in BOOLEAN
    BY SMTT(30), <1>1, <1>2 DEF HandlesInv, AnswerOK, CallsOK
  <1>5. id \in Nat \ {0} /\ line \in Entry /\ line.node = c.node /\ line.writable = c.writable /\ line.del = FALSE
    BY SMTT(30), <1>4, LenProperties DEF HandlesInv, TablesOK, Entry
  <1>6. /\ srv[id].open = TRUE /\ srv[id].mine = TRUE /\ srv[id].node = c.node
        /\ srv[id].writable = c.writable /\ srv[id].del = FALSE
    <2> HIDE DEF line
    <2>1. /\ NewHandle(line).open = TRUE /\ NewHandle(line).mine = TRUE /\ NewHandle(line).node = line.node
          /\ NewHandle(line).writable = line.writable /\ NewHandle(line).del = line.del
      BY Zenon DEF NewHandle
    <2>2. QED
      BY Zenon, <1>4, <1>5, <2>1
  <1> HIDE DEF line
  <1>7. /\ Handles' = Handles \cup {id} /\ tracked'[id] = line
        /\ \A h \in Handles : h # id => tracked'[h] = tracked[h]
        /\ tracked' \in [Handles' -> Entry]
    <2>1. tracked \in [Handles -> Entry]
      BY Zenon DEF HandlesInv, TablesOK
    <2>2. tracked' = [h \in Handles \cup {id} |-> IF h = id THEN line ELSE tracked[h]]
      BY Zenon, <1>3 DEF With, Handles
    <2>3. Handles' = Handles \cup {id}
      BY Zenon, <2>2 DEF Handles
    <2>4. QED
      BY Zenon, <1>5, <2>1, <2>2, <2>3
  <1>8. TablesOK'
    <2>1. IsFiniteSet(Handles') /\ Handles' \subseteq Nat \ {0}
      BY Zenon, <1>5, <1>7, FS_AddElement DEF HandlesInv, TablesOK
    <2>2. QED
      BY Zenon, <1>1, <1>3, <1>4, <1>7, <2>1 DEF HandlesInv, TablesOK
  <1>9. TruthInv'
    <2>1. \A op \in {"delete", "keep", "close"} : \A h : ~Answered(op, h) /\ ~Answered(op, h)'
      BY Zenon, <1>1 DEF Answered
    <2>2. Truthful(id)'
      <3>1. /\ id \in DOMAIN srv' /\ srv'[id].open /\ srv'[id].mine
            /\ tracked'[id].node = srv'[id].node /\ srv'[id].del = tracked'[id].del
            /\ tracked'[id].writable = srv'[id].writable
        BY Zenon, <1>1, <1>4, <1>5, <1>6, <1>7
      <3>2. QED
        BY Zenon, <2>1, <3>1 DEF Truthful
    <2>3. \A h \in Handles : h # id => (Truthful(h)' <=> Truthful(h))
      BY Zenon, <1>1, <1>3, <1>7, <2>1 DEF Truthful
    <2>4. \A h \in Handles' : h = id \/ h \in Handles
      BY Zenon, <1>7
    <2>5. QED
      BY Zenon, <1>2, <1>3, <2>1, <2>2, <2>3, <2>4 DEF HandlesInv, TruthInv
  <1>10. NoneForgotten'
    <2>1. About(a) = {id}
      BY Zenon, <1>1, <1>2 DEF About
    <2>2. \A i \in DOMAIN conn.out : conn.out[i] = a
      BY SMTT(30), <1>1
    <2>3. QED
      BY Zenon, <1>1, <1>3, <1>7, <2>1, <2>2 DEF HandlesInv, NoneForgotten
  <1>11. AnswerOK'
    BY Zenon, <1>1 DEF AnswerOK
  <1>12. QED
    BY Zenon, <1>1, <1>8, <1>9, <1>10, <1>11 DEF HandlesInv

\* SetDeleteOnClose is noted, and CloseHandle forgets the handle.
LEMMA ChangedKeeps ==
    ASSUME HandlesInv, NEW t \in Thread, Receive(t), conn.out[1].ok,
           conn.out[1].op \in {"delete", "keep", "close"}
    PROVE  HandlesInv'
  <1> DEFINE a == conn.out[1]
             c == call["program"]
  <1>1. PICK x : x = c.h
    BY Zenon
  <1>2. /\ conn.out = <<a>> /\ conn'.out = <<>> /\ conn'.up = conn.up /\ a.op = c.op /\ a.h = x
        /\ Apply(c, a.answer) /\ UNCHANGED srv /\ WireInv' /\ CallsOK' /\ a.ok
        /\ t = "program"
    BY Zenon, <1>1, ReceiveFacts DEF Thread
  <1>3. /\ c.op = "close" => tracked' = Less(tracked, {x})
        /\ c.op # "close" => tracked' = [tracked EXCEPT ![x].del = (c.op = "delete")]
        /\ UNCHANGED <<carried, stage, unsure, left, borrowed, stale, collided>>
    BY Zenon, <1>1, <1>2 DEF Apply
  <1>4. x \in Handles /\ tracked \in [Handles -> Entry] /\ IsFiniteSet(Handles) /\ Handles \subseteq Nat \ {0}
    BY Zenon, <1>1, <1>2 DEF HandlesInv, CallsOK, OnHandle, TablesOK
  <1>5. /\ Handles' \subseteq Handles /\ tracked' \in [Handles' -> Entry]
        /\ \A h \in Handles : h # x => h \in Handles' /\ tracked'[h] = tracked[h]
    <2>1. CASE c.op = "close"
      <3>1. tracked' = [h \in Handles \ {x} |-> tracked[h]]
        BY Zenon, <1>3, <2>1 DEF Less, Handles
      <3>2. Handles' = Handles \ {x}
        BY Zenon, <3>1 DEF Handles
      <3>3. QED
        BY Zenon, <1>4, <3>1, <3>2
    <2>2. CASE c.op # "close"
      <3>1. PICK d \in BOOLEAN : tracked' = [tracked EXCEPT ![x].del = d]
        BY Zenon, <1>3, <2>2
      <3>2. Handles' = Handles
        BY Zenon, <3>1 DEF Handles
      <3>3. [tracked[x] EXCEPT !.del = d] \in Entry
        BY Zenon, <1>4 DEF Entry
      <3>4. QED
        BY Zenon, <1>4, <3>1, <3>2, <3>3
    <2>3. QED
      BY Zenon, <2>1, <2>2
  <1>6. c.op # "close" => /\ Handles' = Handles
                          /\ tracked'[x].node = tracked[x].node /\ tracked'[x].writable = tracked[x].writable
                          /\ tracked'[x].del = (c.op = "delete")
    <2>1. SUFFICES ASSUME c.op # "close"
                   PROVE  /\ Handles' = Handles
                          /\ tracked'[x].node = tracked[x].node /\ tracked'[x].writable = tracked[x].writable
                          /\ tracked'[x].del = (c.op = "delete")
      BY Zenon, <2>1
    <2>2. PICK d \in BOOLEAN : d = (c.op = "delete") /\ tracked' = [tracked EXCEPT ![x].del = d]
      BY Zenon, <1>3, <2>1
    <2>3. Handles' = Handles
      BY Zenon, <2>2 DEF Handles
    <2>4. tracked'[x].node = tracked[x].node /\ tracked'[x].writable = tracked[x].writable /\ tracked'[x].del = d
      BY Zenon, <1>4, <2>2 DEF Entry
    <2>5. QED
      BY Zenon, <2>2, <2>3, <2>4
  <1>7. c.op = "close" => x \notin Handles'
    BY Zenon, <1>3 DEF Less, Handles
  <1>8. TablesOK'
    <2>1. IsFiniteSet(Handles') /\ Handles' \subseteq Nat \ {0}
      BY Zenon, <1>4, <1>5, FS_Subset
    <2>2. QED
      BY Zenon, <1>2, <1>3, <1>5, <2>1 DEF HandlesInv, TablesOK
  <1>9. TruthInv'
    <2>1. conn.out # <<>>
      BY SMTT(30), <1>2
    <2>2. \A op, h : ~Answered(op, h)'
      BY Zenon, <1>2 DEF Answered
    <2>3. \A op, h : Answered(op, h) <=> op = c.op /\ h = x
      BY Zenon, <1>2, <2>1 DEF Answered
    <2>4. \A op, h : /\ ~Answered(op, h)'
                     /\ Answered(op, h) <=> op = c.op /\ h = x
      BY Zenon, <2>2, <2>3
    <2>5. \A h \in Handles : h # x => (Truthful(h)' <=> Truthful(h))
      BY Zenon, <1>2, <1>3, <1>5, <2>4 DEF Truthful
    <2>6. ASSUME c.op # "close", Truthful(x) PROVE Truthful(x)'
      <3>1. /\ x \in DOMAIN srv /\ srv[x].open /\ srv[x].mine /\ tracked[x].node = srv[x].node
            /\ x \notin borrowed => tracked[x].writable = srv[x].writable
        BY Zenon, <2>6 DEF Truthful
      <3>2. srv[x].del = (c.op = "delete")
        <4>1. CASE c.op = "delete"
          <5>1. srv[x].del = TRUE
            BY Zenon, <2>4, <2>6, <4>1 DEF Truthful
          <5>2. QED
            BY Zenon, <4>1, <5>1
        <4>2. CASE c.op = "keep"
          <5>1. c.op # "delete"
            BY Zenon, <4>2
          <5>2. Answered("keep", x) /\ ~Answered("delete", x)
            BY Zenon, <2>4, <4>2, <5>1
          <5>3. srv[x].del = FALSE
            BY Zenon, <2>6, <5>2 DEF Truthful
          <5>4. QED
            BY Zenon, <5>1, <5>3
        <4>3. QED
          BY Zenon, <1>2, <2>6, <4>1, <4>2
      <3>3. srv'[x].del = tracked'[x].del
        BY Zenon, <1>2, <1>6, <2>6, <3>2
      <3>4. /\ x \in DOMAIN srv' /\ srv'[x].open /\ srv'[x].mine /\ tracked'[x].node = srv'[x].node
            /\ x \notin borrowed' => tracked'[x].writable = srv'[x].writable
        BY Zenon, <1>2, <1>3, <1>6, <2>6, <3>1
      <3>5. QED
        BY Zenon, <2>4, <3>3, <3>4 DEF Truthful
    <2>7. \A h \in Handles' : h \in Handles /\ (h = x => c.op # "close")
      BY Zenon, <1>5, <1>7
    <2>8. SUFFICES ASSUME ~stale', ~collided', NEW h \in Handles' \ unsure' PROVE Truthful(h)'
      BY Zenon, <2>8 DEF TruthInv
    <2>9. h \in Handles \ unsure /\ ~stale /\ ~collided
      BY Zenon, <1>3, <2>7, <2>8
    <2>10. Answered("close", h) \/ Truthful(h)
      BY Zenon, <2>9 DEF HandlesInv, TruthInv
    <2>11. QED
      BY Zenon, <2>4, <2>5, <2>6, <2>7, <2>9, <2>10
  <1>10. NoneForgotten'
    <2>1. About(a) = {x}
      BY Zenon, <1>2 DEF About
    <2>2. \A i \in DOMAIN conn.out : conn.out[i] = a
      BY SMTT(30), <1>2
    <2>3. c.op = "close" => ~srv[x].open
      <3>1. c.op = "close" => srv[x].open = FALSE
        <4>1. c.op = "close" => srv[x] = Closed
          BY SMTT(30), <1>2 DEF HandlesInv, AnswerOK
        <4>2. Closed.open = FALSE
          BY Zenon DEF Closed
        <4>3. QED
          BY Zenon, <4>1, <4>2
      <3>2. QED
        BY Zenon, <3>1
    <2>4. c.op # "close" => x \in Handles'
      BY Zenon, <1>4, <1>6
    <2>5. QED
      BY SMTT(30), <1>2, <1>3, <1>5, <2>1, <2>2, <2>3, <2>4 DEF HandlesInv, NoneForgotten
  <1>11. AnswerOK'
    BY Zenon, <1>2 DEF AnswerOK
  <1>12. QED
    BY Zenon, <1>2, <1>8, <1>9, <1>10, <1>11 DEF HandlesInv

\* What the client tracks once the results are applied: handles of the results,
\* all of them and as they were asked for unless a collision has cost one.
RecoveredInto(results) ==
    LET P(k) == results[k].spec.previous
        id(k) == results[k].id
        N == 1..Len(results)
    IN  /\ DOMAIN results = N
        /\ tracked' \in [Handles' -> Entry]
        /\ \A h \in Handles' : \E k \in N : id(k) = h /\ h # 0
        /\ \A k \in N : id(k) # 0 => id(k) \in Handles' \/ \E j \in N : P(j) = id(k)
        /\ ~Collides(results) => \A k \in N : id(k) # 0 =>
             /\ id(k) \in Handles'
             /\ tracked'[id(k)].node = results[k].spec.node /\ tracked'[id(k)].del = results[k].spec.del
             /\ P(k) \in Handles => tracked'[id(k)].writable = results[k].spec.writable
        /\ \A k \in N : id(k) # 0 => id(k) \in DOMAIN srv /\ srv[id(k)] = NewHandle(results[k].spec)
        /\ \A h \in Handles : \E k \in N : P(k) = h
        /\ \A i \in DOMAIN carried : \E k \in N : P(k) = carried[i].previous

LEMMA RecoveredTable ==
    ASSUME HandlesInv, NEW t \in Thread, Receive(t), conn.out[1].ok, conn.out[1].op = "recover",
           NEW results, results = conn.out[1].answer
    PROVE  RecoveredInto(results)
\* What the client tracks after a recovery: handles of the results, all of them
\* and as they were asked for unless a collision has cost one.
  <1> DEFINE n == Len(results)
  <1>1. t = "program" /\ call[t].op = "recover" /\ Apply(call[t], results) /\ TablesOK /\ CallsOK /\ AnswerOK
        /\ conn.out # <<>>
    BY Zenon, ReceiveFacts DEF Thread, HandlesInv, Receive
  <1>2. PICK specs : specs = call["program"].specs
    BY Zenon
  <1>3. ResultsOK(results, specs) /\ specs = carried \o recoverySnapshot
    BY Zenon, <1>1, <1>2 DEF AnswerOK, CallsOK
  <1>4. SpecsOK(specs)
    BY Zenon, <1>1, <1>3, SpecsFacts
  <1>5. DOMAIN specs = 1..Len(specs) /\ Len(specs) \in Nat /\ \A i \in DOMAIN specs : specs[i] \in Recovery
    BY Zenon, <1>4, ElementOfSeq, LenProperties DEF SpecsOK
  <1>6. /\ results = [i \in DOMAIN specs |-> results[i]] /\ DOMAIN results = DOMAIN specs
        /\ \A i \in DOMAIN specs : results[i].spec = specs[i]
        /\ \A i \in DOMAIN specs :
             results[i].id # 0 => results[i].id \in DOMAIN srv /\ srv[results[i].id] = NewHandle(specs[i])
        /\ \A i, j \in DOMAIN specs : results[i].id # 0 /\ results[i].id = results[j].id => i = j
    BY Zenon, <1>3 DEF ResultsOK
  <1>7. n = Len(specs)
    <2> DEFINE R == {results[i] : i \in DOMAIN specs}
    <2>1. \A i \in 1..Len(specs) : results[i] \in R
      BY Zenon, <1>5
    <2> HIDE DEF R
    <2>2. [i \in 1..Len(specs) |-> results[i]] \in Seq(R)
      BY SMTT(30), <1>5, <2>1, IsASeq
    <2>3. results = [i \in 1..Len(specs) |-> results[i]]
      BY Zenon, <1>5, <1>6
    <2>4. results \in Seq(R)
      BY Zenon, <2>2, <2>3
    <2>5. QED
      BY SMTT(30), <1>5, <1>6, <2>4, LenProperties
  <1>8. n \in Nat /\ DOMAIN results = 1..n
    BY Zenon, <1>5, <1>6, <1>7
  <1>9. DOMAIN specs = 1..n
    BY Zenon, <1>5, <1>7
  <1>10. \A k \in 1..n : results[k].spec = specs[k]
    BY Zenon, <1>6, <1>9
  <1> HIDE DEF n
  <1>11. /\ \A i, j \in 1..n : specs[i].previous = specs[j].previous => i = j
         /\ \A h \in Handles : \E i \in 1..n : specs[i].previous = h
         /\ \A i \in DOMAIN carried : \E j \in 1..n : specs[j].previous = carried[i].previous
         /\ \A i \in 1..n : specs[i].previous \in Handles =>
              /\ specs[i].writable = tracked[specs[i].previous].writable
              /\ specs[i].del = tracked[specs[i].previous].del
         /\ \A i \in 1..n :
              results[i].id # 0 => results[i].id \in DOMAIN srv /\ srv[results[i].id] = NewHandle(specs[i])
    BY Zenon, <1>4, <1>6, <1>9 DEF SpecsOK, Distinct
  <1>12. Replayable(results)
    <2>1. \A i \in 1..n : results[i].spec \in Recovery
      BY Zenon, <1>5, <1>9, <1>10
    <2>2. \A i, j \in 1..n : results[i].spec.previous = results[j].spec.previous => i = j
      <3>1. TAKE i, j \in 1..n
      <3>2. results[i].spec = specs[i] /\ results[j].spec = specs[j]
        BY Zenon, <1>10
      <3>3. specs[i].previous = specs[j].previous => i = j
        BY Zenon, <1>11
      <3>4. QED
        BY Zenon, <3>2, <3>3
    <2>3. \A i, j \in 1..n : results[i].id # 0 /\ results[i].id = results[j].id => i = j
      BY Zenon, <1>6, <1>9
    <2>4. \A i \in 1..n : LET s == results[i].spec IN
            s.previous \in Handles =>
              s.writable = tracked[s.previous].writable /\ s.del = tracked[s.previous].del
      <3>1. TAKE i \in 1..n
      <3>2. results[i].spec = specs[i]
        BY Zenon, <1>10
      <3>3. QED
        BY Zenon, <1>11, <3>2
    <2>5. QED
      BY Zenon, <1>8, <2>1, <2>2, <2>3, <2>4 DEF Replayable, n
  <1>13. tracked' \in applyRecoveredHandles(results)
    BY Zenon, <1>1 DEF Apply
  <1>14. Replayed(results, n, tracked')
    BY Zenon, <1>1, <1>12, <1>13, ReplayAll DEF n
  <1>15. /\ tracked' \in [Handles' -> Entry]
         /\ \A h \in Handles' : \/ h \in Handles /\ \A k \in 1..n : results[k].spec.previous # h
                                \/ \E k \in 1..n : results[k].id = h /\ h # 0
         /\ \A k \in 1..n : results[k].id # 0 =>
              results[k].id \in Handles' \/ \E j \in 1..n : results[j].spec.previous = results[k].id
         /\ ~Collides(results) => \A k \in 1..n : results[k].id # 0 =>
              /\ results[k].id \in Handles'
              /\ tracked'[results[k].id].node = results[k].spec.node
              /\ tracked'[results[k].id].del = results[k].spec.del
              /\ results[k].spec.previous \in Handles =>
                   tracked'[results[k].id].writable = results[k].spec.writable
    BY Zenon, <1>14 DEF Replayed, Handles
  <1>16. \A h \in Handles : \E k \in 1..n : results[k].spec.previous = h
    BY SMTT(30), <1>10, <1>11
  <1>17. \A i \in DOMAIN carried : \E k \in 1..n : results[k].spec.previous = carried[i].previous
    BY SMTT(30), <1>10, <1>11
  <1>18. \A k \in 1..n : results[k].id # 0 =>
                results[k].id \in DOMAIN srv /\ srv[results[k].id] = NewHandle(results[k].spec)
    BY Zenon, <1>10, <1>11
  <1>19. \A h \in Handles' : \E k \in 1..n : results[k].id = h /\ h # 0
    BY Zenon, <1>15, <1>16
  <1>20. QED
    BY Zenon, <1>8, <1>15, <1>16, <1>17, <1>18, <1>19 DEF RecoveredInto, n

\* The results of a recovery are applied.
LEMMA RecoveryKeeps ==
    ASSUME HandlesInv, NEW t \in Thread, Receive(t), conn.out[1].ok, conn.out[1].op = "recover"
    PROVE  HandlesInv'
  <1> DEFINE a == conn.out[1]
  <1>1. PICK results : results = a.answer
    BY Zenon
  <1>2. /\ conn.out = <<a>> /\ conn'.out = <<>> /\ conn'.up = conn.up /\ call[t].op = "recover"
        /\ Apply(call[t], results) /\ UNCHANGED srv /\ WireInv' /\ CallsOK' /\ a.ok /\ a.op = "recover"
    BY Zenon, <1>1, ReceiveFacts
  <1>3. /\ carried' = <<>> /\ stage' = "work" /\ unsure' = unsure
        /\ left' = left \cup {results[i].spec.previous : i \in DOMAIN results}
        /\ borrowed' = borrowed \cup {results[i].id : i \in
                           {j \in DOMAIN results : results[j].spec.previous \notin Handles}}
        /\ collided' = (collided \/ Collides(results))
    BY Zenon, <1>2 DEF Apply
  <1> DEFINE N == 1..Len(results)
  <1>4. RecoveredInto(results)
    BY Zenon, <1>1, RecoveredTable
  <1>5. /\ DOMAIN results = N
        /\ tracked' \in [Handles' -> Entry]
        /\ \A h \in Handles' : \E k \in N : results[k].id = h /\ h # 0
        /\ \A k \in N : results[k].id # 0 =>
             results[k].id \in Handles' \/ \E j \in N : results[j].spec.previous = results[k].id
        /\ ~Collides(results) => \A k \in N : results[k].id # 0 =>
             /\ results[k].id \in Handles'
             /\ tracked'[results[k].id].node = results[k].spec.node
             /\ tracked'[results[k].id].del = results[k].spec.del
             /\ results[k].spec.previous \in Handles =>
                  tracked'[results[k].id].writable = results[k].spec.writable
        /\ \A k \in N : results[k].id # 0 =>
             results[k].id \in DOMAIN srv /\ srv[results[k].id] = NewHandle(results[k].spec)
        /\ \A h \in Handles : \E k \in N : results[k].spec.previous = h
        /\ \A i \in DOMAIN carried : \E k \in N : results[k].spec.previous = carried[i].previous
    BY Zenon, <1>4 DEF RecoveredInto
  <1> HIDE DEF N
  <1>6. TablesOK'
    <2>1. srv \in Seq(Handle) /\ DOMAIN srv = 1..Len(srv) /\ Len(srv) \in Nat
      BY Zenon, LenProperties DEF HandlesInv, TablesOK
    <2>2. Handles' \subseteq DOMAIN srv
      BY SMTT(30), <1>5
    <2>3. IsFiniteSet(1..Len(srv))
      BY SMTT(30), <2>1, 1 \in Int, Len(srv) \in Int, FS_Interval
    <2>4. IsFiniteSet(Handles') /\ Handles' \subseteq Nat \ {0}
      BY SMTT(30), <2>1, <2>2, <2>3, FS_Subset
    <2>5. carried' \in Seq(Recovery) /\ Distinct(carried)'
      BY SMTT(30), <1>3 DEF Distinct
    <2>6. QED
      BY Zenon, <1>2, <1>3, <1>5, <2>1, <2>4, <2>5 DEF TablesOK
  <1>7. TruthInv'
    <2>1. SUFFICES ASSUME ~collided', NEW h \in Handles' PROVE Truthful(h)'
      BY Zenon, <2>1 DEF TruthInv
    <2>2. ~Collides(results)
      BY Zenon, <1>3, <2>1
    <2>3. PICK k \in DOMAIN results : results[k].id = h /\ h # 0
      BY Zenon, <1>5
    <2>4. PICK spec : spec = results[k].spec
      BY Zenon
    <2>5. /\ h \in DOMAIN srv /\ srv[h] = NewHandle(spec)
          /\ tracked'[h].node = spec.node /\ tracked'[h].del = spec.del
          /\ spec.previous \in Handles => tracked'[h].writable = spec.writable
      BY Zenon, <1>5, <2>2, <2>3, <2>4
    <2>6. /\ NewHandle(spec).open = TRUE /\ NewHandle(spec).mine = TRUE /\ NewHandle(spec).node = spec.node
          /\ NewHandle(spec).writable = spec.writable /\ NewHandle(spec).del = spec.del
      BY Zenon DEF NewHandle
    <2>7. h \notin borrowed' => spec.previous \in Handles
      BY Zenon, <1>3, <2>3, <2>4
    <2>8. /\ h \in DOMAIN srv' /\ srv'[h].open /\ srv'[h].mine
          /\ tracked'[h].node = srv'[h].node /\ srv'[h].del = tracked'[h].del
          /\ h \notin borrowed' => tracked'[h].writable = srv'[h].writable
      BY Zenon, <1>2, <2>5, <2>6, <2>7
    <2>9. \A op : ~Answered(op, h)'
      BY Zenon, <1>2 DEF Answered
    <2>10. QED
      BY Zenon, <2>8, <2>9 DEF Truthful
  <1>8. NoneForgotten'
    <2>1. SUFFICES ASSUME NEW h \in DOMAIN srv', srv'[h].open, srv'[h].mine
                   PROVE  h \in Handles' \cup unsure' \cup left'
      BY Zenon, <2>1 DEF NoneForgotten
    <2>2. \/ h \in Handles \cup unsure \cup left
          \/ \E i \in DOMAIN carried : h = carried[i].previous
          \/ \E i \in DOMAIN conn.out : h \in About(conn.out[i])
      BY Zenon, <1>2, <2>1 DEF HandlesInv, NoneForgotten
    <2>3. CASE \E i \in DOMAIN conn.out : h \in About(conn.out[i])
      <3>1. \A i \in DOMAIN conn.out : conn.out[i] = a
        BY SMTT(30), <1>2
      <3>2. About(a) = {results[i].id : i \in DOMAIN results}
        BY Zenon, <1>1, <1>2 DEF About
      <3>3. PICK k \in DOMAIN results : results[k].id = h
        BY Zenon, <2>3, <3>1, <3>2
      <3>4. h # 0
        BY SMTT(30), <1>2, <2>1, LenProperties DEF HandlesInv, TablesOK
      <3>5. QED
        BY SMTT(30), <1>3, <1>5, <3>3, <3>4
    <2>4. QED
      BY SMTT(30), <1>3, <1>5, <2>2, <2>3
  <1>9. AnswerOK'
    BY Zenon, <1>2 DEF AnswerOK
  <1>10. QED
    BY Zenon, <1>2, <1>6, <1>7, <1>8, <1>9 DEF HandlesInv

\* Reading an answer, whatever it is.
LEMMA ReceiveKeeps ==
    ASSUME HandlesInv, NEW t \in Thread, Receive(t)
    PROVE  HandlesInv'
  <1>1. conn.out[1].op \in {"none", "beat", "create", "resume", "recover", "open"} \cup OnHandle
    BY Zenon, ReceiveFacts DEF HandlesInv, CallsOK, Thread
  <1>2. QED
    BY Zenon, <1>1, PlainAnswerKeeps, OpenedKeeps, ChangedKeeps, RecoveryKeeps DEF OnHandle

-----------------------------------------------------------------------------
(* Failures, and the server.                                               *)

\* The connection is lost; what an answer on it was about is recorded.
LEMMA LoseKeeps ==
    ASSUME HandlesInv, Lose
    PROVE  HandlesInv'
  <1>1. /\ conn' = Offline /\ UNCHANGED <<srv, tracked, carried, stage, call, left, borrowed, stale, collided>>
        /\ unsure' = unsure \cup UNION {About(conn.out[i]) : i \in DOMAIN conn.out}
        /\ Offline.up = FALSE /\ Offline.out = <<>>
    BY Zenon DEF Lose, server, client, Offline
  <1>2. WireInv'
    <2>1. Next
      BY Zenon DEF Next
    <2>2. QED
      BY Zenon, <2>1, WireNext DEF HandlesInv
  <1>3. UNCHANGED Handles /\ UNCHANGED recoverySnapshot /\ conn'.out = <<>> /\ ~conn'.up
    BY Zenon, <1>1 DEF Handles, recoverySnapshot
  <1>4. TablesOK' /\ CallsOK' /\ AnswerOK'
    <2>1. TablesOK'
      BY Zenon, <1>1, <1>3, TablesKept DEF HandlesInv
    <2>2. CallsOK'
      BY Zenon, <1>1, <1>3 DEF HandlesInv, CallsOK
    <2>3. QED
      BY Zenon, <1>3, <2>1, <2>2 DEF AnswerOK
  <1>5. TruthInv'
    <2>1. SUFFICES ASSUME ~stale', ~collided', NEW h \in Handles' \ unsure' PROVE Truthful(h)'
      BY Zenon, <2>1 DEF TruthInv
    <2>2. ASSUME NEW op \in {"delete", "keep", "close"}, Answered(op, h) PROVE FALSE
      <3>1. 1 \in DOMAIN conn.out
        BY SMTT(30), <2>2 DEF Answered, HandlesInv, WireInv
      <3>2. About(conn.out[1]) = {h}
        BY Zenon, <2>2 DEF About, Answered
      <3>3. QED
        BY Zenon, <1>1, <2>1, <3>1, <3>2
    <2>3. Truthful(h)
      <3>1. ~Answered("close", h) /\ h \in Handles \ unsure /\ ~stale /\ ~collided
        BY Zenon, <1>1, <1>3, <2>1, <2>2
      <3>2. QED
        BY Zenon, <3>1 DEF HandlesInv, TruthInv
    <2>4. \A op : ~Answered(op, h)'
      BY Zenon, <1>3 DEF Answered
    <2>5. QED
      BY Zenon, <1>1, <2>2, <2>3, <2>4 DEF Truthful
  <1>6. NoneForgotten'
    BY Zenon, <1>1, <1>3 DEF HandlesInv, NoneForgotten
  <1>7. QED
    BY Zenon, <1>2, <1>4, <1>5, <1>6 DEF HandlesInv

\* The server starts again: it has no handle of the client.
LEMMA RestartKeeps ==
    ASSUME HandlesInv, NEW others \in 0..1, Restart(others)
    PROVE  HandlesInv'
  <1>1. /\ conn' = Offline /\ UNCHANGED <<tracked, carried, stage, call, collided>>
        /\ srv' = [h \in 1..others |-> [Closed EXCEPT !.open = TRUE]]
        /\ stale' = TRUE /\ Offline.up = FALSE /\ Offline.out = <<>>
    BY Zenon DEF Restart, client, Offline
  <1>2. WireInv'
    <2>1. Next
      BY Zenon DEF Next
    <2>2. QED
      BY Zenon, <2>1, WireNext DEF HandlesInv
  <1>3. UNCHANGED Handles /\ UNCHANGED recoverySnapshot /\ conn'.out = <<>> /\ ~conn'.up
    BY Zenon, <1>1 DEF Handles, recoverySnapshot
  <1>4. PICK other : other = [Closed EXCEPT !.open = TRUE]
    BY Zenon
  <1>5. other \in Handle /\ other.mine = FALSE
    BY Zenon, <1>4 DEF Closed, Handle
  <1>6. srv' \in Seq(Handle) /\ \A h \in DOMAIN srv' : srv'[h] = other
    <2>1. srv' = [h \in 1..others |-> other]
      BY Zenon, <1>1, <1>4
    <2>2. QED
      BY <1>5, <2>1, IsASeq
  <1>7. TablesOK' /\ CallsOK' /\ AnswerOK'
    <2>1. TablesOK'
      BY Zenon, <1>1, <1>3, <1>6 DEF HandlesInv, TablesOK
    <2>2. CallsOK'
      BY Zenon, <1>1, <1>3 DEF HandlesInv, CallsOK
    <2>3. QED
      BY Zenon, <1>3, <2>1, <2>2 DEF AnswerOK
  <1>8. TruthInv'
    BY Zenon, <1>1 DEF TruthInv
  <1>9. NoneForgotten'
    <2>1. \A h \in DOMAIN srv' : ~srv'[h].mine
      BY Zenon, <1>5, <1>6
    <2>2. QED
      BY Zenon, <2>1 DEF NoneForgotten
  <1>10. QED
    BY Zenon, <1>2, <1>7, <1>8, <1>9 DEF HandlesInv

\* What the server writes when it has served the request on the connection.
Answer(ok, answer) ==
    [from |-> reqMu, op |-> call[reqMu].op, h |-> call[reqMu].h, ok |-> ok, answer |-> answer]

\* The one request on the connection is the holder's; its answer is the only one.
LEMMA ReplyFacts ==
    ASSUME HandlesInv, Serve, NEW ok, NEW answer, Reply(ok, answer)
    PROVE  /\ reqMu \in Thread /\ Head(conn.in).call = call[reqMu]
           /\ conn.out = <<>> /\ conn'.up = conn.up
           /\ conn'.out = <<Answer(ok, answer)>> /\ conn'.out # <<>> /\ conn'.out[1] = Answer(ok, answer)
           /\ UNCHANGED <<reqMu, tracked, carried, stage, call, unsure, left, borrowed, stale, collided>>
           /\ UNCHANGED Handles /\ UNCHANGED recoverySnapshot
           /\ CallsOK' /\ WireInv'
  <1>1. UNCHANGED <<reqMu, tracked, carried, stage, call, unsure, left, borrowed, stale, collided>>
    BY Zenon DEF Serve, client, history
  <1>2. /\ conn.up /\ conn.out = <<>> /\ reqMu \in Thread
        /\ conn.in = <<[from |-> reqMu, call |-> call[reqMu]]>>
        /\ conn = [up |-> conn.up, in |-> conn.in, out |-> conn.out]
    BY Zenon DEF HandlesInv, WireInv, Quiet, Serve
  <1>3. PICK a : a = Answer(ok, answer)
    BY Zenon
  <1>4. Head(conn.in).from = reqMu /\ Head(conn.in).call = call[reqMu] /\ Tail(conn.in) = <<>>
    BY SMTT(30), <1>2
  <1>5. conn' = [conn EXCEPT !.in = <<>>, !.out = <<a>>]
    <2>1. Append(conn.out, a) = <<a>>
      BY SMTT(30), <1>2
    <2>2. QED
      BY Zenon, <1>3, <1>4, <2>1 DEF Reply, Answer
  <1>6. conn'.out = <<a>> /\ conn'.out # <<>> /\ conn'.out[1] = a /\ conn'.up = conn.up
    BY Zenon, <1>2, <1>5
  <1>7. UNCHANGED Handles /\ UNCHANGED recoverySnapshot
    BY Zenon, <1>1 DEF Handles, recoverySnapshot
  <1>8. CallsOK'
    BY Zenon, <1>1, <1>6, <1>7 DEF HandlesInv, CallsOK
  <1>9. WireInv'
    BY Zenon, ServeKeepsWire DEF HandlesInv
  <1>10. QED
    BY Zenon, <1>1, <1>2, <1>3, <1>4, <1>6, <1>7, <1>8, <1>9

\* What one served request has to leave in place.
LEMMA ReplyKeeps ==
    ASSUME HandlesInv, Serve, NEW ok, NEW answer, Reply(ok, answer),
           srv' \in Seq(Handle), AnswerOK',
           \A h \in Handles \ unsure : Truthful(h) => Answered("close", h)' \/ Truthful(h)',
           \A h \in DOMAIN srv' : srv'[h].open /\ srv'[h].mine =>
               \/ h \in DOMAIN srv /\ srv[h].open /\ srv[h].mine
               \/ h \in About(Answer(ok, answer))
    PROVE  HandlesInv'
  <1>1. /\ conn.out = <<>> /\ conn'.up = conn.up /\ conn'.out = <<Answer(ok, answer)>>
        /\ conn'.out[1] = Answer(ok, answer)
        /\ UNCHANGED <<reqMu, tracked, carried, stage, call, unsure, left, borrowed, stale, collided>>
        /\ UNCHANGED Handles /\ CallsOK' /\ WireInv'
    BY Zenon, ReplyFacts
  <1>2. TablesOK'
    BY Zenon, <1>1 DEF HandlesInv, TablesOK
  <1>3. TruthInv'
    <2>1. \A h : ~Answered("close", h)
      BY Zenon, <1>1 DEF Answered
    <2>2. ~stale /\ ~collided => \A h \in Handles \ unsure : Truthful(h)
      BY Zenon, <2>1 DEF HandlesInv, TruthInv
    <2>3. QED
      BY Zenon, <1>1, <2>2 DEF TruthInv
  <1>4. NoneForgotten'
    <2>1. SUFFICES ASSUME NEW h \in DOMAIN srv', srv'[h].open, srv'[h].mine
                   PROVE  \/ h \in Handles' \cup unsure' \cup left'
                          \/ \E i \in DOMAIN carried' : h = carried'[i].previous
                          \/ \E i \in DOMAIN conn'.out : h \in About(conn'.out[i])
      BY Zenon, <2>1 DEF NoneForgotten, About
    <2>2. CASE h \in DOMAIN srv /\ srv[h].open /\ srv[h].mine
      <3>1. DOMAIN conn.out = {}
        <4>1. DOMAIN << >> = {}
          BY SMTT(30)
        <4>2. QED
          BY Zenon, <1>1, <4>1
      <3>2. \/ h \in Handles \cup unsure \cup left
            \/ \E i \in DOMAIN carried : h = carried[i].previous
        BY Zenon, <2>2, <3>1 DEF HandlesInv, NoneForgotten
      <3>3. QED
        BY Zenon, <1>1, <3>2
    <2>3. CASE h \in About(Answer(ok, answer))
      <3>1. 1 \in DOMAIN conn'.out
        <4>1. 1 \in DOMAIN <<Answer(ok, answer)>>
          BY SMTT(30)
        <4>2. QED
          BY Zenon, <1>1, <4>1
      <3>2. QED
        BY Zenon, <1>1, <2>3, <3>1
    <2>4. QED
      BY Zenon, <2>1, <2>2, <2>3
  <1>5. QED
    BY Zenon, <1>1, <1>2, <1>3, <1>4 DEF HandlesInv

\* The fields of an answer.
LEMMA AnswerFields ==
    ASSUME NEW ok, NEW answer
    PROVE  LET a == Answer(ok, answer) IN
           /\ a.from = reqMu /\ a.op = call[reqMu].op /\ a.h = call[reqMu].h
           /\ a.ok = ok /\ a.answer = answer
  BY Zenon DEF Answer

\* A request that leaves every handle as it was, or only adds handles.
LEMMA AddedKeeps ==
    ASSUME HandlesInv, Serve, NEW ok, NEW answer, Reply(ok, answer), srv' \in Seq(Handle), AnswerOK',
           \A h \in DOMAIN srv : h \in DOMAIN srv' /\ srv'[h] = srv[h],
           \A h \in DOMAIN srv' \ DOMAIN srv : h \in About(Answer(ok, answer)),
           ~ok \/ call[reqMu].op \notin {"delete", "keep", "close"}
    PROVE  HandlesInv'
  <1>1. /\ conn.out = <<>> /\ conn'.out[1] = Answer(ok, answer)
        /\ UNCHANGED <<tracked, borrowed>>
    BY Zenon, ReplyFacts
  <1>2. \A op, h : ~Answered(op, h)
    BY Zenon, <1>1 DEF Answered
  <1>3. \A op \in {"delete", "keep"}, h \in Handles : ~Answered(op, h)'
    BY SMTT(30), <1>1, AnswerFields DEF Answered
  <1>4. \A h \in Handles \ unsure : Truthful(h) => Truthful(h)'
    BY Zenon, <1>1, <1>2, <1>3 DEF Truthful
  <1>5. \A h \in DOMAIN srv' : srv'[h].open /\ srv'[h].mine =>
               \/ h \in DOMAIN srv /\ srv[h].open /\ srv[h].mine
               \/ h \in About(Answer(ok, answer))
    BY Zenon
  <1>6. QED
    BY Zenon, <1>4, <1>5, ReplyKeeps

\* The server opens a handle.
LEMMA ServeOpenKeeps ==
    ASSUME HandlesInv, Serve, NEW r, r = Head(conn.in).call, r.op = "open",
           srv' = Append(srv, NewHandle([node |-> r.node, writable |-> r.writable, del |-> FALSE])),
           Reply(TRUE, <<Len(srv')>>)
    PROVE  HandlesInv'
  <1>1. PICK answer : answer = <<Len(srv')>>
    BY Zenon
  <1>2. Reply(TRUE, answer)
    BY Zenon, <1>1
  <1>3. /\ reqMu \in Thread /\ r = call[reqMu] /\ conn'.out[1] = Answer(TRUE, answer) /\ UNCHANGED call
    BY Zenon, <1>2, ReplyFacts
  <1>4. reqMu = "program" /\ r.node \in Node /\ r.writable \in BOOLEAN
    BY Zenon, <1>3 DEF HandlesInv, CallsOK, Thread
  <1>5. PICK new : new = NewHandle([node |-> r.node, writable |-> r.writable, del |-> FALSE])
    BY Zenon
  <1>6. new \in Handle
    BY Zenon, <1>4, <1>5 DEF NewHandle, Handle
  <1>7. srv \in Seq(Handle) /\ srv' = Append(srv, new)
    BY Zenon, <1>5 DEF HandlesInv, TablesOK
  <1>8. /\ srv' \in Seq(Handle) /\ Len(srv') \in DOMAIN srv' /\ srv'[Len(srv')] = new
        /\ \A h \in DOMAIN srv : h \in DOMAIN srv' /\ srv'[h] = srv[h]
        /\ \A h \in DOMAIN srv' \ DOMAIN srv : h = Len(srv')
    BY SMTT(30), <1>6, <1>7, AppendProperties, LenProperties
  <1>9. answer[1] = Len(srv')
    BY Zenon, <1>1
  <1>10. LET a == Answer(TRUE, answer) IN a.op = "open" /\ a.ok /\ a.answer = answer
    BY Zenon, <1>3 DEF Answer
  <1>11. About(Answer(TRUE, answer)) = {Len(srv')}
    BY Zenon, <1>9, <1>10 DEF About
  <1>12. AnswerOK'
    <2>1. /\ conn'.out[1].op = "open" /\ conn'.out[1].answer[1] = Len(srv')
          /\ call'["program"] = r
      BY Zenon, <1>3, <1>4, <1>9, <1>10
    <2>2. srv'[Len(srv')] = NewHandle([node |-> r.node, writable |-> r.writable, del |-> FALSE])
      BY Zenon, <1>5, <1>8
    <2>3. QED
      BY Zenon, <1>8, <2>1, <2>2 DEF AnswerOK
  <1>13. \A h \in DOMAIN srv' \ DOMAIN srv : h \in About(Answer(TRUE, answer))
    BY Zenon, <1>8, <1>11
  <1>14. call[reqMu].op \notin {"delete", "keep", "close"}
    BY Zenon, <1>3
  <1>15. QED
    BY Zenon, <1>2, <1>8, <1>12, <1>13, <1>14, AddedKeeps

\* The server recovers handles.
LEMMA ServeRecoverKeeps ==
    ASSUME HandlesInv, Serve, NEW r, r = Head(conn.in).call, r.op = "recover",
           NEW gone \in SUBSET DOMAIN r.specs,
           srv' = srv \o Recovered(r.specs, gone).handles,
           Reply(TRUE, Recovered(r.specs, gone).results)
    PROVE  HandlesInv'
  <1>1. PICK results : results = Recovered(r.specs, gone).results
    BY Zenon
  <1>2. Reply(TRUE, results)
    BY Zenon, <1>1
  <1>3. /\ reqMu \in Thread /\ r = call[reqMu] /\ conn'.out[1] = Answer(TRUE, results) /\ UNCHANGED call
    BY Zenon, <1>2, ReplyFacts
  <1>4. reqMu = "program" /\ r.specs = carried \o recoverySnapshot
    BY Zenon, <1>3 DEF HandlesInv, CallsOK, Thread
  <1>5. PICK specs : specs = r.specs
    BY Zenon
  <1>6. specs \in Seq(Recovery)
    BY Zenon, <1>4, <1>5, SpecsFacts DEF HandlesInv, SpecsOK
  <1>7. srv \in Seq(Handle)
    BY Zenon DEF HandlesInv, TablesOK
  <1>8. /\ srv' \in Seq(Handle) /\ DOMAIN srv \subseteq DOMAIN srv'
        /\ \A h \in DOMAIN srv : srv'[h] = srv[h]
        /\ ResultsOK(results, specs)'
        /\ \A h \in DOMAIN srv' \ DOMAIN srv : \E i \in DOMAIN specs : results[i].id = h
    <2>1. gone \in SUBSET DOMAIN specs /\ results = Recovered(specs, gone).results
          /\ srv' = srv \o Recovered(specs, gone).handles
      BY Zenon, <1>1, <1>5
    <2>2. Adds(specs, results)
      BY Zenon, <1>6, <1>7, <2>1, RecoveredFacts
    <2>3. QED
      BY Zenon, <2>2 DEF Adds, ResultsOK
  <1>9. DOMAIN results = DOMAIN specs
    BY Zenon, <1>8 DEF ResultsOK
  <1>10. LET a == Answer(TRUE, results) IN a.op = "recover" /\ a.ok /\ a.answer = results
    BY Zenon, <1>3 DEF Answer
  <1>11. About(Answer(TRUE, results)) = {results[i].id : i \in DOMAIN results}
    BY Zenon, <1>10 DEF About
  <1>12. AnswerOK'
    <2>1. conn'.out[1].op = "recover" /\ conn'.out[1].answer = results /\ call'["program"].specs = specs
      BY Zenon, <1>3, <1>4, <1>5, <1>10
    <2>2. ResultsOK(conn.out[1].answer, call["program"].specs)'
      BY Zenon, <1>8, <2>1 DEF ResultsOK
    <2>3. QED
      BY Zenon, <2>1, <2>2 DEF AnswerOK
  <1>13. \A h \in DOMAIN srv' \ DOMAIN srv : h \in About(Answer(TRUE, results))
    BY Zenon, <1>8, <1>9, <1>11
  <1>14. call[reqMu].op \notin {"delete", "keep", "close"}
    BY Zenon, <1>3
  <1>15. \A h \in DOMAIN srv : h \in DOMAIN srv' /\ srv'[h] = srv[h]
    BY Zenon, <1>8
  <1>16. QED
    BY Zenon, <1>2, <1>8, <1>12, <1>13, <1>14, <1>15, AddedKeeps

\* The server refuses, or answers without changing a handle.
LEMMA ServePlainKeeps ==
    ASSUME HandlesInv, Serve, UNCHANGED srv, NEW ok, NEW answer, Reply(ok, answer),
           ~ok \/ Head(conn.in).call.op \in {"create", "resume", "beat", "use"}
    PROVE  HandlesInv'
  <1>1. Head(conn.in).call = call[reqMu] /\ conn'.out[1] = Answer(ok, answer)
    BY Zenon, ReplyFacts
  <1>2. ~ok \/ call[reqMu].op \in {"create", "resume", "beat", "use"}
    BY Zenon, <1>1
  <1>3. conn'.out[1].ok = ok /\ conn'.out[1].op = call[reqMu].op
    BY SMTT(30), <1>1, AnswerFields
  <1>4. AnswerOK'
    BY Zenon, <1>2, <1>3 DEF AnswerOK
  <1>5. srv' \in Seq(Handle) /\ srv' = srv
    BY Zenon DEF HandlesInv, TablesOK
  <1>6. ~ok \/ call[reqMu].op \notin {"delete", "keep", "close"}
    BY Zenon, <1>2
  <1>7. QED
    BY Zenon, <1>4, <1>5, <1>6, AddedKeeps

\* The server changes or closes a handle.
LEMMA ServeChangeKeeps ==
    ASSUME HandlesInv, Serve, NEW r, r = Head(conn.in).call, r.h \in DOMAIN srv, srv[r.h].open,
           NEW answer, Reply(TRUE, answer),
           \/ r.op \in {"delete", "keep"} /\ srv' = [srv EXCEPT ![r.h].del = (r.op = "delete")]
           \/ r.op = "close" /\ srv' = [srv EXCEPT ![r.h] = Closed]
    PROVE  HandlesInv'
  <1>1. /\ reqMu \in Thread /\ r = call[reqMu] /\ conn'.out[1] = Answer(TRUE, answer)
        /\ conn'.out # <<>> /\ conn.out = <<>> /\ UNCHANGED <<call, tracked, borrowed>>
    BY Zenon, ReplyFacts
  <1>2. /\ conn'.out[1].ok /\ conn'.out[1].op = r.op /\ conn'.out[1].h = r.h
    BY SMTT(30), <1>1 DEF Answer
  <1>3. PICK x : x = r.h
    BY Zenon
  <1>4. srv \in Seq(Handle) /\ DOMAIN srv = 1..Len(srv) /\ Len(srv) \in Nat
    BY Zenon, LenProperties DEF HandlesInv, TablesOK
  <1>5. \A h \in DOMAIN srv : srv[h] \in Handle
    BY Zenon, <1>4, ElementOfSeq
  <1>6. PICK new \in Handle : /\ srv' = [srv EXCEPT ![x] = new]
                              /\ r.op = "close" => new = Closed
                              /\ r.op # "close" => new = [srv[x] EXCEPT !.del = (r.op = "delete")]
    <2>1. Closed \in Handle
      BY Zenon DEF Closed, Handle
    <2>2. [srv[x] EXCEPT !.del = (r.op = "delete")] \in Handle
      BY Zenon, <1>3, <1>5 DEF Handle
    <2>3. QED
      BY Zenon, <1>3, <2>1, <2>2
  <1>7. /\ srv' \in Seq(Handle) /\ DOMAIN srv' = DOMAIN srv /\ srv'[x] = new
        /\ \A h \in DOMAIN srv : h # x => srv'[h] = srv[h]
    BY Zenon, <1>3, <1>4, <1>6, ExceptSeq
  <1>8. AnswerOK'
    BY Zenon, <1>2, <1>3, <1>6, <1>7 DEF AnswerOK
  <1>9. \A op, h : ~Answered(op, h)
    BY Zenon, <1>1 DEF Answered
  <1>10. ASSUME NEW h \in Handles \ unsure, Truthful(h) PROVE Answered("close", h)' \/ Truthful(h)'
    <2>1. /\ h \in DOMAIN srv /\ srv[h].open /\ srv[h].mine /\ tracked[h].node = srv[h].node
          /\ srv[h].del = tracked[h].del
          /\ h \notin borrowed => tracked[h].writable = srv[h].writable
      BY Zenon, <1>9, <1>10 DEF Truthful
    <2>2. CASE h # x
      <3>1. \A op : ~Answered(op, h)'
        BY Zenon, <1>2, <1>3, <2>2 DEF Answered
      <3>2. /\ h \in DOMAIN srv' /\ srv'[h].open /\ srv'[h].mine /\ tracked'[h].node = srv'[h].node
            /\ srv'[h].del = tracked'[h].del
            /\ h \notin borrowed' => tracked'[h].writable = srv'[h].writable
        BY Zenon, <1>1, <1>7, <2>1, <2>2
      <3>3. QED
        BY Zenon, <3>1, <3>2 DEF Truthful
    <2>3. CASE h = x /\ r.op = "close"
      BY Zenon, <1>1, <1>2, <1>3, <2>3 DEF Answered
    <2>4. CASE h = x /\ r.op # "close"
      <3>1. /\ new.open = srv[x].open /\ new.mine = srv[x].mine /\ new.node = srv[x].node
            /\ new.writable = srv[x].writable /\ new.del = (r.op = "delete")
        BY Zenon, <1>3, <1>5, <1>6, <2>4 DEF Handle
      <3>2. r.op \in {"delete", "keep"}
        BY Zenon, <2>4
      <3>3. /\ Answered("delete", h)' <=> r.op = "delete"
            /\ Answered("keep", h)' <=> r.op = "keep"
        BY Zenon, <1>1, <1>2, <1>3, <2>4 DEF Answered
      <3>4. srv'[h].del = IF Answered("delete", h)' THEN TRUE
                          ELSE IF Answered("keep", h)' THEN FALSE ELSE tracked'[h].del
        BY Zenon, <1>7, <2>4, <3>1, <3>2, <3>3
      <3>5. /\ h \in DOMAIN srv' /\ srv'[h].open /\ srv'[h].mine /\ tracked'[h].node = srv'[h].node
            /\ h \notin borrowed' => tracked'[h].writable = srv'[h].writable
        BY Zenon, <1>1, <1>7, <2>1, <2>4, <3>1
      <3>6. QED
        BY Zenon, <3>4, <3>5 DEF Truthful, Answered
    <2>5. QED
      BY Zenon, <2>2, <2>3, <2>4
  <1>11. ASSUME NEW h \in DOMAIN srv', srv'[h].open, srv'[h].mine
         PROVE  h \in DOMAIN srv /\ srv[h].open /\ srv[h].mine
    <2>1. CASE h = x /\ r.op # "close"
      <3>1. new.mine = srv[x].mine
        BY Zenon, <1>3, <1>5, <1>6, <2>1 DEF Handle
      <3>2. QED
        BY Zenon, <1>3, <1>7, <1>11, <2>1, <3>1
    <2>2. CASE h = x /\ r.op = "close"
      BY SMTT(30), <1>6, <1>7, <1>11, <2>2 DEF Closed
    <2>3. CASE h # x
      BY Zenon, <1>7, <1>11, <2>3
    <2>4. QED
      BY Zenon, <2>1, <2>2, <2>3
  <1>12. QED
    BY Zenon, <1>7, <1>8, <1>10, <1>11, ReplyKeeps

LEMMA ServeKeeps ==
    ASSUME HandlesInv, Serve
    PROVE  HandlesInv'
  <1>1. PICK r : r = Head(conn.in).call
    BY Zenon
  <1>2. \/ r.op = "create" /\ (\E answer : Reply(TRUE, answer)) /\ UNCHANGED srv
        \/ Reply(FALSE, <<>>) /\ UNCHANGED srv
        \/ r.op \in {"resume", "beat", "use"} /\ Reply(TRUE, <<r.sid>>) /\ UNCHANGED srv
        \/ /\ r.op = "open" /\ Reply(TRUE, <<Len(srv')>>)
           /\ srv' = Append(srv, NewHandle([node |-> r.node, writable |-> r.writable, del |-> FALSE]))
        \/ /\ r.h \in DOMAIN srv /\ srv[r.h].open /\ Reply(TRUE, <<>>)
           /\ \/ r.op \in {"delete", "keep"} /\ srv' = [srv EXCEPT ![r.h].del = (r.op = "delete")]
              \/ r.op = "close" /\ srv' = [srv EXCEPT ![r.h] = Closed]
        \/ /\ r.op = "recover"
           /\ \E gone \in SUBSET DOMAIN r.specs :
                 /\ srv' = srv \o Recovered(r.specs, gone).handles
                 /\ Reply(TRUE, Recovered(r.specs, gone).results)
    BY Zenon, <1>1 DEF Serve, server
  <1>3. ASSUME r.op = "create" \/ r.op \in {"resume", "beat", "use"}, UNCHANGED srv,
               NEW answer, Reply(TRUE, answer)
        PROVE  HandlesInv'
    <2>1. Head(conn.in).call.op \in {"create", "resume", "beat", "use"}
      BY Zenon, <1>1, <1>3
    <2>2. QED
      BY Zenon, <1>3, <2>1, ServePlainKeeps
  <1>4. CASE Reply(FALSE, <<>>) /\ UNCHANGED srv
    BY Zenon, <1>4, ServePlainKeeps
  <1>5. QED
    BY Zenon, <1>1, <1>2, <1>3, <1>4, ServeOpenKeeps, ServeChangeKeeps, ServeRecoverKeeps

-----------------------------------------------------------------------------
(* The invariant, and what follows from it.                                *)

LEMMA HandlesInit == Init => HandlesInv
  <1> SUFFICES ASSUME Init PROVE HandlesInv
    BY Zenon
  <1>1. WireInv
    BY Zenon, WireInit
  <1>2. conn.out = <<>> /\ srv = <<>> /\ carried = <<>> /\ Handles = {} /\ stage = "session" /\ tracked = <<>>
    BY SMTT(30) DEF Init, Offline, Handles
  <1>3. call["program"] = NoCall /\ call["beat"] = NoCall
    BY Zenon DEF Init, Thread
  <1>4. TablesOK
    <2>1. IsFiniteSet({})
      BY Zenon, FS_EmptySet
    <2>2. tracked \in [Handles -> Entry]
      BY SMTT(30), <1>2
    <2>3. Distinct(carried)
      BY <1>2 DEF Distinct
    <2>4. QED
      BY SMTT(30), <1>2, <2>1, <2>2, <2>3 DEF TablesOK
  <1>5. CallsOK
    BY SMTT(30), <1>3 DEF CallsOK, NoCall, OnHandle
  <1>6. AnswerOK
    BY Zenon, <1>2, NoAnswer
  <1>7. TruthInv /\ NoneForgotten
    BY SMTT(30), <1>2 DEF TruthInv, NoneForgotten
  <1>8. QED
    BY Zenon, <1>1, <1>4, <1>5, <1>6, <1>7 DEF HandlesInv

\* A step that leaves the connection, the tables and the calls alone.
LEMMA IdleKeeps ==
    ASSUME HandlesInv, WireInv',
           UNCHANGED <<srv, conn, tracked, carried, stage, call, unsure, left, borrowed, stale, collided>>
    PROVE  HandlesInv'
  <1>1. UNCHANGED Handles /\ UNCHANGED recoverySnapshot
    BY Zenon DEF Handles, recoverySnapshot
  <1>2. TablesOK'
    BY Zenon, TablesKept DEF HandlesInv
  <1>3. CallsOK'
    BY Zenon, <1>1 DEF HandlesInv, CallsOK
  <1>4. AnswerOK'
    BY Zenon DEF HandlesInv, AnswerOK, ResultsOK
  <1>5. TruthInv' /\ NoneForgotten'
    BY Zenon, UntouchedKeeps DEF HandlesInv
  <1>6. QED
    BY Zenon, <1>2, <1>3, <1>4, <1>5 DEF HandlesInv

LEMMA HandlesNext == HandlesInv /\ [Next]_vars => HandlesInv'
  <1> SUFFICES ASSUME HandlesInv, [Next]_vars PROVE HandlesInv'
    BY Zenon
  <1>1. WireInv'
    BY Zenon, WireNext DEF HandlesInv
  <1>2. CASE UNCHANGED vars
    <2>1. UNCHANGED <<srv, conn, tracked, carried, stage, call, unsure, left, borrowed, stale, collided>>
      BY Zenon, <1>2 DEF vars
    <2>2. QED
      BY Zenon, <1>1, <2>1, IdleKeeps
  <1>3. ASSUME NEW s \in sessions, Expire(s) PROVE HandlesInv'
    <2>1. UNCHANGED <<srv, conn, tracked, carried, stage, call, unsure, left, borrowed, stale, collided>>
      BY Zenon, <1>3 DEF Expire, client
    <2>2. QED
      BY Zenon, <1>1, <2>1, IdleKeeps
  <1>4. CASE Next
    BY Zenon, <1>3, <1>4, AskKeeps, ConnectKeeps, ReplaceKeeps, ReceiveKeeps, ReceiveFailsKeeps,
       ServeKeeps, LoseKeeps, RestartKeeps DEF Next
  <1>5. QED
    BY Zenon, <1>2, <1>4

LEMMA HandlesAlways == Spec => []HandlesInv
  <1>1. Spec => Init /\ [][Next]_vars
    BY PTL DEF Spec
  <1>2. QED
    BY <1>1, HandlesInit, HandlesNext, PTL

\* The client's record of a handle no request is out for is the server's: it is
\* open there, for the same file, with the same access and deletion mark
\* (state.go, updateHandle, setHandleDeleteOnClose, removeHandle and
\* applyRecoveredHandles), but for what a lost answer or a recovery that ran
\* into its own numbers leaves in doubt.
THEOREM TrackedIsTruthful == Spec => []TrackedTruthful
  <1>1. ASSUME HandlesInv PROVE TrackedTruthful
    <2>1. SUFFICES ASSUME ~stale, ~collided, NEW h \in Handles \ (unsure \cup {call["program"].h})
                   PROVE  /\ h \in DOMAIN srv /\ srv[h].open /\ srv[h].mine
                          /\ tracked[h].node = srv[h].node /\ tracked[h].del = srv[h].del
                          /\ h \notin borrowed => tracked[h].writable = srv[h].writable
      BY Zenon, <2>1 DEF TrackedTruthful
    <2>2. ASSUME NEW op, Answered(op, h) PROVE FALSE
      <3>1. conn.out # <<>> /\ conn.out[1].h = h
        BY Zenon, <2>2 DEF Answered
      <3>2. reqMu \in Thread /\ AnswerID(conn.out[1]) = RequestID(reqMu)
        BY Zenon, <1>1, <3>1 DEF HandlesInv, WireInv, Quiet
      <3>3. call[reqMu].h = h
        BY Zenon, <3>1, <3>2 DEF AnswerID, RequestID
      <3>4. h # 0
        BY Zenon, <1>1 DEF HandlesInv, TablesOK
      <3>5. QED
        BY Zenon, <1>1, <2>1, <3>2, <3>3, <3>4 DEF HandlesInv, CallsOK, Thread
    <2>3. Truthful(h)
      BY Zenon, <1>1, <2>1, <2>2 DEF HandlesInv, TruthInv
    <2>4. QED
      BY Zenon, <2>2, <2>3 DEF Truthful
  <1>2. QED
    BY <1>1, HandlesAlways, PTL

\* No handle that the server keeps open for the client is lost sight of: it is
\* tracked, handed on for recovery or named by an answer on its way, or a lost
\* answer or a recovery that replaced it accounts for it (server.go,
\* dispatchRecovery; state.go, recoverySnapshot and applyRecoveredHandles).
THEOREM NoHandleForgotten == Spec => []NoneForgotten
  <1>1. HandlesInv => NoneForgotten
    BY Zenon DEF HandlesInv
  <1>2. QED
    BY <1>1, HandlesAlways, PTL

\* A recovery loses no handle that the server has recovered: each is tracked
\* under its new number with its file and its deletion mark, and with the access
\* it had if the client tracked it before (state.go, applyRecoveredHandles),
\* unless a new number is also an old one.
THEOREM RecoveredHandlesStay == Spec => RecoveryKeepsHandles
  <1> DEFINE A == left' # left /\ ~stale' /\ ~collided' =>
                    LET answer == conn.out[1].answer IN
                    \A i \in DOMAIN answer : answer[i].id # 0 =>
                        /\ answer[i].id \in DOMAIN tracked'
                        /\ LET new == tracked'[answer[i].id] spec == answer[i].spec
                           IN  /\ new.node = spec.node /\ new.del = spec.del
                               /\ spec.previous \in Handles => new.writable = spec.writable
  <1>1. ASSUME HandlesInv, NEW t \in Thread, Receive(t), conn.out[1].ok, conn.out[1].op = "recover" PROVE A
    <2>1. SUFFICES ASSUME ~collided' PROVE A
      BY Zenon, <2>1
    <2>2. PICK results : results = conn.out[1].answer
      BY Zenon
    <2>3. RecoveredInto(results)
      BY Zenon, <1>1, <2>2, RecoveredTable
    <2>4. call[t].op = "recover" /\ Apply(call[t], results)
      BY Zenon, <1>1, <2>2, ReceiveFacts
    <2>5. ~Collides(results)
      BY Zenon, <2>1, <2>4 DEF Apply
    <2>6. Handles' = DOMAIN tracked'
      BY Zenon DEF Handles
    <2>7. QED
      BY Zenon, <2>2, <2>3, <2>5, <2>6 DEF RecoveredInto
  <1>2. ASSUME HandlesInv, NEW t \in Thread, Receive(t), ~(conn.out[1].ok /\ conn.out[1].op = "recover")
        PROVE  left' = left
    <2>1. /\ conn.out[1].ok => Apply(call[t], conn.out[1].answer)
          /\ ~conn.out[1].ok => UNCHANGED history
          /\ conn.out[1].op = call[t].op
      BY Zenon, <1>2, ReceiveFacts
    <2>2. QED
      BY Zenon, <1>2, <2>1 DEF Apply, history
  <1>3. ASSUME Next, ~(\E t \in Thread : Receive(t)), ~(\E others \in 0..1 : Restart(others))
        PROVE  left' = left
    BY Zenon, <1>3, RequestsAsk DEF Next, Request, Connect, Replace, ReceiveFails, Serve, Lose, Expire, history
  <1>4. ASSUME NEW others \in 0..1, Restart(others) PROVE A
    BY Zenon, <1>4 DEF Restart
  <1>5. HandlesInv /\ Next => A
    BY Zenon, <1>1, <1>2, <1>3, <1>4
  <1>6. UNCHANGED vars => A
    BY Zenon DEF vars
  <1>7. HandlesInv /\ [Next]_vars => [A]_vars
    BY Zenon, <1>5
  <1>8. Spec => Init /\ [][Next]_vars
    BY PTL DEF Spec
  <1>9. Spec => [][A]_vars
    <2> HIDE DEF A
    <2>1. QED
      BY <1>7, <1>8, HandlesAlways, PTL
  <1>10. QED
    BY Zenon, <1>9 DEF RecoveryKeepsHandles

=============================================================================
