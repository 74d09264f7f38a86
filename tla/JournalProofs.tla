--------------------------- MODULE JournalProofs ---------------------------
(***************************************************************************)
(* Proofs about the change journal (Journal), for any number of writers,   *)
(* watchers, paths, and any retention.                                     *)
(***************************************************************************)
EXTENDS Journal, FiniteSetTheorems, SequenceTheorems, TLAPS

\* Numbers of stored and travelling events lie between 1 and the counter.
SeqsBounded ==
    /\ \A i \in DOMAIN log : log[i].seq <= nextSeq
    /\ \A w \in Writer : inflight[w].seq <= nextSeq

\* The inductive invariant: SeqsUnique needs to know that a number not taken
\* yet is in no event (SeqsBounded), and TypeOK needs JournalIsLogTail for the
\* events that Append keeps.
JournalInv == TypeOK /\ SeqsBounded /\ SeqsUnique /\ JournalIsLogTail /\ FreshWatchIDs

-----------------------------------------------------------------------------
(* Lemmas about the helpers.                                               *)

\* The newest n elements of a sequence are a sequence of at most n elements,
\* and the k-th from the end is the k-th from the end of the whole.
LEMMA NewestFacts ==
    ASSUME NEW S, NEW s \in Seq(S), NEW n \in Nat
    PROVE  /\ Newest(s, n) \in Seq(S)
           /\ Len(Newest(s, n)) = IF Len(s) > n THEN n ELSE Len(s)
           /\ \A i \in 1..Len(Newest(s, n)) :
                Newest(s, n)[i] = s[i + Len(s) - Len(Newest(s, n))]
<1>1. CASE Len(s) > n
  <2> DEFINE k == Len(s) - n + 1
  <2>1. k \in 1..Len(s) + 1 /\ Len(s) \in Nat /\ Len(s) - k + 1 = n
    BY <1>1
  <2>2. Newest(s, n) = SubSeq(s, k, Len(s))
    BY Zenon, <1>1 DEF Newest
  <2>3. /\ SubSeq(s, k, Len(s)) \in Seq(S)
        /\ Len(SubSeq(s, k, Len(s))) = n
        /\ \A i \in 1..n : SubSeq(s, k, Len(s))[i] = s[k + i - 1]
    BY <2>1, SubSeqProperties
  <2> QED BY SMTT(30), <1>1, <2>1, <2>2, <2>3
<1>2. CASE ~(Len(s) > n)
  BY <1>2 DEF Newest
<1> QED BY Zenon, <1>1, <1>2

\* Trimming before appending makes no difference to what is kept.
LEMMA NewestAppend ==
    ASSUME NEW S, NEW s \in Seq(S), NEW n \in Nat \ {0}, NEW e \in S
    PROVE  Newest(Append(Newest(s, n), e), n) = Newest(Append(s, e), n)
<1> DEFINE t == Append(Newest(s, n), e)
           u == Append(s, e)
           a == Newest(t, n)
           b == Newest(u, n)
<1>1. t \in Seq(S) /\ u \in Seq(S)
  BY NewestFacts
<1>2. /\ Len(t) = Len(Newest(s, n)) + 1 /\ Len(u) = Len(s) + 1
      /\ \A i \in 1..Len(t) : t[i] = IF i = Len(t) THEN e ELSE Newest(s, n)[i]
      /\ \A i \in 1..Len(u) : u[i] = IF i = Len(u) THEN e ELSE s[i]
  BY NewestFacts
<1>3. /\ a \in Seq(S) /\ b \in Seq(S) /\ Len(a) = Len(b)
  <2> HIDE DEF t, u
  <2>1. /\ a \in Seq(S) /\ Len(a) = IF Len(t) > n THEN n ELSE Len(t)
        /\ b \in Seq(S) /\ Len(b) = IF Len(u) > n THEN n ELSE Len(u)
    BY Zenon, <1>1, NewestFacts
  <2>2. Len(Newest(s, n)) = IF Len(s) > n THEN n ELSE Len(s)
    BY Zenon, NewestFacts
  <2> QED BY <1>2, <2>1, <2>2
<1>4. ASSUME NEW i \in 1..Len(a) PROVE a[i] = b[i]
  <2> HIDE DEF a, b, t, u
  <2>1. a[i] = t[i + Len(t) - Len(a)] /\ b[i] = u[i + Len(u) - Len(b)]
    BY SMTT(30), <1>1, <1>3, NewestFacts DEF a, b
  <2>2. Len(a) <= Len(t) /\ Len(b) <= Len(u)
    BY SMTT(30), <1>1, NewestFacts DEF a, b
  <2>3. CASE i = Len(a)
    BY <2>1, <2>3, <1>1, <1>2, <1>3
  <2>4. CASE i < Len(a)
    <3>1. /\ t[i + Len(t) - Len(a)] = Newest(s, n)[i + Len(t) - Len(a)]
          /\ u[i + Len(u) - Len(b)] = s[i + Len(u) - Len(b)]
          /\ i + Len(t) - Len(a) \in 1..Len(Newest(s, n))
      BY SMTT(30), <2>2, <2>4, <1>1, <1>2, <1>3, NewestFacts
    <3>2. Newest(s, n)[i + Len(t) - Len(a)] = s[i + Len(t) - Len(a) + Len(s) - Len(Newest(s, n))]
      BY Zenon, <3>1, NewestFacts
    <3> QED BY <2>1, <3>1, <3>2, <1>2, <1>3, NewestFacts
  <2> QED BY <2>3, <2>4
<1> HIDE DEF a, b
<1>5. a = b
  BY SMTT(30), <1>3, <1>4
<1> QED BY Zenon, <1>5 DEF a, b

\* Stored events have positive numbers, "no event" has the number 0.
LEMMA SeqTypes ==
    ASSUME TypeOK
    PROVE  /\ \A i \in DOMAIN log : log[i] \in Event /\ log[i].seq \in Nat \ {0}
           /\ \A w \in Writer : inflight[w] # NoEvent => inflight[w] \in Event
           /\ \A w \in Writer : inflight[w].seq \in Nat
           /\ \A w \in Writer : inflight[w] # NoEvent => inflight[w].seq # 0
<1>1. \A e \in Event : e.seq \in Nat \ {0}
  BY Zenon DEF Event
<1>2. NoEvent.seq = 0
  BY Zenon DEF NoEvent
<1>3. log \in Seq(Event) /\ inflight \in [Writer -> Event \cup {NoEvent}]
  BY Zenon DEF TypeOK
<1>4. \A i \in DOMAIN log : log[i] \in Event
  BY <1>3
<1>5. \A w \in Writer : inflight[w] \in Event \/ inflight[w] = NoEvent
  BY Zenon, <1>3
<1> QED BY <1>1, <1>2, <1>4, <1>5

-----------------------------------------------------------------------------
(* The invariant: initial states and writers.                              *)

\* The invariant holds in an empty journal.
LEMMA InitInv == Init => JournalInv
BY RetentionAssumption
   DEF Init, JournalInv, TypeOK, SeqsBounded, SeqsUnique, JournalIsLogTail, FreshWatchIDs,
       Newest, NoEvent, Idle, Call, WatchIDBase

\* A handler that changes the tree only notes what it has to append.
LEMMA MutateInv ==
    ASSUME JournalInv, NEW w \in Writer, NEW list \in Seq(Change),
           tree' = tree + 1, todo' = [todo EXCEPT ![w] = list],
           UNCHANGED <<brokerVars, inflight, call, log>>
    PROVE  JournalInv'
<1>1. todo' \in [Writer -> Seq(Change)] /\ tree' \in Nat
  BY DEF JournalInv, TypeOK
<1>2. TypeOK'
  BY Zenon, <1>1 DEF JournalInv, TypeOK, brokerVars
<1> QED BY <1>2 DEF JournalInv, SeqsBounded, SeqsUnique, JournalIsLogTail, FreshWatchIDs, brokerVars

\* Taking a number keeps all numbers different.
LEMMA AppendNumberInv ==
    ASSUME JournalInv, NEW w \in Writer, AppendNumber(w)
    PROVE  JournalInv'
<1> DEFINE c == Head(todo[w])
           e == [seq |-> nextSeq + 1, path |-> c.path, old |-> c.old, mut |-> c.mut]
<1>1. nextSeq \in Nat /\ inflight \in [Writer -> Event \cup {NoEvent}]
  BY Zenon DEF JournalInv, TypeOK
<1>2. c \in Change /\ Tail(todo[w]) \in Seq(Change)
  BY Zenon, HeadTailProperties DEF JournalInv, TypeOK, AppendNumber
<1>3. e \in Event
  BY <1>1, <1>2 DEF Change, Event
<1>4. /\ inflight' = [inflight EXCEPT ![w] = e] /\ inflight[w] = NoEvent
      /\ nextSeq' = nextSeq + 1
      /\ todo' = [todo EXCEPT ![w] = Tail(todo[w])]
      /\ UNCHANGED <<tree, events, nextWatchID, watches, call, log>>
  BY Zenon DEF AppendNumber
<1>5. e.seq = nextSeq + 1
  BY Zenon
<1> HIDE DEF e, c
<1>6. TypeOK'
  BY SMTT(30), <1>1, <1>2, <1>3, <1>4 DEF JournalInv, TypeOK
<1>7. \A v \in Writer : inflight'[v] = IF v = w THEN e ELSE inflight[v]
  BY Zenon, <1>1, <1>4
<1>8. /\ \A v \in Writer : inflight[v].seq \in Nat /\ inflight[v].seq <= nextSeq
      /\ \A i \in DOMAIN log : log[i].seq \in Nat /\ log[i].seq <= nextSeq
  BY Zenon, SeqTypes DEF JournalInv, SeqsBounded
<1>9. SeqsBounded'
  BY <1>1, <1>4, <1>5, <1>7, <1>8 DEF SeqsBounded
<1>10. SeqsUnique'
  <2>1. \A i, j \in DOMAIN log : log[i].seq = log[j].seq => i = j
    BY Zenon DEF JournalInv, SeqsUnique
  <2>2. \A v, u \in Writer : v # u /\ inflight'[v] # NoEvent => inflight'[v].seq # inflight'[u].seq
    BY <1>1, <1>5, <1>7, <1>8 DEF JournalInv, SeqsUnique
  <2>3. \A i \in DOMAIN log, v \in Writer : log[i].seq # inflight'[v].seq
    BY <1>1, <1>5, <1>7, <1>8 DEF JournalInv, SeqsUnique
  <2>4. ASSUME NEW n \in 1..nextSeq + 1
        PROVE  \/ \E i \in DOMAIN log : log[i].seq = n
               \/ \E v \in Writer : inflight'[v].seq = n
    <3>1. CASE n = nextSeq + 1
      BY Zenon, <3>1, <1>5, <1>7
    <3>2. CASE n # nextSeq + 1
      <4>1. n \in 1..nextSeq
        BY <3>2, <1>1
      <4>2. inflight[w].seq # n
        BY <1>4, <4>1 DEF NoEvent
      <4> QED BY Zenon, <4>1, <4>2, <1>7 DEF JournalInv, SeqsUnique
    <3> QED BY Zenon, <3>1, <3>2
  <2> QED BY <2>1, <2>2, <2>3, <2>4, <1>4 DEF SeqsUnique
<1>11. JournalIsLogTail' /\ FreshWatchIDs'
  BY Zenon, <1>4 DEF JournalInv, JournalIsLogTail, FreshWatchIDs
<1> QED BY Zenon, <1>6, <1>9, <1>10, <1>11 DEF JournalInv

\* Storing an event moves its number from the handler to the log.
LEMMA AppendStoreInv ==
    ASSUME JournalInv, NEW w \in Writer, AppendStore(w)
    PROVE  JournalInv'
<1> DEFINE e == inflight[w]
<1>1. e \in Event /\ log \in Seq(Event) /\ events \in Seq(Event)
  BY Zenon DEF JournalInv, TypeOK, AppendStore
<1>2. /\ events' = Newest(Append(events, e), Retention) /\ log' = Append(log, e)
      /\ inflight' = [inflight EXCEPT ![w] = NoEvent]
      /\ UNCHANGED <<tree, nextSeq, nextWatchID, watches, todo, call>>
  BY Zenon DEF AppendStore
<1>3. Append(events, e) \in Seq(Event) /\ log' \in Seq(Event)
  BY <1>1, <1>2
<1>4. events' \in Seq(Event) /\ Len(events') <= Retention
  <2>1. Len(Newest(Append(events, e), Retention)) <= Retention
    <3> DEFINE s == Append(events, e)
    <3>1. s \in Seq(Event) /\ Len(s) \in Nat
      BY <1>3
    <3> HIDE DEF s
    <3>2. Len(Newest(s, Retention)) = IF Len(s) > Retention THEN Retention ELSE Len(s)
      BY Zenon, <3>1, RetentionAssumption, NewestFacts
    <3>3. Len(Newest(s, Retention)) <= Retention
      BY <3>1, <3>2, RetentionAssumption
    <3> QED BY Zenon, <3>3 DEF s
  <2>2. Newest(Append(events, e), Retention) \in Seq(Event)
    BY Zenon, <1>3, RetentionAssumption, NewestFacts
  <2> QED BY Zenon, <1>2, <2>1, <2>2
<1>5. JournalIsLogTail'
  BY Zenon, <1>1, <1>2, RetentionAssumption, NewestAppend DEF JournalInv, JournalIsLogTail
<1>6. /\ inflight \in [Writer -> Event \cup {NoEvent}]
      /\ \A v \in Writer : inflight'[v] = IF v = w THEN NoEvent ELSE inflight[v]
  BY Zenon, <1>2 DEF JournalInv, TypeOK
<1>7. TypeOK'
  BY Zenon, <1>2, <1>3, <1>4, <1>6 DEF JournalInv, TypeOK
<1>8. /\ DOMAIN log = 1..Len(log) /\ Len(log) \in Nat /\ DOMAIN log' = 1..Len(log) + 1
      /\ log'[Len(log) + 1] = e
      /\ \A i \in DOMAIN log : log'[i] = log[i]
  BY <1>1, <1>2
<1>9. e.seq \in Nat \ {0} /\ e.seq <= nextSeq
  BY Zenon, <1>1 DEF JournalInv, SeqsBounded, Event
<1>10. e # NoEvent
  BY Zenon DEF AppendStore
<1> HIDE DEF e
<1>11. SeqsBounded'
  <2>1. \A i \in DOMAIN log' : log'[i].seq <= nextSeq
    BY <1>8, <1>9 DEF JournalInv, SeqsBounded
  <2>2. \A v \in Writer : inflight'[v].seq <= nextSeq
    <3>1. NoEvent.seq <= nextSeq
      BY DEF JournalInv, TypeOK, NoEvent
    <3> QED BY Zenon, <3>1, <1>6 DEF JournalInv, SeqsBounded
  <2> QED BY Zenon, <2>1, <2>2, <1>2 DEF SeqsBounded
<1>12. SeqsUnique'
  <2>1. \A i \in DOMAIN log : log[i].seq # e.seq
    BY Zenon DEF JournalInv, SeqsUnique, e
  <2>2. \A i, j \in DOMAIN log' : log'[i].seq = log'[j].seq => i = j
    BY <1>8, <2>1 DEF JournalInv, SeqsUnique
  <2>3. \A v \in Writer : v # w => inflight[v].seq # e.seq
    BY Zenon, <1>10 DEF JournalInv, SeqsUnique, e
  <2>4. \A v, u \in Writer : v # u /\ inflight'[v] # NoEvent => inflight'[v].seq # inflight'[u].seq
    <3> SUFFICES ASSUME NEW v \in Writer, NEW u \in Writer, v # u, inflight'[v] # NoEvent
                 PROVE  inflight'[v].seq # inflight'[u].seq
      BY Zenon
    <3>1. inflight'[v] = inflight[v] /\ inflight[v] \in Event
      BY Zenon, <1>6
    <3>2. inflight[v].seq # 0
      BY Zenon, <3>1 DEF Event
    <3> QED BY <3>1, <3>2, <1>6 DEF JournalInv, SeqsUnique, NoEvent
  <2>5. \A i \in DOMAIN log', v \in Writer : log'[i].seq # inflight'[v].seq
    <3> SUFFICES ASSUME NEW i \in DOMAIN log', NEW v \in Writer
                 PROVE  log'[i].seq # inflight'[v].seq
      BY Zenon
    <3>1. log'[i].seq # 0
      <4>1. log'[i] \in Event
        BY <1>3
      <4> QED BY Zenon, <4>1 DEF Event
    <3>2. CASE v = w
      BY <3>1, <3>2, <1>6 DEF NoEvent
    <3>3. CASE v # w /\ i \in DOMAIN log
      BY <3>3, <1>6, <1>8 DEF JournalInv, SeqsUnique
    <3>4. CASE v # w /\ i = Len(log) + 1
      BY Zenon, <3>4, <1>6, <1>8, <2>3
    <3> QED BY <3>2, <3>3, <3>4, <1>8
  <2>6. ASSUME NEW n \in 1..nextSeq
        PROVE  \/ \E i \in DOMAIN log' : log'[i].seq = n
               \/ \E v \in Writer : inflight'[v].seq = n
    <3>1. CASE n = e.seq
      BY <3>1, <1>8
    <3>2. CASE n # e.seq
      <4>1. CASE \E i \in DOMAIN log : log[i].seq = n
        BY <4>1, <1>8
      <4>2. CASE \E v \in Writer : inflight[v].seq = n
        BY Zenon, <4>2, <3>2, <1>6 DEF e
      <4> QED BY Zenon, <4>1, <4>2 DEF JournalInv, SeqsUnique
    <3> QED BY Zenon, <3>1, <3>2
  <2> QED BY Zenon, <2>2, <2>4, <2>5, <2>6, <1>2 DEF SeqsUnique
<1>13. FreshWatchIDs'
  BY Zenon, <1>2 DEF JournalInv, FreshWatchIDs
<1> QED BY Zenon, <1>5, <1>7, <1>11, <1>12, <1>13 DEF JournalInv

-----------------------------------------------------------------------------
(* The invariant: watchers.  Their steps leave the writers, the counter and *)
(* the journal alone, so only types and watch ids are at stake.            *)

\* A handler that only moves on in its own call, without a new watch.
LEMMA CallInv ==
    ASSUME JournalInv, NEW c \in Watcher, NEW next \in Call, next.step # "inserting",
           call' = [call EXCEPT ![c] = next],
           UNCHANGED <<writerVars, brokerVars, log>>
    PROVE  JournalInv'
<1>1. call \in [Watcher -> Call]
  BY Zenon DEF JournalInv, TypeOK
<1>2. /\ call' \in [Watcher -> Call]
      /\ \A d \in Watcher : call'[d].step = "inserting" => d # c /\ call'[d] = call[d]
  BY Zenon, <1>1
<1>3. TypeOK'
  BY Zenon, <1>2 DEF JournalInv, TypeOK, brokerVars, writerVars
<1>4. FreshWatchIDs'
  BY Zenon, <1>2 DEF JournalInv, FreshWatchIDs, brokerVars
<1> QED BY <1>3, <1>4
        DEF JournalInv, SeqsBounded, SeqsUnique, JournalIsLogTail, brokerVars, writerVars

\* Subscribe and Resubscribe draw the next id for the watch they prepare.
LEMMA NewWatchInv ==
    ASSUME JournalInv, NEW c \in Watcher, NEW watch \in Watch,
           nextWatchID' = nextWatchID + 1,
           call' = [call EXCEPT ![c] = [step |-> "inserting", id |-> nextWatchID + 1,
                                        watch |-> watch]],
           UNCHANGED <<writerVars, nextSeq, events, watches, log>>
    PROVE  JournalInv'
<1> DEFINE next == [step |-> "inserting", id |-> nextWatchID + 1, watch |-> watch]
<1>1. call \in [Watcher -> Call] /\ nextWatchID \in Nat /\ nextWatchID >= WatchIDBase
  BY Zenon DEF JournalInv, TypeOK
<1>2. next \in Call /\ next.id = nextWatchID + 1
  BY <1>1 DEF Call, Inserting
<1>3. call' = [call EXCEPT ![c] = next]
  BY Zenon
<1> HIDE DEF next
<1>4. /\ call' \in [Watcher -> Call]
      /\ \A d \in Watcher : call'[d] = IF d = c THEN next ELSE call[d]
  BY Zenon, <1>1, <1>2, <1>3
<1>5. DOMAIN watches \subseteq WatchIDBase + 1 .. nextWatchID
  BY Zenon DEF JournalInv, TypeOK
<1>6. DOMAIN watches \subseteq WatchIDBase + 1 .. nextWatchID + 1
  BY <1>1, <1>5 DEF WatchIDBase
<1>7. nextWatchID' \in Nat /\ nextWatchID' >= WatchIDBase
  BY <1>1 DEF WatchIDBase
<1>8. TypeOK'
  BY Zenon, <1>4, <1>6, <1>7 DEF JournalInv, TypeOK, writerVars
<1>9. FreshWatchIDs'
  <2>1. nextWatchID + 1 \notin DOMAIN watches
    BY <1>1, <1>5 DEF WatchIDBase
  <2>2. \A d \in Watcher : call[d].step = "inserting" =>
           /\ call[d].id \notin DOMAIN watches
           /\ WatchIDBase < call[d].id /\ call[d].id <= nextWatchID
           /\ call[d].id \in Nat
    <3> SUFFICES ASSUME NEW d \in Watcher, call[d].step = "inserting"
                 PROVE  call[d].id \in Nat
      BY Zenon DEF JournalInv, FreshWatchIDs
    <3>1. call[d] \in Call
      BY Zenon, <1>1
    <3> QED BY <3>1 DEF Call, Idle, Failed, Inserting, Subscribed, Polling, Polled, Acked,
                        Resyncing, Resynced
  <2> SUFFICES ASSUME NEW d \in Watcher, call'[d].step = "inserting"
               PROVE  /\ call'[d].id \notin DOMAIN watches
                      /\ WatchIDBase < call'[d].id /\ call'[d].id <= nextWatchID + 1
                      /\ \A b \in Watcher : b # d /\ call'[b].step = "inserting"
                                              => call'[b].id # call'[d].id
    BY Zenon DEF FreshWatchIDs
  <2>3. CASE d = c
    BY <2>1, <2>2, <2>3, <1>1, <1>2, <1>4 DEF WatchIDBase
  <2>4. CASE d # c
    <3>1. \A b \in Watcher : b # d /\ b # c /\ call'[b].step = "inserting"
                             => call'[b].id # call'[d].id
      BY Zenon, <2>4, <1>4 DEF JournalInv, FreshWatchIDs
    <3>2. call'[d] = call[d] /\ call'[c].id = nextWatchID + 1
      BY Zenon, <2>4, <1>2, <1>4
    <3>3. /\ call[d].id \notin DOMAIN watches /\ WatchIDBase < call[d].id
          /\ call[d].id <= nextWatchID /\ call[d].id \in Nat
      BY Zenon, <3>2, <2>2
    <3> QED BY <3>1, <3>2, <3>3, <1>1
  <2> QED BY Zenon, <2>3, <2>4
<1> QED BY Zenon, <1>8, <1>9
        DEF JournalInv, SeqsBounded, SeqsUnique, JournalIsLogTail, writerVars

\* The map takes the prepared watch under an id that nobody else holds.
LEMMA WatchInsertInv ==
    ASSUME JournalInv, NEW c \in Watcher, WatchInsert(c)
    PROVE  JournalInv'
<1> DEFINE next == [step |-> "subscribed", id |-> call[c].id, start |-> call[c].watch.acked]
<1>1. call \in [Watcher -> Call] /\ call[c] \in Call /\ nextWatchID \in Nat
  BY Zenon DEF JournalInv, TypeOK
<1>2. call[c].id \in Nat /\ call[c].watch \in Watch
  BY SMTT(30), <1>1 DEF WatchInsert, Call, Idle, Failed, Inserting, Subscribed, Polling, Polled, Acked,
              Resyncing, Resynced
<1>3. next \in Call /\ next.step # "inserting"
  BY Zenon, <1>2 DEF Call, Subscribed, Watch
<1>4. /\ call' = [call EXCEPT ![c] = next] /\ call[c].step = "inserting"
      /\ UNCHANGED <<writerVars, nextSeq, events, nextWatchID, log>>
  BY Zenon DEF WatchInsert
<1> HIDE DEF next
<1>5. /\ call' \in [Watcher -> Call]
      /\ \A d \in Watcher : call'[d].step = "inserting" => d # c /\ call'[d] = call[d]
  BY Zenon, <1>1, <1>3, <1>4
<1>6. /\ DOMAIN watches' = DOMAIN watches \cup {call[c].id}
      /\ \A id \in DOMAIN watches' :
            watches'[id] = IF id = call[c].id THEN call[c].watch ELSE watches[id]
      /\ watches' = [id \in DOMAIN watches' |-> watches'[id]]
  BY Zenon DEF WatchInsert, Put
<1>7. DOMAIN watches' \subseteq WatchIDBase + 1 .. nextWatchID
  BY <1>2, <1>4, <1>6 DEF JournalInv, TypeOK, FreshWatchIDs, WatchIDBase
<1>8. \A id \in DOMAIN watches' : watches'[id] \in Watch
  BY Zenon, <1>2, <1>6 DEF JournalInv, TypeOK
<1>9. TypeOK'
  BY Zenon, <1>4, <1>5, <1>6, <1>7, <1>8 DEF JournalInv, TypeOK, writerVars
<1>10. FreshWatchIDs'
  BY <1>4, <1>5, <1>6 DEF JournalInv, FreshWatchIDs
<1> QED BY <1>4, <1>9, <1>10
        DEF JournalInv, SeqsBounded, SeqsUnique, JournalIsLogTail, writerVars

\* An acknowledgement rewrites one watch in place.
LEMMA AckEventsInv ==
    ASSUME JournalInv, NEW c \in Watcher, NEW id, NEW seq \in Nat, AckEvents(c, id, seq)
    PROVE  JournalInv'
<1>1. call \in [Watcher -> Call] /\ nextWatchID \in Nat
  BY Zenon DEF JournalInv, TypeOK
<1>2. UNCHANGED <<writerVars, nextSeq, events, nextWatchID, log>>
  BY Zenon DEF AckEvents
<1>3. CASE id \in DOMAIN watches
  <2> DEFINE acked == Larger(seq, watches[id].acked)
             watch == [watches[id] EXCEPT !.acked = acked]
             next == [step |-> "acked", id |-> id, acked |-> acked]
  <2>1. watches[id] \in Watch /\ id \in Nat
    BY <1>3 DEF JournalInv, TypeOK, WatchIDBase
  <2>2. acked \in Nat
    BY Zenon, <2>1 DEF Larger, Watch
  <2> HIDE DEF acked
  <2>3. watch \in Watch /\ next \in Call /\ next.step # "inserting"
    BY Zenon, <2>1, <2>2 DEF Watch, Call, Acked
  <2>4. call' = [call EXCEPT ![c] = next] /\ watches' = Put(watches, id, watch)
    BY Zenon, <1>3 DEF AckEvents, Begin, acked
  <2> HIDE DEF next, watch
  <2>5. /\ call' \in [Watcher -> Call]
        /\ \A d \in Watcher : call'[d].step = "inserting" => d # c /\ call'[d] = call[d]
    BY Zenon, <1>1, <2>3, <2>4
  <2>6. /\ DOMAIN watches' = DOMAIN watches
        /\ \A i \in DOMAIN watches' : watches'[i] = IF i = id THEN watch ELSE watches[i]
        /\ watches' = [i \in DOMAIN watches' |-> watches'[i]]
    BY Zenon, <2>4, <1>3 DEF Put
  <2>7. TypeOK'
    BY Zenon, <1>2, <2>3, <2>5, <2>6 DEF JournalInv, TypeOK, writerVars
  <2>8. FreshWatchIDs'
    BY Zenon, <1>2, <2>5, <2>6 DEF JournalInv, FreshWatchIDs
  <2> QED BY Zenon, <1>2, <2>7, <2>8
          DEF JournalInv, SeqsBounded, SeqsUnique, JournalIsLogTail, writerVars
<1>4. CASE id \notin DOMAIN watches
  <2>1. Failed \in Call /\ Failed.step # "inserting"
    BY Zenon DEF Call, Failed
  <2>2. call' = [call EXCEPT ![c] = Failed] /\ UNCHANGED watches
    BY Zenon, <1>4 DEF AckEvents, Begin
  <2> QED BY Zenon, <1>2, <2>1, <2>2, CallInv DEF brokerVars
<1> QED BY Zenon, <1>3, <1>4

\* What the broker reads off the journal are numbers, and the journal is no
\* longer than the history it is the end of.
LEMMA ReadTypes ==
    ASSUME JournalInv
    PROVE  /\ latestSeq \in Nat
           /\ \A i \in 1..Len(events) : events[i].seq \in Nat \ {0}
           /\ Len(log) \in Nat /\ Len(events) \in Nat /\ Len(log) - Len(events) \in Nat
           /\ \A i \in 1..Len(events) : events[i] = log[i + (Len(log) - Len(events))]
<1>1. log \in Seq(Event) /\ events \in Seq(Event) /\ events = Newest(log, Retention)
  BY Zenon DEF JournalInv, TypeOK, JournalIsLogTail
<1>2. Len(log) \in Nat /\ Len(events) \in Nat
  BY <1>1
<1>3. Len(events) = IF Len(log) > Retention THEN Retention ELSE Len(log)
  BY Zenon, <1>1, RetentionAssumption, NewestFacts
<1>4. \A i \in 1..Len(events) : events[i] = log[i + Len(log) - Len(events)]
  BY Zenon, <1>1, RetentionAssumption, NewestFacts
<1>5. \A i \in 1..Len(events) : events[i] \in Event
  BY <1>1
<1>6. \A i \in 1..Len(events) : events[i].seq \in Nat \ {0}
  BY Zenon, <1>5 DEF Event
<1>7. latestSeq \in Nat
  BY <1>2, <1>6 DEF latestSeq
<1>8. \A i \in 1..Len(events) : i + Len(log) - Len(events) = i + (Len(log) - Len(events))
  BY Zenon, <1>2
<1>9. Len(log) - Len(events) \in Nat
  BY <1>2, <1>3, RetentionAssumption
<1>10. \A i \in 1..Len(events) : events[i] = log[i + (Len(log) - Len(events))]
  BY Zenon, <1>4, <1>8
<1> QED BY Zenon, <1>2, <1>6, <1>7, <1>9, <1>10

\* A handler's local state has the fields of its step.
LEMMA CallFields ==
    ASSUME TypeOK, NEW c \in Watcher
    PROVE  /\ call[c].step = "polling" => call[c] \in Polling
           /\ call[c].step = "polled" => call[c] \in Polled
           /\ call[c].step = "resyncing" => call[c] \in Resyncing
<1>1. call[c] \in Call
  BY Zenon DEF TypeOK
<1> QED BY <1>1 DEF Call, Idle, Failed, Inserting, Subscribed, Polling, Polled, Acked,
                    Resyncing, Resynced

\* A poll answer is well formed.
LEMMA PollAnswerType ==
    ASSUME JournalInv, NEW p \in Polling, NEW o \in BOOLEAN, NEW seqs \in SUBSET Nat,
           NEW last \in Nat
    PROVE  PollAnswer(p, o, seqs, last) \in Polled
BY Zenon, ReadTypes DEF PollAnswer, Polling, Polled

\* A poll that has been answered: the new call is an answer, whichever branch.
LEMMA PollStep ==
    ASSUME JournalInv, NEW c \in Watcher, PollOverflow(c) \/ PollCollect(c)
    PROVE  \E next \in Polled : call' = [call EXCEPT ![c] = next]
<1>1. call[c] \in Polling
  BY Zenon, CallFields DEF JournalInv, PollOverflow, PollCollect
<1>2. call[c].after \in Nat /\ {} \in SUBSET Nat
  BY Zenon, <1>1 DEF Polling
<1>3. CASE PollOverflow(c)
  <2>1. PollAnswer(call[c], TRUE, {}, call[c].after) \in Polled
    BY Zenon, <1>1, <1>2, PollAnswerType
  <2> QED BY Zenon, <2>1, <1>3 DEF PollOverflow
<1>4. CASE PollCollect(c)
  <2>1. PICK stop \in 0..Len(events) :
          LET answer == {i \in Wanted(call[c]) : i <= stop} IN
          \/ answer = {} /\ call' = [call EXCEPT ![c] = PollAnswer(@, FALSE, {}, @.after)]
          \/ \E l \in answer :
               call' = [call EXCEPT ![c] = PollAnswer(@, FALSE, {events[i].seq : i \in answer},
                                                     events[l].seq)]
    BY Zenon, <1>4 DEF PollCollect
  <2> DEFINE answer == {i \in Wanted(call[c]) : i <= stop}
             seqs == {events[i].seq : i \in answer}
  <2>2. answer \subseteq 1..Len(events)
    BY Zenon DEF Wanted
  <2>3. seqs \in SUBSET Nat /\ \A l \in answer : events[l].seq \in Nat
    BY Zenon, <2>2, ReadTypes
  <2>4. CASE call' = [call EXCEPT ![c] = PollAnswer(call[c], FALSE, {}, call[c].after)]
    <3>1. PollAnswer(call[c], FALSE, {}, call[c].after) \in Polled
      BY Zenon, <1>1, <1>2, PollAnswerType
    <3> QED BY Zenon, <2>4, <3>1
  <2>5. ASSUME NEW l \in answer,
               call' = [call EXCEPT ![c] = PollAnswer(call[c], FALSE, seqs, events[l].seq)]
        PROVE  \E next \in Polled : call' = [call EXCEPT ![c] = next]
    <3>1. PollAnswer(call[c], FALSE, seqs, events[l].seq) \in Polled
      BY Zenon, <1>1, <2>3, PollAnswerType
    <3> QED BY Zenon, <2>5, <3>1
  <2> QED BY Zenon, <2>1, <2>4, <2>5
<1> QED BY Zenon, <1>3, <1>4

\* Every step of Next keeps the invariant.
LEMMA NextInv ==
    ASSUME JournalInv, [Next]_vars
    PROVE  JournalInv'
<1>1. ASSUME NEW w \in Writer, NEW p \in Path, ChangeOne(w, p) PROVE JournalInv'
  <2>1. tree \in Nat
    BY Zenon DEF JournalInv, TypeOK
  <2>2. <<[path |-> p, old |-> <<>>, mut |-> tree + 1]>> \in Seq(Change)
    BY <2>1 DEF Change
  <2> QED BY Zenon, <1>1, <2>2, MutateInv DEF ChangeOne
<1>2. ASSUME NEW w \in Writer, NEW src \in Path, NEW dst \in Path, Rename(w, src, dst)
      PROVE  JournalInv'
  <2>1. tree \in Nat
    BY Zenon DEF JournalInv, TypeOK
  <2>2. <<[path |-> src, old |-> src, mut |-> tree + 1],
          [path |-> dst, old |-> src, mut |-> tree + 1]>> \in Seq(Change)
    BY <2>1 DEF Change
  <2> QED BY Zenon, <1>2, <2>2, MutateInv DEF Rename
<1>3. ASSUME NEW w \in Writer, AppendNumber(w) \/ AppendStore(w) PROVE JournalInv'
  BY Zenon, <1>3, AppendNumberInv, AppendStoreInv
<1>4. Failed \in Call /\ Failed.step # "inserting" /\ Idle \in Call /\ Idle.step # "inserting"
  BY Zenon DEF Call, Failed, Idle
<1>5. ASSUME NEW c \in Watcher, NEW p \in Root, NEW r \in BOOLEAN, SubscribeBegin(c, p, r)
      PROVE  JournalInv'
  <2>1. [path |-> p, recursive |-> r, acked |-> latestSeq] \in Watch
    BY Zenon, ReadTypes DEF Watch
  <2> QED BY Zenon, <1>5, <2>1, NewWatchInv DEF SubscribeBegin, Begin
<1>6. ASSUME NEW c \in Watcher, NodeGone(c) PROVE JournalInv'
  BY Zenon, <1>4, <1>6, CallInv DEF NodeGone, Begin
<1>7. ASSUME NEW c \in Watcher, NEW id \in SomeID, NEW p \in Root, NEW r \in BOOLEAN,
             NEW after \in 0..nextSeq, ResubscribeBegin(c, id, p, r, after)
      PROVE  JournalInv'
  <2> DEFINE start == IF id \in DOMAIN watches THEN Larger(after, watches[id].acked) ELSE after
  <2>1. after \in Nat /\ \A i \in DOMAIN watches : watches[i].acked \in Nat
    BY DEF JournalInv, TypeOK, Watch
  <2>2. start \in Nat
    BY Zenon, <2>1 DEF Larger
  <2>3. [path |-> p, recursive |-> r, acked |-> start] \in Watch
    BY Zenon, <2>2 DEF Watch
  <2> QED BY Zenon, <1>7, <2>3, NewWatchInv DEF ResubscribeBegin, Begin
<1>8. ASSUME NEW c \in Watcher, NEW id \in SomeID, NEW after \in 0..nextSeq,
             NEW n \in MaxEvents, PollBegin(c, id, after, n)
      PROVE  JournalInv'
  <2> DEFINE next == [step |-> "polling", id |-> id, watch |-> watches[id],
                      after |-> after, limit |-> Limit(n)]
  <2>1. CASE id \in DOMAIN watches
    <3>1. id \in Nat /\ after \in Nat /\ Limit(n) \in Nat /\ watches[id] \in Watch
      BY <2>1, MaxEventsAssumption DEF JournalInv, TypeOK, SomeID, WatchIDBase, Limit
    <3>2. next \in Call /\ next.step # "inserting"
      BY Zenon, <3>1 DEF Call, Polling
    <3>3. call' = [call EXCEPT ![c] = next] /\ UNCHANGED <<writerVars, brokerVars, log>>
      BY Zenon, <1>8, <2>1 DEF PollBegin, Begin
    <3> QED BY Zenon, <3>2, <3>3, CallInv
  <2>2. CASE id \notin DOMAIN watches
    BY Zenon, <1>4, <1>8, <2>2, CallInv DEF PollBegin, Begin
  <2> QED BY Zenon, <2>1, <2>2
<1>9. ASSUME NEW c \in Watcher, NEW id \in SomeID, NEW seq \in 0..nextSeq,
             AckEvents(c, id, seq)
      PROVE  JournalInv'
  BY <1>9, AckEventsInv
<1>10. ASSUME NEW c \in Watcher, NEW id \in SomeID, ResyncSnapshot(c, id) PROVE JournalInv'
  <2> DEFINE next == [step |-> "resyncing", id |-> id, snap |-> tree]
  <2>1. id \in Nat /\ tree \in Nat
    BY DEF JournalInv, TypeOK, SomeID, WatchIDBase
  <2>2. next \in Call /\ next.step # "inserting"
    BY Zenon, <2>1 DEF Call, Resyncing
  <2>3. CASE id \in DOMAIN watches
    BY Zenon, <1>10, <2>2, <2>3, CallInv DEF ResyncSnapshot, Begin
  <2>4. CASE id \notin DOMAIN watches
    BY Zenon, <1>4, <1>10, <2>4, CallInv DEF ResyncSnapshot, Begin
  <2> QED BY Zenon, <2>3, <2>4
<1>11. ASSUME NEW c \in Watcher, WatchInsert(c) PROVE JournalInv'
  BY Zenon, <1>11, WatchInsertInv
<1>12. ASSUME NEW c \in Watcher, PollOverflow(c) \/ PollCollect(c) PROVE JournalInv'
  <2>1. PICK next \in Polled : call' = [call EXCEPT ![c] = next]
    BY Zenon, <1>12, PollStep
  <2>2. next \in Call /\ next.step # "inserting"
    BY Zenon DEF Call, Polled
  <2> QED BY Zenon, <1>12, <2>1, <2>2, CallInv DEF PollOverflow, PollCollect
<1>13. ASSUME NEW c \in Watcher, ResyncNumber(c) PROVE JournalInv'
  <2> DEFINE next == [step |-> "resynced", id |-> call[c].id, seq |-> latestSeq,
                      snap |-> call[c].snap, at |-> Len(log)]
  <2>1. call[c] \in Resyncing
    BY Zenon, <1>13, CallFields DEF JournalInv, ResyncNumber
  <2>2. next \in Call /\ next.step # "inserting"
    BY Zenon, <2>1, ReadTypes DEF Call, Resynced, Resyncing
  <2>3. call' = [call EXCEPT ![c] = next] /\ UNCHANGED <<writerVars, brokerVars, log>>
    BY Zenon, <1>13 DEF ResyncNumber
  <2> QED BY Zenon, <2>2, <2>3, CallInv
<1>14. ASSUME NEW c \in Watcher, Respond(c) PROVE JournalInv'
  BY Zenon, <1>4, <1>14, CallInv DEF Respond
<1>15. CASE UNCHANGED vars
  BY SMTT(30), <1>15 DEF vars, JournalInv, TypeOK, SeqsBounded, SeqsUnique, JournalIsLogTail, FreshWatchIDs
<1>16. CASE \E w \in Writer : WriterStep(w)
  BY Zenon, <1>1, <1>2, <1>3, <1>16 DEF WriterStep
<1>17. ASSUME NEW c \in Watcher, Request(c) PROVE JournalInv'
  BY Zenon, <1>5, <1>6, <1>7, <1>8, <1>9, <1>10, <1>17 DEF Request
<1>18. CASE \E c \in Watcher : WatcherStep(c)
  BY Zenon, <1>11, <1>12, <1>13, <1>14, <1>17, <1>18 DEF WatcherStep, HandlerStep
<1> QED BY Zenon, <1>15, <1>16, <1>18 DEF Next

\* The invariant holds in every reachable state.
LEMMA JournalInvariance == Spec => []JournalInv
<1> QED BY InitInv, NextInv, PTL DEF Spec

-----------------------------------------------------------------------------
(* Theorems for any number of writers and watchers.                        *)

\* The broker's fields and the handlers' state keep their types, and the
\* journal never outgrows its retention.
THEOREM TypeCorrect == Spec => []TypeOK
<1>1. JournalInv => TypeOK
  BY Zenon DEF JournalInv
<1> QED BY <1>1, JournalInvariance, PTL

\* However Append calls overlap, no number is used twice and none is lost.
THEOREM NumbersAreUnique == Spec => []SeqsUnique
<1>1. JournalInv => SeqsUnique
  BY Zenon DEF JournalInv
<1> QED BY <1>1, JournalInvariance, PTL

\* The retained journal is always the newest part of everything stored.
THEOREM TrimmingKeepsTheNewest == Spec => []JournalIsLogTail
<1>1. JournalInv => JournalIsLogTail
  BY Zenon DEF JournalInv
<1> QED BY <1>1, JournalInvariance, PTL

\* Watch ids held by handlers are free and different.
THEOREM WatchIDsAreFresh == Spec => []FreshWatchIDs
<1>1. JournalInv => FreshWatchIDs
  BY Zenon DEF JournalInv
<1> QED BY <1>1, JournalInvariance, PTL

\* One step changes no watch but the acknowledgement of one, upwards.
LEMMA WatchesKept ==
    ASSUME JournalInv, [Next]_vars, NEW id \in DOMAIN watches
    PROVE  /\ id \in DOMAIN watches'
           /\ watches'[id].path = watches[id].path
           /\ watches'[id].recursive = watches[id].recursive
           /\ watches'[id].acked >= watches[id].acked
<1>1. watches[id] \in Watch /\ watches[id].acked \in Nat
  BY Zenon DEF JournalInv, TypeOK, Watch
<1>2. CASE UNCHANGED watches
  BY <1>1, <1>2
<1>3. ASSUME NEW c \in Watcher, WatchInsert(c)
      PROVE  id \in DOMAIN watches' /\ watches'[id] = watches[id]
  BY Zenon, <1>3 DEF WatchInsert, Put, JournalInv, FreshWatchIDs
<1>4. ASSUME NEW c \in Watcher, NEW i \in SomeID, NEW seq \in 0..nextSeq, AckEvents(c, i, seq)
      PROVE  /\ id \in DOMAIN watches'
             /\ watches'[id].path = watches[id].path
             /\ watches'[id].recursive = watches[id].recursive
             /\ watches'[id].acked >= watches[id].acked
  <2>1. CASE i \notin DOMAIN watches \/ i # id
    BY <1>1, <1>4, <2>1 DEF AckEvents, Put
  <2>2. CASE i = id
    <3> DEFINE acked == Larger(seq, watches[id].acked)
    <3>1. acked \in Nat /\ acked >= watches[id].acked
      BY <1>1 DEF Larger
    <3> HIDE DEF acked
    <3>2. id \in DOMAIN watches' /\ watches'[id] = [watches[id] EXCEPT !.acked = acked]
      BY Zenon, <1>4, <2>2 DEF AckEvents, Put, acked
    <3> QED BY Zenon, <1>1, <3>1, <3>2 DEF Watch
  <2> QED BY Zenon, <2>1, <2>2
<1>5. CASE Next
  <2>1. CASE \E w \in Writer : WriterStep(w)
    BY Zenon, <1>2, <2>1 DEF WriterStep, ChangeOne, Rename, AppendNumber, AppendStore, brokerVars
  <2>2. ASSUME NEW c \in Watcher, Request(c)
        PROVE  \/ UNCHANGED watches
               \/ \E i \in SomeID, seq \in 0..nextSeq : AckEvents(c, i, seq)
    BY Zenon, <2>2 DEF Request, SubscribeBegin, NodeGone, ResubscribeBegin, PollBegin,
                ResyncSnapshot, brokerVars
  <2>3. ASSUME NEW c \in Watcher, HandlerStep(c) \/ Respond(c)
        PROVE  UNCHANGED watches \/ WatchInsert(c)
    BY Zenon, <2>3 DEF HandlerStep, PollOverflow, PollCollect, ResyncNumber, Respond, brokerVars
  <2> QED BY SMTT(30), <1>1, <1>2, <1>3, <1>4, <1>5, <2>1, <2>2, <2>3 DEF Next, WatcherStep
<1> QED BY Zenon, <1>2, <1>5 DEF vars

\* No acknowledgement is taken back and no watch changes its directory.
THEOREM AcksNeverRetreat == Spec => AckNeverRetreats
<1>1. ASSUME JournalInv, [Next]_vars
      PROVE  [\A id \in DOMAIN watches :
                /\ id \in DOMAIN watches'
                /\ watches'[id].path = watches[id].path
                /\ watches'[id].recursive = watches[id].recursive
                /\ watches'[id].acked >= watches[id].acked]_vars
  BY Zenon, <1>1, WatchesKept
<1> QED BY <1>1, JournalInvariance, PTL DEF Spec, AckNeverRetreats

-----------------------------------------------------------------------------
(* One writer at a time.  The numbers are then the positions in the log,   *)
(* which is what polling relies on.                                        *)

\* The number of an event is its position in the log, and the only event that
\* can be on its way is the next one.
Positions ==
    /\ \A i \in DOMAIN log : log[i].seq = i
    /\ \A w \in Writer : inflight[w] # NoEvent =>
          inflight[w].seq = Len(log) + 1 /\ nextSeq = Len(log) + 1
    /\ (\A w \in Writer : inflight[w] = NoEvent) => nextSeq = Len(log)

\* With one writer, steps keep the positions.
LEMMA PositionsStep ==
    ASSUME \A v, w \in Writer : v = w, JournalInv, Positions, [Next]_vars
    PROVE  Positions'
<1>1. /\ log \in Seq(Event) /\ Len(log) \in Nat /\ nextSeq \in Nat
      /\ inflight \in [Writer -> Event \cup {NoEvent}]
  BY DEF JournalInv, TypeOK
<1>2. CASE UNCHANGED <<nextSeq, inflight, log>>
  BY Zenon, <1>2 DEF Positions
<1>3. ASSUME NEW w \in Writer, AppendNumber(w) PROVE Positions'
  <2>1. \A v \in Writer : inflight[v] = NoEvent
    BY Zenon, <1>3 DEF AppendNumber
  <2>2. nextSeq = Len(log) /\ nextSeq' = Len(log) + 1 /\ log' = log
    BY Zenon, <1>3, <2>1 DEF AppendNumber, Positions
  <2>3. inflight'[w].seq = Len(log) + 1
    BY Zenon, <1>1, <1>3, <2>2 DEF AppendNumber
  <2>4. inflight'[w] # NoEvent
    BY <1>1, <2>3 DEF NoEvent
  <2> QED BY Zenon, <2>2, <2>3, <2>4 DEF Positions
<1>4. ASSUME NEW w \in Writer, AppendStore(w) PROVE Positions'
  <2>1. inflight[w] # NoEvent /\ log' = Append(log, inflight[w]) /\ nextSeq' = nextSeq
        /\ inflight' = [inflight EXCEPT ![w] = NoEvent]
    BY Zenon, <1>4 DEF AppendStore
  <2>2. inflight[w].seq = Len(log) + 1 /\ nextSeq = Len(log) + 1
    BY Zenon, <2>1 DEF Positions
  <2>3. /\ Len(log') = Len(log) + 1 /\ DOMAIN log' = 1..Len(log) + 1
        /\ log'[Len(log) + 1] = inflight[w]
        /\ \A i \in 1..Len(log) : log'[i] = log[i]
    BY <1>1, <2>1
  <2>4. \A i \in DOMAIN log' : log'[i].seq = i
    BY SMTT(30), <1>1, <2>2, <2>3 DEF Positions
  <2>5. \A v \in Writer : inflight'[v] = NoEvent
    BY Zenon, <1>1, <2>1
  <2> QED BY Zenon, <2>1, <2>2, <2>3, <2>4, <2>5 DEF Positions
<1>5. ASSUME NEW w \in Writer, WriterStep(w) PROVE Positions'
  BY Zenon, <1>2, <1>3, <1>4, <1>5 DEF WriterStep, ChangeOne, Rename, brokerVars
<1>6. ASSUME NEW c \in Watcher, WatcherStep(c) PROVE UNCHANGED <<nextSeq, inflight, log>>
  <2>1. CASE Request(c)
    BY Zenon, <2>1 DEF Request, SubscribeBegin, NodeGone, ResubscribeBegin, PollBegin, AckEvents,
                ResyncSnapshot, brokerVars, writerVars
  <2>2. CASE HandlerStep(c) \/ Respond(c)
    BY Zenon, <2>2 DEF HandlerStep, WatchInsert, PollOverflow, PollCollect, ResyncNumber, Respond,
                brokerVars, writerVars
  <2> QED BY Zenon, <1>6, <2>1, <2>2 DEF WatcherStep
<1> QED BY Zenon, <1>2, <1>5, <1>6 DEF Next, vars

\* With one writer the positions hold in every reachable state.
LEMMA PositionsInvariance ==
    ASSUME \A v, w \in Writer : v = w
    PROVE  Spec => []Positions
<1>1. Init => Positions
  BY DEF Init, Positions, NoEvent
<1>2. JournalInv /\ Positions /\ [Next]_vars => Positions'
  BY Zenon, PositionsStep
<1> QED BY <1>1, <1>2, JournalInvariance, PTL DEF Spec

\* With one writer at a time, the journal is in the order of its numbers.
THEOREM OneWriterIsOrdered ==
    ASSUME \A v, w \in Writer : v = w
    PROVE  Spec => []JournalOrdered
<1>1. JournalInv /\ Positions => JournalOrdered
  BY Zenon DEF JournalInv, TypeOK, Positions, JournalOrdered
<1> QED BY <1>1, JournalInvariance, PositionsInvariance, PTL

\* A poll in progress has an accurate copy of its watch.
PollingSound(c) ==
    /\ call[c].id \in DOMAIN watches
    /\ watches[call[c].id].path = call[c].watch.path
    /\ watches[call[c].id].recursive = call[c].watch.recursive

\* The part of the log that an answered poll saw is still there, the answer is
\* complete for it and reports overflow exactly when it must.
PolledSound(c) ==
    /\ call[c].id \in DOMAIN watches
    /\ call[c].at <= Len(log)
    /\ call[c].dropped <= call[c].at
    /\ ~call[c].overflow =>
         \A i \in 1..call[c].at :
           log[i].seq > call[c].after /\ watchMatches(watches[call[c].id], log[i])
           => \/ log[i].seq \in call[c].seqs
              \/ log[i].seq > call[c].last /\ Cardinality(call[c].seqs) = call[c].limit
    /\ call[c].overflow <=> \E i \in 1..call[c].dropped : log[i].seq > call[c].after

PollInv ==
    \A c \in Watcher : /\ call[c].step = "polling" => PollingSound(c)
                       /\ call[c].step = "polled" => PolledSound(c)

\* Whether a watch matches an event depends on its directory and scope only.
LEMMA MatchesSame ==
    ASSUME NEW v, NEW w, NEW e, v.path = w.path, v.recursive = w.recursive
    PROVE  watchMatches(v, e) <=> watchMatches(w, e)
BY Zenon DEF watchMatches

\* The log only grows.
LEMMA LogGrows ==
    ASSUME JournalInv, [Next]_vars
    PROVE  /\ Len(log') >= Len(log)
           /\ \A i \in 1..Len(log) : log'[i] = log[i]
<1>1. log \in Seq(Event) /\ Len(log) \in Nat
  BY DEF JournalInv, TypeOK
<1>2. CASE UNCHANGED log
  BY <1>1, <1>2
<1>3. ASSUME NEW w \in Writer, AppendStore(w)
      PROVE  Len(log') = Len(log) + 1 /\ \A i \in 1..Len(log) : log'[i] = log[i]
  <2>1. inflight[w] \in Event
    BY Zenon, <1>3 DEF AppendStore, JournalInv, TypeOK
  <2> QED BY <1>1, <1>3, <2>1 DEF AppendStore
<1>4. ASSUME NEW w \in Writer, WriterStep(w) PROVE UNCHANGED log \/ AppendStore(w)
  BY Zenon, <1>4 DEF WriterStep, ChangeOne, Rename, AppendNumber
<1>5. ASSUME NEW c \in Watcher, WatcherStep(c) PROVE UNCHANGED log
  <2>1. CASE Request(c)
    BY Zenon, <2>1 DEF Request, SubscribeBegin, NodeGone, ResubscribeBegin, PollBegin, AckEvents,
                ResyncSnapshot
  <2>2. CASE HandlerStep(c) \/ Respond(c)
    BY Zenon, <2>2 DEF HandlerStep, WatchInsert, PollOverflow, PollCollect, ResyncNumber, Respond
  <2> QED BY Zenon, <1>5, <2>1, <2>2 DEF WatcherStep
<1> QED BY <1>1, <1>2, <1>3, <1>4, <1>5 DEF Next, vars

\* A call that was a sound poll before a step and did not move is one after it.
LEMMA PollStable ==
    ASSUME JournalInv, PollInv, [Next]_vars, NEW c \in Watcher, call'[c] = call[c]
    PROVE  /\ call'[c].step = "polling" => PollingSound(c)'
           /\ call'[c].step = "polled" => PolledSound(c)'
<1>1. CASE call[c].step = "polling"
  BY SMTT(30), <1>1, WatchesKept DEF PollInv, PollingSound
<1>2. CASE call[c].step = "polled"
  <2>1. call[c] \in Polled
    BY Zenon, <1>2, CallFields DEF JournalInv
  <2>2. call[c].at \in Nat /\ call[c].dropped \in Nat
    BY Zenon, <2>1 DEF Polled
  <2>3. Len(log) \in Nat /\ Len(log') \in Nat
    <3>1. JournalInv'
      BY Zenon, NextInv
    <3> QED BY SMTT(30), <3>1 DEF JournalInv, TypeOK
  <2>4. /\ call[c].id \in DOMAIN watches /\ call[c].at <= Len(log)
        /\ call[c].dropped <= call[c].at
    BY Zenon, <1>2 DEF PollInv, PolledSound
  <2>5. /\ call[c].id \in DOMAIN watches'
        /\ watches'[call[c].id].path = watches[call[c].id].path
        /\ watches'[call[c].id].recursive = watches[call[c].id].recursive
    BY Zenon, <2>4, WatchesKept
  <2>6. \A i \in 1..call[c].at : log'[i] = log[i]
    BY SMTT(30), <2>2, <2>3, <2>4, LogGrows
  <2>7. \A i \in 1..call[c].dropped : log'[i] = log[i]
    BY SMTT(30), <2>2, <2>4, <2>6
  <2>8. call[c].at <= Len(log')
    BY SMTT(30), <2>2, <2>3, <2>4, LogGrows
  <2>9. \A i \in 1..call[c].at :
          watchMatches(watches'[call[c].id], log'[i]) <=> watchMatches(watches[call[c].id], log[i])
    BY SMTT(30), <2>5, <2>6, MatchesSame
  <2>10. call[c].overflow <=> \E i \in 1..call[c].dropped : log'[i].seq > call[c].after
    BY Zenon, <1>2, <2>7 DEF PollInv, PolledSound
  <2>11. ~call[c].overflow =>
           \A i \in 1..call[c].at :
             log'[i].seq > call[c].after /\ watchMatches(watches'[call[c].id], log'[i])
             => \/ log'[i].seq \in call[c].seqs
                \/ log'[i].seq > call[c].last /\ Cardinality(call[c].seqs) = call[c].limit
    BY Zenon, <1>2, <2>6, <2>9 DEF PollInv, PolledSound
  <2> QED BY Zenon, <1>2, <2>4, <2>5, <2>8, <2>10, <2>11 DEF PolledSound
<1> QED BY Zenon, <1>1, <1>2

\* The overflow test compares with the oldest retained number.  When numbers
\* are positions it holds exactly when a trimmed event is newer than `after'.
LEMMA OverflowTest ==
    ASSUME JournalInv, Positions, NEW after \in Nat
    PROVE  Overflows(after) <=> Len(log) - Len(events) > after
<1> DEFINE d == Len(log) - Len(events)
<1>1. Len(log) \in Nat /\ Len(events) \in Nat /\ d \in Nat
  BY Zenon, ReadTypes
<1>2. CASE Len(events) = 0
  <2>1. Len(log) = 0
    <3>1. log \in Seq(Event) /\ events = Newest(log, Retention)
      BY Zenon DEF JournalInv, TypeOK, JournalIsLogTail
    <3>2. Len(events) = IF Len(log) > Retention THEN Retention ELSE Len(log)
      BY Zenon, <3>1, RetentionAssumption, NewestFacts
    <3> QED BY Zenon, <1>2, <3>2, RetentionAssumption
  <2> QED BY <1>2, <2>1 DEF Overflows
<1>3. CASE Len(events) # 0
  <2>1. events[1] = log[1 + d]
    BY <1>1, <1>3, ReadTypes
  <2>2. 1 + d \in DOMAIN log
    BY <1>1, <1>3 DEF JournalInv, TypeOK
  <2>3. events[1].seq = 1 + d
    BY Zenon, <2>1, <2>2 DEF Positions
  <2> QED BY <1>1, <1>3, <2>3 DEF Overflows
<1> QED BY Zenon, <1>2, <1>3

\* With positions for numbers, trimmed events newer than `after' exist exactly
\* when more than `after' events have been trimmed.
LEMMA TrimmedNewer ==
    ASSUME JournalInv, Positions, NEW after \in Nat
    PROVE  (\E i \in 1..(Len(log) - Len(events)) : log[i].seq > after)
             <=> Len(log) - Len(events) > after
<1> DEFINE d == Len(log) - Len(events)
<1>1. Len(log) \in Nat /\ d \in Nat /\ d <= Len(log)
  BY ReadTypes
<1>2. \A i \in 1..d : log[i].seq = i
  BY SMTT(30), <1>1 DEF Positions, JournalInv, TypeOK
<1>3. CASE d > after
  <2>1. d \in 1..d /\ log[d].seq > after
    BY <1>1, <1>2, <1>3
  <2> QED BY Zenon, <1>3, <2>1
<1>4. CASE ~(d > after)
  BY <1>1, <1>2, <1>4
<1> QED BY Zenon, <1>3, <1>4

\* Different retained events have different numbers, so an answer has as many
\* numbers as events.
LEMMA AnswerSize ==
    ASSUME JournalInv, Positions, NEW answer \in SUBSET (1..Len(events))
    PROVE  Cardinality({events[i].seq : i \in answer}) = Cardinality(answer)
<1> DEFINE d == Len(log) - Len(events)
           seqs == {events[i].seq : i \in answer}
           f == [i \in answer |-> events[i].seq]
<1>1. Len(log) \in Nat /\ Len(events) \in Nat /\ d \in Nat
  BY Zenon, ReadTypes
<1>2. \A i \in answer : events[i].seq = i + d
  <2> SUFFICES ASSUME NEW i \in answer PROVE events[i].seq = i + d
    BY Zenon
  <2>1. events[i] = log[i + d]
    BY Zenon, ReadTypes
  <2>2. i + d \in DOMAIN log
    BY <1>1 DEF JournalInv, TypeOK
  <2> QED BY Zenon, <2>1, <2>2 DEF Positions
<1>3. ExistsBijection(answer, seqs)
  <2>1. f \in [answer -> seqs] /\ \A a, b \in answer : f[a] = f[b] => a = b
    BY SMTT(30), <1>1, <1>2
  <2>2. \A t \in seqs : \E i \in answer : f[i] = t
    BY Zenon
  <2> HIDE DEF f, seqs
  <2>3. IsInjective(f)
    BY Zenon, <2>1 DEF IsInjective
  <2>4. f \in Bijection(answer, seqs)
    BY Zenon, <2>1, <2>2, <2>3 DEF Bijection, Injection, Surjection
  <2> QED BY Zenon, <2>4 DEF ExistsBijection
<1>4. IsFiniteSet(answer)
  <2>1. IsFiniteSet(1..Len(events))
    BY <1>1, FS_Interval
  <2> QED BY Zenon, <2>1, FS_Subset
<1> QED BY Zenon, <1>3, <1>4, FS_Bijection

\* A poll in progress is answered soundly, whichever way it ends.
LEMMA PollAnswered ==
    ASSUME JournalInv, Positions, PollInv, NEW c \in Watcher, PollOverflow(c) \/ PollCollect(c)
    PROVE  call'[c].step = "polled" /\ PolledSound(c)'
<1> DEFINE p == call[c]
           d == Len(log) - Len(events)
<1>1. p \in Polling /\ p.step = "polling"
  BY Zenon, CallFields DEF JournalInv, PollOverflow, PollCollect
<1>2. p.after \in Nat /\ p.limit \in Nat
  BY Zenon, <1>1 DEF Polling
<1>3. PollingSound(c)
  BY Zenon, <1>1 DEF PollInv
<1>4. UNCHANGED <<watches, log, events>> /\ call \in [Watcher -> Call]
  BY Zenon DEF PollOverflow, PollCollect, brokerVars, JournalInv, TypeOK
<1>5. Len(log) \in Nat /\ Len(events) \in Nat /\ d \in Nat /\ d <= Len(log)
  BY ReadTypes
<1>6. Overflows(p.after) <=> \E i \in 1..d : log[i].seq > p.after
  BY Zenon, <1>2, OverflowTest, TrimmedNewer
<1>7. CASE PollOverflow(c)
  <2>1. call'[c] = PollAnswer(p, TRUE, {}, p.after) /\ Overflows(p.after)
    BY Zenon, <1>4, <1>7 DEF PollOverflow
  <2>2. /\ call'[c].step = "polled" /\ call'[c].id = p.id /\ call'[c].overflow = TRUE
        /\ call'[c].at = Len(log) /\ call'[c].dropped = d /\ call'[c].after = p.after
    BY SMTT(30), <2>1 DEF PollAnswer
  <2>3. p.id \in DOMAIN watches /\ \E i \in 1..d : log[i].seq > p.after
    BY Zenon, <1>3, <1>6, <2>1 DEF PollingSound
  <2> HIDE DEF p, d
  <2> QED BY SMTT(30), <2>2, <2>3, <1>4, <1>5 DEF PolledSound
<1>8. CASE PollCollect(c)
  <2>1. ~Overflows(p.after)
    BY Zenon, <1>8 DEF PollCollect
  <2>2. PICK stop \in 0..Len(events) :
          LET answer == {i \in Wanted(p) : i <= stop} IN
          /\ \/ stop = Len(events) /\ Cardinality(answer) <= p.limit
             \/ stop \in answer /\ Cardinality(answer) = p.limit
          /\ \/ answer = {} /\ call' = [call EXCEPT ![c] = PollAnswer(@, FALSE, {}, @.after)]
             \/ \E l \in answer :
                  /\ \A i \in answer : i <= l
                  /\ call' = [call EXCEPT ![c] =
                                PollAnswer(@, FALSE, {events[i].seq : i \in answer}, events[l].seq)]
    BY Zenon, <1>8 DEF PollCollect
  <2> DEFINE answer == {i \in Wanted(p) : i <= stop}
             seqs == {events[i].seq : i \in answer}
  <2>3. answer \in SUBSET (1..Len(events))
    BY Zenon DEF Wanted
  <2>4. \E last : /\ call'[c] = PollAnswer(p, FALSE, seqs, last)
                  /\ stop \in answer => last = events[stop].seq
    <3>1. CASE answer = {} /\ call' = [call EXCEPT ![c] = PollAnswer(@, FALSE, {}, @.after)]
      <4>1. seqs = {} /\ stop \notin answer
        BY Zenon, <3>1
      <4>2. call'[c] = PollAnswer(p, FALSE, {}, p.after)
        BY Zenon, <1>4, <3>1
      <4> QED BY Zenon, <4>1, <4>2
    <3>2. ASSUME NEW l \in answer, \A i \in answer : i <= l,
                 call' = [call EXCEPT ![c] = PollAnswer(@, FALSE, seqs, events[l].seq)]
          PROVE  /\ call'[c] = PollAnswer(p, FALSE, seqs, events[l].seq)
                 /\ stop \in answer => events[l].seq = events[stop].seq
      <4>1. stop \in answer => l = stop
        BY SMTT(30), <2>3, <3>2
      <4> QED BY Zenon, <1>4, <3>2, <4>1
    <3> QED BY Zenon, <2>2, <3>1, <3>2
  <2>5. PICK last : /\ call'[c] = PollAnswer(p, FALSE, seqs, last)
                    /\ stop \in answer => last = events[stop].seq
    BY Zenon, <2>4
  <2>6. /\ call'[c].step = "polled" /\ call'[c].id = p.id /\ call'[c].overflow = FALSE
        /\ call'[c].at = Len(log) /\ call'[c].dropped = d /\ call'[c].after = p.after
        /\ call'[c].seqs = seqs /\ call'[c].last = last /\ call'[c].limit = p.limit
    BY SMTT(30), <2>5 DEF PollAnswer
  <2>7. ASSUME NEW i \in 1..Len(log), log[i].seq > p.after,
               watchMatches(watches[p.id], log[i])
        PROVE  \/ log[i].seq \in seqs
               \/ log[i].seq > last /\ Cardinality(seqs) = p.limit
    <3> DEFINE j == i - d
    <3>1. log[i].seq = i
      BY SMTT(30), <1>5 DEF Positions, JournalInv, TypeOK
    <3>2. ~(i \in 1..d)
      BY Zenon, <2>1, <1>6, <2>7
    <3>3. j \in 1..Len(events) /\ i = j + d
      BY <1>5, <3>2
    <3>4. events[j] = log[i]
      BY Zenon, <3>3, ReadTypes
    <3>5. watchMatches(p.watch, events[j])
      BY Zenon, <1>3, <2>7, <3>4, MatchesSame DEF PollingSound
    <3>6. j \in Wanted(p)
      BY Zenon, <2>7, <3>3, <3>4, <3>5 DEF Wanted
    <3>7. CASE j <= stop
      BY Zenon, <3>4, <3>6, <3>7
    <3>8. CASE ~(j <= stop)
      <4>1. stop \in answer /\ Cardinality(answer) = p.limit
        BY SMTT(30), <1>5, <2>2, <3>3, <3>8
      <4>2. Cardinality(seqs) = p.limit
        BY Zenon, <2>3, <4>1, AnswerSize
      <4>3. last = log[stop + d].seq /\ stop + d \in DOMAIN log
        BY SMTT(30), <1>5, <2>3, <2>5, <4>1, ReadTypes DEF JournalInv, TypeOK
      <4>4. last = stop + d
        BY Zenon, <4>3 DEF Positions
      <4> QED BY SMTT(30), <1>5, <3>1, <3>3, <3>8, <4>2, <4>4
    <3> QED BY Zenon, <3>7, <3>8
  <2>8. (\E i \in 1..d : log[i].seq > p.after) = FALSE
    BY Zenon, <2>1, <1>6
  <2> HIDE DEF p, d, seqs, answer
  <2> QED BY SMTT(30), <2>6, <2>7, <2>8, <1>3, <1>4, <1>5 DEF PolledSound, PollingSound, p
<1> QED BY Zenon, <1>7, <1>8

\* With one writer, steps keep polls sound.
LEMMA PollInvStep ==
    ASSUME \A v, w \in Writer : v = w, JournalInv, Positions, PollInv, [Next]_vars
    PROVE  PollInv'
<1> SUFFICES ASSUME NEW c \in Watcher
             PROVE  /\ call'[c].step = "polling" => PollingSound(c)'
                    /\ call'[c].step = "polled" => PolledSound(c)'
  BY Zenon DEF PollInv
<1>1. CASE call'[c] = call[c]
  BY Zenon, <1>1, PollStable
<1>2. CASE call'[c].step \notin {"polling", "polled"}
  BY Zenon, <1>2
<1>3. call \in [Watcher -> Call]
  BY Zenon DEF JournalInv, TypeOK
<1>4. ASSUME NEW w \in Writer, WriterStep(w) PROVE call'[c] = call[c]
  BY Zenon, <1>4 DEF WriterStep, ChangeOne, Rename, AppendNumber, AppendStore
<1>5. ASSUME NEW b \in Watcher, WatcherStep(b), b # c PROVE call'[c] = call[c]
  <2>1. CASE Request(b)
    BY Zenon, <1>3, <1>5, <2>1 DEF Request, SubscribeBegin, NodeGone, ResubscribeBegin, PollBegin,
                            AckEvents, ResyncSnapshot, Begin
  <2>2. CASE HandlerStep(b) \/ Respond(b)
    BY Zenon, <1>3, <1>5, <2>2 DEF HandlerStep, WatchInsert, PollOverflow, PollCollect, ResyncNumber,
                            Respond
  <2> QED BY Zenon, <1>5, <2>1, <2>2 DEF WatcherStep
<1>6. ASSUME NEW id, NEW after, NEW n, PollBegin(c, id, after, n), id \in DOMAIN watches
      PROVE  call'[c].step = "polling" /\ PollingSound(c)'
  <2>1. call'[c] = [step |-> "polling", id |-> id, watch |-> watches[id],
                    after |-> after, limit |-> Limit(n)]
    BY Zenon, <1>3, <1>6 DEF PollBegin, Begin
  <2>2. UNCHANGED watches
    BY Zenon, <1>6 DEF PollBegin, brokerVars
  <2> QED BY SMTT(30), <1>6, <2>1, <2>2 DEF PollingSound
<1>7. ASSUME NEW id, NEW after, NEW n, PollBegin(c, id, after, n), id \notin DOMAIN watches
      PROVE  call'[c].step = "failed"
  BY Zenon, <1>3, <1>7 DEF PollBegin, Begin, Failed
<1>8. ASSUME Request(c)
      PROVE  \/ call'[c].step \notin {"polling", "polled"}
             \/ \E id \in SomeID, after \in 0..nextSeq, n \in MaxEvents : PollBegin(c, id, after, n)
  <2>1. ASSUME NEW next, Begin(c, next), next.step \notin {"polling", "polled"}
        PROVE  call'[c].step \notin {"polling", "polled"}
    BY Zenon, <1>3, <2>1 DEF Begin
  <2>2. ASSUME NEW p, NEW r, SubscribeBegin(c, p, r)
        PROVE  call'[c].step \notin {"polling", "polled"}
    BY Zenon, <2>1, <2>2 DEF SubscribeBegin
  <2>3. ASSUME NodeGone(c) PROVE call'[c].step \notin {"polling", "polled"}
    BY Zenon, <2>1, <2>3 DEF NodeGone, Failed
  <2>4. ASSUME NEW id, NEW p, NEW r, NEW after, ResubscribeBegin(c, id, p, r, after)
        PROVE  call'[c].step \notin {"polling", "polled"}
    BY Zenon, <2>1, <2>4 DEF ResubscribeBegin
  <2>5. ASSUME NEW id, NEW seq, AckEvents(c, id, seq)
        PROVE  call'[c].step \notin {"polling", "polled"}
    BY Zenon, <2>1, <2>5 DEF AckEvents, Failed
  <2>6. ASSUME NEW id, ResyncSnapshot(c, id) PROVE call'[c].step \notin {"polling", "polled"}
    BY Zenon, <2>1, <2>6 DEF ResyncSnapshot, Failed
  <2> QED BY Zenon, <1>8, <2>2, <2>3, <2>4, <2>5, <2>6 DEF Request
<1>9. ASSUME HandlerStep(c) \/ Respond(c)
      PROVE  \/ call'[c].step \notin {"polling", "polled"}
             \/ PollOverflow(c) \/ PollCollect(c)
  BY SMTT(30), <1>3, <1>9 DEF HandlerStep, WatchInsert, ResyncNumber, Respond, Idle
<1>10. CASE WatcherStep(c)
  <2>1. CASE PollOverflow(c) \/ PollCollect(c)
    BY Zenon, <2>1, PollAnswered
  <2>2. CASE \E id \in SomeID, after \in 0..nextSeq, n \in MaxEvents : PollBegin(c, id, after, n)
    BY Zenon, <1>2, <1>6, <1>7, <2>2
  <2> QED BY Zenon, <1>2, <1>8, <1>9, <1>10, <2>1, <2>2 DEF WatcherStep
<1> QED BY Zenon, <1>1, <1>4, <1>5, <1>10 DEF Next, vars

\* With one writer, polls are sound in every reachable state.
LEMMA PollInvariance ==
    ASSUME \A v, w \in Writer : v = w
    PROVE  Spec => []PollInv
<1>1. Init => PollInv
  BY DEF Init, PollInv, Idle
<1>2. JournalInv /\ Positions /\ PollInv /\ [Next]_vars => PollInv'
  BY Zenon, PollInvStep
<1> QED BY <1>1, <1>2, JournalInvariance, PositionsInvariance, PTL DEF Spec

\* With one writer at a time, a poll answer without overflow leaves nothing out
\* that its limit does not exclude.
THEOREM OneWriterPollsComplete ==
    ASSUME \A v, w \in Writer : v = w
    PROVE  Spec => []PollComplete
<1>1. PollInv => PollComplete
  BY Zenon DEF PollInv, PolledSound, PollComplete, Answer
<1> QED BY <1>1, PollInvariance, PTL

\* With one writer at a time, overflow is reported exactly when an event newer
\* than the client's position has been trimmed.
THEOREM OneWriterOverflowExact ==
    ASSUME \A v, w \in Writer : v = w
    PROVE  Spec => []OverflowExact
<1>1. PollInv => OverflowExact
  BY Zenon DEF PollInv, PolledSound, OverflowExact, Answer
<1> QED BY <1>1, PollInvariance, PTL

=============================================================================
