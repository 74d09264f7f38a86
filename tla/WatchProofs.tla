---------------------------- MODULE WatchProofs ----------------------------
(***************************************************************************)
(* Proofs about the watch client (WatchClient) composed with the journal,  *)
(* for any retention, any number of watchers and paths, and one writer:    *)
(* with two, the journal itself loses an event, which a run shows.         *)
(*                                                                         *)
(* What carries them is an order (CursorInv): what is acknowledged is at   *)
(* most the application's cursor, that at most what the library counts as  *)
(* seen, and that at most the length of the log; and that an answer on its *)
(* way continues at the cursor (AnswerInv).                                *)
(***************************************************************************)
EXTENDS WatchClient, JournalProofs

\* A poll answer moves the client forward over what was stored when it was
\* computed: it names only numbers between the request's position and its last
\* one, and an overflow does not move the client at all.
AnswerAhead(k) ==
    /\ k.after <= k.last /\ k.last <= k.at /\ k.latest = k.at
    /\ \A n \in k.seqs : k.after < n /\ n <= k.last
    /\ k.overflow => k.last = k.after

\* The client's own state has the shapes the library and the application give it.
ClientTypeOK ==
    /\ cur \in Watcher
    /\ phase \in {"subscribe", "poll", "ack", "resync", "recover", "gone"}
    /\ tracked \in [id : Nat, seen : Nat, acked : Nat]
    /\ after \in Nat
    /\ base \in Nat
    /\ origin \in Nat
    /\ delivered \in SUBSET Nat

\* The client's cursor: what is acknowledged, on either side, is at or before
\* it, what the library counts as seen is at or after it and has been stored,
\* and nothing beyond it was given to the application.
CursorInv ==
    /\ phase = "subscribe" => tracked = NoWatch /\ after = 0
    /\ phase \notin {"subscribe", "gone"} => tracked # NoWatch
    /\ tracked # NoWatch =>
         /\ tracked.id \in DOMAIN watches
         /\ watches[tracked.id].path = WatchRoot
         /\ watches[tracked.id].recursive
         /\ watches[tracked.id].acked <= after
         /\ tracked.acked <= after
         /\ after <= tracked.seen
         /\ tracked.seen <= Len(log)
    /\ \A n \in delivered : n <= after

\* The call in progress belongs to what the application is doing, and its
\* answer continues where the client stands.
AnswerInv ==
    LET k == call[cur] IN
    /\ k.step = "inserting" =>
         /\ phase \in {"subscribe", "recover"}
         /\ k.watch.path = WatchRoot /\ k.watch.recursive
         /\ k.watch.acked <= Len(log)
         /\ phase = "recover" => k.watch.acked = tracked.seen
    /\ k.step = "subscribed" =>
         /\ phase \in {"subscribe", "recover"}
         /\ k.id \in DOMAIN watches
         /\ watches[k.id].path = WatchRoot /\ watches[k.id].recursive
         /\ watches[k.id].acked = k.start
         /\ k.start <= Len(log)
         /\ phase = "recover" => k.start = tracked.seen
    /\ k.step \in {"polling", "polled"} =>
         phase = "poll" /\ k.id = tracked.id /\ k.after = after
    /\ k.step = "polled" => AnswerAhead(k)
    /\ k.step = "acked" => phase = "ack" /\ k.acked <= after
    /\ k.step = "resyncing" => phase = "resync"
    /\ k.step = "resynced" => phase = "resync" /\ after <= k.seq /\ k.seq <= Len(log)

\* The inductive invariant of the client composed with the journal.
WatchInv == ClientTypeOK /\ CursorInv /\ AnswerInv /\ PollingLosesNothing
-----------------------------------------------------------------------------
(* What the journal gives the client when numbers are positions.           *)

\* The newest retained number is the length of the log.
LEMMA LatestIsLength ==
    ASSUME JournalInv, Positions
    PROVE  latestSeq = Len(log) /\ Len(log) \in Nat /\ Len(log) <= nextSeq /\ nextSeq \in Nat
<1>1. /\ Len(log) \in Nat /\ Len(events) \in Nat /\ Len(log) - Len(events) \in Nat
      /\ \A i \in 1..Len(events) : events[i] = log[i + (Len(log) - Len(events))]
  BY Zenon, ReadTypes
<1>2. log \in Seq(Event) /\ events = Newest(log, Retention) /\ nextSeq \in Nat
  BY Zenon DEF JournalInv, TypeOK, JournalIsLogTail
<1>3. Len(events) = IF Len(log) > Retention THEN Retention ELSE Len(log)
  BY Zenon, <1>2, RetentionAssumption, NewestFacts
<1>4. ASSUME Len(events) = 0 PROVE latestSeq = Len(log)
  BY Zenon, <1>1, <1>3, <1>4, RetentionAssumption DEF latestSeq
<1>5. ASSUME Len(events) # 0 PROVE latestSeq = Len(log)
  <2>1. Len(events) \in 1..Len(events) /\ Len(log) \in 1..Len(log)
    BY <1>1, <1>5
  <2>2. Len(events) + (Len(log) - Len(events)) = Len(log)
    BY <1>1
  <2>3. events[Len(events)] = log[Len(log)]
    BY Zenon, <1>1, <2>1, <2>2
  <2>4. DOMAIN log = 1..Len(log)
    BY <1>2
  <2>5. log[Len(log)].seq = Len(log)
    BY Zenon, <2>1, <2>4 DEF Positions
  <2> QED BY Zenon, <1>5, <2>3, <2>5 DEF latestSeq
<1>6. Len(log) <= nextSeq
  BY <1>1, <1>2 DEF Positions
<1> QED BY Zenon, <1>1, <1>2, <1>4, <1>5, <1>6

\* A poll of a client that is not ahead of the journal moves it forward only.
LEMMA PollMovesForward ==
    ASSUME JournalInv, Positions, NEW c \in Watcher, PollOverflow(c) \/ PollCollect(c),
           call[c].after <= Len(log)
    PROVE  /\ call'[c].step = "polled"
           /\ call'[c].id = call[c].id /\ call'[c].after = call[c].after
           /\ AnswerAhead(call'[c])
<1> DEFINE p == call[c]
           d == Len(log) - Len(events)
<1>1. p \in Polling
  BY Zenon, CallFields DEF JournalInv, PollOverflow, PollCollect
<1>2. p.after \in Nat
  BY Zenon, <1>1 DEF Polling
<1>3. call \in [Watcher -> Call]
  BY Zenon DEF JournalInv, TypeOK
<1>4. latestSeq = Len(log) /\ Len(log) \in Nat /\ Len(events) \in Nat /\ d \in Nat
  BY Zenon, LatestIsLength, ReadTypes
<1>5. ASSUME NEW o \in BOOLEAN, NEW seqs, NEW last \in Nat, call'[c] = PollAnswer(p, o, seqs, last),
             p.after <= last, last <= Len(log), \A n \in seqs : p.after < n /\ n <= last,
             o => last = p.after
      PROVE  /\ call'[c].step = "polled"
             /\ call'[c].id = call[c].id /\ call'[c].after = call[c].after
             /\ AnswerAhead(call'[c])
  <2>1. /\ call'[c].step = "polled" /\ call'[c].id = p.id /\ call'[c].after = p.after
        /\ call'[c].overflow = o /\ call'[c].seqs = seqs /\ call'[c].last = last
        /\ call'[c].latest = Len(log) /\ call'[c].at = Len(log)
    BY SMTT(30), <1>4, <1>5 DEF PollAnswer
  <2> QED BY Zenon, <1>5, <2>1 DEF AnswerAhead
<1>6. CASE PollOverflow(c)
  <2> DEFINE none == {}
  <2>1. call'[c] = PollAnswer(p, TRUE, none, p.after)
    BY Zenon, <1>3, <1>6 DEF PollOverflow
  <2>2. p.after <= p.after /\ p.after <= Len(log) /\ TRUE \in BOOLEAN
    BY <1>2
  <2>3. \A n \in none : p.after < n /\ n <= p.after
    BY Zenon
  <2> HIDE DEF p, none
  <2> QED BY Zenon, <1>2, <1>5, <2>1, <2>2, <2>3
<1>7. CASE PollCollect(c)
  <2>1. PICK stop \in 0..Len(events) :
          LET answer == {i \in Wanted(p) : i <= stop} IN
          \/ answer = {} /\ call' = [call EXCEPT ![c] = PollAnswer(@, FALSE, {}, @.after)]
          \/ \E l \in answer :
               /\ \A i \in answer : i <= l
               /\ call' = [call EXCEPT ![c] =
                             PollAnswer(@, FALSE, {events[i].seq : i \in answer}, events[l].seq)]
    BY Zenon, <1>7 DEF PollCollect
  <2> DEFINE answer == {i \in Wanted(p) : i <= stop}
             seqs == {events[i].seq : i \in answer}
  <2>2. CASE call' = [call EXCEPT ![c] = PollAnswer(@, FALSE, {}, @.after)]
    <3> DEFINE none == {}
    <3>1. call'[c] = PollAnswer(p, FALSE, none, p.after)
      BY Zenon, <1>3, <2>2
    <3>2. p.after <= p.after /\ p.after <= Len(log) /\ FALSE \in BOOLEAN
      BY <1>2
    <3>3. \A n \in none : p.after < n /\ n <= p.after
      BY Zenon
    <3> HIDE DEF p, none
    <3> QED BY Zenon, <1>2, <1>5, <3>1, <3>2, <3>3
  <2>3. ASSUME NEW l \in answer, \A i \in answer : i <= l,
               call' = [call EXCEPT ![c] = PollAnswer(@, FALSE, seqs, events[l].seq)]
        PROVE  /\ call'[c].step = "polled"
               /\ call'[c].id = call[c].id /\ call'[c].after = call[c].after
               /\ AnswerAhead(call'[c])
    <3>1. call'[c] = PollAnswer(p, FALSE, seqs, events[l].seq)
      BY Zenon, <1>3, <2>3
    <3>2. \A i \in answer : i \in 1..Len(events) /\ events[i].seq > p.after
      BY Zenon DEF Wanted
    <3>3. \A i \in 1..Len(events) : events[i].seq = i + d /\ i + d \in DOMAIN log
      <4> SUFFICES ASSUME NEW i \in 1..Len(events) PROVE events[i].seq = i + d /\ i + d \in DOMAIN log
        BY Zenon
      <4>1. events[i] = log[i + d]
        BY Zenon, ReadTypes
      <4>2. i + d \in DOMAIN log
        BY SMTT(30), <1>4 DEF JournalInv, TypeOK
      <4> QED BY Zenon, <4>1, <4>2 DEF Positions
    <3>4. events[l].seq \in Nat /\ events[l].seq <= Len(log) /\ p.after <= events[l].seq
      BY SMTT(30), <1>2, <1>4, <3>2, <3>3
    <3>5. \A n \in seqs : p.after < n /\ n <= events[l].seq
      BY SMTT(30), <1>2, <1>4, <2>3, <3>2, <3>3
    <3> HIDE DEF seqs, answer
    <3> QED BY Zenon, <1>5, <3>1, <3>4, <3>5
  <2> QED BY Zenon, <2>1, <2>2, <2>3
<1> QED BY Zenon, <1>6, <1>7

\* The client's requests are requests of the journal's specification: they name
\* a watch id that was handed out and a number that has been taken.
LEMMA ClientStepsAreJournalSteps ==
    ASSUME JournalInv, Positions, WatchInv, [WNext]_allVars
    PROVE  [Next]_vars
<1>1. /\ latestSeq = Len(log) /\ Len(log) \in Nat /\ nextSeq \in Nat /\ Len(log) <= nextSeq
      /\ nextWatchID \in Nat /\ DOMAIN watches \subseteq WatchIDBase + 1 .. nextWatchID
  BY Zenon, LatestIsLength DEF JournalInv, TypeOK
<1>2. /\ cur \in Watcher /\ after \in Nat /\ tracked.seen \in Nat /\ tracked.acked \in Nat
      /\ phase \notin {"subscribe", "gone"} =>
           tracked.id \in SomeID /\ after \in 0..nextSeq /\ RecoveryAfterSeq \in 0..nextSeq
  <2>1. cur \in Watcher /\ after \in Nat /\ tracked.seen \in Nat /\ tracked.acked \in Nat
    BY Zenon DEF WatchInv, ClientTypeOK
  <2>2. ASSUME phase \notin {"subscribe", "gone"}
        PROVE  tracked.id \in SomeID /\ after \in 0..nextSeq /\ RecoveryAfterSeq \in 0..nextSeq
    <3>1. /\ tracked.id \in DOMAIN watches /\ after <= tracked.seen
          /\ tracked.acked <= after /\ tracked.seen <= Len(log)
      BY Zenon, <2>2 DEF WatchInv, CursorInv
    <3>2. tracked.id \in WatchIDBase + 1 .. nextWatchID
      BY Zenon, <1>1, <3>1
    <3> QED BY SMTT(30), <1>1, <2>1, <3>1, <3>2 DEF SomeID, WatchIDBase, RecoveryAfterSeq, Larger
  <2> QED BY Zenon, <2>1, <2>2
<1>3. ASSUME NEW c \in Watcher, WatcherStep(c) PROVE Next
  BY Zenon, <1>3 DEF Next
<1>4. ASSUME NEW c \in Watcher, Respond(c) PROVE Next
  BY Zenon, <1>3, <1>4 DEF WatcherStep
<1>5. ASSUME Request(cur) PROVE Next
  BY Zenon, <1>2, <1>3, <1>5 DEF WatcherStep
<1>6. CASE SendSubscribe
  <2>1. SubscribeBegin(cur, WatchRoot, TRUE) \/ NodeGone(cur)
    BY Zenon, <1>6 DEF SendSubscribe
  <2>2. WatchRoot \in Root /\ TRUE \in BOOLEAN
    BY Zenon, WatchRootAssumption
  <2> QED BY Zenon, <1>5, <2>1, <2>2 DEF Request
<1>7. CASE SendPoll
  <2>1. PICK n \in MaxEvents : PollBegin(cur, tracked.id, after, n)
    BY Zenon, <1>7 DEF SendPoll
  <2>2. tracked.id \in SomeID /\ after \in 0..nextSeq
    BY Zenon, <1>2, <1>7 DEF SendPoll
  <2> QED BY Zenon, <1>5, <2>1, <2>2 DEF Request
<1>8. CASE SendAck
  <2>1. AckEvents(cur, tracked.id, after)
    BY Zenon, <1>8 DEF SendAck
  <2>2. tracked.id \in SomeID /\ after \in 0..nextSeq
    BY Zenon, <1>2, <1>8 DEF SendAck
  <2> QED BY Zenon, <1>5, <2>1, <2>2 DEF Request
<1>9. CASE SendResync
  <2>1. ResyncSnapshot(cur, tracked.id) \/ NodeGone(cur)
    BY Zenon, <1>9 DEF SendResync
  <2>2. tracked.id \in SomeID
    BY Zenon, <1>2, <1>9 DEF SendResync
  <2> QED BY Zenon, <1>5, <2>1, <2>2 DEF Request
<1>10. CASE SendResubscribe
  <2>1. \/ ResubscribeBegin(cur, tracked.id, WatchRoot, TRUE, RecoveryAfterSeq)
        \/ NodeGone(cur)
    BY Zenon, <1>10 DEF SendResubscribe
  <2>2. tracked.id \in SomeID /\ RecoveryAfterSeq \in 0..nextSeq
    BY Zenon, <1>2, <1>10 DEF SendResubscribe
  <2>3. WatchRoot \in Root /\ TRUE \in BOOLEAN
    BY Zenon, WatchRootAssumption
  <2> HIDE DEF RecoveryAfterSeq
  <2> QED BY Zenon, <1>5, <2>1, <2>2, <2>3 DEF Request
<1>11. CASE RecvSubscribed \/ RecvPolled \/ RecvAcked \/ RecvResynced \/ RecvResubscribed \/ RecvFailed
  BY Zenon, <1>2, <1>4, <1>11
     DEF RecvSubscribed, RecvPolled, RecvAcked, RecvResynced, RecvResubscribed, RecvFailed, Receive
<1>12. CASE Drop
  BY Zenon, <1>12 DEF Drop
<1>13. CASE ServerStep
  <2>1. CASE \E w \in Writer : WriterStep(w) /\ UNCHANGED clientVars
    BY Zenon, <2>1 DEF Next
  <2>2. CASE \E c \in Watcher : HandlerStep(c) /\ UNCHANGED clientVars
    BY Zenon, <1>3, <2>2 DEF WatcherStep
  <2>3. CASE \E c \in Watcher : LoseAnswer(c)
    BY Zenon, <1>4, <2>3 DEF LoseAnswer
  <2> QED BY Zenon, <1>13, <2>1, <2>2, <2>3 DEF ServerStep
<1>14. CASE UNCHANGED allVars
  BY Zenon, <1>14 DEF allVars
<1> QED BY Zenon, <1>6, <1>7, <1>8, <1>9, <1>10, <1>11, <1>12, <1>13, <1>14 DEF WNext, ClientStep

-----------------------------------------------------------------------------
(* Steps that leave the client's own state alone.                          *)

\* The client's position stays good while watches keep their contents and the
\* log grows: a new event is beyond the cursor.
LEMMA CursorStable ==
    ASSUME JournalInv, Positions, WatchInv, [Next]_vars, UNCHANGED clientVars, Positions',
           \A id \in DOMAIN watches : id \in DOMAIN watches' /\ watches'[id] = watches[id]
    PROVE  ClientTypeOK' /\ CursorInv' /\ PollingLosesNothing'
<1>1. UNCHANGED <<cur, phase, tracked, after, origin, base, delivered>>
  BY Zenon DEF clientVars, historyVars
<1>2. ClientTypeOK'
  BY Zenon, <1>1 DEF WatchInv, ClientTypeOK
<1>3. Len(log) \in Nat /\ Len(log') \in Nat /\ Len(log') >= Len(log)
  <2>1. JournalInv'
    BY Zenon, NextInv
  <2> QED BY SMTT(30), <2>1, LogGrows DEF JournalInv, TypeOK
<1>4. /\ after \in Nat /\ tracked.seen \in Nat /\ tracked.acked \in Nat /\ base \in Nat
      /\ origin \in Nat
  BY Zenon DEF WatchInv, ClientTypeOK
<1>5. CursorInv'
  BY SMTT(30), <1>1, <1>3, <1>4 DEF WatchInv, CursorInv
<1>6. PollingLosesNothing'
  <2> SUFFICES ASSUME NEW i \in DOMAIN log', Concerns(i)', base < log'[i].seq, log'[i].seq <= after
               PROVE  log'[i].seq \in delivered
    BY Zenon, <1>1 DEF PollingLosesNothing
  <2>1. tracked # NoWatch
    BY Zenon, <1>1 DEF Concerns
  <2>2. after <= Len(log)
    BY <1>3, <1>4, <2>1 DEF WatchInv, CursorInv
  <2>3. log'[i].seq = i
    BY Zenon DEF Positions
  <2>4. i \in 1..Len(log')
    <3>1. JournalInv'
      BY Zenon, NextInv
    <3> QED BY SMTT(30), <3>1 DEF JournalInv, TypeOK
  <2>5. i \in 1..Len(log) /\ log'[i] = log[i]
    BY <1>3, <1>4, <2>2, <2>3, <2>4, LogGrows
  <2>6. i \in DOMAIN log
    BY <2>5 DEF JournalInv, TypeOK
  <2>7. Concerns(i)
    BY Zenon, <1>1, <2>5 DEF Concerns
  <2> QED BY Zenon, <2>5, <2>6, <2>7 DEF WatchInv, PollingLosesNothing
<1> QED BY Zenon, <1>2, <1>5, <1>6

\* A call of the client that does not move keeps belonging to what it does.
LEMMA AnswerStable ==
    ASSUME JournalInv, Positions, WatchInv, [Next]_vars, UNCHANGED clientVars,
           call'[cur] = call[cur],
           \A id \in DOMAIN watches : id \in DOMAIN watches' /\ watches'[id] = watches[id]
    PROVE  AnswerInv'
<1>1. UNCHANGED <<cur, phase, tracked, after>>
  BY Zenon DEF clientVars
<1>2. Len(log) \in Nat /\ Len(log') \in Nat /\ Len(log') >= Len(log)
  <2>1. JournalInv'
    BY Zenon, NextInv
  <2> QED BY SMTT(30), <2>1, LogGrows DEF JournalInv, TypeOK
<1>3. call[cur] \in Call
  BY Zenon DEF JournalInv, TypeOK, WatchInv, ClientTypeOK
<1>4. /\ call[cur].step = "inserting" => call[cur].watch.acked \in Nat
      /\ call[cur].step = "subscribed" => call[cur].start \in Nat
      /\ call[cur].step = "resynced" => call[cur].seq \in Nat
  BY SMTT(30), <1>3 DEF Call, Idle, Failed, Inserting, Watch, Subscribed, Polling, Polled, Acked, Resyncing, Resynced
<1> DEFINE k == call[cur]
<1>5. call'[cur'] = k
  BY Zenon, <1>1
<1> HIDE DEF k
<1> QED BY SMTT(30), <1>1, <1>2, <1>4, <1>5 DEF WatchInv, AnswerInv, k

\* Only an acknowledgement changes a watch that is in the map.
LEMMA WatchesSame ==
    ASSUME JournalInv, NEW c \in Watcher, HandlerStep(c)
    PROVE  \A id \in DOMAIN watches : id \in DOMAIN watches' /\ watches'[id] = watches[id]
<1>1. CASE WatchInsert(c)
  BY Zenon, <1>1 DEF WatchInsert, Put, JournalInv, FreshWatchIDs
<1>2. CASE UNCHANGED watches
  BY Zenon, <1>2
<1> QED BY Zenon, <1>1, <1>2 DEF HandlerStep, PollOverflow, PollCollect, ResyncNumber, brokerVars

\* A step of the server that is not one of the client's own handler.
LEMMA OtherStepKeeps ==
    ASSUME JournalInv, Positions, Positions', WatchInv, [Next]_vars, UNCHANGED clientVars,
           \/ \E w \in Writer : WriterStep(w)
           \/ \E c \in Watcher \ {cur} : HandlerStep(c) \/ Respond(c)
    PROVE  WatchInv'
<1>1. call \in [Watcher -> Call] /\ cur \in Watcher
  BY Zenon DEF JournalInv, TypeOK, WatchInv, ClientTypeOK
<1>2. ASSUME NEW w \in Writer, WriterStep(w) PROVE call' = call /\ watches' = watches
  BY Zenon, <1>2 DEF WriterStep, ChangeOne, Rename, AppendNumber, AppendStore, brokerVars
<1>3. ASSUME NEW c \in Watcher \ {cur}, HandlerStep(c) \/ Respond(c)
      PROVE  /\ call'[cur] = call[cur]
             /\ \A id \in DOMAIN watches : id \in DOMAIN watches' /\ watches'[id] = watches[id]
  <2>1. call'[cur] = call[cur]
    BY Zenon, <1>1, <1>3 DEF HandlerStep, WatchInsert, PollOverflow, PollCollect, ResyncNumber, Respond
  <2>2. CASE HandlerStep(c)
    BY Zenon, <2>1, <2>2, WatchesSame
  <2>3. CASE Respond(c)
    BY Zenon, <2>1, <2>3 DEF Respond, brokerVars
  <2> QED BY Zenon, <1>3, <2>2, <2>3
<1>4. /\ call'[cur] = call[cur]
      /\ \A id \in DOMAIN watches : id \in DOMAIN watches' /\ watches'[id] = watches[id]
  BY Zenon, <1>2, <1>3
<1> QED BY Zenon, <1>4, CursorStable, AnswerStable DEF WatchInv

\* The client's own handler makes progress with the client's request.
LEMMA OwnHandlerKeeps ==
    ASSUME JournalInv, Positions, Positions', WatchInv, [Next]_vars, UNCHANGED clientVars,
           HandlerStep(cur)
    PROVE  WatchInv'
<1>1. call \in [Watcher -> Call] /\ cur \in Watcher /\ after \in Nat /\ tracked.seen \in Nat
  BY Zenon DEF JournalInv, TypeOK, WatchInv, ClientTypeOK
<1>2. ClientTypeOK' /\ CursorInv' /\ PollingLosesNothing'
  BY Zenon, <1>1, CursorStable, WatchesSame
<1>3. UNCHANGED <<cur, phase, tracked, after>>
  BY Zenon DEF clientVars
<1>4. latestSeq = Len(log) /\ Len(log) \in Nat
  BY Zenon, LatestIsLength
<1> DEFINE k == call'[cur]
<1>5. ASSUME k.step = "subscribed", phase \in {"subscribe", "recover"},
             k.id \in DOMAIN watches', watches'[k.id].path = WatchRoot,
             watches'[k.id].recursive, watches'[k.id].acked = k.start,
             k.start <= Len(log'), phase = "recover" => k.start = tracked.seen
      PROVE  AnswerInv'
  <2>1. call'[cur'] = k
    BY Zenon, <1>3
  <2> HIDE DEF k
  <2> QED BY Zenon, <1>3, <1>5, <2>1 DEF AnswerInv
<1>6. CASE WatchInsert(cur)
  <2> DEFINE old == call[cur]
  <2>1. /\ old.step = "inserting" /\ k = [step |-> "subscribed", id |-> old.id, start |-> old.watch.acked]
        /\ watches' = Put(watches, old.id, old.watch) /\ log' = log
    BY Zenon, <1>1, <1>6 DEF WatchInsert
  <2>2. /\ phase \in {"subscribe", "recover"} /\ old.watch.path = WatchRoot /\ old.watch.recursive
        /\ old.watch.acked <= Len(log)
        /\ phase = "recover" => old.watch.acked = tracked.seen
    BY Zenon, <2>1 DEF WatchInv, AnswerInv
  <2>3. old.id \in DOMAIN watches' /\ watches'[old.id] = old.watch
    BY Zenon, <2>1 DEF Put
  <2>4. k.step = "subscribed" /\ k.id = old.id /\ k.start = old.watch.acked
    BY SMTT(30), <2>1
  <2> HIDE DEF k, old
  <2>5. watches'[k.id] = old.watch /\ k.id \in DOMAIN watches'
    BY Zenon, <2>3, <2>4
  <2>6. /\ watches'[k.id].path = WatchRoot /\ watches'[k.id].recursive
        /\ watches'[k.id].acked = k.start
    BY Zenon, <2>2, <2>4, <2>5
  <2>7. k.start <= Len(log') /\ (phase = "recover" => k.start = tracked.seen)
    BY Zenon, <2>1, <2>2, <2>4
  <2>8. AnswerInv'
    BY Zenon, <1>5, <2>2, <2>4, <2>5, <2>6, <2>7
  <2> QED BY Zenon, <1>2, <2>8 DEF WatchInv
<1>7. CASE PollOverflow(cur) \/ PollCollect(cur)
  <2>1. call[cur].step = "polling"
    BY Zenon, <1>7 DEF PollOverflow, PollCollect
  <2>2. phase = "poll" /\ call[cur].id = tracked.id /\ call[cur].after = after
    BY Zenon, <2>1 DEF WatchInv, AnswerInv
  <2>3. call[cur].after <= Len(log)
    <3>1. after <= tracked.seen /\ tracked.seen <= Len(log)
      BY Zenon, <2>2 DEF WatchInv, CursorInv
    <3> QED BY <1>1, <1>4, <2>2, <3>1
  <2>4. /\ k.step = "polled" /\ k.id = call[cur].id /\ k.after = call[cur].after
        /\ AnswerAhead(k)
    BY Zenon, <1>1, <1>7, <2>3, PollMovesForward
  <2>5. call'[cur'] = k
    BY Zenon, <1>3
  <2> HIDE DEF k
  <2>6. AnswerInv'
    BY Zenon, <1>3, <2>2, <2>4, <2>5 DEF AnswerInv
  <2> QED BY Zenon, <1>2, <2>6 DEF WatchInv
<1>8. CASE ResyncNumber(cur)
  <2>1. /\ call[cur].step = "resyncing" /\ log' = log
        /\ k = [step |-> "resynced", id |-> call[cur].id, seq |-> latestSeq,
                snap |-> call[cur].snap, at |-> Len(log)]
    BY Zenon, <1>1, <1>8 DEF ResyncNumber
  <2>2. k.step = "resynced" /\ k.seq = Len(log)
    BY <1>4, <2>1
  <2>3. phase = "resync"
    BY Zenon, <2>1 DEF WatchInv, AnswerInv
  <2>4. after <= Len(log)
    <3>1. after <= tracked.seen /\ tracked.seen <= Len(log)
      BY Zenon, <2>3 DEF WatchInv, CursorInv
    <3> QED BY <1>1, <1>4, <3>1
  <2>5. call'[cur'] = k
    BY Zenon, <1>3
  <2> HIDE DEF k
  <2>6. AnswerInv'
    BY SMTT(30), <1>3, <1>4, <2>1, <2>2, <2>3, <2>4, <2>5 DEF AnswerInv
  <2> QED BY Zenon, <1>2, <2>6 DEF WatchInv
<1> QED BY Zenon, <1>6, <1>7, <1>8 DEF HandlerStep

-----------------------------------------------------------------------------
(* Requests of the client.                                                 *)

\* A request that leaves the watches alone.
LEMMA SendKeeps ==
    ASSUME JournalInv, Positions, Positions', WatchInv, [Next]_vars,
           SendSubscribe \/ SendPoll \/ SendResync \/ SendResubscribe
    PROVE  WatchInv'
<1>1. call \in [Watcher -> Call] /\ cur \in Watcher /\ after \in Nat /\ tracked.seen \in Nat
      /\ tracked.acked \in Nat
  BY Zenon DEF JournalInv, TypeOK, WatchInv, ClientTypeOK
<1>2. UNCHANGED clientVars /\ UNCHANGED <<watches, log>>
  BY Zenon DEF SendSubscribe, SendPoll, SendResync, SendResubscribe, SubscribeBegin, NodeGone,
               PollBegin, ResyncSnapshot, ResubscribeBegin, brokerVars
<1>3. ClientTypeOK' /\ CursorInv' /\ PollingLosesNothing'
  BY Zenon, <1>2, CursorStable
<1>4. UNCHANGED <<cur, phase, tracked, after>>
  BY Zenon, <1>2 DEF clientVars
<1>5. latestSeq = Len(log) /\ Len(log) \in Nat
  BY Zenon, LatestIsLength
<1>6. ASSUME NEW next, Begin(cur, next) PROVE call'[cur'] = next
  BY Zenon, <1>1, <1>4, <1>6 DEF Begin
<1>7. ASSUME Begin(cur, Failed) PROVE AnswerInv'
  BY SMTT(30), <1>6, <1>7 DEF AnswerInv, Failed
<1>8. CASE SendSubscribe
  <2>1. CASE NodeGone(cur)
    BY Zenon, <1>3, <1>7, <2>1 DEF NodeGone, WatchInv
  <2>2. CASE SubscribeBegin(cur, WatchRoot, TRUE)
    <3> DEFINE watch == [path |-> WatchRoot, recursive |-> TRUE, acked |-> latestSeq]
               next == [step |-> "inserting", id |-> nextWatchID + 1, watch |-> watch]
    <3>1. call'[cur'] = next
      BY Zenon, <1>6, <2>2 DEF SubscribeBegin
    <3>2. /\ next.step = "inserting" /\ next.watch.path = WatchRoot /\ next.watch.recursive
          /\ next.watch.acked = Len(log)
      BY Zenon, <1>5
    <3>3. phase = "subscribe"
      BY Zenon, <1>8 DEF SendSubscribe
    <3> HIDE DEF next
    <3>4. AnswerInv'
      BY SMTT(30), <1>2, <1>4, <1>5, <3>1, <3>2, <3>3 DEF AnswerInv
    <3> QED BY Zenon, <1>3, <3>4 DEF WatchInv
  <2> QED BY Zenon, <1>8, <2>1, <2>2 DEF SendSubscribe
<1>9. CASE SendPoll
  <2>1. PICK n \in MaxEvents : PollBegin(cur, tracked.id, after, n)
    BY Zenon, <1>9 DEF SendPoll
  <2>2. phase = "poll" /\ tracked.id \in DOMAIN watches
    BY Zenon, <1>9 DEF SendPoll, WatchInv, CursorInv
  <2> DEFINE next == [step |-> "polling", id |-> tracked.id, watch |-> watches[tracked.id],
                      after |-> after, limit |-> Limit(n)]
  <2>3. call'[cur'] = next
    BY Zenon, <1>6, <2>1, <2>2 DEF PollBegin
  <2>4. next.step = "polling" /\ next.id = tracked.id /\ next.after = after
    BY Zenon
  <2> HIDE DEF next
  <2>5. AnswerInv'
    BY Zenon, <1>4, <2>2, <2>3, <2>4 DEF AnswerInv
  <2> QED BY Zenon, <1>3, <2>5 DEF WatchInv
<1>10. CASE SendResync
  <2>1. CASE NodeGone(cur)
    BY Zenon, <1>3, <1>7, <2>1 DEF NodeGone, WatchInv
  <2>2. CASE ResyncSnapshot(cur, tracked.id)
    <3>1. phase = "resync" /\ tracked.id \in DOMAIN watches
      BY Zenon, <1>10 DEF SendResync, WatchInv, CursorInv
    <3>2. call'[cur'] = [step |-> "resyncing", id |-> tracked.id, snap |-> tree]
      BY Zenon, <1>6, <2>2, <3>1 DEF ResyncSnapshot
    <3>3. AnswerInv'
      BY SMTT(30), <1>4, <3>1, <3>2 DEF AnswerInv
    <3> QED BY Zenon, <1>3, <3>3 DEF WatchInv
  <2> QED BY Zenon, <1>10, <2>1, <2>2 DEF SendResync
<1>11. CASE SendResubscribe
  <2>1. CASE NodeGone(cur)
    BY Zenon, <1>3, <1>7, <2>1 DEF NodeGone, WatchInv
  <2>2. CASE ResubscribeBegin(cur, tracked.id, WatchRoot, TRUE, RecoveryAfterSeq)
    <3>1. /\ phase = "recover" /\ tracked.id \in DOMAIN watches
          /\ watches[tracked.id].acked <= after /\ tracked.acked <= after
          /\ after <= tracked.seen /\ tracked.seen <= Len(log)
      BY Zenon, <1>11 DEF SendResubscribe, WatchInv, CursorInv
    <3>2. watches[tracked.id].acked \in Nat
      BY Zenon, <3>1 DEF JournalInv, TypeOK, Watch
    <3>3. Larger(RecoveryAfterSeq, watches[tracked.id].acked) = tracked.seen
      BY SMTT(30), <1>1, <3>1, <3>2 DEF RecoveryAfterSeq, Larger
    <3> DEFINE watch == [path |-> WatchRoot, recursive |-> TRUE, acked |-> tracked.seen]
               next == [step |-> "inserting", id |-> nextWatchID + 1, watch |-> watch]
    <3>4. call'[cur'] = next
      BY Zenon, <1>6, <2>2, <3>1, <3>3 DEF ResubscribeBegin
    <3>5. /\ next.step = "inserting" /\ next.watch.path = WatchRoot /\ next.watch.recursive
          /\ next.watch.acked = tracked.seen
      BY Zenon
    <3> HIDE DEF next
    <3>6. AnswerInv'
      BY Zenon, <1>2, <1>4, <3>1, <3>4, <3>5 DEF AnswerInv
    <3> QED BY Zenon, <1>3, <3>6 DEF WatchInv
  <2> QED BY Zenon, <1>11, <2>1, <2>2 DEF SendResubscribe
<1> QED BY Zenon, <1>8, <1>9, <1>10, <1>11

\* An acknowledgement of the cursor leaves it where it is.
LEMMA SendAckKeeps ==
    ASSUME JournalInv, Positions, Positions', WatchInv, [Next]_vars, SendAck
    PROVE  WatchInv'
<1>1. call \in [Watcher -> Call] /\ cur \in Watcher /\ after \in Nat
  BY Zenon DEF JournalInv, TypeOK, WatchInv, ClientTypeOK
<1>2. phase = "ack" /\ AckEvents(cur, tracked.id, after) /\ UNCHANGED clientVars
  BY Zenon DEF SendAck
<1>3. UNCHANGED <<cur, phase, tracked, after, origin, base, delivered, log>>
  BY Zenon, <1>2 DEF clientVars, historyVars, AckEvents
<1>4. /\ tracked # NoWatch /\ tracked.id \in DOMAIN watches
      /\ watches[tracked.id].path = WatchRoot /\ watches[tracked.id].recursive
      /\ watches[tracked.id].acked <= after
  BY Zenon, <1>2 DEF WatchInv, CursorInv
<1>5. watches[tracked.id] \in Watch /\ watches[tracked.id].acked \in Nat
  BY Zenon, <1>4 DEF JournalInv, TypeOK, Watch
<1>6. Larger(after, watches[tracked.id].acked) = after
  BY SMTT(30), <1>1, <1>4, <1>5 DEF Larger
<1>7. /\ watches' = Put(watches, tracked.id, [watches[tracked.id] EXCEPT !.acked = after])
      /\ call'[cur'] = [step |-> "acked", id |-> tracked.id, acked |-> after]
  BY Zenon, <1>1, <1>2, <1>3, <1>4, <1>6 DEF AckEvents, Begin
<1>8. /\ tracked.id \in DOMAIN watches'
      /\ watches'[tracked.id] = [watches[tracked.id] EXCEPT !.acked = after]
  BY Zenon, <1>7 DEF Put
<1>9. /\ watches'[tracked.id].path = WatchRoot /\ watches'[tracked.id].recursive
      /\ watches'[tracked.id].acked = after
  BY Zenon, <1>4, <1>5, <1>8 DEF Watch
<1>10. ClientTypeOK' /\ PollingLosesNothing'
  BY Zenon, <1>3 DEF WatchInv, ClientTypeOK, PollingLosesNothing, Concerns
<1>11. CursorInv'
  BY SMTT(30), <1>1, <1>3, <1>8, <1>9 DEF WatchInv, CursorInv
<1>12. AnswerInv'
  BY SMTT(30), <1>1, <1>2, <1>3, <1>7 DEF AnswerInv
<1> QED BY Zenon, <1>10, <1>11, <1>12 DEF WatchInv

-----------------------------------------------------------------------------
(* Answers to the client, and the loss of its connection.                  *)

\* After an answer has been taken the connection is idle, and the journal is as
\* it was.
LEMMA ReceiveFacts ==
    ASSUME JournalInv, WatchInv, NEW step, Receive(step)
    PROVE  /\ call[cur].step = step /\ call'[cur'] = Idle
           /\ UNCHANGED <<cur, drops, watches, log>>
           /\ AnswerInv'
<1>1. call \in [Watcher -> Call] /\ cur \in Watcher
  BY Zenon DEF JournalInv, TypeOK, WatchInv, ClientTypeOK
<1>2. /\ call[cur].step = step /\ call' = [call EXCEPT ![cur] = Idle]
      /\ UNCHANGED <<cur, drops, watches, log>>
  BY Zenon DEF Receive, Respond, brokerVars
<1>3. call'[cur'] = Idle
  BY Zenon, <1>1, <1>2
<1>4. AnswerInv'
  BY SMTT(30), <1>3 DEF AnswerInv, Idle
<1> QED BY Zenon, <1>2, <1>3, <1>4

\* A subscription, first or renewed, puts the cursor where the new watch starts.
LEMMA RecvStartKeeps ==
    ASSUME JournalInv, Positions, WatchInv, RecvSubscribed \/ RecvResubscribed
    PROVE  WatchInv'
<1> DEFINE k == call[cur]
<1>1. /\ call \in [Watcher -> Call] /\ cur \in Watcher /\ after \in Nat /\ delivered \in SUBSET Nat
      /\ tracked.seen \in Nat /\ tracked.acked \in Nat /\ Len(log) \in Nat /\ origin \in Nat
  BY SMTT(30) DEF JournalInv, TypeOK, WatchInv, ClientTypeOK
<1>2. Receive("subscribed")
  BY Zenon DEF RecvSubscribed, RecvResubscribed
<1>3. k.step = "subscribed" /\ UNCHANGED <<cur, watches, log>> /\ AnswerInv'
  BY Zenon, <1>2, ReceiveFacts
<1>4. /\ k.id \in DOMAIN watches /\ watches[k.id].path = WatchRoot /\ watches[k.id].recursive
      /\ watches[k.id].acked = k.start /\ k.start <= Len(log)
      /\ phase = "recover" => k.start = tracked.seen
  BY Zenon, <1>3 DEF WatchInv, AnswerInv
<1>5. k.id \in Nat /\ k.start \in Nat
  <2>1. k \in Call
    BY Zenon, <1>1
  <2> QED BY SMTT(30), <1>3, <2>1 DEF Call, Idle, Failed, Inserting, Subscribed, Polling, Polled, Acked,
                            Resyncing, Resynced
<1> HIDE DEF k
<1>55. \A n \in delivered : n \in Nat /\ n <= after
  BY Zenon, <1>1 DEF WatchInv, CursorInv
<1>6. /\ tracked' = [id |-> k.id, seen |-> k.start, acked |-> k.start]
      /\ after' = k.start /\ base' = k.start /\ phase' = "poll" /\ delivered' = delivered
      /\ origin' \in Nat
      /\ \A n \in delivered : n <= k.start
  <2>1. CASE RecvSubscribed
    <3>1. phase = "subscribe" /\ after = 0
      BY Zenon, <2>1 DEF RecvSubscribed, WatchInv, CursorInv
    <3>2. \A n \in delivered : n <= k.start
      BY <1>5, <1>55, <3>1
    <3> QED BY Zenon, <1>5, <2>1, <3>2 DEF RecvSubscribed, k
  <2>2. CASE RecvResubscribed
    <3>1. /\ phase = "recover" /\ k.start = tracked.seen /\ tracked.acked <= after
          /\ after <= tracked.seen
      BY Zenon, <1>4, <2>2 DEF RecvResubscribed, WatchInv, CursorInv
    <3>2. \A n \in delivered : n <= k.start
      BY <1>1, <1>5, <1>55, <3>1
    <3>3. Larger(tracked.seen, k.start) = k.start /\ Larger(tracked.acked, k.start) = k.start
      BY <1>1, <3>1 DEF Larger
    <3>4. /\ tracked' = [id |-> k.id, seen |-> Larger(tracked.seen, k.start),
                         acked |-> Larger(tracked.acked, k.start)]
          /\ after' = k.start /\ base' = k.start /\ phase' = "poll"
          /\ delivered' = delivered /\ origin' = origin
      BY Zenon, <2>2 DEF RecvResubscribed, k
    <3> QED BY Zenon, <1>1, <3>2, <3>3, <3>4
  <2> QED BY Zenon, <2>1, <2>2
<1>7. tracked'.id = k.id /\ tracked'.seen = k.start /\ tracked'.acked = k.start
  BY Zenon, <1>6
<1>8. ClientTypeOK'
  BY Zenon, <1>1, <1>3, <1>5, <1>6 DEF ClientTypeOK
<1>9. tracked' # NoWatch
  <2>1. k.id \in WatchIDBase + 1 .. nextWatchID
    BY Zenon, <1>4 DEF JournalInv, TypeOK
  <2>2. k.id # 0
    BY <2>1 DEF WatchIDBase
  <2> QED BY <1>7, <2>2 DEF NoWatch
<1>10. CursorInv'
  BY SMTT(30), <1>3, <1>4, <1>5, <1>6, <1>7, <1>9 DEF CursorInv
<1>11. PollingLosesNothing'
  <2>1. \A i \in DOMAIN log : ~(k.start < log[i].seq /\ log[i].seq <= k.start)
    BY SMTT(30), <1>5, SeqTypes DEF JournalInv
  <2> QED BY Zenon, <1>3, <1>6, <2>1 DEF PollingLosesNothing
<1> QED BY Zenon, <1>3, <1>8, <1>10, <1>11 DEF WatchInv

\* A poll answer takes the cursor over events that were all delivered.
LEMMA RecvPolledKeeps ==
    ASSUME JournalInv, Positions, PollInv, WatchInv, RecvPolled
    PROVE  WatchInv'
<1> DEFINE k == call[cur]
<1>1. /\ call \in [Watcher -> Call] /\ cur \in Watcher /\ after \in Nat /\ delivered \in SUBSET Nat
      /\ tracked \in [id : Nat, seen : Nat, acked : Nat]
      /\ tracked.seen \in Nat /\ tracked.acked \in Nat /\ Len(log) \in Nat
  BY SMTT(30) DEF JournalInv, TypeOK, WatchInv, ClientTypeOK
<1>2. Receive("polled")
  BY Zenon DEF RecvPolled
<1>3. k.step = "polled" /\ UNCHANGED <<cur, watches, log>> /\ AnswerInv'
  BY Zenon, <1>2, ReceiveFacts
<1>4. phase = "poll" /\ k.id = tracked.id /\ k.after = after /\ AnswerAhead(k)
  BY Zenon, <1>3 DEF WatchInv, AnswerInv
<1>5. k \in Polled
  BY Zenon, <1>1, <1>3, CallFields DEF JournalInv
<1>6. k.last \in Nat /\ k.latest \in Nat /\ k.at \in Nat /\ k.seqs \in SUBSET Nat /\ k.overflow \in BOOLEAN
  BY Zenon, <1>5 DEF Polled
<1>7. /\ tracked # NoWatch /\ tracked.id \in DOMAIN watches
      /\ watches[tracked.id].path = WatchRoot /\ watches[tracked.id].recursive
      /\ watches[tracked.id].acked <= after /\ tracked.acked <= after
      /\ after <= tracked.seen /\ tracked.seen <= Len(log)
  BY Zenon, <1>4 DEF WatchInv, CursorInv
<1>8. watches[tracked.id] \in Watch /\ watches[tracked.id].acked \in Nat
  BY Zenon, <1>7 DEF JournalInv, TypeOK, Watch
<1>9. /\ after <= k.last /\ k.last <= k.at /\ k.latest = k.at
      /\ \A n \in k.seqs : after < n /\ n <= k.last
      /\ k.overflow => k.last = after
  BY Zenon, <1>4 DEF AnswerAhead
<1>10. PolledSound(cur)
  BY Zenon, <1>1, <1>3 DEF PollInv
<1>11. k.at <= Len(log)
  BY Zenon, <1>10 DEF PolledSound
<1>12. /\ tracked' = [tracked EXCEPT !.seen = Larger(@, k.latest)] /\ after' = k.last
       /\ delivered' = delivered \cup k.seqs /\ UNCHANGED <<origin, base>>
       /\ phase' \in {"resync", "poll", "ack"}
  BY Zenon DEF RecvPolled, MarkSeen
<1>13. Larger(tracked.seen, k.latest) \in Nat
  BY Zenon, <1>1, <1>6 DEF Larger
<1>14. /\ tracked'.id = tracked.id /\ tracked'.acked = tracked.acked
       /\ tracked'.seen = Larger(tracked.seen, k.latest)
       /\ tracked' \in [id : Nat, seen : Nat, acked : Nat]
  BY Zenon, <1>1, <1>12, <1>13
<1>15. ClientTypeOK'
  BY Zenon, <1>3, <1>6, <1>12, <1>14 DEF WatchInv, ClientTypeOK
<1>16. tracked' # NoWatch
  <2>1. tracked.id \in WatchIDBase + 1 .. nextWatchID
    BY Zenon, <1>7 DEF JournalInv, TypeOK
  <2>2. tracked.id # 0
    BY <2>1 DEF WatchIDBase
  <2> QED BY <1>14, <2>2 DEF NoWatch
<1> HIDE DEF k
<1>17. k.last <= tracked'.seen /\ tracked'.seen <= Len(log)
  BY SMTT(30), <1>1, <1>6, <1>7, <1>9, <1>11, <1>14 DEF Larger
<1>18. \A n \in delivered' : n <= k.last
  BY <1>1, <1>6, <1>9, <1>12 DEF WatchInv, CursorInv
<1>19. watches[tracked.id].acked <= k.last /\ tracked.acked <= k.last
  BY SMTT(30), <1>1, <1>6, <1>7, <1>8, <1>9
<1>20. CursorInv'
  BY Zenon, <1>3, <1>7, <1>12, <1>14, <1>16, <1>17, <1>18, <1>19 DEF CursorInv
<1>21. PollingLosesNothing'
  <2> SUFFICES ASSUME NEW i \in DOMAIN log, Concerns(i)', base < log[i].seq, log[i].seq <= k.last
               PROVE  log[i].seq \in delivered'
    BY Zenon, <1>3, <1>12 DEF PollingLosesNothing
  <2>1. log[i].seq = i /\ i \in 1..Len(log)
    BY SMTT(30) DEF Positions, JournalInv, TypeOK
  <2>2. Concerns(i)
    BY Zenon, <1>3, <1>7, <1>12 DEF Concerns
  <2>3. CASE i <= after
    BY Zenon, <1>12, <2>1, <2>2, <2>3 DEF WatchInv, PollingLosesNothing
  <2>4. CASE ~(i <= after)
    <3>1. ~k.overflow
      BY Zenon, <1>1, <1>6, <1>9, <2>1, <2>4
    <3>2. i \in 1..k.at /\ i > after /\ ~(i > k.last)
      BY SMTT(30), <1>1, <1>6, <1>9, <2>1, <2>4
    <3>3. watchMatches(watches[tracked.id], log[i])
      <4> DEFINE mine == [path |-> WatchRoot, recursive |-> TRUE]
      <4>1. watchMatches(mine, log[i])
        BY Zenon, <2>2 DEF Concerns
      <4>2. watches[tracked.id].recursive = TRUE
        BY Zenon, <1>7, <1>8 DEF Watch
      <4>3. watches[tracked.id].path = mine.path /\ watches[tracked.id].recursive = mine.recursive
        BY Zenon, <1>7, <4>2
      <4> HIDE DEF mine
      <4> QED BY Zenon, <4>1, <4>3, MatchesSame
    <3>4. log[i].seq \in k.seqs
      BY Zenon, <1>4, <1>10, <2>1, <3>1, <3>2, <3>3 DEF PolledSound, k
    <3> QED BY Zenon, <1>12, <3>4
  <2> QED BY Zenon, <2>3, <2>4
<1> QED BY Zenon, <1>3, <1>15, <1>20, <1>21 DEF WatchInv

\* The client's own acknowledgement comes back.
LEMMA RecvAckedKeeps ==
    ASSUME JournalInv, WatchInv, RecvAcked
    PROVE  WatchInv'
<1> DEFINE k == call[cur]
<1>1. /\ call \in [Watcher -> Call] /\ cur \in Watcher /\ after \in Nat
      /\ tracked \in [id : Nat, seen : Nat, acked : Nat] /\ tracked.id \in Nat
      /\ tracked.seen \in Nat /\ tracked.acked \in Nat /\ Len(log) \in Nat
  BY SMTT(30) DEF JournalInv, TypeOK, WatchInv, ClientTypeOK
<1>2. Receive("acked")
  BY Zenon DEF RecvAcked
<1>3. k.step = "acked" /\ UNCHANGED <<cur, watches, log>> /\ AnswerInv'
  BY Zenon, <1>2, ReceiveFacts
<1>4. phase = "ack" /\ k.acked <= after
  BY Zenon, <1>3 DEF WatchInv, AnswerInv
<1>5. k.acked \in Nat
  <2>1. k \in Call
    BY Zenon, <1>1
  <2> QED BY SMTT(30), <1>3, <2>1 DEF Call, Idle, Failed, Inserting, Subscribed, Polling, Polled, Acked,
                            Resyncing, Resynced
<1>6. /\ tracked # NoWatch /\ tracked.id \in DOMAIN watches
      /\ watches[tracked.id].path = WatchRoot /\ watches[tracked.id].recursive
      /\ watches[tracked.id].acked <= after /\ tracked.acked <= after
      /\ after <= tracked.seen /\ tracked.seen <= Len(log)
  BY Zenon, <1>4 DEF WatchInv, CursorInv
<1>7. /\ tracked' = [tracked EXCEPT !.acked = Larger(@, k.acked), !.seen = Larger(@, k.acked)]
      /\ phase' = "poll" /\ UNCHANGED <<after, origin, base, delivered>>
  BY Zenon DEF RecvAcked, MarkAcked, historyVars
<1> HIDE DEF k
<1>8. /\ Larger(tracked.seen, k.acked) = tracked.seen
      /\ Larger(tracked.acked, k.acked) \in Nat /\ Larger(tracked.acked, k.acked) <= after
  BY SMTT(30), <1>1, <1>4, <1>5, <1>6 DEF Larger
<1>9. /\ tracked'.id = tracked.id /\ tracked'.seen = tracked.seen
      /\ tracked'.acked = Larger(tracked.acked, k.acked)
      /\ tracked' \in [id : Nat, seen : Nat, acked : Nat]
  BY Zenon, <1>1, <1>7, <1>8
<1>10. ClientTypeOK'
  BY Zenon, <1>3, <1>7, <1>9 DEF WatchInv, ClientTypeOK
<1>11. tracked' # NoWatch
  <2>1. tracked.id \in WatchIDBase + 1 .. nextWatchID
    BY Zenon, <1>6 DEF JournalInv, TypeOK
  <2>2. tracked.id # 0
    BY <2>1 DEF WatchIDBase
  <2> QED BY SMTT(30), <1>9, <2>2 DEF NoWatch
<1>12. CursorInv'
  BY Zenon, <1>3, <1>6, <1>7, <1>8, <1>9, <1>11 DEF WatchInv, CursorInv
<1>13. PollingLosesNothing'
  BY Zenon, <1>3, <1>6, <1>7 DEF WatchInv, PollingLosesNothing, Concerns
<1> QED BY Zenon, <1>3, <1>10, <1>12, <1>13 DEF WatchInv

\* A resync starts a new run of polls at the number of its snapshot.
LEMMA RecvResyncedKeeps ==
    ASSUME JournalInv, Positions, WatchInv, RecvResynced
    PROVE  WatchInv'
<1> DEFINE k == call[cur]
<1>1. /\ call \in [Watcher -> Call] /\ cur \in Watcher /\ after \in Nat /\ delivered \in SUBSET Nat
      /\ tracked \in [id : Nat, seen : Nat, acked : Nat] /\ tracked.id \in Nat
      /\ tracked.seen \in Nat /\ tracked.acked \in Nat /\ Len(log) \in Nat
  BY SMTT(30) DEF JournalInv, TypeOK, WatchInv, ClientTypeOK
<1>2. Receive("resynced")
  BY Zenon DEF RecvResynced
<1>3. k.step = "resynced" /\ UNCHANGED <<cur, watches, log>> /\ AnswerInv'
  BY Zenon, <1>2, ReceiveFacts
<1>4. phase = "resync" /\ after <= k.seq /\ k.seq <= Len(log)
  BY Zenon, <1>3 DEF WatchInv, AnswerInv
<1>5. k.seq \in Nat
  <2>1. k \in Call
    BY Zenon, <1>1
  <2> QED BY SMTT(30), <1>3, <2>1 DEF Call, Idle, Failed, Inserting, Subscribed, Polling, Polled, Acked,
                            Resyncing, Resynced
<1>6. /\ tracked # NoWatch /\ tracked.id \in DOMAIN watches
      /\ watches[tracked.id].path = WatchRoot /\ watches[tracked.id].recursive
      /\ watches[tracked.id].acked <= after /\ tracked.acked <= after
      /\ after <= tracked.seen /\ tracked.seen <= Len(log)
      /\ watches[tracked.id].acked \in Nat
  BY Zenon, <1>4 DEF WatchInv, CursorInv, JournalInv, TypeOK, Watch
<1>7. /\ tracked' = [tracked EXCEPT !.seen = Larger(@, k.seq)]
      /\ after' = k.seq /\ base' = k.seq /\ phase' = "poll" /\ UNCHANGED <<origin, delivered>>
  BY Zenon DEF RecvResynced, MarkSeen
<1> HIDE DEF k
<1>8. /\ Larger(tracked.seen, k.seq) \in Nat /\ k.seq <= Larger(tracked.seen, k.seq)
      /\ Larger(tracked.seen, k.seq) <= Len(log)
  BY SMTT(30), <1>1, <1>4, <1>5, <1>6 DEF Larger
<1>9. /\ tracked'.id = tracked.id /\ tracked'.acked = tracked.acked
      /\ tracked'.seen = Larger(tracked.seen, k.seq)
      /\ tracked' \in [id : Nat, seen : Nat, acked : Nat]
  BY Zenon, <1>1, <1>7, <1>8
<1>10. ClientTypeOK'
  BY Zenon, <1>3, <1>5, <1>7, <1>9 DEF WatchInv, ClientTypeOK
<1>11. tracked' # NoWatch
  <2>1. tracked.id \in WatchIDBase + 1 .. nextWatchID
    BY Zenon, <1>6 DEF JournalInv, TypeOK
  <2>2. tracked.id # 0
    BY <2>1 DEF WatchIDBase
  <2> QED BY SMTT(30), <1>9, <2>2 DEF NoWatch
<1>12. /\ watches[tracked.id].acked <= k.seq /\ tracked.acked <= k.seq
       /\ \A n \in delivered : n <= k.seq
  <2>1. \A n \in delivered : n \in Nat /\ n <= after
    BY Zenon, <1>1 DEF WatchInv, CursorInv
  <2> QED BY SMTT(30), <1>1, <1>4, <1>5, <1>6, <2>1
<1>13. CursorInv'
  BY Zenon, <1>3, <1>6, <1>7, <1>8, <1>9, <1>11, <1>12 DEF CursorInv
<1>14. PollingLosesNothing'
  <2>1. \A i \in DOMAIN log : ~(k.seq < log[i].seq /\ log[i].seq <= k.seq)
    BY SMTT(30), <1>5, SeqTypes DEF JournalInv
  <2> QED BY Zenon, <1>3, <1>7, <2>1 DEF PollingLosesNothing
<1> QED BY Zenon, <1>3, <1>10, <1>13, <1>14 DEF WatchInv

\* When the directory is gone the application stops.
LEMMA RecvFailedKeeps ==
    ASSUME JournalInv, WatchInv, RecvFailed
    PROVE  WatchInv'
<1>1. Receive("failed") /\ phase' = "gone" /\ UNCHANGED <<after, origin, base, delivered>>
      /\ tracked' \in {tracked, NoWatch}
  BY Zenon DEF RecvFailed, historyVars
<1>2. UNCHANGED <<cur, watches, log>> /\ AnswerInv'
  BY Zenon, <1>1, ReceiveFacts
<1>3. NoWatch \in [id : Nat, seen : Nat, acked : Nat]
  BY Zenon DEF NoWatch
<1>4. ClientTypeOK'
  BY Zenon, <1>1, <1>2, <1>3 DEF WatchInv, ClientTypeOK
<1>5. CursorInv'
  BY Zenon, <1>1, <1>2 DEF WatchInv, CursorInv
<1>6. PollingLosesNothing'
  BY Zenon, <1>1, <1>2 DEF WatchInv, PollingLosesNothing, Concerns
<1> QED BY Zenon, <1>2, <1>4, <1>5, <1>6 DEF WatchInv

\* A dropped connection leaves the client on an idle one, at the same position.
LEMMA DropKeeps ==
    ASSUME JournalInv, WatchInv, Drop
    PROVE  WatchInv'
<1>1. /\ cur' \in Watcher /\ call'[cur'] = Idle
      /\ UNCHANGED <<watches, log, tracked, after, origin, base, delivered>>
      /\ phase # "gone" /\ phase' = IF tracked = NoWatch THEN "subscribe" ELSE "recover"
  BY Zenon DEF Drop, vars, historyVars
<1>2. ClientTypeOK'
  BY Zenon, <1>1 DEF WatchInv, ClientTypeOK
<1>3. AnswerInv'
  BY SMTT(30), <1>1 DEF AnswerInv, Idle
<1>4. CursorInv'
  <2>1. CursorInv
    BY Zenon DEF WatchInv
  <2>2. CASE tracked = NoWatch
    <3>1. phase' = "subscribe" /\ tracked' = NoWatch /\ phase = "subscribe"
      BY Zenon, <1>1, <2>1, <2>2 DEF CursorInv
    <3>2. after' = 0 /\ \A n \in delivered' : n <= after'
      BY Zenon, <1>1, <2>1, <3>1 DEF CursorInv
    <3> QED BY Zenon, <3>1, <3>2 DEF CursorInv
  <2>3. CASE tracked # NoWatch
    <3>1. phase' = "recover" /\ UNCHANGED <<watches, log, tracked, after, delivered>>
      BY Zenon, <1>1, <2>3
    <3>2. /\ tracked.id \in DOMAIN watches /\ watches[tracked.id].path = WatchRoot
          /\ watches[tracked.id].recursive /\ watches[tracked.id].acked <= after
          /\ tracked.acked <= after /\ after <= tracked.seen /\ tracked.seen <= Len(log)
          /\ \A n \in delivered : n <= after
      BY Zenon, <2>1, <2>3 DEF CursorInv
    <3> QED BY Zenon, <2>3, <3>1, <3>2 DEF CursorInv
  <2> QED BY Zenon, <2>2, <2>3
<1>5. PollingLosesNothing'
  BY Zenon, <1>1 DEF WatchInv, PollingLosesNothing, Concerns
<1> QED BY Zenon, <1>2, <1>3, <1>4, <1>5 DEF WatchInv

-----------------------------------------------------------------------------
(* Theorems about the client, with one writer at a time.                   *)

\* The journal's invariants and the client's, together.
FollowInv == JournalInv /\ Positions /\ PollInv /\ WatchInv

\* Every step of the client and the journal keeps them.
LEMMA FollowInvStep ==
    ASSUME \A v, w \in Writer : v = w, FollowInv, [WNext]_allVars
    PROVE  FollowInv'
<1>1. JournalInv /\ Positions /\ PollInv /\ WatchInv
  BY Zenon DEF FollowInv
<1>2. [Next]_vars
  BY Zenon, <1>1, ClientStepsAreJournalSteps
<1>3. JournalInv' /\ Positions' /\ PollInv'
  BY Zenon, <1>1, <1>2, NextInv, PositionsStep, PollInvStep
<1>4. cur \in Watcher
  BY Zenon, <1>1 DEF WatchInv, ClientTypeOK
<1>5. CASE ClientStep
  BY Zenon, <1>1, <1>2, <1>3, <1>5, SendKeeps, SendAckKeeps, RecvStartKeeps, RecvPolledKeeps,
     RecvAckedKeeps, RecvResyncedKeeps, RecvFailedKeeps DEF ClientStep, FollowInv
<1>6. CASE Drop
  BY Zenon, <1>1, <1>3, <1>6, DropKeeps DEF FollowInv
<1>7. ASSUME NEW w \in Writer, WriterStep(w), UNCHANGED clientVars PROVE WatchInv'
  BY Zenon, <1>1, <1>2, <1>3, <1>7, OtherStepKeeps
<1>8. ASSUME NEW c \in Watcher, HandlerStep(c), UNCHANGED clientVars PROVE WatchInv'
  <2>1. CASE c = cur
    BY Zenon, <1>1, <1>2, <1>3, <1>8, <2>1, OwnHandlerKeeps
  <2>2. CASE c # cur
    <3>1. c \in Watcher \ {cur}
      BY Zenon, <2>2
    <3> QED BY Zenon, <1>1, <1>2, <1>3, <1>8, <3>1, OtherStepKeeps
  <2> QED BY Zenon, <2>1, <2>2
<1>9. ASSUME NEW c \in Watcher, LoseAnswer(c) PROVE WatchInv'
  <2>1. c \in Watcher \ {cur} /\ Respond(c) /\ UNCHANGED clientVars
    BY Zenon, <1>9 DEF LoseAnswer
  <2> QED BY Zenon, <1>1, <1>2, <1>3, <2>1, OtherStepKeeps
<1>10. CASE ServerStep
  BY Zenon, <1>3, <1>7, <1>8, <1>9, <1>10 DEF ServerStep, FollowInv
<1>11. CASE UNCHANGED allVars
  <2>1. UNCHANGED <<watches, log, call, clientVars>> /\ UNCHANGED vars
    BY Zenon, <1>11 DEF allVars, vars
  <2>2. /\ \A id \in DOMAIN watches : id \in DOMAIN watches' /\ watches'[id] = watches[id]
        /\ call'[cur] = call[cur]
    BY Zenon, <2>1
  <2>3. WatchInv'
    BY Zenon, <1>1, <1>2, <1>3, <2>1, <2>2, CursorStable, AnswerStable DEF WatchInv
  <2> QED BY Zenon, <1>3, <2>3 DEF FollowInv
<1> QED BY Zenon, <1>5, <1>6, <1>10, <1>11 DEF WNext

\* They hold in every reachable state.
LEMMA FollowInvariance ==
    ASSUME \A v, w \in Writer : v = w
    PROVE  WSpec => []FollowInv
<1>1. WInit => FollowInv
  <2> SUFFICES ASSUME WInit PROVE FollowInv
    BY Zenon
  <2>1. Init
    BY Zenon DEF WInit
  <2>2. JournalInv /\ Positions /\ PollInv
    BY SMTT(30), <2>1, InitInv DEF Init, Positions, PollInv, NoEvent, Idle
  <2>3. ClientTypeOK /\ CursorInv
    BY Zenon DEF WInit, ClientTypeOK, CursorInv, NoWatch
  <2>4. AnswerInv
    BY SMTT(30), <2>1 DEF WInit, Init, AnswerInv, Idle
  <2>5. PollingLosesNothing
    BY <2>1 DEF Init, PollingLosesNothing
  <2> QED BY Zenon, <2>2, <2>3, <2>4, <2>5 DEF FollowInv, WatchInv
<1>2. FollowInv /\ [WNext]_allVars => FollowInv'
  BY Zenon, FollowInvStep
<1> QED BY <1>1, <1>2, PTL DEF WSpec

\* The client composed with the broker is a behaviour of the broker's
\* specification, in which any client may send anything that names numbers it
\* can know: what is proved of Spec holds of the composition.
THEOREM ClientUsesTheJournal ==
    ASSUME \A v, w \in Writer : v = w
    PROVE  WSpec => Spec
<1>1. WInit => Init
  BY Zenon DEF WInit
<1>2. FollowInv /\ [WNext]_allVars => [Next]_vars
  BY Zenon, ClientStepsAreJournalSteps DEF FollowInv
<1> QED BY <1>1, <1>2, FollowInvariance, PTL DEF WSpec, Spec

\* Polling loses no event between the start of a run of polls and the
\* application's cursor, through limits, lost answers and reconnections.
THEOREM FollowingLosesNothing ==
    ASSUME \A v, w \in Writer : v = w
    PROVE  WSpec => []PollingLosesNothing
<1>1. FollowInv => PollingLosesNothing
  BY Zenon DEF FollowInv, WatchInv
<1> QED BY <1>1, FollowInvariance, PTL

\* Neither the client nor the server counts an event as acknowledged that the
\* application was not given in its present run of polls.
THEOREM AcknowledgedWasDelivered ==
    ASSUME \A v, w \in Writer : v = w
    PROVE  WSpec => []AckedWasDelivered
<1>1. FollowInv => AckedWasDelivered
  <2> SUFFICES ASSUME FollowInv, NEW i \in DOMAIN log, Concerns(i), base < log[i].seq,
                      log[i].seq <= Larger(tracked.acked, watches[tracked.id].acked)
               PROVE  log[i].seq \in delivered
    BY Zenon DEF AckedWasDelivered
  <2>1. JournalInv /\ WatchInv
    BY Zenon DEF FollowInv
  <2>2. /\ tracked.id \in DOMAIN watches /\ tracked.acked <= after
        /\ watches[tracked.id].acked <= after
    BY Zenon, <2>1 DEF Concerns, WatchInv, CursorInv
  <2>3. /\ tracked.acked \in Nat /\ watches[tracked.id].acked \in Nat /\ after \in Nat
        /\ log[i].seq \in Nat
    BY Zenon, <2>1, <2>2, SeqTypes DEF WatchInv, ClientTypeOK, JournalInv, TypeOK, Watch
  <2>4. log[i].seq <= after
    BY SMTT(30), <2>2, <2>3 DEF Larger
  <2> QED BY Zenon, <2>1, <2>4 DEF WatchInv, PollingLosesNothing
<1> QED BY <1>1, FollowInvariance, PTL

\* No event is given to the application twice, even when an answer was lost and
\* the client resubscribed.
THEOREM NothingTwice ==
    ASSUME \A v, w \in Writer : v = w
    PROVE  WSpec => []DeliveredOnce
<1>1. FollowInv => DeliveredOnce
  <2> SUFFICES ASSUME FollowInv, call[cur].step = "polled", NEW n \in call[cur].seqs, n \in delivered
               PROVE  FALSE
    BY Zenon DEF DeliveredOnce
  <2>1. WatchInv
    BY Zenon DEF FollowInv
  <2>2. call[cur].after = after /\ AnswerAhead(call[cur])
    BY Zenon, <2>1 DEF WatchInv, AnswerInv
  <2>3. after < n
    BY Zenon, <2>2 DEF AnswerAhead
  <2>4. n <= after /\ n \in Nat /\ after \in Nat
    BY Zenon, <2>1 DEF WatchInv, CursorInv, ClientTypeOK
  <2> QED BY SMTT(30), <2>3, <2>4
<1> QED BY <1>1, FollowInvariance, PTL

\* A resubscription starts no later than what the client had counted as seen.
THEOREM RecoveryGoesOn ==
    ASSUME \A v, w \in Writer : v = w
    PROVE  WSpec => RecoveryContinues
<1>1. ASSUME FollowInv, [WNext]_allVars
      PROVE  [phase = "recover" /\ phase' = "poll" =>
                \A i \in DOMAIN log : Concerns(i) /\ log[i].seq <= after' =>
                   Known(i) \/ log[i].seq <= tracked.seen]_allVars
  <2> SUFFICES ASSUME WNext, phase = "recover", phase' = "poll"
               PROVE  after' = tracked.seen
    BY Zenon, <1>1
  <2>1. WatchInv
    BY Zenon, <1>1 DEF FollowInv
  <2>2. phase' # phase
    BY Zenon
  <2>3. ~ServerStep /\ ~Drop
    BY Zenon, <2>2 DEF ServerStep, LoseAnswer, clientVars, Drop
  <2>4. ~(SendSubscribe \/ SendPoll \/ SendAck \/ SendResync \/ SendResubscribe)
    BY Zenon, <2>2 DEF SendSubscribe, SendPoll, SendAck, SendResync, SendResubscribe, clientVars
  <2>5. ~(RecvSubscribed \/ RecvPolled \/ RecvAcked \/ RecvResynced \/ RecvFailed)
    BY Zenon, <2>1 DEF RecvSubscribed, RecvPolled, RecvAcked, RecvResynced, RecvFailed, Receive,
                WatchInv, AnswerInv
  <2>6. RecvResubscribed
    BY Zenon, <2>3, <2>4, <2>5 DEF WNext, ClientStep
  <2> QED BY Zenon, <2>1, <2>6 DEF RecvResubscribed, Receive, WatchInv, AnswerInv
<1> QED BY <1>1, FollowInvariance, PTL DEF WSpec, RecoveryContinues

====
