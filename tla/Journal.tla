------------------------------ MODULE Journal ------------------------------
(***************************************************************************)
(* The server's change journal and its watch subscriptions (journalBroker, *)
(* internal/server/journal.go), together with the part of the request      *)
(* handlers that feeds it (internal/server/server.go).                     *)
(*                                                                         *)
(* Every connection is served by one goroutine, so a connection is a       *)
(* process with at most one call in progress.  A Writer is a connection    *)
(* whose requests change the exported tree and append events; a Watcher is *)
(* a connection whose requests subscribe, poll, acknowledge and resync.    *)
(* One action is one stretch of code between two points where the broker's *)
(* lock is free; `seq' numbers are taken from an atomic counter outside    *)
(* the lock, which is why Append is two actions.                           *)
(***************************************************************************)
EXTENDS Integers, Sequences, FiniteSets

CONSTANTS
    Writer,         \* connections that change the tree
    Watcher,        \* connections that use the events channel
    Path,           \* paths of changed entries, as non-empty name sequences
    Root,           \* paths of watched directories; <<>> is the export root
    Retention,      \* journalBroker.retention
    MaxEvents,      \* the max_events values requests carry
    MaxMutations,   \* bound: changes made to the tree
    MaxWatches      \* bound: watch ids handed out

ASSUME PathAssumption == Path \subseteq Seq(STRING) /\ <<>> \notin Path
ASSUME RootAssumption == Root \subseteq Seq(STRING)
ASSUME RetentionAssumption == Retention \in Nat \ {0}
ASSUME MaxEventsAssumption == MaxEvents \subseteq Nat
ASSUME BoundsAssumption == MaxMutations \in Nat /\ MaxWatches \in Nat

VARIABLES
    tree,           \* number of changes applied to the exported tree so far
    nextSeq,        \* journalBroker.nextSeq
    events,         \* journalBroker.events
    nextWatchID,    \* journalBroker.nextWatchID
    watches,        \* journalBroker.watches
    todo,           \* per writer: the changes its handler still has to append
    inflight,       \* per writer: the event that has a number and is not stored
    call,           \* per watcher: the call its handler is executing
    log             \* history: every event ever stored, in storing order

writerVars  == <<tree, todo, inflight>>
brokerVars  == <<nextSeq, events, nextWatchID, watches>>
vars == <<tree, nextSeq, events, nextWatchID, watches, todo, inflight, call, log>>

-----------------------------------------------------------------------------
(* State.                                                                  *)

\* What a handler passes to Append: the changed path and, for a rename, the
\* old one (<<>> otherwise); `mut' is the position of the change in the
\* history of the tree.
Change == [path : Path, old : Path \cup {<<>>}, mut : Nat]

Event == [seq : Nat \ {0}, path : Path, old : Path \cup {<<>>}, mut : Nat]

NoEvent == [seq |-> 0]

\* The first id handed out is 5001.
WatchIDBase == 5000

Watch == [path : Root, recursive : BOOLEAN, acked : Nat]

Idle == [step |-> "idle"]

\* A client is told "watch not found", or that the node is gone.
Failed == [step |-> "failed"]

Inserting == [step : {"inserting"}, id : Nat, watch : Watch]

Subscribed == [step : {"subscribed"}, id : Nat, start : Nat]

Polling == [step : {"polling"}, id : Nat, watch : Watch, after : Nat, limit : Nat]

Polled == [step : {"polled"}, id : Nat, after : Nat, limit : Nat,
           overflow : BOOLEAN, seqs : SUBSET Nat, last : Nat, latest : Nat,
           at : Nat, dropped : Nat]

Acked == [step : {"acked"}, id : Nat, acked : Nat]

Resyncing == [step : {"resyncing"}, id : Nat, snap : Nat]

Resynced == [step : {"resynced"}, id : Nat, seq : Nat, snap : Nat, at : Nat]

Call == {Idle, Failed} \cup Inserting \cup Subscribed \cup Polling \cup Polled
          \cup Acked \cup Resyncing \cup Resynced

\* A map entry written in place or added.
Put(f, k, v) == [x \in DOMAIN f \cup {k} |-> IF x = k THEN v ELSE f[x]]

Larger(a, b) == IF a > b THEN a ELSE b

-----------------------------------------------------------------------------
(* Pure helpers of the broker.                                             *)

latestSeq == IF Len(events) = 0 THEN 0 ELSE events[Len(events)].seq

\* Paths are name sequences, so "inside root" is "has root as a prefix" and
\* the parent directory is the path without its last name.
pathMatchesWatch(root, recursive, path) ==
    /\ path # <<>>
    /\ \/ path = root
       \/ recursive /\ Len(root) < Len(path) /\ SubSeq(path, 1, Len(root)) = root
       \/ SubSeq(path, 1, Len(path) - 1) = root

watchMatches(watch, evt) ==
    \/ pathMatchesWatch(watch.path, watch.recursive, evt.path)
    \/ pathMatchesWatch(watch.path, watch.recursive, evt.old)

\* max_events = 0 asks for the default.
Limit(maxEvents) == IF maxEvents = 0 THEN 128 ELSE maxEvents

-----------------------------------------------------------------------------
Init ==
    /\ tree = 0
    /\ nextSeq = 0
    /\ events = <<>>
    /\ nextWatchID = WatchIDBase
    /\ watches = [id \in {} |-> Idle]
    /\ todo = [w \in Writer |-> <<>>]
    /\ inflight = [w \in Writer |-> NoEvent]
    /\ call = [c \in Watcher |-> Idle]
    /\ log = <<>>

-----------------------------------------------------------------------------
(* Writers: a handler changes the tree, then appends its events one by one *)
(* and only then reads its next request.                                   *)

WriterIdle(w) == todo[w] = <<>> /\ inflight[w] = NoEvent

\* Create, Flush, Truncate and a Close that deletes: one event, no old path.
ChangeOne(w, p) ==
    /\ WriterIdle(w)
    /\ tree < MaxMutations
    /\ tree' = tree + 1
    /\ todo' = [todo EXCEPT ![w] = <<[path |-> p, old |-> <<>>, mut |-> tree + 1]>>]
    /\ UNCHANGED <<brokerVars, inflight, call, log>>

\* Rename: RenameFrom carries the source path twice, RenameTo both paths.
Rename(w, src, dst) ==
    /\ WriterIdle(w)
    /\ tree < MaxMutations
    /\ tree' = tree + 1
    /\ todo' = [todo EXCEPT ![w] =
                  <<[path |-> src, old |-> src, mut |-> tree + 1],
                    [path |-> dst, old |-> src, mut |-> tree + 1]>>]
    /\ UNCHANGED <<brokerVars, inflight, call, log>>

\* Append, up to the point where it waits for the lock: the event has its
\* number, and nobody can see it.
AppendNumber(w) ==
    /\ todo[w] # <<>>
    /\ inflight[w] = NoEvent
    /\ LET c == Head(todo[w]) IN
         inflight' = [inflight EXCEPT ![w] =
                        [seq |-> nextSeq + 1, path |-> c.path,
                         old |-> c.old, mut |-> c.mut]]
    /\ nextSeq' = nextSeq + 1
    /\ todo' = [todo EXCEPT ![w] = Tail(@)]
    /\ UNCHANGED <<tree, events, nextWatchID, watches, call, log>>

\* The last n elements of s.
Newest(s, n) == IF Len(s) > n THEN SubSeq(s, Len(s) - n + 1, Len(s)) ELSE s

\* Variant: a full journal is trimmed at the wrong end.
AppendStoreWrongEnd(w) ==
    /\ inflight[w] # NoEvent
    /\ LET all == Append(events, inflight[w]) IN
         events' = IF Len(all) > Retention THEN SubSeq(all, 1, Retention) ELSE all
    /\ log' = Append(log, inflight[w])
    /\ inflight' = [inflight EXCEPT ![w] = NoEvent]
    /\ UNCHANGED <<tree, nextSeq, nextWatchID, watches, todo, call>>

\* Append, the critical section: store and trim to the retention.
AppendStore(w) ==
    /\ inflight[w] # NoEvent
    /\ events' = Newest(Append(events, inflight[w]), Retention)
    /\ log' = Append(log, inflight[w])
    /\ inflight' = [inflight EXCEPT ![w] = NoEvent]
    /\ UNCHANGED <<tree, nextSeq, nextWatchID, watches, todo, call>>

-----------------------------------------------------------------------------
(* Watchers.                                                               *)

Begin(c, next) == call[c] = Idle /\ call' = [call EXCEPT ![c] = next]

\* RelPathByNodeID finds the node's path, the watch gets its id and the
\* current last number; the map is not written yet.
SubscribeBegin(c, path, recursive) ==
    /\ nextWatchID < WatchIDBase + MaxWatches
    /\ nextWatchID' = nextWatchID + 1
    /\ Begin(c, [step |-> "inserting", id |-> nextWatchID + 1,
                 watch |-> [path |-> path, recursive |-> recursive, acked |-> latestSeq]])
    /\ UNCHANGED <<writerVars, nextSeq, events, watches, log>>

\* The node of a Subscribe or Resubscribe request has no path any more, or the
\* subtree of a Resync cannot be walked.
NodeGone(c) ==
    /\ Begin(c, Failed)
    /\ UNCHANGED <<writerVars, brokerVars, log>>

\* Variant: the watch starts afresh, as one of Subscribe does.
ResubscribeBeginAfresh(c, previous, path, recursive, after) ==
    /\ nextWatchID < WatchIDBase + MaxWatches
    /\ nextWatchID' = nextWatchID + 1
    /\ Begin(c, [step |-> "inserting", id |-> nextWatchID + 1,
                 watch |-> [path |-> path, recursive |-> recursive, acked |-> latestSeq]])
    /\ UNCHANGED <<writerVars, nextSeq, events, watches, log>>

\* Resubscribe: the start is the client's, raised to what the previous watch
\* has acknowledged if the server still knows it.  The previous watch stays.
ResubscribeBegin(c, previous, path, recursive, after) ==
    /\ nextWatchID < WatchIDBase + MaxWatches
    /\ nextWatchID' = nextWatchID + 1
    /\ LET start == IF previous \in DOMAIN watches
                      THEN Larger(after, watches[previous].acked)
                      ELSE after
       IN  Begin(c, [step |-> "inserting", id |-> nextWatchID + 1,
                     watch |-> [path |-> path, recursive |-> recursive, acked |-> start]])
    /\ UNCHANGED <<writerVars, nextSeq, events, watches, log>>

\* The insertion into the map, under the lock; Subscribe and Resubscribe share
\* its form.
WatchInsert(c) ==
    /\ call[c].step = "inserting"
    /\ watches' = Put(watches, call[c].id, call[c].watch)
    /\ call' = [call EXCEPT ![c] = [step |-> "subscribed", id |-> call[c].id,
                                    start |-> call[c].watch.acked]]
    /\ UNCHANGED <<writerVars, nextSeq, events, nextWatchID, log>>

\* watchByID: a copy of the watch is taken, the lock is released.
PollBegin(c, id, after, maxEvents) ==
    /\ Begin(c, IF id \in DOMAIN watches
                  THEN [step |-> "polling", id |-> id, watch |-> watches[id],
                        after |-> after, limit |-> Limit(maxEvents)]
                  ELSE Failed)
    /\ UNCHANGED <<writerVars, brokerVars, log>>

\* What Poll answers.  `at' and `dropped' are history: how much of the log had
\* been stored, and how much of that had been trimmed, when it was computed.
PollAnswer(p, overflow, seqs, last) ==
    [step |-> "polled", id |-> p.id, after |-> p.after, limit |-> p.limit,
     overflow |-> overflow, seqs |-> seqs, last |-> last, latest |-> latestSeq,
     at |-> Len(log), dropped |-> Len(log) - Len(events)]

\* The client is too far behind for what is retained.
Overflows(after) == Len(events) > 0 /\ after + 1 < events[1].seq

\* Variant: off by one at the client's position.
WantedTooLate(p) == {i \in 1..Len(events) :
                       events[i].seq > p.after + 1 /\ watchMatches(p.watch, events[i])}

\* Positions of retained events that belong in the answer.
Wanted(p) == {i \in 1..Len(events) :
                events[i].seq > p.after /\ watchMatches(p.watch, events[i])}

PollOverflow(c) ==
    /\ call[c].step = "polling"
    /\ Overflows(call[c].after)
    /\ call' = [call EXCEPT ![c] = PollAnswer(@, TRUE, {}, @.after)]
    /\ UNCHANGED <<writerVars, brokerVars, log>>

\* The loop over the retained events, which ends at position `stop': at the
\* end, or as soon as the answer is full.  `last' is the number of the last
\* event in the answer (the request's own after if there is none).
PollCollect(c) ==
    /\ call[c].step = "polling"
    /\ ~Overflows(call[c].after)
    /\ \E stop \in 0..Len(events) :
         LET answer == {i \in Wanted(call[c]) : i <= stop} IN
         /\ \/ stop = Len(events) /\ Cardinality(answer) <= call[c].limit
            \/ stop \in answer /\ Cardinality(answer) = call[c].limit
         /\ \/ /\ answer = {}
               /\ call' = [call EXCEPT ![c] = PollAnswer(@, FALSE, {}, @.after)]
            \/ \E l \in answer :
                 /\ \A i \in answer : i <= l
                 /\ call' = [call EXCEPT ![c] =
                               PollAnswer(@, FALSE, {events[i].seq : i \in answer},
                                          events[l].seq)]
    /\ UNCHANGED <<writerVars, brokerVars, log>>

\* Variant: a late, lower acknowledgement is taken.
AckEventsAsGiven(c, id, seq) ==
    /\ IF id \in DOMAIN watches
         THEN /\ watches' = Put(watches, id, [watches[id] EXCEPT !.acked = seq])
              /\ Begin(c, [step |-> "acked", id |-> id, acked |-> seq])
         ELSE /\ Begin(c, Failed)
              /\ UNCHANGED watches
    /\ UNCHANGED <<writerVars, nextSeq, events, nextWatchID, log>>

\* Ack: one critical section; a lower number is ignored.
AckEvents(c, id, seq) ==
    /\ IF id \in DOMAIN watches
         THEN LET acked == Larger(seq, watches[id].acked) IN
              /\ watches' = Put(watches, id, [watches[id] EXCEPT !.acked = acked])
              /\ Begin(c, [step |-> "acked", id |-> id, acked |-> acked])
         ELSE /\ Begin(c, Failed)
              /\ UNCHANGED watches
    /\ UNCHANGED <<writerVars, nextSeq, events, nextWatchID, log>>

\* Resync, first half: the watch is looked up and the subtree is walked.  The
\* walk sees at least the changes applied before it began.
ResyncSnapshot(c, id) ==
    /\ Begin(c, IF id \in DOMAIN watches
                  THEN [step |-> "resyncing", id |-> id, snap |-> tree]
                  ELSE Failed)
    /\ UNCHANGED <<writerVars, brokerVars, log>>

\* Resync, second half: only now is the snapshot given its number.
ResyncNumber(c) ==
    /\ call[c].step = "resyncing"
    /\ call' = [call EXCEPT ![c] = [step |-> "resynced", id |-> @.id, seq |-> latestSeq,
                                    snap |-> @.snap, at |-> Len(log)]]
    /\ UNCHANGED <<writerVars, brokerVars, log>>

\* writeResponse: the answer leaves, the connection reads its next request.
Answered == {"failed", "subscribed", "polled", "acked", "resynced"}

Respond(c) ==
    /\ call[c].step \in Answered
    /\ call' = [call EXCEPT ![c] = Idle]
    /\ UNCHANGED <<writerVars, brokerVars, log>>

-----------------------------------------------------------------------------
WriterStep(w) ==
    \/ \E p \in Path : ChangeOne(w, p)
    \/ \E src, dst \in Path : Rename(w, src, dst)
    \/ AppendNumber(w)
    \/ AppendStore(w)

\* The steps a handler takes once it has a request.
HandlerStep(c) ==
    \/ WatchInsert(c)
    \/ PollOverflow(c)
    \/ PollCollect(c)
    \/ ResyncNumber(c)

\* Requests name any watch id handed out so far (or the next one, which is
\* unknown) and any number a client can have been shown.
SomeID == WatchIDBase + 1 .. nextWatchID + 1

Request(c) ==
    \/ \E p \in Root, r \in BOOLEAN : SubscribeBegin(c, p, r)
    \/ NodeGone(c)
    \/ \E id \in SomeID, p \in Root, r \in BOOLEAN, after \in 0..nextSeq :
          ResubscribeBegin(c, id, p, r, after)
    \/ \E id \in SomeID, after \in 0..nextSeq, n \in MaxEvents : PollBegin(c, id, after, n)
    \/ \E id \in SomeID, seq \in 0..nextSeq : AckEvents(c, id, seq)
    \/ \E id \in SomeID : ResyncSnapshot(c, id)

WatcherStep(c) == Request(c) \/ HandlerStep(c) \/ Respond(c)

Next ==
    \/ \E w \in Writer : WriterStep(w)
    \/ \E c \in Watcher : WatcherStep(c)

Spec == Init /\ [][Next]_vars

-----------------------------------------------------------------------------
(* Properties.                                                             *)

\* The type invariant: the broker's fields, the handlers' local state and the
\* history have the shapes the code gives them, watch ids stay in the range
\* handed out, and the journal never outgrows its retention.
TypeOK ==
    /\ tree \in Nat
    /\ nextSeq \in Nat
    /\ events \in Seq(Event) /\ Len(events) <= Retention
    /\ nextWatchID \in Nat /\ nextWatchID >= WatchIDBase
    /\ watches = [id \in DOMAIN watches |-> watches[id]]
    /\ \A id \in DOMAIN watches : watches[id] \in Watch
    /\ DOMAIN watches \subseteq WatchIDBase + 1 .. nextWatchID
    /\ todo \in [Writer -> Seq(Change)]
    /\ inflight \in [Writer -> Event \cup {NoEvent}]
    /\ call \in [Watcher -> Call]
    /\ log \in Seq(Event)

\* The numbers taken so far are exactly those of the stored events and of the
\* events on their way to the journal: the counter that Append uses outside
\* the lock neither repeats a number nor loses one, however writers overlap.
SeqsUnique ==
    /\ \A i, j \in DOMAIN log : log[i].seq = log[j].seq => i = j
    /\ \A v, w \in Writer : v # w /\ inflight[v] # NoEvent => inflight[v].seq # inflight[w].seq
    /\ \A i \in DOMAIN log, w \in Writer : log[i].seq # inflight[w].seq
    /\ \A n \in 1..nextSeq : \/ \E i \in DOMAIN log : log[i].seq = n
                             \/ \E w \in Writer : inflight[w].seq = n

\* The retained journal is the newest part of everything ever stored: trimming
\* in Append removes the oldest entries and nothing else.
JournalIsLogTail == events = Newest(log, Retention)

\* A watch, once in the map, keeps its directory and scope and never loses an
\* acknowledgement: neither a late, lower Ack nor a Resubscribe that overlaps
\* it takes AckedSeq back.
AckNeverRetreats ==
    [][\A id \in DOMAIN watches :
         /\ id \in DOMAIN watches'
         /\ watches'[id].path = watches[id].path
         /\ watches'[id].recursive = watches[id].recursive
         /\ watches'[id].acked >= watches[id].acked]_vars

\* The watch ids that handlers hold but have not inserted yet are free and
\* pairwise different: an insertion never overwrites another client's watch.
FreshWatchIDs ==
    \A c \in Watcher : call[c].step = "inserting" =>
      /\ call[c].id \notin DOMAIN watches
      /\ WatchIDBase < call[c].id /\ call[c].id <= nextWatchID
      /\ \A d \in Watcher : d # c /\ call[d].step = "inserting" => call[d].id # call[c].id

\* The journal is in the order of its numbers, as the protocol's
\* "seq + 1" stream supposes.  This holds when one connection at a time
\* changes the tree.
JournalOrdered == \A i, j \in DOMAIN log : i < j => log[i].seq < log[j].seq

Answer(c) == call[c].step = "polled"

\* A poll answer without overflow leaves nothing out: every event stored by
\* then, wanted by the watch and newer than `after' is in the answer, or the
\* answer is full and the event comes after its last one.
PollComplete ==
    \A c \in Watcher : Answer(c) /\ ~call[c].overflow =>
      \A i \in 1..call[c].at :
        /\ log[i].seq > call[c].after
        /\ watchMatches(watches[call[c].id], log[i])
        => \/ log[i].seq \in call[c].seqs
           \/ log[i].seq > call[c].last /\ Cardinality(call[c].seqs) = call[c].limit

\* Overflow is reported exactly when an event newer than `after' has been
\* trimmed: no needless resync at the edge of the retained range, and no
\* missed one.
OverflowExact ==
    \A c \in Watcher : Answer(c) =>
      (call[c].overflow <=> \E i \in 1..call[c].dropped : log[i].seq > call[c].after)

=============================================================================
