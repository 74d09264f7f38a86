---------------------------- MODULE WatchClient ----------------------------
(***************************************************************************)
(* One client application that follows a watched directory, composed with  *)
(* the server's journal (Journal).  The client library keeps a             *)
(* TrackedWatch per watch (internal/clientcore/state.go, watch.go,         *)
(* recovery.go); the application keeps the cursor it polls from, the way   *)
(* the soak tool's watchWorker and the integration tests do:               *)
(*   - it polls from the number of the last event it was given and then    *)
(*     acknowledges that number;                                           *)
(*   - on overflow it asks for a resync and goes on from SnapshotSeq;      *)
(*   - when its connection drops it reconnects, resumes, resubscribes with *)
(*     what RecoverySnapshot says, and polls from the StartSeq it gets.    *)
(* The Watcher constant of Journal is the set of connections the client    *)
(* can use; a call that was in progress on a dropped connection is still   *)
(* executed by the server and its answer goes nowhere.                     *)
(***************************************************************************)
EXTENDS Journal

CONSTANTS
    WatchRoot,      \* the directory the application watches
    MaxDrops        \* bound: connections lost

ASSUME WatchRootAssumption == WatchRoot \in Root
ASSUME MaxDropsAssumption == MaxDrops \in Nat

VARIABLES
    cur,            \* the connection in use
    phase,          \* what the application does next
    tracked,        \* Client.state.TrackedWatches: the one watch, or NoWatch
    after,          \* the application's cursor
    drops,          \* connections lost so far
    origin,         \* history: StartSeq of the subscription
    base,           \* history: where the present run of polls began
    delivered,      \* history: numbers of the events given to the application
    snap            \* history: changes contained in the last resync snapshot

historyVars == <<origin, base, delivered, snap>>
clientVars == <<cur, phase, tracked, after, drops, historyVars>>
allVars == <<vars, clientVars>>

NoWatch == [id |-> 0, seen |-> 0, acked |-> 0]

-----------------------------------------------------------------------------
WInit ==
    /\ Init
    /\ cur \in Watcher
    /\ phase = "subscribe"
    /\ tracked = NoWatch
    /\ after = 0
    /\ drops = 0
    /\ origin = 0 /\ base = 0
    /\ delivered = {}
    /\ snap = 0

-----------------------------------------------------------------------------
(* Requests.  rpc.go sends a request only when the previous answer is in.  *)

SendSubscribe ==
    /\ phase = "subscribe"
    /\ SubscribeBegin(cur, WatchRoot, TRUE) \/ NodeGone(cur)
    /\ UNCHANGED clientVars

SendPoll ==
    /\ phase = "poll"
    /\ \E n \in MaxEvents : PollBegin(cur, tracked.id, after, n)
    /\ UNCHANGED clientVars

\* Variant: everything seen is acknowledged.
SendAckOfSeen ==
    /\ phase = "ack"
    /\ AckEvents(cur, tracked.id, tracked.seen)
    /\ UNCHANGED clientVars

SendAck ==
    /\ phase = "ack"
    /\ AckEvents(cur, tracked.id, after)
    /\ UNCHANGED clientVars

SendResync ==
    /\ phase = "resync"
    /\ ResyncSnapshot(cur, tracked.id) \/ NodeGone(cur)
    /\ UNCHANGED clientVars

\* Variant: only what was acknowledged counts.
RecoveryAckedSeq == tracked.acked

\* recoverySnapshot: the AfterSeq put into the ResubscribeSpec.
RecoveryAfterSeq == Larger(tracked.acked, tracked.seen)

SendResubscribe ==
    /\ phase = "recover"
    /\ \/ ResubscribeBegin(cur, tracked.id, WatchRoot, TRUE, RecoveryAfterSeq)
       \/ NodeGone(cur)
    /\ UNCHANGED clientVars

-----------------------------------------------------------------------------
(* Answers: what the library records and how the application goes on.      *)

Receive(step) ==
    /\ call[cur].step = step
    /\ Respond(cur)
    /\ UNCHANGED <<cur, drops>>

\* markWatchSeen
MarkSeen(watch, seq) == [watch EXCEPT !.seen = Larger(@, seq)]

\* markWatchAcked
MarkAcked(watch, seq) == [watch EXCEPT !.acked = Larger(@, seq), !.seen = Larger(@, seq)]

RecvSubscribed ==
    /\ Receive("subscribed")
    /\ phase = "subscribe"
    /\ LET start == call[cur].start IN
         /\ tracked' = [id |-> call[cur].id, seen |-> start, acked |-> start]
         /\ after' = start
         /\ origin' = start
         /\ base' = start
    /\ phase' = "poll"
    /\ UNCHANGED <<delivered, snap>>

\* Variant: the cursor moves to the newest number the answer names.
RecvPolledToLatest ==
    /\ Receive("polled")
    /\ tracked' = MarkSeen(tracked, call[cur].latest)
    /\ delivered' = delivered \cup call[cur].seqs
    /\ after' = call[cur].latest
    /\ phase' = IF call[cur].overflow THEN "resync"
                ELSE IF call[cur].seqs = {} THEN "poll"
                ELSE "ack"
    /\ UNCHANGED <<origin, base, snap>>

\* Variant: overflow is not looked at.
RecvPolledNoResync ==
    /\ Receive("polled")
    /\ tracked' = MarkSeen(tracked, call[cur].latest)
    /\ delivered' = delivered \cup call[cur].seqs
    /\ after' = call[cur].last
    /\ phase' = IF call[cur].seqs = {} THEN "poll" ELSE "ack"
    /\ UNCHANGED <<origin, base, snap>>

\* PollEvents marks LatestSeq as seen whatever the answer holds.
RecvPolled ==
    /\ Receive("polled")
    /\ tracked' = MarkSeen(tracked, call[cur].latest)
    /\ delivered' = delivered \cup call[cur].seqs
    /\ after' = call[cur].last
    /\ phase' = IF call[cur].overflow THEN "resync"
                ELSE IF call[cur].seqs = {} THEN "poll"
                ELSE "ack"
    /\ UNCHANGED <<origin, base, snap>>

RecvAcked ==
    /\ Receive("acked")
    /\ tracked' = MarkAcked(tracked, call[cur].acked)
    /\ phase' = "poll"
    /\ UNCHANGED <<after, historyVars>>

RecvResynced ==
    /\ Receive("resynced")
    /\ tracked' = MarkSeen(tracked, call[cur].seq)
    /\ after' = call[cur].seq
    /\ base' = call[cur].seq
    /\ snap' = call[cur].snap
    /\ phase' = "poll"
    /\ UNCHANGED <<origin, delivered>>

\* applyResubscribedWatches: the new watch takes the previous one's place.
RecvResubscribed ==
    /\ Receive("subscribed")
    /\ phase = "recover"
    /\ LET start == call[cur].start IN
         /\ tracked' = [id |-> call[cur].id, seen |-> Larger(tracked.seen, start),
                        acked |-> Larger(tracked.acked, start)]
         /\ after' = start
         /\ base' = start
    /\ phase' = "poll"
    /\ UNCHANGED <<origin, delivered, snap>>

\* The watched directory is gone.  A resubscription that fails removes the
\* tracked watch; the other calls leave the client's state as it is.
RecvFailed ==
    /\ Receive("failed")
    /\ tracked' = IF phase = "recover" THEN NoWatch ELSE tracked
    /\ phase' = "gone"
    /\ UNCHANGED <<after, historyVars>>

-----------------------------------------------------------------------------
\* The transport drops.  The client dials again (a connection whose handler
\* is not busy), resumes its session and turns to recovery; before the watch
\* is tracked there is nothing to recover and it subscribes again.
Drop ==
    /\ drops < MaxDrops
    /\ phase # "gone"
    /\ drops' = drops + 1
    /\ \E c \in Watcher \ {cur} : call[c] = Idle /\ cur' = c
    /\ phase' = IF tracked = NoWatch THEN "subscribe" ELSE "recover"
    /\ UNCHANGED <<vars, tracked, after, historyVars>>

\* The answer of a call on a dropped connection is lost.
LoseAnswer(c) ==
    /\ c # cur
    /\ Respond(c)
    /\ UNCHANGED clientVars

ClientStep ==
    \/ SendSubscribe \/ SendPoll \/ SendAck \/ SendResync \/ SendResubscribe
    \/ RecvSubscribed \/ RecvPolled \/ RecvAcked \/ RecvResynced
    \/ RecvResubscribed \/ RecvFailed

ServerStep ==
    \/ \E w \in Writer : WriterStep(w) /\ UNCHANGED clientVars
    \/ \E c \in Watcher : HandlerStep(c) /\ UNCHANGED clientVars
    \/ \E c \in Watcher : LoseAnswer(c)

WNext == ClientStep \/ Drop \/ ServerStep

WSpec == WInit /\ [][WNext]_allVars

\* The application keeps polling, the server's goroutines keep running, and a
\* handler that has begun to append goes on.  Nothing obliges anyone to change
\* the tree, to lose a connection or to fail.
WFairness ==
    /\ WF_allVars(ClientStep)
    /\ \A w \in Writer : WF_allVars((AppendNumber(w) \/ AppendStore(w)) /\ UNCHANGED clientVars)
    /\ \A c \in Watcher : WF_allVars((HandlerStep(c) /\ UNCHANGED clientVars) \/ LoseAnswer(c))

WFairSpec == WSpec /\ WFairness

-----------------------------------------------------------------------------
(* Properties.                                                             *)

\* The stored events the application subscribed for.
Concerns(i) == /\ tracked # NoWatch
               /\ watchMatches([path |-> WatchRoot, recursive |-> TRUE], log[i])
               /\ log[i].seq > origin

\* Polling alone loses nothing: every event between the start of the present
\* run of polls and the application's cursor has been given to it, with any
\* max_events and across answers that were cut short.
PollingLosesNothing ==
    \A i \in DOMAIN log :
      Concerns(i) /\ base < log[i].seq /\ log[i].seq <= after => log[i].seq \in delivered

\* An acknowledgement speaks only of events the application has: recovering
\* from the acknowledged number, as the client documentation describes it,
\* would lose nothing of the present run of polls.
AckedWasDelivered ==
    \A i \in DOMAIN log :
      /\ Concerns(i)
      /\ base < log[i].seq
      /\ log[i].seq <= Larger(tracked.acked, watches[tracked.id].acked)
      => log[i].seq \in delivered

\* No event reaches the application twice, not even when an answer was lost
\* and the client resubscribed.
DeliveredOnce ==
    call[cur].step = "polled" => call[cur].seqs \cap delivered = {}

\* The application knows of a change: it was given the event, or a snapshot
\* that contains the change.
Known(i) == log[i].seq \in delivered \/ log[i].mut <= snap

\* Recovery continues the stream: what a resubscription leaves behind is known
\* to the application, or an answer had already counted it as seen when it
\* overflowed or was cut short (state.go, recoverySnapshot; watch.go,
\* PollEvents; journal.go, Resubscribe).
RecoveryContinues ==
    [][phase = "recover" /\ phase' = "poll" =>
         \A i \in DOMAIN log : Concerns(i) /\ log[i].seq <= after' =>
            Known(i) \/ log[i].seq <= tracked.seen]_allVars

\* Once the tree has become quiet the application catches up, through overflow,
\* lost answers and reconnections: no event it subscribed for stays ahead of its
\* cursor for ever, unless the watched directory itself is gone.
CaughtUp == []<>(phase = "gone" \/ \A i \in DOMAIN log : Concerns(i) => log[i].seq <= after)

=============================================================================
