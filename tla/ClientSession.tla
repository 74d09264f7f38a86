--------------------------- MODULE ClientSession ----------------------------
(***************************************************************************)
(* A client of the server (internal/clientcore): the requests its threads  *)
(* make over one connection (rpc.go), the handles it keeps track of        *)
(* (state.go, data.go), and how it resumes its session and recovers those  *)
(* handles after the connection, the client object or the server is lost   *)
(* (session.go, recovery.go; on the server dispatchRecovery and            *)
(* RecoverFileHandle).                                                     *)
(*                                                                         *)
(* A request is written, handled by the server and its answer read, which  *)
(* are separate actions; what the answer changes in the client's tables,   *)
(* which one thread uses, is part of the last.  The program around the     *)
(* client (external) does what tests/integration/recovery_test.go and      *)
(* devmount-soak do: after a failure it connects again, with the same      *)
(* object or a new one, resumes its session or creates another, and        *)
(* recovers the handles it had.                                            *)
(***************************************************************************)
EXTENDS Integers, Sequences, FiniteSets

CONSTANTS
    Node,           \* files
    MaxHandles,     \* bound: handles the server gives out between restarts
    MaxSessions,    \* bound: sessions ever created
    MaxFaults       \* bound: lost connections of the server and sessions
                    \* that run out, all together

ASSUME BoundAssumption == {MaxHandles, MaxSessions, MaxFaults} \subseteq Nat

\* The program's thread, and the one that sends heartbeats.
Thread == {"program", "beat"}

VARIABLES
    srv,            \* server: the handles it has given out, by id
    sessions,       \* server: its active sessions
    lastSession,    \* server: the last session id given out
    conn,           \* the connection: up, and the frames on their way
    reqMu,          \* the thread that has Client.reqMu
    SessionID,      \* Client.SessionID
    tracked,        \* Client.state.TrackedHandles
    carried,        \* specifications a new client object was handed
    stage,          \* what the program does next: session, create, recover, work
    session,        \* the session the program knows it has
    call,           \* per thread: the request it waits for
    faults,         \* faults so far, of the kinds MaxFaults bounds
    unsure,         \* history: handles a lost answer was about
    left,           \* history: handles that recovery has replaced
    borrowed,       \* history: handles recovered by an object that had not opened them
    stale,          \* history: the server has restarted and nothing is recovered yet
    collided        \* history: a recovered handle has taken the id of a previous one

vars == <<srv, sessions, lastSession, conn, reqMu, SessionID, tracked, carried, stage, session, call,
          faults, unsure, left, borrowed, stale, collided>>
server  == <<srv, sessions, lastSession>>
client  == <<SessionID, tracked, carried, stage, session>>
history == <<faults, unsure, left, borrowed, stale, collided>>

Offline == [up |-> FALSE, in |-> <<>>, out |-> <<>>]

\* op, and what it is about: a handle h, a node with its mode, or specs; sid: the
\* session in the header; prev: the one that was replaced.  The request id is the
\* thread with what it asks.
NoCall == [op |-> "none", h |-> 0, node |-> 0, writable |-> FALSE, specs |-> <<>>,
           sid |-> 0, prev |-> 0]

Init ==
    /\ srv = <<>> /\ sessions = {} /\ lastSession = 0
    /\ conn = Offline /\ reqMu = "none"
    /\ SessionID = 0 /\ tracked = <<>> /\ carried = <<>> /\ stage = "session" /\ session = 0
    /\ call = [t \in Thread |-> NoCall]
    /\ faults = 0
    /\ unsure = {} /\ left = {} /\ borrowed = {} /\ stale = FALSE /\ collided = FALSE

Handles == DOMAIN tracked

\* f with f[x] = v, and f without the arguments S.
With(f, x, v) == [y \in DOMAIN f \cup {x} |-> IF y = x THEN v ELSE f[y]]
Less(f, S) == [y \in DOMAIN f \ S |-> f[y]]

\* The members of a finite set of numbers, from the smallest on.
InOrder(S) ==
    CHOOSE s \in [1..Cardinality(S) -> S] : \A i, j \in 1..Cardinality(S) : i < j => s[i] < s[j]

\* recoverySnapshot: in the order of the ids.
recoverySnapshot ==
    [i \in 1..Cardinality(Handles) |->
        LET h == InOrder(Handles)[i]
        IN  [previous |-> h, node |-> tracked[h].node, writable |-> tracked[h].writable,
             del |-> tracked[h].del]]

-----------------------------------------------------------------------------
(* Requests.                                                               *)

Idle(t) == call[t] = NoCall

\* Variant: reqMu only covers the write.
RequestUnlocked(t, c) ==
    /\ Idle(t) /\ conn.up
    /\ conn' = [conn EXCEPT !.in = Append(@, [from |-> t, call |-> c])]
    /\ call' = [call EXCEPT ![t] = c]
    /\ UNCHANGED <<server, reqMu, history>>

\* request takes reqMu and writes the frame.
Request(t, c) ==
    /\ Idle(t) /\ conn.up
    /\ reqMu = "none" /\ reqMu' = t
    /\ conn' = [conn EXCEPT !.in = Append(@, [from |-> t, call |-> c])]
    /\ call' = [call EXCEPT ![t] = c]
    /\ UNCHANGED <<server, history>>

Done(t) == call' = [call EXCEPT ![t] = NoCall]

\* Variant: a handle is no longer tracked when its close fails.
FailedForgetting(t, refused) ==
    /\ Done(t)
    /\ SessionID' = IF call[t].op = "resume" THEN call[t].prev ELSE SessionID
    /\ stage' = CASE t # "program" -> stage
                  [] refused /\ call[t].op = "resume" -> "create"
                  [] OTHER -> "session"
    /\ tracked' = Less(tracked, IF call[t].op = "close" THEN {call[t].h} ELSE {})
    /\ UNCHANGED <<carried, session>>

\* A request fails: ResumeSession puts the previous session back, and the program
\* starts over, with another session when it was refused the one it had.
Failed(t, refused) ==
    /\ Done(t)
    /\ SessionID' = IF call[t].op = "resume" THEN call[t].prev ELSE SessionID
    /\ stage' = CASE t # "program" -> stage
                  [] refused /\ call[t].op = "resume" -> "create"
                  [] OTHER -> "session"
    /\ UNCHANGED <<tracked, carried, session>>

-----------------------------------------------------------------------------
(* The server.                                                             *)

Reply(ok, answer) ==
    LET f == Head(conn.in)
    IN  conn' = [conn EXCEPT !.in = Tail(@),
                             !.out = Append(@, [from |-> f.from, op |-> f.call.op, h |-> f.call.h,
                                                ok |-> ok, answer |-> answer])]

\* A handle that is closed, or not the client's.
Closed == [node |-> 0, writable |-> FALSE, del |-> FALSE, open |-> FALSE, mine |-> FALSE]

NewHandle(spec) == [node |-> spec.node, writable |-> spec.writable, del |-> spec.del,
                    open |-> TRUE, mine |-> TRUE]

\* dispatchRecovery: each handle is opened again, with its delete-on-close; the
\* ones at the places in gone cannot be, and are answered with an error.
Recovered(specs, gone) ==
    LET kept == InOrder(DOMAIN specs \ gone)
    IN  [handles |-> [k \in DOMAIN kept |-> NewHandle(specs[kept[k]])],
         results |-> [i \in DOMAIN specs |->
                        [spec |-> specs[i],
                         id   |-> IF i \in gone THEN 0
                                  ELSE Len(srv) + CHOOSE k \in DOMAIN kept : kept[k] = i]]]

\* One frame is handled.  All but the creation of a session need one; an open may
\* be refused for other reasons.
Serve ==
    /\ conn.in # <<>>
    /\ LET r      == Head(conn.in).call
           active == r.sid \in sessions
           isOpen == r.h \in DOMAIN srv /\ srv[r.h].open
       IN
       \/ /\ r.op = "create"
          /\ lastSession' = lastSession + 1 /\ sessions' = sessions \cup {lastSession'}
          /\ Reply(TRUE, <<lastSession'>>) /\ UNCHANGED srv
       \/ /\ \/ r.op # "create" /\ ~active
             \/ r.op = "open"
             \/ r.op \in {"use", "delete", "keep", "close"} /\ ~isOpen
          /\ Reply(FALSE, <<>>) /\ UNCHANGED server
       \/ /\ active /\ (r.op \in {"resume", "beat"} \/ (r.op = "use" /\ isOpen))
          /\ Reply(TRUE, <<r.sid>>) /\ UNCHANGED server
       \/ /\ active /\ r.op = "open" /\ Len(srv) < MaxHandles
          /\ srv' = Append(srv, NewHandle([node |-> r.node, writable |-> r.writable, del |-> FALSE]))
          /\ Reply(TRUE, <<Len(srv')>>) /\ UNCHANGED <<sessions, lastSession>>
       \/ /\ active /\ isOpen
          /\ \/ r.op \in {"delete", "keep"} /\ srv' = [srv EXCEPT ![r.h].del = (r.op = "delete")]
             \/ r.op = "close" /\ srv' = [srv EXCEPT ![r.h] = Closed]
          /\ Reply(TRUE, <<>>) /\ UNCHANGED <<sessions, lastSession>>
       \/ /\ active /\ r.op = "recover"
          /\ \E gone \in SUBSET DOMAIN r.specs :
                LET done == Recovered(r.specs, gone)
                IN  /\ Len(srv) + Len(done.handles) <= MaxHandles
                    /\ srv' = srv \o done.handles
                    /\ Reply(TRUE, done.results)
          /\ UNCHANGED <<sessions, lastSession>>
    /\ UNCHANGED <<reqMu, client, call, history>>

Fault == faults < MaxFaults /\ faults' = faults + 1

\* A session runs out.
Expire(s) ==
    /\ Fault /\ s \in sessions
    /\ sessions' = sessions \ {s}
    /\ UNCHANGED <<srv, lastSession, conn, reqMu, client, call, unsure, left, borrowed,
                   stale, collided>>

\* What an answer that nobody reads was about.
About(a) ==
    CASE a.op = "open" /\ a.ok -> {a.answer[1]}
      [] a.op = "recover" /\ a.ok -> {a.answer[i].id : i \in DOMAIN a.answer}
      [] OTHER -> {a.h}

Lose ==
    /\ Fault /\ conn.up
    /\ conn' = Offline
    /\ unsure' = unsure \cup UNION {About(conn.out[i]) : i \in DOMAIN conn.out}
    /\ UNCHANGED <<server, reqMu, client, call, left, borrowed, stale, collided>>

\* The server forgets everything and gives out the same ids again; other clients
\* have taken the first of them before this one is back.
Restart(others) ==
    /\ Fault
    /\ conn' = Offline
    /\ srv' = [h \in 1..others |-> [Closed EXCEPT !.open = TRUE]]
    /\ sessions' = {}
    /\ stale' = TRUE /\ unsure' = {} /\ left' = {} /\ borrowed' = {}
    /\ UNCHANGED <<lastSession, reqMu, client, call, collided>>

-----------------------------------------------------------------------------
(* Answers.                                                                *)

\* lookupRecoveredWritable: some handle of the same node decides.
lookupRecoveredWritable(node, table) ==
    LET same == {table[g].writable : g \in {g \in DOMAIN table : table[g].node = node}}
    IN  IF same = {} THEN {FALSE} ELSE same

\* Variant: what the server answers of delete-on-close is not looked at.
OneRecoveredPlain(table, r) ==
    LET prev == r.spec.previous
        rest == Less(table, {prev})
        had  == prev \in DOMAIN table
    IN  IF r.id = 0 THEN {rest}
        ELSE {With(rest, r.id, [node |-> r.spec.node, writable |-> w, del |-> had /\ table[prev].del]) :
                 w \in IF had THEN {table[prev].writable} ELSE lookupRecoveredWritable(r.spec.node, rest)}

\* Variant: a handle that cannot be recovered stays.
OneRecoveredKept(table, r) ==
    LET prev == r.spec.previous
        rest == Less(table, {prev})
        had  == prev \in DOMAIN table
    IN  IF r.id = 0 THEN {table}
        ELSE {With(rest, r.id, [node |-> r.spec.node, writable |-> w,
                                del |-> r.spec.del \/ (had /\ table[prev].del)]) :
                 w \in IF had THEN {table[prev].writable} ELSE lookupRecoveredWritable(r.spec.node, rest)}

\* One result of applyRecoveredHandles, on the table so far: the tables it may make.
OneRecovered(table, r) ==
    LET prev == r.spec.previous
        rest == Less(table, {prev})
        had  == prev \in DOMAIN table
    IN  IF r.id = 0 THEN {rest}
        ELSE {With(rest, r.id, [node |-> r.spec.node, writable |-> w,
                                del |-> r.spec.del \/ (had /\ table[prev].del)]) :
                 w \in IF had THEN {table[prev].writable} ELSE lookupRecoveredWritable(r.spec.node, rest)}

applyRecoveredHandles(results) ==
    LET after[i \in 0..Len(results)] ==
            IF i = 0 THEN {tracked}
            ELSE UNION {OneRecovered(table, results[i]) : table \in after[i - 1]}
    IN  after[Len(results)]

\* A result's new id is the previous id of a result that is still to come.
Collides(results) ==
    \E i, j \in DOMAIN results : i < j /\ results[i].id # 0 /\ results[i].id = results[j].spec.previous

\* What the answer to c changes, under stateMu.  The answers to a heartbeat, a read
\* or a write change nothing that is modelled.
Apply(c, answer) ==
    /\ tracked' \in CASE c.op = "open" -> {With(tracked, answer[1],
                               [node |-> c.node, writable |-> c.writable, del |-> FALSE])}
                      [] c.op \in {"delete", "keep"} -> {[tracked EXCEPT ![c.h].del = (c.op = "delete")]}
                      [] c.op = "close" -> {Less(tracked, {c.h})}
                      [] c.op = "recover" -> applyRecoveredHandles(answer)
                      [] OTHER -> {tracked}
    /\ carried' = IF c.op = "recover" THEN <<>> ELSE carried
    /\ IF c.op \in {"create", "resume"}
       THEN SessionID' = answer[1] /\ session' = answer[1] /\ stage' = "recover"
       ELSE stage' = (IF c.op = "recover" THEN "work" ELSE stage) /\ UNCHANGED <<SessionID, session>>
    /\ IF c.op = "recover"
       THEN /\ left' = left \cup {answer[i].spec.previous : i \in DOMAIN answer}
            /\ borrowed' = borrowed \cup {answer[i].id : i \in
                               {j \in DOMAIN answer : answer[j].spec.previous \notin Handles}}
            /\ stale' = FALSE
            /\ collided' = (collided \/ Collides(answer))
       ELSE UNCHANGED <<left, borrowed, stale, collided>>
    /\ UNCHANGED <<faults, unsure>>

RequestID(t) == <<t, call[t].op, call[t].h>>
AnswerID(a) == <<a.from, a.op, a.h>>

\* Variant: a refusal is skipped.
ReceiveSkipping(t) ==
    /\ ~Idle(t) /\ conn.out # <<>>
    /\ reqMu' = "none"
    /\ conn' = [conn EXCEPT !.out = Tail(@)]
    /\ LET a == Head(conn.out)
       IN  IF AnswerID(a) = RequestID(t) /\ a.ok THEN Done(t) /\ Apply(call[t], a.answer)
           ELSE UNCHANGED <<call, client, history>>
    /\ UNCHANGED server

\* request reads the next frame and gives reqMu back.  Another request's answer is
\* an error, as is a refusal.
Receive(t) ==
    /\ ~Idle(t) /\ conn.out # <<>>
    /\ reqMu' = "none"
    /\ conn' = [conn EXCEPT !.out = Tail(@)]
    /\ LET a == Head(conn.out)
       IN  IF AnswerID(a) = RequestID(t) /\ a.ok THEN Done(t) /\ Apply(call[t], a.answer)
           ELSE Failed(t, ~a.ok) /\ UNCHANGED history
    /\ UNCHANGED server

\* The connection was lost before the answer was read.
ReceiveFails(t) ==
    /\ ~Idle(t) /\ ~conn.up
    /\ reqMu' = "none"
    /\ Failed(t, FALSE)
    /\ UNCHANGED <<server, conn, history>>

-----------------------------------------------------------------------------
(* The program.                                                            *)

Connect ==
    /\ ~conn.up /\ \A t \in Thread : Idle(t)
    /\ conn' = [Offline EXCEPT !.up = TRUE]
    /\ stage' = "session"
    /\ UNCHANGED <<server, reqMu, SessionID, tracked, carried, session, call, history>>

\* A new client object, which is handed the snapshot of the old one.
Replace ==
    /\ ~conn.up /\ SessionID # 0 /\ \A t \in Thread : Idle(t)
    /\ carried' = carried \o recoverySnapshot
    /\ tracked' = <<>> /\ SessionID' = 0
    /\ UNCHANGED <<server, conn, reqMu, stage, session, call, history>>

CreateSession ==
    /\ stage = "create" \/ (stage = "session" /\ session = 0)
    /\ lastSession < MaxSessions
    /\ Request("program", [NoCall EXCEPT !.op = "create"])
    /\ UNCHANGED client

\* ResumeSession sets the id before it asks.
ResumeSession ==
    /\ stage = "session" /\ session # 0
    /\ SessionID' = session
    /\ Request("program", [NoCall EXCEPT !.op = "resume", !.sid = session, !.prev = SessionID])
    /\ UNCHANGED <<tracked, carried, stage, session>>

RecoverHandles ==
    /\ stage = "recover"
    /\ Request("program", [NoCall EXCEPT !.op = "recover", !.sid = SessionID,
                                         !.specs = carried \o recoverySnapshot])
    /\ UNCHANGED client

Open(n, w) ==
    /\ stage = "work"
    /\ Request("program", [NoCall EXCEPT !.op = "open", !.sid = SessionID, !.node = n, !.writable = w])
    /\ UNCHANGED client

\* Reads, writes and the like; SetDeleteOnClose; CloseHandle.
Work(op, h) ==
    /\ stage = "work"
    /\ Request("program", [NoCall EXCEPT !.op = op, !.sid = SessionID, !.h = h])
    /\ UNCHANGED client

\* The header is made before reqMu is taken, and may name the session of a moment
\* before.
Heartbeat(sid) ==
    /\ sid # 0
    /\ Request("beat", [NoCall EXCEPT !.op = "beat", !.sid = sid])
    /\ UNCHANGED client

Next ==
    \/ CreateSession \/ ResumeSession \/ RecoverHandles \/ Connect \/ Replace
    \/ \E n \in Node, w \in BOOLEAN : Open(n, w)
    \/ \E h \in Handles, op \in {"use", "delete", "keep", "close"} : Work(op, h)
    \/ \E sid \in {SessionID, session} : Heartbeat(sid)
    \/ \E t \in Thread : Receive(t) \/ ReceiveFails(t)
    \/ Serve \/ Lose \/ \E others \in 0..1 : Restart(others)
    \/ \E s \in sessions : Expire(s)

\* The server handles what it is sent, and threads go on; nobody is made to ask.
Spec == /\ Init /\ [][Next]_vars
        /\ WF_vars(Serve)
        /\ \A t \in Thread : WF_vars(Receive(t) \/ ReceiveFails(t))

-----------------------------------------------------------------------------
(* Properties.                                                             *)

\* A thread that waits for its answer finds that answer and no other next on the
\* connection, whatever the two threads send (rpc.go, request).
AnswersMatched ==
    \A t \in Thread : ~Idle(t) /\ conn.out # <<>> => AnswerID(conn.out[1]) = RequestID(t)

\* A handle the client tracks is open on the server, on the node, in the mode and
\* with the delete-on-close it is tracked with: but for one that a request on its
\* way or a lost answer is about; for the mode of one that another object opened;
\* after a restart until the handles are recovered; and for good when a recovered
\* handle took the id of a previous one (state.go, updateHandle,
\* setHandleDeleteOnClose, removeHandle, applyRecoveredHandles).
TrackedTruthful ==
    ~stale /\ ~collided =>
        \A h \in Handles \ (unsure \cup {call["program"].h}) :
            /\ h \in DOMAIN srv /\ srv[h].open /\ srv[h].mine
            /\ tracked[h].node = srv[h].node /\ tracked[h].del = srv[h].del
            /\ h \notin borrowed => tracked[h].writable = srv[h].writable

\* A handle the server holds open for the client is tracked or handed on, an answer
\* on its way or lost was about it, or recovery has put another in its place: the
\* server closes none by itself (state.go; server.go, dispatchRecovery).
NoneForgotten ==
    \A h \in DOMAIN srv : srv[h].open /\ srv[h].mine =>
        \/ h \in Handles \cup unsure \cup left
        \/ \E i \in DOMAIN carried : h = carried[i].previous
        \/ \E i \in DOMAIN conn.out : h \in About(conn.out[i])

\* Recovery loses nothing: a handle the server could open again is tracked with
\* its node, its delete-on-close and, if the same object had it, its mode; unless
\* it took the id of a previous handle that was still to be replaced (state.go,
\* applyRecoveredHandles).
RecoveryKeepsHandles ==
    [][left' # left /\ ~stale' /\ ~collided' =>
           LET answer == conn.out[1].answer IN
           \A i \in DOMAIN answer : answer[i].id # 0 =>
               /\ answer[i].id \in DOMAIN tracked'
               /\ LET new == tracked'[answer[i].id] spec == answer[i].spec
                  IN  /\ new.node = spec.node /\ new.del = spec.del
                      /\ spec.previous \in Handles => new.writable = spec.writable]_vars

\* Every request returns, with its answer or when the connection is lost, so that
\* the other thread can send (rpc.go, request).
RequestsReturn == \A t \in Thread : ~Idle(t) ~> Idle(t)

=============================================================================
