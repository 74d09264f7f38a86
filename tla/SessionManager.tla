--------------------------- MODULE SessionManager --------------------------
(***************************************************************************)
(* The control plane of the server: the handshake of a connection          *)
(* (dispatchControl in internal/server/server.go), the sessions it leads   *)
(* to (internal/server/session_manager.go) and the session check in front  *)
(* of every other channel (requireActiveSession).                          *)
(*                                                                         *)
(* A connection is served by one goroutine.  Every handler reads the clock *)
(* first and takes the session manager's lock later, so the time it works  *)
(* with can be old by then: reading the clock and the critical section are *)
(* two actions.  Time is counted in seconds.                               *)
(***************************************************************************)
EXTENDS Integers, FiniteSets

CONSTANTS
    Conn,           \* connections
    Instance,       \* client instance ids
    Requested,      \* the lease lengths clients ask for; 0 is "default"
    MaxTime,        \* bound: the last instant considered
    MaxSessions     \* bound: sessions created

ASSUME RequestedAssumption == Requested \subseteq Nat
ASSUME TimeAssumption == MaxTime \in Nat /\ MaxSessions \in Nat

VARIABLES
    clock,          \* Server.Now
    nextID,         \* SessionManager.nextID
    sessions,       \* SessionManager.sessions
    conn,           \* per connection: connectionState
    call,           \* per connection: the call its handler is executing
    contact,        \* history, per session: the latest time a client was heard
    promised,       \* history, per session: the latest ExpiresAt in an answer
    overlapped      \* history: two handlers were at work at the same time

historyVars == <<contact, promised>>
vars == <<clock, nextID, sessions, conn, call, contact, promised, overlapped>>

-----------------------------------------------------------------------------
SessionIDBase == 1000

Session == [instance : Instance, lease : Nat, expiresAt : Nat,
            state : {"active", "expired"}]

Idle == [step |-> "idle"]

Creating == [step : {"creating"}, id : Nat, session : Session, now : Nat]

Beating == [step : {"beating"}, id : Nat, now : Nat]

Resuming == [step : {"resuming"}, id : Nat, instance : Instance, now : Nat]

Checking == [step : {"checking"}, id : Nat, now : Nat]

\* The request passed requireActiveSession; its channel's handler runs.
Serving == [step : {"serving"}, id : Nat, now : Nat]

Call == {Idle} \cup Creating \cup Beating \cup Resuming \cup Checking \cup Serving

Put(f, k, v) == [x \in DOMAIN f \cup {k} |-> IF x = k THEN v ELSE f[x]]

Larger(a, b) == IF a > b THEN a ELSE b

\* The lease a CreateSession request is given.
GrantedLease(requested) ==
    IF requested = 0 THEN 30 ELSE IF requested > 300 THEN 300 ELSE requested

-----------------------------------------------------------------------------
Init ==
    /\ clock = 0
    /\ nextID = SessionIDBase
    /\ sessions = [id \in {} |-> Idle]
    /\ conn = [c \in Conn |-> [helloDone |-> FALSE, authenticated |-> FALSE]]
    /\ call = [c \in Conn |-> Idle]
    /\ contact = [id \in {} |-> 0]
    /\ promised = [id \in {} |-> 0]
    /\ overlapped = FALSE

\* Time passes.
Tick ==
    /\ clock < MaxTime
    /\ clock' = clock + 1
    /\ UNCHANGED <<nextID, sessions, conn, call, historyVars, overlapped>>

-----------------------------------------------------------------------------
(* Handshake.  Requests the handler refuses change nothing and are left    *)
(* out: no common version, wrong token, a step taken too early.            *)

Hello(c) ==
    /\ call[c] = Idle
    /\ conn' = [conn EXCEPT ![c].helloDone = TRUE]
    /\ UNCHANGED <<clock, nextID, sessions, call, historyVars, overlapped>>

Auth(c) ==
    /\ call[c] = Idle
    /\ conn[c].helloDone
    /\ conn' = [conn EXCEPT ![c].authenticated = TRUE]
    /\ UNCHANGED <<clock, nextID, sessions, call, historyVars, overlapped>>

\* The peer closes, handleConn returns, and the next connection starts with a
\* fresh connectionState.  Sessions are not touched.
Disconnect(c) ==
    /\ call[c] = Idle
    /\ conn' = [conn EXCEPT ![c] = [helloDone |-> FALSE, authenticated |-> FALSE]]
    /\ UNCHANGED <<clock, nextID, sessions, call, historyVars, overlapped>>

-----------------------------------------------------------------------------
(* Calls: a request arrives and the handler reads the clock.               *)

Begin(c, next) ==
    /\ call[c] = Idle
    /\ call' = [call EXCEPT ![c] = next]
    /\ overlapped' = (overlapped \/ \E d \in Conn : call[d] # Idle)

\* Variant: the id is derived from the size of the map.
CreateBeginFromSize(c, instance, requested) ==
    /\ conn[c].authenticated
    /\ nextID < SessionIDBase + MaxSessions
    /\ nextID' = nextID + 1
    /\ Begin(c, [step |-> "creating", now |-> clock,
                 id |-> SessionIDBase + 1 + Cardinality(DOMAIN sessions),
                 session |-> [instance |-> instance, lease |-> GrantedLease(requested),
                              expiresAt |-> clock + GrantedLease(requested),
                              state |-> "active"]])
    /\ UNCHANGED <<clock, sessions, conn, historyVars>>

CreateBegin(c, instance, requested) ==
    /\ conn[c].authenticated
    /\ nextID < SessionIDBase + MaxSessions
    /\ nextID' = nextID + 1
    /\ Begin(c, [step |-> "creating", id |-> nextID + 1, now |-> clock,
                 session |-> [instance |-> instance, lease |-> GrantedLease(requested),
                              expiresAt |-> clock + GrantedLease(requested),
                              state |-> "active"]])
    /\ UNCHANGED <<clock, sessions, conn, historyVars>>

HeartbeatBegin(c, id) ==
    /\ Begin(c, [step |-> "beating", id |-> id, now |-> clock])
    /\ UNCHANGED <<clock, nextID, sessions, conn, historyVars>>

ResumeBegin(c, id, instance) ==
    /\ Begin(c, [step |-> "resuming", id |-> id, instance |-> instance, now |-> clock])
    /\ UNCHANGED <<clock, nextID, sessions, conn, historyVars>>

CheckBegin(c, id) ==
    /\ Begin(c, [step |-> "checking", id |-> id, now |-> clock])
    /\ UNCHANGED <<clock, nextID, sessions, conn, historyVars>>

-----------------------------------------------------------------------------
(* Calls: the critical section and the answer.                             *)

Finish(c) == call' = [call EXCEPT ![c] = Idle]

\* The client was heard at time t and is told the session lasts until e.
Promise(id, t, e) ==
    /\ contact' = Put(contact, id, IF id \in DOMAIN contact THEN Larger(t, contact[id]) ELSE t)
    /\ promised' = Put(promised, id, IF id \in DOMAIN promised THEN Larger(e, promised[id]) ELSE e)

Create(c) ==
    /\ call[c].step = "creating"
    /\ sessions' = Put(sessions, call[c].id, call[c].session)
    /\ Promise(call[c].id, call[c].now, call[c].session.expiresAt)
    /\ Finish(c)
    /\ UNCHANGED <<clock, nextID, conn, overlapped>>

Expire(id) == sessions' = [sessions EXCEPT ![id].state = "expired"]

Renew(id, now) ==
    /\ sessions' = [sessions EXCEPT ![id].expiresAt = now + sessions[id].lease,
                                    ![id].state = "active"]
    /\ Promise(id, now, now + sessions[id].lease)

\* Variant: the last instant of the lease does not count.
OverdueTooSoon(id, now) == now >= sessions[id].expiresAt

\* now.After(s.ExpiresAt)
Overdue(id, now) == now > sessions[id].expiresAt

Heartbeat(c) ==
    /\ call[c].step = "beating"
    /\ LET id == call[c].id  now == call[c].now IN
         \/ id \notin DOMAIN sessions /\ UNCHANGED <<sessions, historyVars>>
         \/ /\ id \in DOMAIN sessions
            /\ Overdue(id, now)
            /\ Expire(id)
            /\ UNCHANGED historyVars
         \/ /\ id \in DOMAIN sessions
            /\ ~Overdue(id, now)
            /\ Renew(id, now)
    /\ Finish(c)
    /\ UNCHANGED <<clock, nextID, conn, overlapped>>

\* Variant: only the stored state is looked at.
InactiveByState(id, now) == sessions[id].state # "active"

\* Is the session of no use to a handler that works with this time?
Inactive(id, now) == Overdue(id, now) \/ sessions[id].state # "active"

\* Variant: a session is resumed in any state.
ResumeAnyState(c) ==
    /\ call[c].step = "resuming"
    /\ LET id == call[c].id IN
         \/ /\ id \notin DOMAIN sessions
            /\ UNCHANGED <<sessions, conn, historyVars>>
         \/ /\ id \in DOMAIN sessions
            /\ Renew(id, call[c].now)
            /\ conn' = [conn EXCEPT ![c].authenticated = TRUE]
    /\ Finish(c)
    /\ UNCHANGED <<clock, nextID, overlapped>>

Resume(c) ==
    /\ call[c].step = "resuming"
    /\ LET id == call[c].id  now == call[c].now IN
         \/ /\ id \notin DOMAIN sessions
            /\ UNCHANGED <<sessions, conn, historyVars>>
         \/ /\ id \in DOMAIN sessions
            /\ sessions[id].instance # call[c].instance
            /\ UNCHANGED <<sessions, conn, historyVars>>
         \/ /\ id \in DOMAIN sessions
            /\ sessions[id].instance = call[c].instance
            /\ Inactive(id, now)
            /\ Expire(id)
            /\ UNCHANGED <<conn, historyVars>>
         \/ /\ id \in DOMAIN sessions
            /\ sessions[id].instance = call[c].instance
            /\ ~Inactive(id, now)
            /\ Renew(id, now)
            /\ conn' = [conn EXCEPT ![c].authenticated = TRUE]
    /\ Finish(c)
    /\ UNCHANGED <<clock, nextID, overlapped>>

\* ValidateActive: the request goes on to its channel, or is refused.
Check(c) ==
    /\ call[c].step = "checking"
    /\ LET id == call[c].id  now == call[c].now IN
         IF id \in DOMAIN sessions /\ ~Inactive(id, now)
           THEN call' = [call EXCEPT ![c] = [step |-> "serving", id |-> id, now |-> now]]
           ELSE Finish(c)
    /\ UNCHANGED <<clock, nextID, sessions, conn, historyVars, overlapped>>

\* The channel's handler is done; sessions are not looked at again.
Served(c) ==
    /\ call[c].step = "serving"
    /\ Finish(c)
    /\ UNCHANGED <<clock, nextID, sessions, conn, historyVars, overlapped>>

-----------------------------------------------------------------------------
\* Any id handed out so far, or the next one, which is unknown.
SomeID == SessionIDBase + 1 .. nextID + 1

Handshake(c) == Hello(c) \/ Auth(c) \/ Disconnect(c)

Request(c) ==
    \/ \E i \in Instance, r \in Requested : CreateBegin(c, i, r)
    \/ \E id \in SomeID : HeartbeatBegin(c, id)
    \/ \E id \in SomeID, i \in Instance : ResumeBegin(c, id, i)
    \/ \E id \in SomeID : CheckBegin(c, id)

HandlerStep(c) == Create(c) \/ Heartbeat(c) \/ Resume(c) \/ Check(c) \/ Served(c)

Next == Tick \/ \E c \in Conn : Handshake(c) \/ Request(c) \/ HandlerStep(c)

Spec == Init /\ [][Next]_vars

-----------------------------------------------------------------------------
(* Properties.                                                             *)

\* The type invariant: sessions lie in the range of ids handed out, and the
\* history has an entry for each of them.
TypeOK ==
    /\ clock \in Nat
    /\ nextID \in Nat /\ nextID >= SessionIDBase
    /\ sessions = [id \in DOMAIN sessions |-> sessions[id]]
    /\ \A id \in DOMAIN sessions : sessions[id] \in Session
    /\ DOMAIN sessions \subseteq SessionIDBase + 1 .. nextID
    /\ conn \in [Conn -> [helloDone : BOOLEAN, authenticated : BOOLEAN]]
    /\ call \in [Conn -> Call]
    /\ contact \in [DOMAIN sessions -> Nat]
    /\ promised \in [DOMAIN sessions -> Nat]
    /\ overlapped \in BOOLEAN

\* No session outlives its client by more than the lease: ExpiresAt is never
\* later than the last time the client was heard plus the granted lease, and
\* that time is not in the future, however old the clock reading was that a
\* handler brought to the lock.
LeaseBounded ==
    \A id \in DOMAIN sessions :
      /\ sessions[id].expiresAt <= contact[id] + sessions[id].lease
      /\ contact[id] <= clock

\* A request admitted to a channel belongs to a session whose client had been
\* heard within its lease at the time the handler judged it by.
AdmittedInLease ==
    \A c \in Conn : call[c].step = "serving" =>
      /\ call[c].id \in DOMAIN sessions
      /\ call[c].now <= contact[call[c].id] + sessions[call[c].id].lease

\* The ids handlers are about to insert are free and pairwise different:
\* CreateSession never overwrites another client's session.
FreshSessionIDs ==
    \A c \in Conn : call[c].step = "creating" =>
      /\ call[c].id \notin DOMAIN sessions
      /\ SessionIDBase < call[c].id /\ call[c].id <= nextID
      /\ \A d \in Conn : d # c /\ call[d].step = "creating" => call[d].id # call[c].id

\* A session stays with the client instance and the lease it was created with.
IdentityKept ==
    [][\A id \in DOMAIN sessions :
         /\ id \in DOMAIN sessions'
         /\ sessions'[id].instance = sessions[id].instance
         /\ sessions'[id].lease = sessions[id].lease]_vars

\* An ExpiresAt that was answered is a promise: until then the session is
\* active and a request checked now is admitted.  This holds as long as no two
\* handlers have been at work at the same time; a heartbeat that overlaps
\* another can shorten the lease the other one answered.
PromiseKept ==
    ~overlapped => \A id \in DOMAIN sessions : clock <= promised[id] => ~Inactive(id, clock)

\* Expired is final: the state machine has no way from Expired back to Active.
\* This, too, holds as long as no two handlers have overlapped; a heartbeat that
\* read the clock early can come to the lock after another has expired the
\* session.
ExpiredForGood ==
    [][~overlapped => \A id \in DOMAIN sessions :
         sessions[id].state = "expired" => sessions'[id].state = "expired"]_vars

=============================================================================
