--------------------------- MODULE SessionProofs ---------------------------
(***************************************************************************)
(* Proofs about sessions at both ends: the server's control plane          *)
(* (SessionManager), for any number of connections, sessions, lease lengths*)
(* and instants, and the runtime that mounts one on the client             *)
(* (MountRuntime), for any number of callers and sessions.                 *)
(*                                                                         *)
(* Of the runtime, types, StopsItsOwn, ClosedAfterUse and FailureIsShown   *)
(* follow from an invariant about each session on its own (MountInv);      *)
(* OneSession and PhaseTruthful from one that says who owns the runtime    *)
(* until an invalid Start erases its phase (Ownership).                    *)
(***************************************************************************)
EXTENDS SessionManager, MountRuntime, TLAPS

\* The time a handler works with is not in the future, and a session about to
\* be inserted has the ExpiresAt that its clock reading and lease give.
CallsTimely ==
    \A c \in Conn :
      /\ call[c].step # "idle" => call[c].now <= clock
      /\ call[c].step = "creating" =>
           /\ call[c].session.expiresAt = call[c].now + call[c].session.lease
           /\ call[c].session.state = "active"

\* The inductive invariant behind the safety theorems: the lease bound of a
\* session about to be inserted (CallsTimely) and the freshness of its id are
\* what make Create preserve LeaseBounded.
SessionInv == TypeOK /\ CallsTimely /\ FreshSessionIDs /\ LeaseBounded /\ AdmittedInLease

-----------------------------------------------------------------------------
(* Lemmas about the helpers.                                               *)

\* Every granted lease is a natural number.
LEMMA GrantedLeaseType ==
    ASSUME NEW r \in Requested
    PROVE  GrantedLease(r) \in Nat
BY RequestedAssumption DEF GrantedLease

\* Adding an entry of the right type to a natural-valued map.
LEMMA PutNat ==
    ASSUME NEW S, NEW f \in [S -> Nat], NEW k, NEW v \in Nat
    PROVE  Put(f, k, v) \in [S \cup {k} -> Nat]
BY Zenon DEF Put

\* What the history records when a client is heard.
LEMMA PromiseFacts ==
    ASSUME TypeOK, NEW id, NEW t \in Nat, NEW e \in Nat, Promise(id, t, e)
    PROVE  /\ contact' \in [DOMAIN sessions \cup {id} -> Nat]
           /\ promised' \in [DOMAIN sessions \cup {id} -> Nat]
           /\ contact'[id] >= t
           /\ promised'[id] >= e
           /\ \A x \in DOMAIN sessions : contact'[x] >= contact[x]
           /\ \A x \in DOMAIN sessions : x # id => contact'[x] = contact[x]
           /\ \A x \in DOMAIN sessions : x # id => promised'[x] = promised[x]
           /\ contact'[id] = t \/ (id \in DOMAIN sessions /\ contact'[id] = contact[id])
           /\ promised'[id] = e \/ (id \in DOMAIN sessions /\ promised'[id] = promised[id])
<1> DEFINE ct == IF id \in DOMAIN contact THEN Larger(t, contact[id]) ELSE t
           pr == IF id \in DOMAIN promised THEN Larger(e, promised[id]) ELSE e
<1>1. contact \in [DOMAIN sessions -> Nat] /\ promised \in [DOMAIN sessions -> Nat]
  BY Zenon DEF TypeOK
<1>2. /\ ct \in Nat /\ ct >= t
      /\ id \in DOMAIN sessions => ct >= contact[id]
      /\ ct = t \/ (id \in DOMAIN sessions /\ ct = contact[id])
  BY <1>1 DEF Larger
<1>3. /\ pr \in Nat /\ pr >= e
      /\ pr = e \/ (id \in DOMAIN sessions /\ pr = promised[id])
  BY <1>1 DEF Larger
<1>4. contact' = Put(contact, id, ct) /\ promised' = Put(promised, id, pr)
  BY Zenon DEF Promise
<1> HIDE DEF ct, pr
<1>5. contact' \in [DOMAIN sessions \cup {id} -> Nat]
  BY Zenon, <1>1, <1>2, <1>4, PutNat
<1>6. promised' \in [DOMAIN sessions \cup {id} -> Nat]
  BY Zenon, <1>1, <1>3, <1>4, PutNat
<1>7. contact'[id] = ct /\ promised'[id] = pr
  BY Zenon, <1>4, <1>1 DEF Put
<1>8. \A x \in DOMAIN sessions : x # id => contact'[x] = contact[x] /\ promised'[x] = promised[x]
  BY Zenon, <1>1, <1>4 DEF Put
<1>9. \A x \in DOMAIN sessions : contact'[x] >= contact[x]
  <2> SUFFICES ASSUME NEW x \in DOMAIN sessions PROVE contact'[x] >= contact[x]
    BY Zenon
  <2>1. CASE x = id
    BY Zenon, <2>1, <1>2, <1>7
  <2>2. CASE x # id
    BY <2>2, <1>1, <1>8
  <2> QED BY Zenon, <2>1, <2>2
<1> QED BY Zenon, <1>2, <1>3, <1>5, <1>6, <1>7, <1>8, <1>9

-----------------------------------------------------------------------------
(* The invariant.                                                          *)

\* The invariant holds before the first request.
LEMMA InitInv == Init => SessionInv
<1> SUFFICES ASSUME Init PROVE SessionInv
  BY Zenon
<1>1. overlapped \in BOOLEAN
  BY Zenon DEF Init
<1>2. TypeOK
  BY <1>1 DEF Init, TypeOK, Call, Idle, SessionIDBase
<1>3. CallsTimely /\ FreshSessionIDs /\ LeaseBounded /\ AdmittedInLease
  BY Zenon DEF Init, CallsTimely, FreshSessionIDs, LeaseBounded, AdmittedInLease, Idle
<1> QED BY Zenon, <1>2, <1>3 DEF SessionInv

\* A call that begins reads the present clock and touches no session.
LEMMA BeginInv ==
    ASSUME SessionInv, NEW c \in Conn, NEW next \in Call, Begin(c, next),
           next.step \in {"creating", "beating", "resuming", "checking"},
           next.now = clock,
           next.step = "creating" =>
             /\ next.id = nextID + 1 /\ nextID' = nextID + 1
             /\ next.session.expiresAt = next.now + next.session.lease
             /\ next.session.state = "active",
           nextID' \in {nextID, nextID + 1},
           UNCHANGED <<clock, sessions, conn, historyVars>>
    PROVE  SessionInv'
<1>1. call' \in [Conn -> Call]
  BY Zenon DEF SessionInv, TypeOK, Begin
<1>2. \A d \in Conn : call'[d] = IF d = c THEN next ELSE call[d]
  BY Zenon DEF SessionInv, TypeOK, Begin
<1>3. nextID \in Nat /\ nextID' \in Nat /\ nextID' >= nextID
  BY DEF SessionInv, TypeOK
<1>4. TypeOK'
  <2>1. overlapped' \in BOOLEAN
    BY Zenon DEF Begin
  <2> QED BY <1>1, <1>3, <2>1 DEF SessionInv, TypeOK, historyVars, SessionIDBase
<1>5. CallsTimely'
  BY <1>2 DEF SessionInv, CallsTimely, TypeOK
<1>6. FreshSessionIDs'
  <2>1. \A d \in Conn : call[d].step = "creating" =>
          /\ call[d].id \in Nat /\ call[d].id <= nextID /\ SessionIDBase < call[d].id
          /\ call[d].id \notin DOMAIN sessions
    BY DEF SessionInv, FreshSessionIDs, TypeOK, Call, Creating, Idle, Beating, Resuming,
         Checking, Serving
  <2>2. nextID + 1 \notin DOMAIN sessions /\ SessionIDBase < nextID + 1
    BY <1>3 DEF SessionInv, TypeOK, SessionIDBase
  <2>3. \A d, e \in Conn : /\ d # e
                           /\ call'[d].step = "creating" /\ call'[e].step = "creating"
                           => call'[d].id # call'[e].id
    BY <1>2, <1>3, <2>1 DEF SessionInv, FreshSessionIDs
  <2>4. \A d \in Conn : call'[d].step = "creating" =>
          /\ call'[d].id \notin DOMAIN sessions
          /\ SessionIDBase < call'[d].id /\ call'[d].id <= nextID'
    BY <1>2, <1>3, <2>1, <2>2 DEF SessionIDBase
  <2> QED BY Zenon, <2>3, <2>4 DEF FreshSessionIDs
<1>7. LeaseBounded'
  BY Zenon DEF SessionInv, LeaseBounded, historyVars
<1>8. AdmittedInLease'
  BY Zenon, <1>2 DEF SessionInv, AdmittedInLease, historyVars
<1> QED BY Zenon, <1>4, <1>5, <1>6, <1>7, <1>8 DEF SessionInv

\* A call that ends without touching a session.
LEMMA QuietInv ==
    ASSUME SessionInv, NEW c \in Conn, Finish(c),
           conn' \in [Conn -> [helloDone : BOOLEAN, authenticated : BOOLEAN]],
           UNCHANGED <<clock, nextID, sessions, historyVars, overlapped>>
    PROVE  SessionInv'
<1>1. /\ call' \in [Conn -> Call]
      /\ \A d \in Conn : call'[d] = IF d = c THEN Idle ELSE call[d]
  BY Zenon DEF SessionInv, TypeOK, Finish, Call
<1>2. TypeOK'
  BY Zenon, <1>1 DEF SessionInv, TypeOK, historyVars
<1>3. CallsTimely' /\ FreshSessionIDs' /\ AdmittedInLease'
  BY SMTT(30), <1>1 DEF SessionInv, CallsTimely, FreshSessionIDs, AdmittedInLease, Idle, historyVars
<1>4. LeaseBounded'
  BY Zenon DEF SessionInv, LeaseBounded, historyVars
<1> QED BY Zenon, <1>2, <1>3, <1>4 DEF SessionInv

\* Expiring a session and ending the call.
LEMMA ExpireInv ==
    ASSUME SessionInv, NEW c \in Conn, NEW id \in DOMAIN sessions, Expire(id), Finish(c),
           UNCHANGED <<clock, nextID, conn, historyVars, overlapped>>
    PROVE  SessionInv'
<1>1. /\ call' \in [Conn -> Call]
      /\ \A d \in Conn : call'[d] = IF d = c THEN Idle ELSE call[d]
  BY Zenon DEF SessionInv, TypeOK, Finish, Call
<1>2. /\ DOMAIN sessions' = DOMAIN sessions
      /\ sessions' = [x \in DOMAIN sessions' |-> sessions'[x]]
      /\ \A x \in DOMAIN sessions :
           /\ sessions'[x] \in Session
           /\ sessions'[x].expiresAt = sessions[x].expiresAt
           /\ sessions'[x].lease = sessions[x].lease
  BY Zenon DEF SessionInv, TypeOK, Expire, Session
<1>3. TypeOK'
  BY Zenon, <1>1, <1>2 DEF SessionInv, TypeOK, historyVars
<1>4. CallsTimely'
  BY <1>1 DEF SessionInv, CallsTimely, Idle
<1>5. FreshSessionIDs'
  BY <1>1, <1>2 DEF SessionInv, FreshSessionIDs, Idle
<1>6. LeaseBounded'
  BY Zenon, <1>2 DEF SessionInv, LeaseBounded, historyVars
<1>7. AdmittedInLease'
  BY <1>1, <1>2 DEF SessionInv, AdmittedInLease, Idle, historyVars
<1> QED BY Zenon, <1>3, <1>4, <1>5, <1>6, <1>7 DEF SessionInv

\* Renewing a session with a clock reading that is not in the future, and
\* ending the call.
LEMMA RenewInv ==
    ASSUME SessionInv, NEW c \in Conn, NEW id \in DOMAIN sessions, NEW now \in Nat,
           now <= clock, Renew(id, now), Finish(c),
           conn' \in [Conn -> [helloDone : BOOLEAN, authenticated : BOOLEAN]],
           UNCHANGED <<clock, nextID, overlapped>>
    PROVE  SessionInv'
<1>1. /\ call' \in [Conn -> Call]
      /\ \A d \in Conn : call'[d] = IF d = c THEN Idle ELSE call[d]
  BY Zenon DEF SessionInv, TypeOK, Finish, Call
<1>2. sessions[id] \in Session /\ now + sessions[id].lease \in Nat
  BY DEF SessionInv, TypeOK, Session
<1>3. /\ DOMAIN sessions' = DOMAIN sessions
      /\ sessions' = [x \in DOMAIN sessions' |-> sessions'[x]]
      /\ \A x \in DOMAIN sessions :
           /\ sessions'[x] \in Session
           /\ sessions'[x].lease = sessions[x].lease
           /\ x # id => sessions'[x] = sessions[x]
           /\ x = id => sessions'[x].expiresAt = now + sessions[x].lease
  BY Zenon, <1>2 DEF SessionInv, TypeOK, Renew, Session
<1>4. /\ contact' \in [DOMAIN sessions -> Nat] /\ promised' \in [DOMAIN sessions -> Nat]
      /\ contact'[id] >= now
      /\ \A x \in DOMAIN sessions : contact'[x] >= contact[x]
      /\ \A x \in DOMAIN sessions : x # id => contact'[x] = contact[x]
      /\ contact'[id] = now \/ contact'[id] = contact[id]
  <2>1. Promise(id, now, now + sessions[id].lease) /\ TypeOK
    BY Zenon DEF Renew, SessionInv
  <2>2. DOMAIN sessions \cup {id} = DOMAIN sessions
    BY Zenon
  <2> QED BY Zenon, <1>2, <2>1, <2>2, PromiseFacts
<1>5. TypeOK'
  BY Zenon, <1>1, <1>3, <1>4 DEF SessionInv, TypeOK
<1>6. CallsTimely'
  BY SMTT(30), <1>1 DEF SessionInv, CallsTimely, Idle
<1>7. FreshSessionIDs'
  BY SMTT(30), <1>1, <1>3 DEF SessionInv, FreshSessionIDs, Idle
<1>8. LeaseBounded'
  <2> SUFFICES ASSUME NEW x \in DOMAIN sessions
               PROVE  /\ sessions'[x].expiresAt <= contact'[x] + sessions'[x].lease
                      /\ contact'[x] <= clock
    BY Zenon, <1>3 DEF LeaseBounded
  <2>1. /\ sessions[x] \in Session /\ contact[x] \in Nat /\ contact'[x] \in Nat /\ clock \in Nat
        /\ sessions[x].expiresAt <= contact[x] + sessions[x].lease /\ contact[x] <= clock
    BY Zenon, <1>4 DEF SessionInv, TypeOK, LeaseBounded
  <2>2. CASE x = id
    BY <2>1, <2>2, <1>3, <1>4 DEF Session
  <2>3. CASE x # id
    BY Zenon, <2>1, <2>3, <1>3, <1>4
  <2> QED BY Zenon, <2>2, <2>3
<1>9. AdmittedInLease'
  <2> SUFFICES ASSUME NEW d \in Conn, call'[d].step = "serving"
               PROVE  /\ call'[d].id \in DOMAIN sessions'
                      /\ call'[d].now <= contact'[call'[d].id] + sessions'[call'[d].id].lease
    BY Zenon DEF AdmittedInLease
  <2>1. call'[d] = call[d] /\ call[d].step = "serving"
    BY <1>1 DEF Idle
  <2>2. /\ call[d].id \in DOMAIN sessions
        /\ call[d].now <= contact[call[d].id] + sessions[call[d].id].lease
    BY Zenon, <2>1 DEF SessionInv, AdmittedInLease
  <2>3. call[d].now \in Nat
    BY <2>1 DEF SessionInv, TypeOK, Call, Idle, Creating, Beating, Resuming, Checking, Serving
  <2>4. sessions[call[d].id].lease \in Nat /\ contact[call[d].id] \in Nat
    BY Zenon, <2>2 DEF SessionInv, TypeOK, Session
  <2> QED BY <2>1, <2>2, <2>3, <2>4, <1>3, <1>4
<1> QED BY Zenon, <1>5, <1>6, <1>7, <1>8, <1>9 DEF SessionInv

\* Inserting a new session and ending the call.
LEMMA CreateInv ==
    ASSUME SessionInv, NEW c \in Conn, Create(c)
    PROVE  SessionInv'
<1> DEFINE id == call[c].id
           new == call[c].session
           now == call[c].now
<1>1. call[c] \in Creating
  BY DEF SessionInv, TypeOK, Create, Call, Idle, Creating, Beating, Resuming, Checking, Serving
<1>2. /\ id \in Nat /\ id > SessionIDBase /\ id <= nextID /\ id \notin DOMAIN sessions
      /\ new \in Session /\ now \in Nat /\ now <= clock
      /\ new.expiresAt = now + new.lease
  BY Zenon, <1>1 DEF SessionInv, FreshSessionIDs, CallsTimely, Creating
<1>3. /\ call' \in [Conn -> Call]
      /\ \A d \in Conn : call'[d] = IF d = c THEN Idle ELSE call[d]
  BY Zenon DEF SessionInv, TypeOK, Create, Finish, Call
<1>4. /\ DOMAIN sessions' = DOMAIN sessions \cup {id}
      /\ sessions' = [x \in DOMAIN sessions' |-> sessions'[x]]
      /\ sessions'[id] = new
      /\ \A x \in DOMAIN sessions : sessions'[x] = sessions[x]
  BY Zenon, <1>2 DEF Create, Put
<1>5. /\ contact' \in [DOMAIN sessions' -> Nat] /\ promised' \in [DOMAIN sessions' -> Nat]
      /\ contact'[id] = now
      /\ \A x \in DOMAIN sessions : contact'[x] = contact[x]
  <2>1. Promise(id, now, new.expiresAt) /\ TypeOK /\ new.expiresAt \in Nat
    BY Zenon, <1>2 DEF Create, SessionInv, Session
  <2> HIDE DEF id, now, new
  <2> QED BY Zenon, <1>2, <1>4, <2>1, PromiseFacts
<1>6. UNCHANGED <<clock, nextID, conn, overlapped>>
  BY Zenon DEF Create
<1> HIDE DEF id, now, new
<1>7. TypeOK'
  BY <1>2, <1>3, <1>4, <1>5, <1>6 DEF SessionInv, TypeOK, SessionIDBase
<1>8. CallsTimely'
  BY <1>3, <1>6 DEF SessionInv, CallsTimely, Idle
<1>9. FreshSessionIDs'
  <2> SUFFICES ASSUME NEW d \in Conn, call'[d].step = "creating"
               PROVE  /\ call'[d].id \notin DOMAIN sessions'
                      /\ call'[d].id > SessionIDBase
                      /\ call'[d].id <= nextID'
                      /\ \A e \in Conn : e # d /\ call'[e].step = "creating"
                                        => call'[e].id # call'[d].id
    BY Zenon DEF FreshSessionIDs
  <2>1. d # c /\ call'[d] = call[d]
    BY <1>3 DEF Idle
  <2>2. call[d].id # id
    BY Zenon, <2>1 DEF SessionInv, FreshSessionIDs, Create, id
  <2> QED BY <2>1, <2>2, <1>3, <1>4, <1>6 DEF SessionInv, FreshSessionIDs, Idle
<1>10. LeaseBounded'
  BY <1>2, <1>4, <1>5, <1>6 DEF SessionInv, TypeOK, LeaseBounded, Session
<1>11. AdmittedInLease'
  BY <1>3, <1>4, <1>5 DEF SessionInv, AdmittedInLease, Idle
<1> QED BY Zenon, <1>7, <1>8, <1>9, <1>10, <1>11 DEF SessionInv

\* Every step preserves the invariant.
LEMMA NextInv == SessionInv /\ [Next]_vars => SessionInv'
<1> SUFFICES ASSUME SessionInv, [Next]_vars PROVE SessionInv'
  BY Zenon
<1>1. CASE UNCHANGED vars
  BY Zenon, <1>1 DEF SessionInv, vars, TypeOK, CallsTimely, FreshSessionIDs, LeaseBounded, AdmittedInLease
<1>2. CASE Tick
  <2>1. clock' \in Nat /\ clock' >= clock /\ clock \in Nat
    BY <1>2 DEF Tick, SessionInv, TypeOK
  <2>2. TypeOK'
    BY Zenon, <1>2, <2>1 DEF Tick, SessionInv, TypeOK, historyVars
  <2>3. CallsTimely'
    <3> SUFFICES ASSUME NEW c \in Conn, call[c].step # "idle"
                 PROVE  call[c].now <= clock'
      BY Zenon, <1>2 DEF Tick, CallsTimely, SessionInv
    <3>1. call[c].now \in Nat
      BY DEF SessionInv, TypeOK, Call, Idle, Creating, Beating, Resuming, Checking, Serving
    <3> QED BY <3>1, <2>1 DEF SessionInv, CallsTimely
  <2>4. FreshSessionIDs' /\ AdmittedInLease'
    BY Zenon, <1>2 DEF Tick, SessionInv, FreshSessionIDs, AdmittedInLease, historyVars
  <2>5. LeaseBounded'
    BY <1>2, <2>1 DEF Tick, SessionInv, TypeOK, LeaseBounded, historyVars
  <2> QED BY Zenon, <2>2, <2>3, <2>4, <2>5 DEF SessionInv
<1>3. ASSUME NEW c \in Conn, Handshake(c) PROVE SessionInv'
  <2>1. /\ conn' \in [Conn -> [helloDone : BOOLEAN, authenticated : BOOLEAN]]
        /\ UNCHANGED <<clock, nextID, sessions, call, historyVars, overlapped>>
    <3>1. conn \in [Conn -> [helloDone : BOOLEAN, authenticated : BOOLEAN]]
      BY Zenon DEF SessionInv, TypeOK
    <3>2. CASE Hello(c)
      BY Zenon, <3>1, <3>2 DEF Hello
    <3>3. CASE Auth(c)
      BY Zenon, <3>1, <3>3 DEF Auth
    <3>4. CASE Disconnect(c)
      BY Zenon, <3>1, <3>4 DEF Disconnect
    <3> QED BY Zenon, <1>3, <3>2, <3>3, <3>4 DEF Handshake
  <2> QED BY Zenon, <2>1 DEF SessionInv, TypeOK, CallsTimely, FreshSessionIDs, LeaseBounded,
               AdmittedInLease, historyVars
<1>4. ASSUME NEW c \in Conn, Request(c) PROVE SessionInv'
  <2>1. clock \in Nat /\ nextID \in Nat
    BY Zenon DEF SessionInv, TypeOK
  <2>2. ASSUME NEW i \in Instance, NEW r \in Requested, CreateBegin(c, i, r)
        PROVE  SessionInv'
    <3> DEFINE next == [step |-> "creating", id |-> nextID + 1, now |-> clock,
                        session |-> [instance |-> i, lease |-> GrantedLease(r),
                                     expiresAt |-> clock + GrantedLease(r), state |-> "active"]]
    <3>1. next \in Call
      BY <2>1, GrantedLeaseType DEF Call, Creating, Session
    <3>2. Begin(c, next) /\ nextID' = nextID + 1 /\ UNCHANGED <<clock, sessions, conn, historyVars>>
      BY Zenon, <2>2 DEF CreateBegin
    <3> QED BY Zenon, <3>1, <3>2, BeginInv
  <2>3. ASSUME NEW id \in SomeID, HeartbeatBegin(c, id) PROVE SessionInv'
    <3> DEFINE next == [step |-> "beating", id |-> id, now |-> clock]
    <3>1. next \in Call
      BY <2>1 DEF Call, Beating, SomeID, SessionIDBase
    <3> QED BY Zenon, <3>1, <2>3, BeginInv DEF HeartbeatBegin
  <2>4. ASSUME NEW id \in SomeID, NEW i \in Instance, ResumeBegin(c, id, i) PROVE SessionInv'
    <3> DEFINE next == [step |-> "resuming", id |-> id, instance |-> i, now |-> clock]
    <3>1. next \in Call
      BY <2>1 DEF Call, Resuming, SomeID, SessionIDBase
    <3> QED BY Zenon, <3>1, <2>4, BeginInv DEF ResumeBegin
  <2>5. ASSUME NEW id \in SomeID, CheckBegin(c, id) PROVE SessionInv'
    <3> DEFINE next == [step |-> "checking", id |-> id, now |-> clock]
    <3>1. next \in Call
      BY <2>1 DEF Call, Checking, SomeID, SessionIDBase
    <3> QED BY Zenon, <3>1, <2>5, BeginInv DEF CheckBegin
  <2> QED BY Zenon, <1>4, <2>2, <2>3, <2>4, <2>5 DEF Request
<1>5. ASSUME NEW c \in Conn, HandlerStep(c) PROVE SessionInv'
  <2>1. CASE Create(c)
    BY Zenon, <2>1, CreateInv
  <2>2. ASSUME call[c].step \in {"beating", "resuming", "checking"}
        PROVE  call[c].now \in Nat /\ call[c].now <= clock
    BY <2>2 DEF SessionInv, TypeOK, CallsTimely, Call, Idle, Creating, Beating, Resuming,
         Checking, Serving
  <2>3. CASE Heartbeat(c)
    <3>1. call[c].step = "beating" /\ Finish(c) /\ UNCHANGED <<clock, nextID, conn, overlapped>>
      BY Zenon, <2>3 DEF Heartbeat
    <3>2. CASE UNCHANGED <<sessions, historyVars>>
      BY Zenon, <3>1, <3>2, QuietInv DEF SessionInv, TypeOK
    <3>3. CASE call[c].id \in DOMAIN sessions /\ Expire(call[c].id) /\ UNCHANGED historyVars
      BY Zenon, <3>1, <3>3, ExpireInv
    <3>4. CASE call[c].id \in DOMAIN sessions /\ Renew(call[c].id, call[c].now)
      BY Zenon, <3>1, <3>4, <2>2, RenewInv DEF SessionInv, TypeOK
    <3> QED BY Zenon, <2>3, <3>2, <3>3, <3>4 DEF Heartbeat
  <2>4. CASE Resume(c)
    <3>1. call[c].step = "resuming" /\ Finish(c) /\ UNCHANGED <<clock, nextID, overlapped>>
      BY Zenon, <2>4 DEF Resume
    <3>2. CASE UNCHANGED <<sessions, conn, historyVars>>
      BY Zenon, <3>1, <3>2, QuietInv DEF SessionInv, TypeOK
    <3>3. CASE /\ call[c].id \in DOMAIN sessions /\ Expire(call[c].id)
               /\ UNCHANGED <<conn, historyVars>>
      BY Zenon, <3>1, <3>3, ExpireInv
    <3>4. CASE /\ call[c].id \in DOMAIN sessions /\ Renew(call[c].id, call[c].now)
               /\ conn' = [conn EXCEPT ![c].authenticated = TRUE]
      <4>1. conn' \in [Conn -> [helloDone : BOOLEAN, authenticated : BOOLEAN]]
        BY Zenon, <3>4 DEF SessionInv, TypeOK
      <4> QED BY Zenon, <3>1, <3>4, <4>1, <2>2, RenewInv
    <3> QED BY Zenon, <2>4, <3>2, <3>3, <3>4 DEF Resume
  <2>5. CASE Check(c)
    <3>1. /\ call[c].step = "checking"
          /\ UNCHANGED <<clock, nextID, sessions, conn, historyVars, overlapped>>
      BY Zenon, <2>5 DEF Check
    <3>2. CASE Finish(c)
      BY Zenon, <3>1, <3>2, QuietInv DEF SessionInv, TypeOK
    <3>3. CASE /\ call[c].id \in DOMAIN sessions
               /\ ~Inactive(call[c].id, call[c].now)
               /\ call' = [call EXCEPT ![c] = [step |-> "serving", id |-> call[c].id,
                                               now |-> call[c].now]]
      <4>1. call[c].now \in Nat /\ call[c].now <= clock /\ call[c].id \in Nat
        BY <3>1, <2>2 DEF SessionInv, TypeOK, Call, Idle, Creating, Beating, Resuming,
             Checking, Serving
      <4>2. /\ call' \in [Conn -> Call]
            /\ \A d \in Conn : call'[d] = IF d = c
                                 THEN [step |-> "serving", id |-> call[c].id, now |-> call[c].now]
                                 ELSE call[d]
        BY Zenon, <3>3, <4>1 DEF SessionInv, TypeOK, Call, Serving
      <4>3. call[c].now <= contact[call[c].id] + sessions[call[c].id].lease
        BY <3>3, <4>1 DEF Inactive, Overdue, SessionInv, TypeOK, LeaseBounded, Session
      <4>4. TypeOK'
        BY Zenon, <3>1, <4>2 DEF SessionInv, TypeOK, historyVars
      <4>5. CallsTimely' /\ FreshSessionIDs'
        BY SMTT(30), <3>1, <4>1, <4>2 DEF SessionInv, CallsTimely, FreshSessionIDs
      <4>6. LeaseBounded'
        BY Zenon, <3>1 DEF SessionInv, LeaseBounded, historyVars
      <4>7. AdmittedInLease'
        BY Zenon, <3>1, <3>3, <4>2, <4>3 DEF SessionInv, AdmittedInLease, historyVars
      <4> QED BY Zenon, <4>4, <4>5, <4>6, <4>7 DEF SessionInv
    <3> QED BY Zenon, <2>5, <3>2, <3>3 DEF Check
  <2>6. CASE Served(c)
    BY Zenon, <2>6, QuietInv DEF Served, SessionInv, TypeOK
  <2> QED BY Zenon, <1>5, <2>1, <2>3, <2>4, <2>5, <2>6 DEF HandlerStep
<1> QED BY Zenon, <1>1, <1>2, <1>3, <1>4, <1>5 DEF Next

-----------------------------------------------------------------------------
(* The theorems that hold with any number of connections.                  *)

\* The invariant holds in every reachable state.
LEMMA AlwaysInv == Spec => []SessionInv
BY InitInv, NextInv, PTL DEF Spec

\* Type correctness of the control plane's state.
THEOREM TypeCorrect == Spec => []TypeOK
<1>1. SessionInv => TypeOK
  BY Zenon DEF SessionInv
<1> QED BY <1>1, AlwaysInv, PTL

\* A session's ExpiresAt is bounded by the last contact plus the lease, with
\* any number of handlers racing for the lock with old clock readings.
THEOREM LeaseIsBounded == Spec => []LeaseBounded
<1>1. SessionInv => LeaseBounded
  BY Zenon DEF SessionInv
<1> QED BY <1>1, AlwaysInv, PTL

\* Every request that passes requireActiveSession was within the lease.
THEOREM AdmissionRespectsLease == Spec => []AdmittedInLease
<1>1. SessionInv => AdmittedInLease
  BY Zenon DEF SessionInv
<1> QED BY <1>1, AlwaysInv, PTL

\* CreateSession never overwrites a session.
THEOREM SessionIDsAreFresh == Spec => []FreshSessionIDs
<1>1. SessionInv => FreshSessionIDs
  BY Zenon DEF SessionInv
<1> QED BY <1>1, AlwaysInv, PTL

\* No step takes a session from its client instance, changes its lease or
\* removes it.
THEOREM IdentityIsKept == Spec => IdentityKept
<1> DEFINE Kept == \A id \in DOMAIN sessions :
                     /\ id \in DOMAIN sessions'
                     /\ sessions'[id].instance = sessions[id].instance
                     /\ sessions'[id].lease = sessions[id].lease
<1>1. SessionInv /\ [Next]_vars => [Kept]_vars
  <2> SUFFICES ASSUME SessionInv, Next PROVE Kept
    BY Zenon
  <2>1. CASE UNCHANGED sessions
    BY Zenon, <2>1
  <2>2. ASSUME NEW id \in DOMAIN sessions, Expire(id) PROVE Kept
    BY Zenon, <2>2 DEF Expire, SessionInv, TypeOK, Session
  <2>3. ASSUME NEW id \in DOMAIN sessions, NEW now, Renew(id, now) PROVE Kept
    BY Zenon, <2>3 DEF Renew, SessionInv, TypeOK, Session
  <2>4. ASSUME NEW c \in Conn, Create(c) PROVE Kept
    BY Zenon, <2>4 DEF Create, Put, SessionInv, FreshSessionIDs
  <2>5. CASE Tick
    BY Zenon, <2>1, <2>5 DEF Tick
  <2>6. ASSUME NEW c \in Conn, Handshake(c) \/ Request(c) PROVE Kept
    BY Zenon, <2>1, <2>6 DEF Handshake, Hello, Auth, Disconnect, Request, CreateBegin,
         HeartbeatBegin, ResumeBegin, CheckBegin
  <2>7. ASSUME NEW c \in Conn, HandlerStep(c) PROVE Kept
    <3>1. CASE Heartbeat(c)
      BY Zenon, <3>1, <2>1, <2>2, <2>3 DEF Heartbeat
    <3>2. CASE Resume(c)
      BY Zenon, <3>2, <2>1, <2>2, <2>3 DEF Resume
    <3>3. CASE Check(c) \/ Served(c)
      BY Zenon, <3>3, <2>1 DEF Check, Served
    <3> QED BY Zenon, <2>4, <2>7, <3>1, <3>2, <3>3 DEF HandlerStep
  <2> QED BY Zenon, <2>5, <2>6, <2>7 DEF Next
<1> QED BY <1>1, AlwaysInv, PTL DEF Spec, IdentityKept

-----------------------------------------------------------------------------
(* The theorems that hold as long as no two handlers have overlapped: then  *)
(* clock readings reach the lock in the order they were taken.              *)

\* As long as no two handlers have overlapped, at most one is at work.
Alone ==
    ~overlapped => \A c, d \in Conn :
      call[c].step # "idle" /\ call[d].step # "idle" => c = d

\* The strengthening: the promise is the session's own ExpiresAt, which is
\* exactly one lease after the last contact, and whatever call is in progress
\* has read a clock that is not older than any contact and is past the end of
\* every expired session.
InOrder ==
    \A id \in DOMAIN sessions :
      /\ sessions[id].expiresAt = contact[id] + sessions[id].lease
      /\ promised[id] = sessions[id].expiresAt
      /\ sessions[id].state = "expired" => sessions[id].expiresAt < clock
      /\ \A c \in Conn : call[c].step # "idle" =>
           /\ contact[id] <= call[c].now
           /\ sessions[id].state = "expired" => sessions[id].expiresAt < call[c].now

\* The inductive invariant behind the two theorems.
OrderInv == Alone /\ (~overlapped => InOrder)

\* What a request that begins finds, and does.
LEMMA RequestFacts ==
    ASSUME TypeOK, NEW c \in Conn, Request(c)
    PROVE  /\ UNCHANGED <<clock, sessions, contact, promised>>
           /\ call'[c].now = clock
           /\ \A d \in Conn : d # c => call'[d] = call[d]
           /\ ~overlapped' => ~overlapped /\ \A d \in Conn : call[d] = Idle
<1>1. call \in [Conn -> Call]
  BY Zenon DEF TypeOK
<1>2. \E next : Begin(c, next) /\ next.now = clock
  <2>1. ASSUME NEW i \in Instance, NEW r \in Requested, CreateBegin(c, i, r)
        PROVE  \E next : Begin(c, next) /\ next.now = clock
    BY <2>1, SMT DEF CreateBegin
  <2>2. ASSUME NEW id \in SomeID, HeartbeatBegin(c, id)
        PROVE  \E next : Begin(c, next) /\ next.now = clock
    BY <2>2, SMT DEF HeartbeatBegin
  <2>3. ASSUME NEW id \in SomeID, NEW i \in Instance, ResumeBegin(c, id, i)
        PROVE  \E next : Begin(c, next) /\ next.now = clock
    BY <2>3, SMT DEF ResumeBegin
  <2>4. ASSUME NEW id \in SomeID, CheckBegin(c, id)
        PROVE  \E next : Begin(c, next) /\ next.now = clock
    BY <2>4, SMT DEF CheckBegin
  <2> QED BY Zenon, <2>1, <2>2, <2>3, <2>4 DEF Request
<1>3. UNCHANGED <<clock, sessions, contact, promised>>
  BY Zenon DEF Request, CreateBegin, HeartbeatBegin, ResumeBegin, CheckBegin, historyVars
<1>4. call'[c].now = clock /\ \A d \in Conn : d # c => call'[d] = call[d]
  <2>1. PICK next : Begin(c, next) /\ next.now = clock
    BY Zenon, <1>2
  <2> QED BY Zenon, <1>1, <2>1 DEF Begin
<1>5. ~overlapped' => ~overlapped /\ \A d \in Conn : call[d] = Idle
  BY <1>2, Zenon DEF Begin
<1> QED BY Zenon, <1>3, <1>4, <1>5

\* Only a request that begins can make handlers overlap.
LEMMA OverlapKept ==
    ASSUME NEW c \in Conn, Handshake(c) \/ HandlerStep(c)
    PROVE  overlapped' = overlapped
BY Zenon DEF Handshake, Hello, Auth, Disconnect, HandlerStep, Create, Heartbeat, Resume, Check, Served

\* Every step keeps handlers apart until two of them overlap.
LEMMA NextAlone == TypeOK /\ Alone /\ [Next]_vars => Alone'
<1> SUFFICES ASSUME TypeOK, Alone, [Next]_vars, ~overlapped',
                    NEW a \in Conn, NEW b \in Conn,
                    call'[a].step # "idle", call'[b].step # "idle"
             PROVE  a = b
  BY Zenon DEF Alone
<1>1. call \in [Conn -> Call]
  BY Zenon DEF TypeOK
<1>2. CASE UNCHANGED <<call, overlapped>>
  BY Zenon, <1>2 DEF Alone
<1>3. CASE UNCHANGED vars \/ Tick
  BY Zenon, <1>2, <1>3 DEF vars, Tick
<1>4. ASSUME NEW c \in Conn, Handshake(c) PROVE a = b
  <2>1. call' = call
    BY Zenon, <1>4 DEF Handshake, Hello, Auth, Disconnect
  <2> QED BY Zenon, <2>1, <1>2, <1>4, OverlapKept
<1>5. ASSUME NEW c \in Conn, Request(c) PROVE a = b
  <2>1. /\ \A d \in Conn : d # c => call'[d] = call[d]
        /\ \A d \in Conn : call[d] = Idle
    BY Zenon, <1>5, RequestFacts
  <2> QED BY <2>1 DEF Idle
<1>6. ASSUME NEW c \in Conn, HandlerStep(c) PROVE a = b
  <2>1. \A d \in Conn : d # c => call'[d] = call[d]
    BY Zenon, <1>1, <1>6 DEF HandlerStep, Create, Heartbeat, Resume, Check, Served, Finish
  <2>2. call[c].step # "idle"
    BY Zenon, <1>6 DEF HandlerStep, Create, Heartbeat, Resume, Check, Served
  <2>3. ~overlapped
    BY Zenon, <1>6, OverlapKept
  <2> QED BY Zenon, <2>1, <2>2, <2>3 DEF Alone
<1> QED BY Zenon, <1>3, <1>4, <1>5, <1>6 DEF Next

\* A handler that was alone and finishes leaves no call in progress.
LEMMA AllIdle ==
    ASSUME TypeOK, NEW c \in Conn, call[c].step # "idle", Finish(c),
           \A d \in Conn : call[d].step # "idle" => d = c
    PROVE  \A d \in Conn : call'[d].step = "idle"
BY Zenon DEF TypeOK, Finish, Idle

\* Every step before an overlap keeps the order.
LEMMA NextInOrder ==
    ASSUME SessionInv, Alone, ~overlapped => InOrder, [Next]_vars, ~overlapped'
    PROVE  InOrder'
<1>0. TypeOK /\ LeaseBounded /\ CallsTimely
  BY Zenon DEF SessionInv
<1>1. CASE UNCHANGED vars
  <2>1. InOrder
    BY Zenon, <1>1 DEF vars
  <2> QED BY Zenon, <1>1, <2>1 DEF InOrder, vars
<1>2. CASE Tick
  <2>1. InOrder
    BY Zenon, <1>2 DEF Tick
  <2> QED BY <1>2, <2>1, <1>0 DEF Tick, InOrder, TypeOK, Session, historyVars
<1>3. ASSUME NEW c \in Conn, Handshake(c) PROVE InOrder'
  BY Zenon, <1>3, OverlapKept DEF Handshake, Hello, Auth, Disconnect, InOrder, historyVars
<1>4. ASSUME NEW c \in Conn, Request(c) PROVE InOrder'
  <2>1. /\ UNCHANGED <<clock, sessions, contact, promised>>
        /\ call'[c].now = clock
        /\ \A d \in Conn : d # c => call'[d] = call[d]
        /\ InOrder /\ \A d \in Conn : call[d] = Idle
    BY Zenon, <1>0, <1>4, RequestFacts
  <2> QED BY Zenon, <2>1, <1>0 DEF InOrder, LeaseBounded, Idle
<1>5. ASSUME NEW c \in Conn, HandlerStep(c) PROVE InOrder'
  <2>a. InOrder /\ ~overlapped
    BY Zenon, <1>5, OverlapKept
  <2>b. call[c].step # "idle" /\ \A d \in Conn : call[d].step # "idle" => d = c
    BY Zenon, <1>5, <2>a DEF Alone, HandlerStep, Create, Heartbeat, Resume, Check, Served
  <2>1. ASSUME Finish(c), UNCHANGED <<clock, sessions, contact, promised>> PROVE InOrder'
    BY Zenon, <2>1, <2>a, <2>b, <1>0, AllIdle DEF InOrder
  <2>2. ASSUME Finish(c), NEW id \in DOMAIN sessions, Expire(id), call[c].step # "idle",
               Inactive(id, call[c].now), call[c].now \in Nat,
               UNCHANGED <<clock, contact, promised>>
        PROVE  InOrder'
    <3>1. call[c].now <= clock /\ clock \in Nat
      BY Zenon, <2>2, <1>0 DEF CallsTimely, TypeOK
    <3>2. /\ sessions[id] \in Session
          /\ sessions[id].expiresAt < clock
      BY <2>2, <2>a, <3>1, <1>0 DEF Inactive, Overdue, InOrder, TypeOK, Session
    <3>3. /\ DOMAIN sessions' = DOMAIN sessions
          /\ \A x \in DOMAIN sessions :
               /\ sessions'[x].expiresAt = sessions[x].expiresAt
               /\ sessions'[x].lease = sessions[x].lease
               /\ x # id => sessions'[x] = sessions[x]
      BY Zenon, <2>2, <1>0 DEF Expire, TypeOK, Session
    <3>4. \A d \in Conn : call'[d].step = "idle"
      BY Zenon, <2>2, <2>b, <1>0, AllIdle
    <3> QED BY Zenon, <2>2, <2>a, <3>2, <3>3, <3>4 DEF InOrder
  <2>3. ASSUME Finish(c), NEW id \in DOMAIN sessions, Renew(id, call[c].now),
               call[c].step # "idle", ~Overdue(id, call[c].now), call[c].now \in Nat,
               UNCHANGED clock
        PROVE  InOrder'
    <3>1. \A d \in Conn : call'[d].step = "idle"
      BY Zenon, <2>3, <2>b, <1>0, AllIdle
    <3>2. sessions[id] \in Session /\ call[c].now + sessions[id].lease \in Nat
      BY <2>3, <1>0 DEF TypeOK, Session
    <3>3. /\ DOMAIN sessions' = DOMAIN sessions
          /\ sessions'[id].expiresAt = call[c].now + sessions[id].lease
          /\ sessions'[id].lease = sessions[id].lease
          /\ sessions'[id].state = "active"
          /\ \A x \in DOMAIN sessions : x # id => sessions'[x] = sessions[x]
      BY Zenon, <2>3, <3>2, <1>0 DEF Renew, TypeOK, Session
    <3>4. /\ contact[id] <= call[c].now /\ contact[id] \in Nat
          /\ promised[id] = contact[id] + sessions[id].lease
      BY Zenon, <2>3, <2>a, <1>0 DEF InOrder, TypeOK
    <3>5. /\ contact'[id] = call[c].now
          /\ promised'[id] = call[c].now + sessions[id].lease
          /\ \A x \in DOMAIN sessions : x # id => contact'[x] = contact[x] /\ promised'[x] = promised[x]
      <4>1. Promise(id, call[c].now, call[c].now + sessions[id].lease)
        BY Zenon, <2>3 DEF Renew
      <4>2. /\ contact'[id] >= call[c].now
            /\ promised'[id] >= call[c].now + sessions[id].lease
            /\ contact'[id] = call[c].now \/ contact'[id] = contact[id]
            /\ promised'[id] = call[c].now + sessions[id].lease \/ promised'[id] = promised[id]
            /\ \A x \in DOMAIN sessions : x # id => contact'[x] = contact[x] /\ promised'[x] = promised[x]
        BY ZenonT(30), <4>1, <3>2, <2>3, <1>0, PromiseFacts
      <4>3. sessions[id].lease \in Nat
        BY Zenon, <3>2 DEF Session
      <4>4. contact'[id] = call[c].now
        BY SMTT(30), <4>2, <3>4, <2>3
      <4>5. promised'[id] = call[c].now + sessions[id].lease
        BY SMTT(30), <4>2, <4>3, <3>4, <2>3
      <4> QED BY Zenon, <4>2, <4>4, <4>5
    <3>6. SUFFICES ASSUME NEW x \in DOMAIN sessions
                   PROVE  /\ sessions'[x].expiresAt = contact'[x] + sessions'[x].lease
                          /\ promised'[x] = sessions'[x].expiresAt
                          /\ sessions'[x].state = "expired" => sessions'[x].expiresAt < clock
      BY Zenon, <2>3, <3>1, <3>3, <3>6 DEF InOrder
    <3>7. CASE x = id
      BY Zenon, <3>3, <3>5, <3>7
    <3>8. CASE x # id
      <4>1. sessions'[x] = sessions[x] /\ contact'[x] = contact[x] /\ promised'[x] = promised[x]
        BY Zenon, <3>3, <3>5, <3>8
      <4> QED BY Zenon, <2>a, <4>1 DEF InOrder
    <3> QED BY Zenon, <3>7, <3>8
  <2>4. CASE Create(c)
    <3>1. call[c] \in Creating /\ Finish(c)
      BY <2>4, <1>0 DEF TypeOK, Create, Call, Idle, Creating, Beating, Resuming, Checking, Serving
    <3>2. \A d \in Conn : call'[d].step = "idle"
      BY Zenon, <3>1, <2>b, <1>0, AllIdle
    <3>3. /\ call[c].id \notin DOMAIN sessions
          /\ call[c].session \in Session /\ call[c].now \in Nat
          /\ call[c].session.expiresAt = call[c].now + call[c].session.lease
      BY Zenon, <3>1 DEF SessionInv, FreshSessionIDs, CallsTimely, Creating
    <3>4. call[c].session.state = "active"
      BY Zenon, <2>4 DEF SessionInv, CallsTimely, Create
    <3>5. /\ DOMAIN sessions' = DOMAIN sessions \cup {call[c].id}
          /\ sessions'[call[c].id] = call[c].session
          /\ \A x \in DOMAIN sessions : sessions'[x] = sessions[x]
      BY Zenon, <2>4, <3>3 DEF Create, Put
    <3>6. /\ contact'[call[c].id] = call[c].now
          /\ promised'[call[c].id] = call[c].session.expiresAt
          /\ \A x \in DOMAIN sessions : contact'[x] = contact[x] /\ promised'[x] = promised[x]
      <4> DEFINE id == call[c].id
                 now == call[c].now
                 end == call[c].session.expiresAt
      <4>1. Promise(id, now, end) /\ now \in Nat /\ end \in Nat /\ id \notin DOMAIN sessions
        BY Zenon, <2>4, <3>3 DEF Create, Session
      <4> HIDE DEF id, now, end
      <4>2. /\ contact'[id] = now /\ promised'[id] = end
            /\ \A x \in DOMAIN sessions : contact'[x] = contact[x] /\ promised'[x] = promised[x]
        BY Zenon, <4>1, <1>0, PromiseFacts
      <4> QED BY Zenon, <4>2 DEF id, now, end
    <3>7. clock' = clock
      BY Zenon, <2>4 DEF Create
    <3>8. ASSUME NEW x \in DOMAIN sessions'
          PROVE  /\ sessions'[x].expiresAt = contact'[x] + sessions'[x].lease
                 /\ promised'[x] = sessions'[x].expiresAt
                 /\ sessions'[x].state = "expired" => sessions'[x].expiresAt < clock'
      <4>1. CASE x = call[c].id
        BY Zenon, <4>1, <3>3, <3>4, <3>5, <3>6
      <4>2. CASE x \in DOMAIN sessions
        BY Zenon, <4>2, <2>a, <3>5, <3>6, <3>7 DEF InOrder
      <4> QED BY Zenon, <4>1, <4>2, <3>5
    <3> QED BY Zenon, <3>2, <3>8 DEF InOrder
  <2>5. ASSUME call[c].step \in {"beating", "resuming"}
        PROVE  call[c].step # "idle" /\ call[c].now \in Nat
    BY <2>5, <1>0 DEF TypeOK, Call, Idle, Creating, Beating, Resuming, Checking, Serving
  <2>6. CASE Heartbeat(c)
    BY Zenon, <2>6, <2>1, <2>2, <2>3, <2>5 DEF Heartbeat, Inactive, historyVars
  <2>7. CASE Resume(c)
    BY Zenon, <2>7, <2>1, <2>2, <2>3, <2>5 DEF Resume, Inactive, historyVars
  <2>8. CASE Check(c)
    <3>1. UNCHANGED <<clock, sessions, contact, promised>>
      BY Zenon, <2>8 DEF Check, historyVars
    <3>2. CASE call' = [call EXCEPT ![c] = [step |-> "serving", id |-> call[c].id,
                                            now |-> call[c].now]]
      <4>1. /\ call'[c].now = call[c].now
            /\ \A d \in Conn : d # c => call'[d] = call[d]
        BY Zenon, <3>2, <1>0 DEF TypeOK
      <4> QED BY SMTT(30), <2>a, <2>b, <3>1, <4>1 DEF InOrder
    <3> QED BY Zenon, <2>1, <2>8, <3>1, <3>2 DEF Check
  <2>9. CASE Served(c)
    BY Zenon, <2>9, <2>1 DEF Served, historyVars
  <2> QED BY Zenon, <1>5, <2>4, <2>6, <2>7, <2>8, <2>9 DEF HandlerStep
<1> QED BY Zenon, <1>1, <1>2, <1>3, <1>4, <1>5 DEF Next

\* OrderInv holds in every reachable state.
LEMMA AlwaysOrder == Spec => []OrderInv
<1>1. Init => OrderInv
  BY SMTT(30) DEF Init, OrderInv, Alone, InOrder, Idle
<1>2. SessionInv /\ OrderInv /\ [Next]_vars => OrderInv'
  <2> SUFFICES ASSUME SessionInv, OrderInv, [Next]_vars PROVE OrderInv'
    BY Zenon
  <2>1. Alone'
    BY Zenon, NextAlone DEF SessionInv, OrderInv
  <2>2. ~overlapped' => InOrder'
    BY Zenon, NextInOrder DEF OrderInv
  <2> QED BY Zenon, <2>1, <2>2 DEF OrderInv
<1> QED BY <1>1, <1>2, AlwaysInv, PTL DEF Spec

\* A promised ExpiresAt is kept until two handlers overlap, with any number of
\* connections.
THEOREM PromisesAreKept == Spec => []PromiseKept
<1>1. SessionInv /\ OrderInv => PromiseKept
  BY DEF SessionInv, OrderInv, InOrder, PromiseKept, Inactive, Overdue, TypeOK, Session
<1> QED BY <1>1, AlwaysInv, AlwaysOrder, PTL

\* Until then, too, an expired session stays expired.
THEOREM ExpiryIsFinal == Spec => ExpiredForGood
<1> DEFINE Final == \A id \in DOMAIN sessions :
                      sessions[id].state = "expired" => sessions'[id].state = "expired"
<1>1. SessionInv /\ OrderInv /\ [Next]_vars => [~overlapped => Final]_vars
  <2> SUFFICES ASSUME SessionInv, InOrder, Next PROVE Final
    BY Zenon DEF OrderInv
  <2>1. CASE UNCHANGED sessions
    BY Zenon, <2>1
  <2>2. ASSUME NEW id \in DOMAIN sessions, Expire(id) PROVE Final
    BY Zenon, <2>2 DEF Expire, SessionInv, TypeOK, Session
  <2>3. ASSUME NEW c \in Conn, call[c].id \in DOMAIN sessions, call[c].step # "idle",
               ~Overdue(call[c].id, call[c].now), Renew(call[c].id, call[c].now)
        PROVE  Final
    <3>1. sessions[call[c].id].state # "expired"
      BY Zenon, <2>3 DEF Overdue, InOrder
    <3>2. \A x \in DOMAIN sessions : x # call[c].id => sessions'[x] = sessions[x]
      BY Zenon, <2>3 DEF Renew, SessionInv, TypeOK
    <3> QED BY Zenon, <3>1, <3>2
  <2>4. ASSUME NEW c \in Conn, Create(c) PROVE Final
    BY Zenon, <2>4 DEF Create, Put, SessionInv, FreshSessionIDs
  <2>5. CASE Tick
    BY Zenon, <2>1, <2>5 DEF Tick
  <2>6. ASSUME NEW c \in Conn, Handshake(c) \/ Request(c) PROVE Final
    BY Zenon, <2>1, <2>6 DEF Handshake, Hello, Auth, Disconnect, Request, CreateBegin,
         HeartbeatBegin, ResumeBegin, CheckBegin
  <2>7. ASSUME NEW c \in Conn, HandlerStep(c) PROVE Final
    <3>1. CASE Heartbeat(c)
      BY Zenon, <3>1, <2>1, <2>2, <2>3 DEF Heartbeat
    <3>2. CASE Resume(c)
      BY Zenon, <3>2, <2>1, <2>2, <2>3 DEF Resume, Inactive
    <3>3. CASE Check(c) \/ Served(c)
      BY Zenon, <3>3, <2>1 DEF Check, Served
    <3> QED BY Zenon, <2>4, <2>7, <3>1, <3>2, <3>3 DEF HandlerStep
  <2> QED BY Zenon, <2>5, <2>6, <2>7 DEF Next
<1> QED BY <1>1, AlwaysInv, AlwaysOrder, PTL DEF Spec, ExpiredForGood

-----------------------------------------------------------------------------
(* The runtime: each session on its own.                                   *)

\* A caller on its way to cancel() holds a session a Stop was called for, and
\* one that builds holds the session it dialled.
Holds ==
    \A c \in Caller : /\ pc[c] = "cancel" => mine[c] \in MountSession \cap asked
                      /\ pc[c] = "build" => mine[c] \in MountSession

\* What RunWithHeartbeat has received was returned, and a session that has
\* not begun or was given up has no goroutine at work.
Received ==
    \A s \in MountSession :
        /\ "host" \in taken[s] => host[s] \in {"nil", "error"}
        /\ "beat" \in taken[s] => beat[s] \in {"canceled", "error"}
        /\ stage[s] \in {"none", "dialled", "launched"} => host[s] = "none" /\ beat[s] = "none"
        /\ stage[s] \in {"nil", "error"} => taken[s] = {"host", "beat"}

\* Why the inner context of a session was cancelled.
Reasons ==
    \A s \in MountSession :
        /\ s \in runDone => s \in asked \/ host[s] \in {"nil", "error"} \/ beat[s] = "error"
        /\ host[s] = "nil" => s \in asked \/ beat[s] = "error"
        /\ stage[s] = "nil" => s \in asked

\* The sessions not dialled yet have not begun.
Numbered == \A s \in MountSession : s > dialled => stage[s] = "none"

\* A caller that builds is the only one to build that session.
Builds ==
    \A c \in Caller : pc[c] = "build" => stage[mine[c]] = "dialled"
                        /\ \A d \in Caller : pc[d] = "build" /\ mine[d] = mine[c] => d = c

MountInv ==
    /\ RuntimeTypeOK /\ StopsItsOwn /\ ClosedAfterUse
    /\ Holds /\ Received /\ Reasons /\ Numbered /\ Builds

\* The initial state satisfies the invariant.
LEMMA MountInvInit == RuntimeInit => MountInv
  <1> SUFFICES ASSUME RuntimeInit PROVE MountInv
    BY Zenon
  <1>1. erased \in BOOLEAN
    BY Zenon DEF RuntimeInit
  <1>2. RuntimeTypeOK
    BY <1>1, BoundAssumption DEF RuntimeInit, RuntimeTypeOK, MountSession, Phase, Stage, Host, Beat
  <1>3. QED
    BY Zenon, <1>2, BoundAssumption DEF RuntimeInit, MountInv, StopsItsOwn, ClosedAfterUse, Holds, Received,
       Reasons, Numbered, Builds, MountSession

\* Every step keeps the invariant, one case per action.
LEMMA MountInvNext == MountInv /\ [RuntimeNext]_runtimeVars => MountInv'
  <1> SUFFICES ASSUME MountInv, [RuntimeNext]_runtimeVars PROVE MountInv'
    BY Zenon
  <1> USE BoundAssumption DEF MountInv, RuntimeTypeOK, StopsItsOwn, ClosedAfterUse, Holds, Received,
          Reasons, Numbered, Builds, MountSession, Phase, Stage, Host, Beat, callerVars, sessionVars
  <1>1. ASSUME NEW c \in Caller, StartInvalid(c) PROVE MountInv'
    BY SMTT(30), <1>1 DEF StartInvalid
  <1>2. ASSUME NEW c \in Caller, StartBegin(c) PROVE MountInv'
    BY SMTT(30), <1>2 DEF StartBegin, Busy
  <1>3. ASSUME NEW c \in Caller, Dial(c) PROVE MountInv'
    BY SMTT(30), <1>3 DEF Dial
  <1>4. ASSUME NEW c \in Caller, DialFailed(c) PROVE MountInv'
    BY SMTT(30), <1>4 DEF DialFailed
  <1>5. ASSUME NEW c \in Caller, BuildFailed(c) PROVE MountInv'
    BY SMTT(30), <1>5 DEF BuildFailed
  <1>6. ASSUME NEW c \in Caller, StartFailed(c) PROVE MountInv'
    BY SMTT(30), <1>6 DEF StartFailed
  <1>7. ASSUME NEW c \in Caller, StartMounted(c) PROVE MountInv'
    BY SMTT(30), <1>7 DEF StartMounted
  <1>8. ASSUME NEW c \in Caller, StopBegin(c) PROVE MountInv'
    <2>1. cancel \in MountSession
      BY SMTT(30), <1>8 DEF StopBegin
    <2>2. RuntimeTypeOK' /\ StopsItsOwn' /\ ClosedAfterUse'
      BY SMTT(30), <1>8, <2>1 DEF StopBegin
    <2>3. Holds' /\ Received' /\ Numbered' /\ Builds'
      BY SMTT(30), <1>8, <2>1 DEF StopBegin
    <2>4. Reasons'
      BY Zenon, <1>8, <2>1 DEF StopBegin
    <2>5. QED
      BY Zenon, <2>2, <2>3, <2>4
  <1>9. ASSUME NEW c \in Caller, StopCancel(c) PROVE MountInv'
    <2>1. mine[c] \in MountSession /\ mine[c] \in asked
      BY Zenon, <1>9 DEF StopCancel
    <2>2. RuntimeTypeOK' /\ ClosedAfterUse'
      BY ZenonT(30), <1>9, <2>1 DEF StopCancel
    <2>6. StopsItsOwn'
      <3>1. ctxDone' = ctxDone \cup {mine[c]} /\ asked' = asked /\ ctxDone \subseteq asked
        BY Zenon, <1>9 DEF StopCancel
      <3> HIDE DEF RuntimeTypeOK, ClosedAfterUse, Holds, Received, Reasons, Numbered, Builds, MountInv
      <3>2. QED
        BY Zenon, <2>1, <3>1
    <2>3. Holds' /\ Received' /\ Numbered' /\ Builds'
      BY SMTT(30), <1>9, <2>1 DEF StopCancel
    <2>4. Reasons'
      BY SMTT(30), <1>9, <2>1 DEF StopCancel
    <2>5. QED
      BY Zenon, <2>2, <2>3, <2>4, <2>6
  <1>10. ASSUME NEW s \in MountSession, RunBegin(s) PROVE MountInv'
    BY SMTT(30), <1>10 DEF RunBegin
  <1>11. ASSUME NEW s \in MountSession, HostReturns(s, "nil") PROVE MountInv'
    BY SMTT(30), <1>11 DEF HostReturns
  <1>12. ASSUME NEW s \in MountSession, HostReturns(s, "error") PROVE MountInv'
    BY SMTT(30), <1>12 DEF HostReturns
  <1>13. ASSUME NEW s \in MountSession, BeatCanceled(s) PROVE MountInv'
    BY SMTT(30), <1>13 DEF BeatCanceled
  <1>14. ASSUME NEW s \in MountSession, BeatFires(s) PROVE MountInv'
    <2>1. RuntimeTypeOK' /\ StopsItsOwn' /\ ClosedAfterUse'
      BY SMTT(30), <1>14 DEF BeatFires
    <2>2. Holds' /\ Received' /\ Numbered' /\ Builds' /\ Reasons'
      BY SMTT(30), <1>14 DEF BeatFires
    <2>3. QED
      BY Zenon, <2>1, <2>2
  <1>15. ASSUME NEW s \in MountSession, NEW ok \in BOOLEAN, BeatAnswered(s, ok) PROVE MountInv'
    BY SMTT(30), <1>15 DEF BeatAnswered
  <1>16. ASSUME NEW s \in MountSession, TakeHost(s) PROVE MountInv'
    BY SMTT(30), <1>16 DEF TakeHost
  <1>17. ASSUME NEW s \in MountSession, TakeBeat(s) PROVE MountInv'
    BY SMTT(30), <1>17 DEF TakeBeat
  <1>18. ASSUME NEW s \in MountSession, RunReturns(s) PROVE MountInv'
    <2>1. RunResult(s) \in {"nil", "error"}
      BY Zenon DEF RunResult
    <2>2. ASSUME RunResult(s) = "nil" PROVE s \in asked
      <3>1. host[s] # "error" /\ beat[s] # "error"
        BY Zenon, <2>2 DEF RunResult
      <3>2. host[s] = "nil"
        BY Zenon, <1>18, <3>1 DEF RunReturns
      <3>3. QED
        BY Zenon, <3>1, <3>2
    <2>3. QED
      <3>1. RuntimeTypeOK'
        BY Zenon, <1>18, <2>1 DEF RunReturns
      <3>5. StopsItsOwn'
        BY Zenon, <1>18 DEF RunReturns
      <3>6. ClosedAfterUse'
        <4> SUFFICES ASSUME NEW t \in MountSession, stage'[t] \in {"nil", "error", "over"}
                     PROVE  host'[t] # "up" /\ beat'[t] \notin {"timer", "asking"}
          BY Zenon
        <4>1. CASE t = s
          <5>1. host[s] # "up" /\ beat[s] \notin {"timer", "asking"}
            BY Zenon, <1>18 DEF RunReturns
          <5>2. QED
            BY Zenon, <1>18, <4>1, <5>1 DEF RunReturns
        <4>2. CASE t # s
          <5>1. stage'[t] = stage[t]
            BY SMTT(30), <1>18, <4>2 DEF RunReturns
          <5>2. QED
            BY Zenon, <1>18, <5>1 DEF RunReturns
        <4>3. QED
          BY Zenon, <4>1, <4>2
      <3>2. Holds' /\ Received' /\ Numbered' /\ Builds'
        BY SMTT(30), <1>18, <2>1 DEF RunReturns
      <3>3. Reasons'
        BY SMTT(30), <1>18, <2>1, <2>2 DEF RunReturns
      <3>4. QED
        BY Zenon, <3>1, <3>2, <3>3, <3>5, <3>6
  <1>19. ASSUME NEW s \in MountSession, SessionEnded(s) PROVE MountInv'
    BY SMTT(30), <1>19 DEF SessionEnded
  <1>20. CASE UNCHANGED runtimeVars
    BY SMTT(30), <1>20 DEF runtimeVars
  <1> HIDE DEF MountInv
  <1>21. QED
    BY Zenon, <1>1, <1>2, <1>3, <1>4, <1>5, <1>6, <1>7, <1>8, <1>9, <1>10, <1>11, <1>12, <1>13, <1>14, <1>15, <1>16, <1>17, <1>18, <1>19, <1>20
       DEF RuntimeNext, CallerWork, SessionWork, Server

\* The invariant holds throughout.
LEMMA MountInvAlways == RuntimeSpec => []MountInv
  <1>1. RuntimeInit => MountInv
    BY Zenon, MountInvInit
  <1>2. MountInv /\ [RuntimeNext]_runtimeVars => MountInv'
    BY Zenon, MountInvNext
  <1>3. QED
    BY <1>1, <1>2, PTL DEF RuntimeSpec

\* The state is well typed, whatever callers do and however often Start and
\* Stop overlap (runtime.go, heartbeat.go).
THEOREM RuntimeTypeCorrect == RuntimeSpec => []RuntimeTypeOK
  <1>1. MountInv => RuntimeTypeOK
    BY Zenon DEF MountInv
  <1>2. QED
    BY <1>1, MountInvAlways, PTL

\* Stop calls the cancel function it read under the lock: it never ends a
\* session that no Stop was called for.
THEOREM StopHitsItsOwn == RuntimeSpec => []StopsItsOwn
  <1>1. MountInv => StopsItsOwn
    BY Zenon DEF MountInv
  <1>2. QED
    BY <1>1, MountInvAlways, PTL

\* The connection of a session is closed only when both goroutines of
\* RunWithHeartbeat have returned.
THEOREM ClosedAfterBothReturn == RuntimeSpec => []ClosedAfterUse
  <1>1. MountInv => ClosedAfterUse
    BY Zenon DEF MountInv
  <1>2. QED
    BY <1>1, MountInvAlways, PTL

\* A mount that nobody stopped is never shown as stopped cleanly.
THEOREM FailuresAreShown == RuntimeSpec => FailureIsShown
  <1> DEFINE Shown == \A s \in MountSession :
                 stage[s] \in {"nil", "error"} /\ stage'[s] = "over" /\ s \notin asked
                     => phase' = "error"
  <1>1. MountInv /\ [RuntimeNext]_runtimeVars => [Shown]_runtimeVars
    <2> SUFFICES ASSUME MountInv, RuntimeNext,
                        NEW s \in MountSession,
                        stage[s] \in {"nil", "error"}, stage'[s] = "over", s \notin asked
                 PROVE  phase' = "error"
      BY Zenon DEF runtimeVars
    <2>1. stage[s] = "error" /\ s \notin ctxDone
      BY Zenon DEF MountInv, Reasons, StopsItsOwn
    <2>2. stage \in [MountSession -> Stage] /\ \A c \in Caller : pc[c] = "build" => mine[c] # s
      BY Zenon, <2>1 DEF MountInv, RuntimeTypeOK, Builds
    <2>3. ASSUME NEW t \in MountSession, SessionEnded(t) PROVE phase' = "error"
      <3>1. t = s
        BY Zenon, <2>2, <2>3 DEF SessionEnded
      <3>2. QED
        BY Zenon, <2>1, <2>3, <3>1 DEF SessionEnded
    <2>4. ASSUME NEW c \in Caller,
                 StartInvalid(c) \/ StartBegin(c) \/ StopBegin(c) \/ CallerWork(c)
          PROVE  stage'[s] # "over"
      <3>1. CASE Dial(c)
        <4>1. stage' = [stage EXCEPT ![dialled + 1] = "dialled"]
          BY Zenon, <3>1 DEF Dial
        <4>2. QED
          BY Zenon, <2>1, <2>2, <4>1
      <3>2. CASE BuildFailed(c)
        BY Zenon, <2>1, <2>2, <3>2 DEF BuildFailed
      <3>3. CASE StartMounted(c)
        BY Zenon, <2>1, <2>2, <3>3 DEF StartMounted
      <3>4. QED
        BY Zenon, <2>1, <2>4, <3>1, <3>2, <3>3
           DEF CallerWork, StartInvalid, StartBegin, DialFailed, StartFailed, StopBegin,
               StopCancel, sessionVars
    <2>5. ASSUME NEW t \in MountSession,
                 \/ RunBegin(t) \/ HostReturns(t, "nil") \/ HostReturns(t, "error")
                 \/ BeatCanceled(t) \/ TakeHost(t) \/ TakeBeat(t) \/ RunReturns(t)
                 \/ BeatFires(t) \/ \E ok \in BOOLEAN : BeatAnswered(t, ok)
          PROVE  stage'[s] # "over"
      <3>1. CASE RunBegin(t)
        BY Zenon, <2>1, <2>2, <3>1 DEF RunBegin
      <3>2. CASE RunReturns(t)
        BY Zenon, <2>1, <2>2, <3>2 DEF RunReturns, RunResult
      <3>3. QED
        BY Zenon, <2>1, <2>5, <3>1, <3>2
           DEF HostReturns, BeatCanceled, TakeHost, TakeBeat, BeatFires, BeatAnswered
    <2>6. QED
      BY ZenonT(30), <2>2, <2>3, <2>4, <2>5 DEF RuntimeNext, SessionWork, Server
  <1>2. QED
    BY <1>1, MountInvAlways, PTL DEF RuntimeSpec, FailureIsShown

-----------------------------------------------------------------------------
(* The one owner of the runtime.                                            *)

Building(c) == pc[c] \in {"dial", "build", "failed"}

\* The runtime has one owner: a caller that is building, while the phase is
\* connecting, or the session `cancel' belongs to.
Ownership ==
    /\ \A c, d \in Caller : Building(c) /\ Building(d) => c = d
    /\ \A c \in Caller : Building(c) => phase = "connecting"
    /\ phase \in {"mounted", "stopping"} <=> cancel # 0
    /\ \A s \in MountSession : stage[s] = "dialled" => \E c \in Caller : pc[c] = "build" /\ mine[c] = s
    /\ \A s \in MountSession : stage[s] \in {"launched", "running", "nil", "error"} => cancel = s

OwnInv == MountInv /\ (~erased => Ownership)

\* Once a phase was erased this stays on record.
LEMMA ErasedKept == [RuntimeNext]_runtimeVars /\ ~erased' => ~erased
  BY Zenon DEF RuntimeNext, CallerWork, SessionWork, Server, StartInvalid, StartBegin, StopBegin, Dial,
     DialFailed, BuildFailed, StartFailed, StartMounted, StopCancel, RunBegin, HostReturns,
     BeatCanceled, BeatFires, BeatAnswered, TakeHost, TakeBeat, RunReturns, SessionEnded, runtimeVars

\* Every step that erases no phase keeps the owner unique.
LEMMA OwnershipNext == OwnInv /\ [RuntimeNext]_runtimeVars /\ ~erased' => Ownership'
  <1> SUFFICES ASSUME OwnInv, [RuntimeNext]_runtimeVars, ~erased' PROVE Ownership'
    BY Zenon
  <1>0. RuntimeTypeOK /\ Ownership /\ Builds /\ Holds /\ Numbered
    BY Zenon, ErasedKept DEF OwnInv, MountInv
  <1> USE BoundAssumption DEF Ownership, Building, RuntimeTypeOK, MountSession, Phase, Stage, callerVars, sessionVars
  <1>1. ASSUME NEW c \in Caller, StartBegin(c) PROVE Ownership'
    BY Zenon, <1>0, <1>1 DEF StartBegin, Busy
  <1>2. ASSUME NEW c \in Caller, Dial(c) PROVE Ownership'
    BY SMTT(30), <1>0, <1>2 DEF Dial, Numbered
  <1>3. ASSUME NEW c \in Caller, DialFailed(c) PROVE Ownership'
    BY SMTT(30), <1>0, <1>3 DEF DialFailed
  <1>4. ASSUME NEW c \in Caller, BuildFailed(c) PROVE Ownership'
    BY SMTT(30), <1>0, <1>4 DEF BuildFailed, Builds, Holds
  <1>5. ASSUME NEW c \in Caller, StartFailed(c) PROVE Ownership'
    BY SMTT(30), <1>0, <1>5 DEF StartFailed
  <1>6. ASSUME NEW c \in Caller, StartMounted(c) PROVE Ownership'
    BY SMTT(30), <1>0, <1>6 DEF StartMounted, Builds, Holds
  <1>7. ASSUME NEW c \in Caller, StopBegin(c) PROVE Ownership'
    BY Zenon, <1>0, <1>7 DEF StopBegin
  <1>8. ASSUME NEW c \in Caller, StopCancel(c) PROVE Ownership'
    BY SMTT(30), <1>0, <1>8 DEF StopCancel
  <1>9. ASSUME NEW s \in MountSession, RunBegin(s) PROVE Ownership'
    BY Zenon, <1>0, <1>9 DEF RunBegin
  <1>10. ASSUME NEW s \in MountSession, RunReturns(s) PROVE Ownership'
    BY Zenon, <1>0, <1>10 DEF RunReturns, RunResult
  <1>11. ASSUME NEW s \in MountSession, SessionEnded(s) PROVE Ownership'
    BY SMTT(30), <1>0, <1>11 DEF SessionEnded
  <1>12. ASSUME NEW s \in MountSession,
               \/ HostReturns(s, "nil") \/ HostReturns(s, "error") \/ BeatCanceled(s)
               \/ TakeHost(s) \/ TakeBeat(s) \/ BeatFires(s)
               \/ \E ok \in BOOLEAN : BeatAnswered(s, ok)
        PROVE  Ownership'
    <2>1. UNCHANGED <<phase, cancel, pc, mine, stage>>
      BY Zenon, <1>12 DEF HostReturns, BeatCanceled, TakeHost, TakeBeat, BeatFires, BeatAnswered
    <2>2. QED
      BY Zenon, <1>0, <2>1
  <1>13. ASSUME NEW c \in Caller, StartInvalid(c) PROVE Ownership'
    <2>1. ~Busy /\ phase' = "error" /\ UNCHANGED <<cancel, pc, mine, stage>>
      BY Zenon, <1>13 DEF StartInvalid
    <2>2. QED
      BY Zenon, <1>0, <2>1 DEF Busy
  <1>14. CASE UNCHANGED runtimeVars
    BY Zenon, <1>0, <1>14 DEF runtimeVars
  <1> HIDE DEF Ownership
  <1>15. QED
    BY Zenon, <1>1, <1>2, <1>3, <1>4, <1>5, <1>6, <1>7, <1>8, <1>9, <1>10, <1>11, <1>12, <1>13, <1>14
       DEF RuntimeNext, CallerWork, SessionWork, Server

\* The owner is unique until a phase is erased.
LEMMA OwnInvAlways == RuntimeSpec => []OwnInv
  <1>1. RuntimeInit => OwnInv
    BY Zenon, MountInvInit, BoundAssumption DEF OwnInv, Ownership, Building, RuntimeInit, MountSession
  <1>2. OwnInv /\ [RuntimeNext]_runtimeVars => OwnInv'
    BY Zenon, MountInvNext, OwnershipNext DEF OwnInv
  <1>3. QED
    BY <1>1, <1>2, PTL DEF RuntimeSpec

\* However Start, Stop and the end of a session overlap, the runtime never
\* has two connections unless an invalid Start has erased a phase: its busy
\* check and the order in which a session is closed and reported suffice.
THEOREM SingleSession == RuntimeSpec => []OneSession
  <1>1. OwnInv => OneSession
    BY SMTT(30) DEF OwnInv, MountInv, RuntimeTypeOK, Ownership, Building, OneSession, Connected, MountSession
  <1>2. QED
    BY <1>1, OwnInvAlways, PTL

\* Under the same condition the phase the UI shows agrees with the session
\* that is there.
THEOREM PhaseIsTruthful == RuntimeSpec => []PhaseTruthful
  <1>1. OwnInv => PhaseTruthful
    BY SMTT(30) DEF OwnInv, MountInv, RuntimeTypeOK, Ownership, Building, PhaseTruthful, Connected, MountSession
  <1>2. QED
    BY <1>1, OwnInvAlways, PTL

=============================================================================
