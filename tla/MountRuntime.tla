---------------------------- MODULE MountRuntime ----------------------------
(***************************************************************************)
(* The mount runtime of the Windows client                                 *)
(* (internal/winclientruntime/runtime.go) with the session it runs:        *)
(* RunWithHeartbeat and RunHeartbeatLoop (internal/clientcore/heartbeat.go)*)
(* around the WinFsp host.                                                 *)
(*                                                                         *)
(* Callers of Start and Stop, the goroutine that waits for a session, the  *)
(* host and the heartbeat loop interleave; one action is one critical      *)
(* section of r.mu, or one step that blocks or that another goroutine sees.*)
(* Of the Snapshot only the phase is kept, of a session only how far it is.*)
(***************************************************************************)
EXTENDS Integers

CONSTANTS
    Caller,         \* goroutines that call Start and Stop
    MaxMounts       \* bound: connections that are ever dialled

ASSUME BoundAssumption == MaxMounts \in Nat

VARIABLES
    phase,      \* Runtime.state.Phase
    cancel,     \* the session Runtime.cancel belongs to, 0 for nil
    pc,         \* per caller: the next step of its Start or Stop
    mine,       \* per caller: the session it builds or is about to cancel
    dialled,    \* sessions numbered so far
    stage,      \* per session: how far it is
    ctxDone,    \* sessions whose context was cancelled (waitForSession's ctx)
    runDone,    \* sessions whose inner context was cancelled (runCtx)
    host,       \* per session: the host.Run goroutine
    beat,       \* per session: the RunHeartbeatLoop goroutine
    taken,      \* per session: whose result RunWithHeartbeat has received
    asked,      \* history: sessions a Stop was called for
    erased      \* history: an invalid Start has overwritten a state in use

callerVars  == <<pc, mine, dialled>>
sessionVars == <<stage, ctxDone, runDone, host, beat, taken>>
runtimeVars == <<phase, cancel, pc, mine, dialled, stage, ctxDone, runDone, host, beat, taken,
                 asked, erased>>

MountSession == 1..MaxMounts

Phase == {"idle", "connecting", "mounted", "stopping", "error"}

\* dialled: Build has a connection; launched: the waiting goroutine was
\* started; running: RunWithHeartbeat is in its loop; nil, error: Run has
\* returned that and the connection is closed; over: waitForSession is done
\* or Build gave up.
Stage == {"none", "dialled", "launched", "running", "nil", "error", "over"}

\* up: at work; nil, error, canceled: returned that.
Host == {"none", "up", "nil", "error"}

Beat == {"none", "timer", "asking", "canceled", "error"}

RuntimeInit ==
    /\ phase = "idle" /\ cancel = 0
    /\ pc = [c \in Caller |-> "idle"]
    /\ mine = [c \in Caller |-> 0]
    /\ dialled = 0
    /\ stage = [s \in MountSession |-> "none"]
    /\ ctxDone = {} /\ runDone = {}
    /\ host = [s \in MountSession |-> "none"]
    /\ beat = [s \in MountSession |-> "none"]
    /\ taken = [s \in MountSession |-> {}]
    /\ asked = {} /\ erased = FALSE

-----------------------------------------------------------------------------
(* Start.                                                                  *)

\* Variant: the phase is not looked at.
BusyByCancel == cancel # 0

Busy == cancel # 0 \/ phase \in {"connecting", "mounted", "stopping"}

\* A configuration that does not validate: transitionToError, whatever the
\* runtime is doing.
StartInvalid(c) ==
    /\ pc[c] = "idle"
    /\ phase' = "error"
    /\ erased' = (erased \/ Busy)
    /\ UNCHANGED <<cancel, callerVars, sessionVars, asked>>

\* A busy runtime answers an error and changes nothing.
StartBegin(c) ==
    /\ pc[c] = "idle" /\ ~Busy
    /\ phase' = "connecting"
    /\ pc' = [pc EXCEPT ![c] = "dial"]
    /\ UNCHANGED <<cancel, mine, dialled, sessionVars, asked, erased>>

Dial(c) ==
    /\ pc[c] = "dial" /\ dialled < MaxMounts
    /\ dialled' = dialled + 1
    /\ mine' = [mine EXCEPT ![c] = dialled + 1]
    /\ stage' = [stage EXCEPT ![dialled + 1] = "dialled"]
    /\ pc' = [pc EXCEPT ![c] = "build"]
    /\ UNCHANGED <<phase, cancel, ctxDone, runDone, host, beat, taken, asked, erased>>

DialFailed(c) ==
    /\ pc[c] = "dial"
    /\ pc' = [pc EXCEPT ![c] = "failed"]
    /\ UNCHANGED <<phase, cancel, mine, dialled, sessionVars, asked, erased>>

\* Variant: the connection of a failed Build is not closed.
BuildFailedOpen(c) ==
    /\ pc[c] = "build"
    /\ pc' = [pc EXCEPT ![c] = "failed"]
    /\ UNCHANGED <<phase, cancel, mine, dialled, sessionVars, asked, erased>>

\* The handshake, the first heartbeat or the probe of the host fails.
BuildFailed(c) ==
    /\ pc[c] = "build"
    /\ stage' = [stage EXCEPT ![mine[c]] = "over"]
    /\ pc' = [pc EXCEPT ![c] = "failed"]
    /\ UNCHANGED <<phase, cancel, mine, dialled, ctxDone, runDone, host, beat, taken, asked, erased>>

StartFailed(c) ==
    /\ pc[c] = "failed"
    /\ phase' = "error"
    /\ pc' = [pc EXCEPT ![c] = "idle"]
    /\ UNCHANGED <<cancel, mine, dialled, sessionVars, asked, erased>>

StartMounted(c) ==
    /\ pc[c] = "build"
    /\ cancel' = mine[c]
    /\ phase' = "mounted"
    /\ stage' = [stage EXCEPT ![mine[c]] = "launched"]
    /\ pc' = [pc EXCEPT ![c] = "idle"]
    /\ UNCHANGED <<mine, dialled, ctxDone, runDone, host, beat, taken, asked, erased>>

-----------------------------------------------------------------------------
(* Stop: the cancel function is read under the lock and called after it.   *)

StopBegin(c) ==
    /\ pc[c] = "idle" /\ cancel # 0
    /\ phase' = "stopping"
    /\ mine' = [mine EXCEPT ![c] = cancel]
    /\ asked' = asked \cup {cancel}
    /\ pc' = [pc EXCEPT ![c] = "cancel"]
    /\ UNCHANGED <<cancel, dialled, sessionVars, erased>>

\* runCtx is derived from ctx and is cancelled with it.
StopCancel(c) ==
    /\ pc[c] = "cancel"
    /\ ctxDone' = ctxDone \cup {mine[c]}
    /\ runDone' = runDone \cup {mine[c]}
    /\ pc' = [pc EXCEPT ![c] = "idle"]
    /\ UNCHANGED <<phase, cancel, mine, dialled, stage, host, beat, taken, asked, erased>>

-----------------------------------------------------------------------------
(* The session: RunWithHeartbeat with its two goroutines.                  *)

RunBegin(s) ==
    /\ stage[s] = "launched"
    /\ stage' = [stage EXCEPT ![s] = "running"]
    /\ host' = [host EXCEPT ![s] = "up"]
    /\ beat' = [beat EXCEPT ![s] = "timer"]
    /\ UNCHANGED <<phase, cancel, callerVars, ctxDone, runDone, taken, asked, erased>>

\* host.Run returns an error while it starts up, or nil once its context is
\* cancelled.
HostReturns(s, result) ==
    /\ host[s] = "up"
    /\ result = "error" \/ s \in runDone
    /\ host' = [host EXCEPT ![s] = result]
    /\ UNCHANGED <<phase, cancel, callerVars, stage, ctxDone, runDone, beat, taken, asked, erased>>

\* select: when both are ready either may be taken.
BeatCanceled(s) ==
    /\ beat[s] = "timer" /\ s \in runDone
    /\ beat' = [beat EXCEPT ![s] = "canceled"]
    /\ UNCHANGED <<phase, cancel, callerVars, stage, ctxDone, runDone, host, taken, asked, erased>>

BeatFires(s) ==
    /\ beat[s] = "timer"
    /\ beat' = [beat EXCEPT ![s] = "asking"]
    /\ UNCHANGED <<phase, cancel, callerVars, stage, ctxDone, runDone, host, taken, asked, erased>>

\* The request has no deadline and does not look at the context.
BeatAnswered(s, ok) ==
    /\ beat[s] = "asking"
    /\ beat' = [beat EXCEPT ![s] = IF ok THEN "timer" ELSE "error"]
    /\ UNCHANGED <<phase, cancel, callerVars, stage, ctxDone, runDone, host, taken, asked, erased>>

TakeHost(s) ==
    /\ stage[s] = "running" /\ "host" \notin taken[s]
    /\ host[s] \in {"nil", "error"}
    /\ taken' = [taken EXCEPT ![s] = @ \cup {"host"}]
    /\ runDone' = runDone \cup {s}
    /\ UNCHANGED <<phase, cancel, callerVars, stage, ctxDone, host, beat, asked, erased>>

\* Variant: a failed heartbeat does not end the host.
TakeBeatOnly(s) ==
    /\ stage[s] = "running" /\ "beat" \notin taken[s]
    /\ beat[s] \in {"canceled", "error"}
    /\ taken' = [taken EXCEPT ![s] = @ \cup {"beat"}]
    /\ UNCHANGED <<phase, cancel, callerVars, stage, ctxDone, runDone, host, beat, asked, erased>>

TakeBeat(s) ==
    /\ stage[s] = "running" /\ "beat" \notin taken[s]
    /\ beat[s] \in {"canceled", "error"}
    /\ taken' = [taken EXCEPT ![s] = @ \cup {"beat"}]
    /\ runDone' = IF beat[s] = "error" THEN runDone \cup {s} ELSE runDone
    /\ UNCHANGED <<phase, cancel, callerVars, stage, ctxDone, host, beat, asked, erased>>

\* Variant: only the host's error is returned.
RunResultOfHost(s) == IF host[s] = "error" THEN "error" ELSE "nil"

RunResult(s) == IF "error" \in {host[s], beat[s]} THEN "error" ELSE "nil"

\* Variant: one result is enough to leave the loop.
RunReturnsOnFirst(s) ==
    /\ stage[s] = "running" /\ taken[s] # {}
    /\ stage' = [stage EXCEPT ![s] = RunResult(s)]
    /\ UNCHANGED <<phase, cancel, callerVars, ctxDone, runDone, host, beat, taken, asked, erased>>

\* RunWithHeartbeat returns and defaultSession.Run closes the connection.
RunReturns(s) ==
    /\ stage[s] = "running" /\ taken[s] = {"host", "beat"}
    /\ stage' = [stage EXCEPT ![s] = RunResult(s)]
    /\ UNCHANGED <<phase, cancel, callerVars, ctxDone, runDone, host, beat, taken, asked, erased>>

\* The rest of waitForSession.
SessionEnded(s) ==
    /\ stage[s] \in {"nil", "error"}
    /\ cancel' = 0
    /\ phase' = IF stage[s] = "nil" \/ s \in ctxDone THEN "idle" ELSE "error"
    /\ stage' = [stage EXCEPT ![s] = "over"]
    /\ UNCHANGED <<callerVars, ctxDone, runDone, host, beat, taken, asked, erased>>

-----------------------------------------------------------------------------
CallerWork(c) ==
    \/ Dial(c) \/ DialFailed(c) \/ BuildFailed(c) \/ StartFailed(c) \/ StartMounted(c)
    \/ StopCancel(c)

SessionWork(s) ==
    \/ RunBegin(s) \/ HostReturns(s, "nil") \/ BeatCanceled(s)
    \/ TakeHost(s) \/ TakeBeat(s) \/ RunReturns(s) \/ SessionEnded(s)

Server(s) == \E ok \in BOOLEAN : BeatAnswered(s, ok)

RuntimeNext ==
    \/ \E c \in Caller : StartInvalid(c) \/ StartBegin(c) \/ StopBegin(c) \/ CallerWork(c)
    \/ \E s \in MountSession : \/ SessionWork(s) \/ HostReturns(s, "error")
                          \/ BeatFires(s) \/ Server(s)

RuntimeSpec == RuntimeInit /\ [][RuntimeNext]_runtimeVars

\* Goroutines that can go on do.
Scheduled ==
    /\ \A c \in Caller : WF_runtimeVars(CallerWork(c))
    /\ \A s \in MountSession : WF_runtimeVars(SessionWork(s)) /\ SF_runtimeVars(BeatCanceled(s))

\* The server answers each heartbeat, or the connection breaks.
Answered == \A s \in MountSession : WF_runtimeVars(Server(s))

FairSpec == RuntimeSpec /\ Scheduled /\ Answered

-----------------------------------------------------------------------------
(* Properties.                                                             *)

\* The runtime, its callers and its sessions are in states the code knows.
RuntimeTypeOK ==
    /\ phase \in Phase /\ cancel \in 0..MaxMounts
    /\ pc \in [Caller -> {"idle", "dial", "build", "failed", "cancel"}]
    /\ mine \in [Caller -> 0..MaxMounts]
    /\ dialled \in 0..MaxMounts
    /\ stage \in [MountSession -> Stage]
    /\ ctxDone \subseteq MountSession /\ runDone \subseteq MountSession
    /\ host \in [MountSession -> Host] /\ beat \in [MountSession -> Beat]
    /\ taken \in [MountSession -> SUBSET {"host", "beat"}]
    /\ asked \subseteq MountSession /\ erased \in BOOLEAN

Connected == {s \in MountSession : stage[s] \in {"dialled", "launched", "running"}}

\* The runtime holds one session at a time: the connection of the previous
\* one is closed before Start dials again, and a failed Start leaves none.  A
\* Start with an invalid configuration that comes while the runtime is in use
\* erases the phase the busy check needs, and ends this.
OneSession == ~erased => \A s, t \in Connected : s = t

\* What the UI is shown is what is there: nothing is connected or can be
\* stopped while the phase is idle or error, and a session that is mounted
\* or stopping can be stopped.  Again until an invalid Start erases a phase.
PhaseTruthful ==
    ~erased =>
      /\ phase \in {"idle", "error"} => cancel = 0 /\ Connected = {}
      /\ phase \in {"mounted", "stopping"} => cancel # 0

\* A Stop cancels the session that was mounted when it was called, never one
\* that was started since.
StopsItsOwn == ctxDone \subseteq asked

\* The connection is closed only after the host and the heartbeat loop have
\* returned, so neither uses a closed client (RunWithHeartbeat waits for both).
ClosedAfterUse ==
    \A s \in MountSession : stage[s] \in {"nil", "error", "over"} =>
        host[s] # "up" /\ beat[s] \notin {"timer", "asking"}

\* A mount that ends without having been stopped ends as an error the user
\* sees, whether the host or the heartbeat failed.
FailureIsShown ==
    [][\A s \in MountSession : stage[s] \in {"nil", "error"} /\ stage'[s] = "over" /\ s \notin asked
                            => phase' = "error"]_runtimeVars

\* Once asked to, a mount stops; and once its host or its heartbeat has
\* failed, it does not stay mounted.
StopCompletes ==
    \A s \in MountSession : (s \in asked \/ "error" \in {host[s], beat[s]}) ~> stage[s] = "over"

=============================================================================
