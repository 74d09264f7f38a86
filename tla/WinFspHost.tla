----------------------------- MODULE WinFspHost -----------------------------
(***************************************************************************)
(* The WinFsp host: Host.Run (internal/winfsp/host_windows.go) and         *)
(* runDispatcherHostV1 (dispatcher_windows.go), the native file system and *)
(* the functions WinFsp calls (dispatcher_native_windows.go), and the      *)
(* warm-up that DispatcherService.Start makes through the ABI and the      *)
(* bridge (dispatcher_service.go, dispatcher_abi.go, dispatcher_bridge.go).*)
(* Or, without a mount, a command of cmd/devmount-winfsp.                  *)
(*                                                                         *)
(* WinFsp (external) calls from its own threads from when its dispatcher   *)
(* starts, closes a file context once, when no other call uses it, and     *)
(* waits for the calls in progress when the dispatcher is stopped.         *)
(***************************************************************************)
EXTENDS MountHandles, MountPoint

VARIABLES
    step,           \* the next call of a script
    backend,        \* BindingInfo.EffectiveBackend
    dll,            \* references to the WinFsp DLL that are held
    fs,             \* the file system: none, created, deleted
    registered,     \* nativeFSRegistry has the file system
    dispatching,    \* the dispatcher's threads run
    running,        \* DispatcherServiceState.Running
    probeFailed     \* history: the probe of the mounted root has failed

hostVars == <<stage, step, backend, dll, fs, registered, dispatching, running, probeFailed, planVars>>
vars == <<mhVars, hostVars>>

\* The operations of devmount-winfsp that use the callbacks instead of mounting.
Command == [getattr |-> <<"info">>,
            readdir |-> <<"opendir", "list", "close">>,
            read    |-> <<"openfile", "read", "close">>]

Init ==
    /\ MHInit
    /\ \/ stage = "fields" /\ step = 0 /\ PlanInit
       \/ /\ stage \in DOMAIN Command /\ step = 1
          /\ plan = NoPlan /\ places = NoPlaces /\ raced = FALSE
    /\ backend = "none"
    /\ dll = 0 /\ fs = "none" /\ registered = FALSE /\ dispatching = FALSE
    /\ running = FALSE
    /\ probeFailed = FALSE

-----------------------------------------------------------------------------
(* The host's own calls.                                                   *)

\* DispatcherService.Start: Initialize of the bridge and the warm-up of root
\* and security ask for the root's attributes, and must succeed; the errors of
\* the rest are ignored.  Calls that are denied on sight are left out.
Warmup == <<"must", "must", "must", "must",
            "opendir", "list", "flush", "cleanup", "close",
            "info",
            "openfile", "delete", "cleanup", "close">>

\* rootDirectoryHasVisibleEntries, past the ABI.
Snapshot == <<"opendir", "list", "close">>

Script == CASE stage = "warm" -> Warmup
            [] stage \in DOMAIN Command -> Command[stage]
            [] OTHER -> Snapshot

\* A failed open skips to past the close that belongs to it.
AfterCall ==
    IF Script[step] \in {"opendir", "openfile"} /\ answer = "error"
    THEN 1 + CHOOSE j \in step .. Len(Script) :
                 Script[j] = "close" /\ \A k \in step .. j - 1 : Script[k] # "close"
    ELSE step + 1

\* What the bridge passes on to the callbacks.  A handle is the one the host has.
BridgeCall(op) ==
    \/ op \in {"must", "info"} /\ ByPath(Host, "info")
    \/ op = "opendir" /\ ByPath(Host, "dir")
    \/ op = "openfile" /\ ByPath(Host, "file")
    \/ \E h \in Handle :
           /\ held[h] = "host"
           /\ \/ op \in {"list", "read"} /\ FindHandle(Host, op, h)
              \/ op \in {"flush", "cleanup", "delete"} /\ LookupHandle(Host, op, h) /\ UNCHANGED events
              \/ op = "close" /\ ForgetHandle(Host, h)

HostCall ==
    /\ stage \in {"warm", "snapshot"} \cup DOMAIN Command /\ step <= Len(Script)
    /\ pc[Host] = "idle" /\ answer = "none"
    /\ BridgeCall(Script[step])
    /\ UNCHANGED hostVars

\* A call has returned.  The service fails when one that must succeed has; a
\* command exits at once, and its deferred close is not made.
HostAnswer ==
    /\ pc[Host] = "idle" /\ answer # "none"
    /\ answer' = "none"
    /\ IF answer = "error" /\ Script[step] = "must" THEN stage' = "close" /\ step' = 0
       ELSE IF answer = "error" /\ stage \in DOMAIN Command /\ Script[step] # "close"
       THEN stage' = "fatal" /\ step' = 0
       ELSE stage' = stage /\ step' = AfterCall
    /\ UNCHANGED <<remote, mount, tracked, pc, reg, held, abandoned, events>>
    /\ UNCHANGED <<planVars, backend, dll, fs, registered, dispatching, running, probeFailed>>

Goto(s) == stage' = s /\ step' = 0

\* main of devmount-winfsp returns.
CommandReturns ==
    /\ stage \in DOMAIN Command /\ step > Len(Script)
    /\ Goto("returned")
    /\ UNCHANGED <<mhVars, planVars, backend, dll, fs, registered, dispatching, running, probeFailed>>

-----------------------------------------------------------------------------
(* Host.Run.                                                               *)

\* Host.Probe: probeBinding looks for the DLL, for its functions, and whether
\* WinFsp accepts the mount point.
findWinFspDLL(found) ==
    /\ stage = "probe"
    /\ Goto(IF found THEN "bindings" ELSE "returned")
    /\ UNCHANGED <<mhVars, planVars, backend, dll, fs, registered, dispatching, running, probeFailed>>

\* What is loaded here is never released, whether the functions are there or not.
probeDispatcherBindings(loads, ready) ==
    /\ stage = "bindings" /\ (ready => loads)
    /\ dll' = IF loads THEN dll + 1 ELSE dll
    /\ backend' = IF ready THEN "ready" ELSE "unready"
    /\ Goto("preflight")
    /\ UNCHANGED <<mhVars, planVars, fs, registered, dispatching, running, probeFailed>>

\* The DLL is loaded once more and released; drive letters and local directories
\* skip this.
preflightMount(ok) ==
    /\ stage = "preflight" /\ (plan.point.form \in {"drive", "local"} => ok)
    /\ Goto(IF ok THEN "choose" ELSE "returned")
    /\ UNCHANGED <<mhVars, planVars, backend, dll, fs, registered, dispatching, running, probeFailed>>

\* "auto" takes the dispatcher when it is ready, and waits when it is not.
probeBinding ==
    /\ stage = "choose"
    /\ IF plan.backend = "other" \/ (plan.backend = "dispatcher-v1" /\ backend = "unready")
       THEN Goto("returned") /\ UNCHANGED backend
       ELSE /\ backend' = IF backend = "ready" /\ plan.backend # "preflight" THEN "dispatcher" ELSE "preflight"
            /\ Goto(IF backend' = "dispatcher" THEN "create" ELSE "wait")
    /\ plan' = [plan EXCEPT !.backend = "none"]
    /\ UNCHANGED <<mhVars, places, raced, dll, fs, registered, dispatching, running, probeFailed>>

\* ctx.Done: the caller of Run has cancelled it.  The preflight backend only
\* waits for that.
Wait ==
    /\ stage = "wait"
    /\ Goto("returned")
    /\ UNCHANGED <<mhVars, planVars, backend, dll, fs, registered, dispatching, running, probeFailed>>

\* newNativeFileSystem: the functions are looked up again; Close releases the
\* DLL when WinFsp cannot create the file system.
CreateFails(leaked) ==
    /\ stage = "create"
    /\ dll' = dll + leaked
    /\ Goto("returned")
    /\ UNCHANGED <<mhVars, planVars, backend, fs, registered, dispatching, running, probeFailed>>

Create ==
    /\ stage = "create"
    /\ dll' = dll + 1 /\ fs' = "created" /\ registered' = TRUE
    /\ stage' = "warm" /\ step' = 1
    /\ UNCHANGED <<mhVars, planVars, backend, dispatching, running, probeFailed>>

Warm ==
    /\ stage = "warm" /\ step > Len(Warmup)
    /\ running' = TRUE
    /\ Goto("mountpoint")
    /\ UNCHANGED <<mhVars, planVars, backend, dll, fs, registered, dispatching, probeFailed>>

\* Variant: Close is not deferred.
StartFailsOpen ==
    /\ \/ stage \in {"mountpoint", "dispatch"}
       \/ stage = "snapshot" /\ step > Len(Snapshot)
    /\ probeFailed' = (stage = "snapshot")
    /\ running' = FALSE
    /\ Goto("returned")
    /\ UNCHANGED <<mhVars, planVars, backend, dll, fs, registered, dispatching>>

\* native.Start: WinFsp refuses the mount point or the dispatcher, or the mounted
\* root cannot be listed; the service is stopped, and the deferred Close follows.
\* In the last case the dispatcher runs on.
StartFails ==
    /\ \/ stage \in {"mountpoint", "dispatch"}
       \/ stage = "snapshot" /\ step > Len(Snapshot)
    /\ probeFailed' = (stage = "snapshot")
    /\ running' = FALSE
    /\ Goto("close")
    /\ UNCHANGED <<mhVars, planVars, backend, dll, fs, registered, dispatching>>

\* From here on the plan and the places no longer matter.
SetMountPoint ==
    /\ stage = "mountpoint" /\ Mountable(plan.point)
    /\ Goto("dispatch")
    /\ plan' = NoPlan /\ places' = NoPlaces /\ raced' = FALSE
    /\ UNCHANGED <<mhVars, backend, dll, fs, registered, dispatching, running, probeFailed>>

StartDispatcher ==
    /\ stage = "dispatch"
    /\ dispatching' = TRUE
    /\ stage' = "snapshot" /\ step' = 1
    /\ UNCHANGED <<mhVars, planVars, backend, dll, fs, registered, running, probeFailed>>

Serve ==
    /\ stage = "snapshot" /\ step > Len(Snapshot)
    /\ Goto("serving")
    /\ UNCHANGED <<mhVars, planVars, backend, dll, fs, registered, dispatching, running, probeFailed>>

Stop ==
    /\ stage = "serving"
    /\ Goto("stop")
    /\ UNCHANGED <<mhVars, planVars, backend, dll, fs, registered, dispatching, running, probeFailed>>

\* Variant: the open files must be closed first.
StoppedUnused ==
    /\ stage = "stop" /\ \A t \in Kernel : pc[t] = "idle"
    /\ \A h \in Handle : held[h] # "kernel"
    /\ dispatching' = FALSE /\ running' = FALSE
    /\ Goto("close")
    /\ UNCHANGED <<mhVars, planVars, backend, dll, fs, registered, probeFailed>>

\* native.Stop returns when the dispatcher's threads have, and service.Stop follows.
Stopped ==
    /\ stage = "stop" /\ \A t \in Kernel : pc[t] = "idle"
    /\ dispatching' = FALSE /\ running' = FALSE
    /\ Goto("close")
    /\ UNCHANGED <<mhVars, planVars, backend, dll, fs, registered, probeFailed>>

\* native.Close: unregisterNativeFS, then FspFileSystemDelete and the DLL.
Unregister ==
    /\ stage = "close"
    /\ registered' = FALSE
    /\ Goto("delete")
    /\ UNCHANGED <<mhVars, planVars, backend, dll, fs, dispatching, running, probeFailed>>

Delete ==
    /\ stage = "delete"
    /\ fs' = "deleted" /\ dll' = dll - 1
    /\ Goto("returned")
    /\ UNCHANGED <<mhVars, planVars, backend, registered, dispatching, running, probeFailed>>

HostStep ==
    \/ \E yes \in BOOLEAN : findWinFspDLL(yes) \/ preflightMount(yes)
    \/ \E loads, ready \in BOOLEAN : probeDispatcherBindings(loads, ready)
    \/ probeBinding \/ CreateFails(0) \/ CreateFails(1) \/ Create \/ Warm \/ StartFails \/ SetMountPoint
    \/ StartDispatcher \/ Serve \/ Stopped \/ Unregister \/ Delete
    \/ HostCall \/ HostAnswer \/ CommandReturns

-----------------------------------------------------------------------------
(* The functions WinFsp calls.                                             *)

\* After FspFileSystemDelete nothing is assumed of WinFsp, and no call begins.
Dispatched(t) == dispatching /\ fs = "created" /\ stage # "stop" /\ pc[t] = "idle"

\* goOpen looks at the attributes first; FILE_DIRECTORY_FILE asks for a directory.
goOpen(t, goal) ==
    /\ Dispatched(t) /\ registered
    /\ ByPath(t, goal)
    /\ UNCHANGED hostVars

\* goRead, and goReadDirectory on a directory.
goRead(t, h) ==
    /\ Dispatched(t) /\ registered /\ held[h] = "kernel"
    /\ FindHandle(t, IF local[h].dir THEN "list" ELSE "read", h)
    /\ UNCHANGED hostVars

goGetSecurityByName(t) ==
    /\ Dispatched(t) /\ registered
    /\ ByPath(t, "info")
    /\ UNCHANGED hostVars

\* The path comes from the handle's state, with a name appended for an entry of a
\* directory.
goGetDirInfoByName(t, h) ==
    /\ Dispatched(t) /\ registered /\ held[h] = "kernel" /\ tracked[h].known
    /\ ByPath(t, "info")
    /\ UNCHANGED hostVars

\* The answer is that it is denied, when there is such a file.
goCanDelete(t, h) == goGetDirInfoByName(t, h)

\* WinFsp marks a handle.
Marking(t, h, goal) ==
    /\ Dispatched(t) /\ registered /\ held[h] = "kernel"
    /\ Event
    /\ LookupHandle(t, goal, h)
    /\ UNCHANGED hostVars

goCleanup(t, h) == Marking(t, h, "cleanup")
goFlush(t, h) == Marking(t, h, "flush")
goSetDelete(t, h) == Marking(t, h, "delete")

goClose(t, h) ==
    /\ Dispatched(t) /\ registered /\ held[h] = "kernel"
    /\ \A u \in Kernel : reg[u].h # h
    /\ ForgetHandle(t, h)
    /\ UNCHANGED hostVars

\* Without a registered file system a close does nothing and says so to nobody;
\* the other functions answer an internal error.
goCloseUnregistered(t, h) ==
    /\ Dispatched(t) /\ ~registered /\ held[h] = "kernel"
    /\ held' = [held EXCEPT ![h] = "none"]
    /\ UNCHANGED <<remote, mount, tracked, pc, reg, answer, abandoned, events, hostVars>>

KernelCall(t) ==
    \/ goOpen(t, "any") \/ goOpen(t, "dir") \/ goGetSecurityByName(t)
    \/ \E h \in Handle : \/ goRead(t, h) \/ goGetDirInfoByName(t, h) \/ goCanDelete(t, h)
                         \/ goCleanup(t, h) \/ goFlush(t, h) \/ goSetDelete(t, h)
                         \/ goClose(t, h) \/ goCloseUnregistered(t, h)

ContinueCall(t) == Continue(t) /\ UNCHANGED hostVars

Start == StartStep /\ UNCHANGED <<mhVars, step, backend, dll, fs, registered, dispatching, running, probeFailed>>

OtherProgram == OthersMount /\ UNCHANGED <<mhVars, step, backend, dll, fs, registered, dispatching, running, probeFailed>>

Next ==
    \/ Start \/ OtherProgram \/ HostStep \/ Wait \/ Stop
    \/ \E t \in Thread : ContinueCall(t)
    \/ \E t \in Kernel : KernelCall(t)

\* Requests end, WinFsp's threads and the host go on; nobody is made to call.
Spec == /\ Init /\ [][Next]_vars
        /\ WF_vars(Start) /\ WF_vars(HostStep)
        /\ \A t \in Thread : WF_vars(ContinueCall(t))

-----------------------------------------------------------------------------
(* Properties.                                                             *)

\* A server handle the volume has opened is in the mount core's table, or on its
\* way in or out of it, as long as no open and no close of it failed: none is
\* forgotten, however opens, closes and their answers interleave (mount.go,
\* Open, OpenDirectory, Close).
NoStrayHandles ==
    \A r \in 1..Len(remote) : remote[r] =>
        \/ r \in abandoned
        \/ \E h \in Handle : local[h].rem = r
        \/ \E t \in Thread : pc[t] \in {"store", "close"} /\ reg[t].rem = r

\* A handle that a caller has been given and has not closed is in both tables,
\* the server has it open, and no other handle stands for the same one (mount.go,
\* allocLocalHandleLocked; callbacks.go, trackHandle).
HandlesUsable ==
    \A h \in Handle : held[h] # "none" =>
        /\ tracked[h].known /\ local[h].rem # 0 /\ remote[local[h].rem]
        /\ \A g \in Handle \ {h} : local[g].rem # local[h].rem

\* Cleanup and Flush leave their mark until the handle is gone, unless two of
\* them overlapped and the later one wrote back what it had read before the
\* other (callbacks.go, Cleanup, Flush, updateHandle).
MarksStay ==
    [][\A h \in Handle : tracked[h].known /\ tracked'[h].known
           /\ ~(\E t \in Thread : pc[t] = "update" /\ reg[t].h = h /\ reg[t].stale)
           => tracked[h].flags \cap {"cleaned", "flushed"} \subseteq tracked'[h].flags]_vars

\* When Run has returned, the file system is deleted and unregistered, the
\* service is stopped and one reference to the DLL is left per look-up that
\* failed or came from Probe; its dispatcher is stopped too, unless the probe of
\* the mounted root failed.  Run and a command that ends well leave none of their
\* own handles open (dispatcher_windows.go, runDispatcherHostV1).
ReturnsClean ==
    stage = "returned" =>
        /\ fs # "created" /\ ~registered /\ ~running
        /\ \A h \in Handle : held[h] # "host"
        /\ dispatching => probeFailed
        /\ dll <= (IF fs = "none" THEN 2 ELSE 1)

\* A console's mount comes to WinFsp with a letter that is free, if any candidate
\* is, and with a directory that can be made, whatever was in use and typed when
\* it started, unless another program came in between (config.go,
\* ResolveMountPointForStart, nextAvailableDriveLetter).
ResolvedIsFree ==
    stage = "mountpoint" /\ plan.by = "console" /\ ~raced /\ ~Mountable(plan.point) =>
        plan.point.form = "drive" /\ candidateDriveLetters \subseteq places.used

\* Run never hangs: it serves, waits for its context or has returned, or comes to
\* do so again; once the context is cancelled it returns, whatever calls are in
\* progress (host_windows.go, runHost; dispatcher_windows.go, runDispatcherHostV1).
RunReturns == []<>(stage \in {"wait", "serving", "returned", "refused", "fatal"})

=============================================================================
