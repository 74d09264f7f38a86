---------------------------- MODULE MountHandles ----------------------------
(***************************************************************************)
(* The two handle tables behind a mounted volume: the mount core's         *)
(* (internal/mountcore/mount.go), which stand for handles of the server,   *)
(* and above them the callbacks' (internal/winfsp/callbacks.go), which     *)
(* keep a state per open handle.  The adapter between them passes calls    *)
(* through.                                                                *)
(*                                                                         *)
(* Threads call concurrently.  One action is one critical section of m.mu  *)
(* or c.mu, or one request to the server, which may be refused, or be      *)
(* carried out and its answer lost.  What a path resolves to is            *)
(* MountPaths' subject: here GetAttr fails or says file or directory.      *)
(* Callers and the order in which they call are in WinFspHost.             *)
(***************************************************************************)
EXTENDS Integers, Sequences, FiniteSets

CONSTANTS
    Kernel,         \* WinFsp's dispatcher threads
    Host,           \* the goroutine of Host.Run
    MaxHandles,     \* bound: handles ever opened
    MaxEvents       \* bound: marks WinFsp puts on handles, and opens and closes
                    \* that fail halfway, all together

ASSUME ThreadAssumption == IsFiniteSet(Kernel) /\ Host \notin Kernel
ASSUME HandleAssumption == MaxHandles \in Nat
ASSUME EventAssumption == MaxEvents \in Nat

Thread == Kernel \cup {Host}
Handle == 1..MaxHandles

VARIABLES
    remote,             \* server: whether each handle it ever gave out is open
    local,              \* Mount.fileHandles and directoryHandles
    nextLocalHandle,    \* Mount.nextLocalHandle
    tracked,            \* Callbacks.handles
    pc,                 \* per thread: the next step of its call
    reg,                \* per thread: the variables of its call
    held,               \* who has been given a handle and has not closed it
    answer,             \* whether the host's last call succeeded
    abandoned,          \* history: server handles whose open or close failed
    events              \* events so far, of the kinds MaxEvents bounds

mount  == <<local, nextLocalHandle>>
caller == <<held, answer>>
mhVars == <<remote, local, nextLocalHandle, tracked, pc, reg, held, answer, abandoned, events>>

Absent == [rem |-> 0, dir |-> FALSE]
NoState == [known |-> FALSE, flags |-> {}]

\* goal: what the call is for; h, rem: the handle; flags, stale: the state that
\* is about to be written back, and whether another call has written since.
NoReg == [goal |-> "none", h |-> 0, rem |-> 0, flags |-> {}, stale |-> FALSE]

MHInit ==
    /\ remote = <<>>
    /\ local = [h \in Handle |-> Absent]
    /\ nextLocalHandle = 1
    /\ tracked = [h \in Handle |-> NoState]
    /\ pc = [t \in Thread |-> "idle"]
    /\ reg = [t \in Thread |-> NoReg]
    /\ held = [h \in Handle |-> "none"]
    /\ answer = "none"
    /\ abandoned = {}
    /\ events = 0

-----------------------------------------------------------------------------
(* Calls: how one begins, goes on and returns.                             *)

Event == events < MaxEvents /\ events' = events + 1

\* An open or a close of server handle r fails after the request was sent.
Abandon(r) ==
    /\ Event
    /\ abandoned' = abandoned \cup {r}

\* The next step of t's call, with its variables.
Go(t, step, r) ==
    /\ pc' = [pc EXCEPT ![t] = step]
    /\ reg' = [reg EXCEPT ![t] = r]

\* What the caller is told: only the host looks at it.
Answer(t, ok) == answer' = IF t # Host THEN answer ELSE IF ok THEN "ok" ELSE "error"

\* The call returns; an open gives its caller the handle.
Return(t, ok) ==
    /\ Go(t, "idle", NoReg)
    /\ Answer(t, ok)
    /\ held' = IF ok /\ reg[t].goal \in {"file", "dir"}
               THEN [held EXCEPT ![reg[t].h] = IF t = Host THEN "host" ELSE "kernel"]
               ELSE held

-----------------------------------------------------------------------------
(* mountcore and callbacks.                                                *)

\* A call by path begins: goal is info, file, dir, or any for goOpen, which opens
\* what the attributes say.
ByPath(t, goal) ==
    /\ pc[t] = "idle"
    /\ Go(t, "attr", [NoReg EXCEPT !.goal = goal])
    /\ UNCHANGED <<remote, mount, tracked, caller, abandoned, events>>

\* GetAttr: enough for a query; Open and OpenDirectory check the type and go on.
GetAttr(t, type) ==
    /\ pc[t] = "attr" /\ reg[t].goal \in {"info", "any", type}
    /\ IF reg[t].goal = "info" THEN Return(t, TRUE)
       ELSE Go(t, "open", [reg[t] EXCEPT !.goal = type]) /\ UNCHANGED caller
    /\ UNCHANGED <<remote, mount, tracked, abandoned, events>>

\* A request that is not carried out, or a node of the wrong type: the call fails.
Refused(t) ==
    /\ pc[t] \in {"attr", "open", "read", "close"}
    /\ Return(t, FALSE)
    /\ IF pc[t] = "close" THEN Abandon(reg[t].rem) ELSE UNCHANGED <<abandoned, events>>
    /\ UNCHANGED <<remote, mount, tracked>>

\* OpenRead and OpenDir.  The answer may be lost.
OpenRemote(t, lost) ==
    /\ pc[t] = "open" /\ Len(remote) < MaxHandles
    /\ remote' = Append(remote, TRUE)
    /\ IF lost THEN Return(t, FALSE) /\ Abandon(Len(remote'))
       ELSE /\ Go(t, "store", [reg[t] EXCEPT !.rem = Len(remote')])
            /\ UNCHANGED <<caller, abandoned, events>>
    /\ UNCHANGED <<mount, tracked>>

\* Variant: the counter is not advanced.
StoreHandleAgain(t) ==
    /\ pc[t] = "store"
    /\ LET r == reg[t] IN
       /\ local' = [local EXCEPT ![nextLocalHandle] = [rem |-> r.rem, dir |-> r.goal = "dir"]]
       /\ Go(t, "track", [r EXCEPT !.h = nextLocalHandle])
    /\ UNCHANGED <<remote, nextLocalHandle, tracked, caller, abandoned, events>>

\* The end of Mount.Open and OpenDirectory, under m.mu.
StoreHandle(t) ==
    /\ pc[t] = "store"
    /\ LET r == reg[t] IN
       /\ local' = [local EXCEPT ![nextLocalHandle] = [rem |-> r.rem, dir |-> r.goal = "dir"]]
       /\ nextLocalHandle' = nextLocalHandle + 1
       /\ Go(t, "track", [r EXCEPT !.h = nextLocalHandle])
    /\ UNCHANGED <<remote, tracked, caller, abandoned, events>>

\* trackHandle; Callbacks.Open and OpenDirectory return.
TrackHandle(t) ==
    /\ pc[t] = "track"
    /\ tracked' = [tracked EXCEPT ![reg[t].h] = [known |-> TRUE, flags |-> {}]]
    /\ Return(t, TRUE)
    /\ UNCHANGED <<remote, mount, abandoned, events>>

\* Read and ReadDirectory look their handle up and ask the server.
FindHandle(t, goal, h) ==
    /\ pc[t] = "idle"
    /\ IF local[h].rem # 0 /\ local[h].dir = (goal = "list")
       THEN Go(t, "read", [NoReg EXCEPT !.h = h, !.rem = local[h].rem]) /\ UNCHANGED caller
       ELSE Return(t, FALSE)
    /\ UNCHANGED <<remote, mount, tracked, abandoned, events>>

\* The server answers while it has the handle.
ReadRemote(t) ==
    /\ pc[t] = "read"
    /\ Return(t, remote[reg[t].rem])
    /\ UNCHANGED <<remote, mount, tracked, abandoned, events>>

\* Variant: only files are looked for before the entry is dropped.
ForgetDirsSilently(t, h) ==
    /\ pc[t] = "idle"
    /\ held' = [held EXCEPT ![h] = "none"]
    /\ local' = [local EXCEPT ![h] = Absent]
    /\ IF local[h].rem # 0 /\ ~local[h].dir
       THEN Go(t, "close", [NoReg EXCEPT !.h = h, !.rem = local[h].rem]) /\ UNCHANGED answer
       ELSE Answer(t, FALSE) /\ UNCHANGED <<pc, reg>>
    /\ UNCHANGED <<remote, nextLocalHandle, tracked, abandoned, events>>

\* Mount.Close: the caller is done with the handle.  The entry goes first, under
\* m.mu, the server is told after.
ForgetHandle(t, h) ==
    /\ pc[t] = "idle"
    /\ held' = [held EXCEPT ![h] = "none"]
    /\ local' = [local EXCEPT ![h] = Absent]
    /\ IF local[h].rem # 0
       THEN Go(t, "close", [NoReg EXCEPT !.h = h, !.rem = local[h].rem]) /\ UNCHANGED answer
       ELSE Answer(t, FALSE) /\ UNCHANGED <<pc, reg>>
    /\ UNCHANGED <<remote, nextLocalHandle, tracked, abandoned, events>>

\* CloseHandle and CloseDir.  The answer may be lost.
CloseRemote(t, lost) ==
    /\ pc[t] = "close"
    /\ LET r == reg[t].rem IN
       /\ remote' = [remote EXCEPT ![r] = FALSE]
       /\ IF lost \/ ~remote[r]
          THEN Return(t, FALSE) /\ Abandon(r)
          ELSE Go(t, "untrack", reg[t]) /\ UNCHANGED <<caller, abandoned, events>>
    /\ UNCHANGED <<mount, tracked>>

\* Only a close that succeeded gets here.
UntrackHandle(t) ==
    /\ pc[t] = "untrack"
    /\ tracked' = [tracked EXCEPT ![reg[t].h] = NoState]
    /\ Return(t, TRUE)
    /\ UNCHANGED <<remote, mount, abandoned, events>>

-----------------------------------------------------------------------------
(* callbacks: Cleanup, Flush and SetDeleteOnClose read a state under c.mu  *)
(* and write it back under c.mu later.  The other calls by handle only look*)
(* it up, and change nothing.                                              *)

\* What each sets of Cleaned and Flushed.  DeleteOnClose is only reported, and is
\* left out; to set it writes the others back.
Flag == [cleanup |-> {"cleaned"}, flush |-> {"flushed"}, delete |-> {}]

\* Variant: a fresh state is written back.
LookupAfresh(t, goal, h) ==
    /\ pc[t] = "idle"
    /\ IF tracked[h].known
       THEN Go(t, "update", [NoReg EXCEPT !.h = h, !.flags = Flag[goal]]) /\ UNCHANGED caller
       ELSE Return(t, FALSE)
    /\ UNCHANGED <<remote, mount, tracked, abandoned>>

LookupHandle(t, goal, h) ==
    /\ pc[t] = "idle"
    /\ IF tracked[h].known
       THEN /\ Go(t, "update", [NoReg EXCEPT !.h = h, !.flags = tracked[h].flags \cup Flag[goal]])
            /\ UNCHANGED caller
       ELSE Return(t, FALSE)
    /\ UNCHANGED <<remote, mount, tracked, abandoned>>

\* SetDeleteOnClose(true) stores the flag like the others and then answers that
\* it is denied: the host does not look at that answer.
UpdateHandle(t) ==
    /\ pc[t] = "update"
    /\ LET h == reg[t].h IN
       /\ tracked' = [tracked EXCEPT ![h] = [known |-> TRUE, flags |-> reg[t].flags]]
       /\ pc' = [pc EXCEPT ![t] = "idle"]
       /\ reg' = [u \in Thread |->
                    IF u = t THEN NoReg
                    ELSE IF pc[u] = "update" /\ reg[u].h = h THEN [reg[u] EXCEPT !.stale = TRUE]
                    ELSE reg[u]]
       /\ Answer(t, TRUE)
    /\ UNCHANGED <<remote, mount, held, abandoned, events>>

-----------------------------------------------------------------------------
\* One step of a call that has begun.
Continue(t) ==
    \/ GetAttr(t, "file") \/ GetAttr(t, "dir")
    \/ OpenRemote(t, FALSE) \/ OpenRemote(t, TRUE) \/ StoreHandle(t) \/ TrackHandle(t)
    \/ ReadRemote(t)
    \/ CloseRemote(t, FALSE) \/ CloseRemote(t, TRUE) \/ UntrackHandle(t)
    \/ UpdateHandle(t)
    \/ Refused(t)

=============================================================================
