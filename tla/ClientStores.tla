---------------------------- MODULE ClientStores ----------------------------
(***************************************************************************)
(* The two files the Windows programs keep under the user's configuration  *)
(* directory: the profile store (internal/winclientstore/store.go) and the *)
(* recovery marker (internal/winclientrecovery/recovery.go), with the two  *)
(* programs that use them: the support console (internal/winclientgui) and *)
(* the user client (internal/winclientusergui), whose button starts the    *)
(* console beside it.                                                      *)
(*                                                                         *)
(* Each program runs its handlers on one window thread; programs interleave*)
(* at every file operation and may crash between any two.  A save opens    *)
(* <path>.tmp, writes it and renames it over the path.  How a mount itself *)
(* runs is in MountRuntime; here Start succeeds or fails.                  *)
(***************************************************************************)
EXTENDS Integers, Sequences

CONSTANTS
    Console,        \* support consoles that may run
    User,           \* user clients that may run
    Names,          \* workspace names, in sorted order
    Configs,        \* versions of a configuration
    MaxCommands     \* bound: commands that write the profile store

ASSUME ProgramAssumption == Console \cap User = {}
ASSUME NamesAssumption == Names \subseteq Nat \ {0}
ASSUME ConfigsAssumption == Configs \subseteq Nat \ {0}
ASSUME CommandsAssumption == MaxCommands \in Nat

Program == Console \cup User

VARIABLES
    path,       \* per file: what is at its path
    tmp,        \* per file: what is at <path>.tmp
    pc,         \* per program: the next step of its window thread
    job,        \* per program: the save in progress
    marks,      \* per program: operations on the marker that remain
    cache,      \* per console: app.state
    commands,   \* commands so far
    trusted,    \* history: no saves overlapped, none under a running console,
                \* and every console could read the store when it started
    rivals,     \* history: two consoles have run at the same time
    unclean     \* history: a mount was marked and no clean exit since

vars == <<path, tmp, pc, job, marks, cache, commands, trusted, rivals, unclean>>

-----------------------------------------------------------------------------
(* What a file holds.                                                      *)

None == [kind |-> "none"]
Blank == [kind |-> "blank"]     \* created or truncated, nothing written yet
Torn == [kind |-> "torn"]       \* does not decode
Whole(doc) == [kind |-> "whole", doc |-> doc]

Readable(f) == path[f].kind # "torn"

BookOnDisk == IF path["store"].kind = "whole" THEN path["store"].doc
              ELSE [profiles |-> [n \in Names |-> 0], active |-> 0, dflt |-> 0]

B == INSTANCE ProfileBook WITH book <- BookOnDisk, trusted <- trusted

-----------------------------------------------------------------------------
(* winclientstore: books and their edits.                                  *)

normalizeState(b) ==
    LET active == IF b.active \in B!Saved(b) THEN b.active ELSE 0
    IN  [profiles |-> b.profiles,
         active   |-> active,
         dflt     |-> IF b.dflt # 0 THEN b.dflt
                      ELSE IF active # 0 THEN active ELSE B!FirstSaved(b)]

\* A missing or an empty file is the default state.
LoadStore == normalizeState(BookOnDisk)

SaveWorkspaceOf(b, n, c) ==
    [profiles |-> [b.profiles EXCEPT ![n] = c],
     active   |-> n,
     dflt     |-> IF b.dflt = 0 THEN n ELSE b.dflt]

\* Variant: the default workspace is left alone.
DeleteProfileKeepingDefault(b, n) ==
    LET rest == [b EXCEPT !.profiles[n] = 0]
    IN  [rest EXCEPT !.active = IF b.active = n THEN B!FirstSaved(rest) ELSE b.active]

DeleteProfileOf(b, n) ==
    LET rest   == [b EXCEPT !.profiles[n] = 0]
        active == IF b.active = n THEN B!FirstSaved(rest) ELSE b.active
    IN  [profiles |-> rest.profiles,
         active   |-> active,
         dflt     |-> IF b.dflt = n THEN active ELSE b.dflt]

-----------------------------------------------------------------------------
\* Of a save: the file, what is written, app.state once it has succeeded, and
\* whether an error ends the command.
NoJob == [file |-> "none", new |-> None, result |-> B!EmptyBook, strict |-> FALSE]

Init ==
    /\ path = [f \in {"store", "marker"} |-> None]
    /\ tmp = [f \in {"store", "marker"} |-> None]
    /\ pc = [p \in Program |-> "down"]
    /\ job = [p \in Program |-> NoJob]
    /\ marks = [p \in Program |-> <<>>]
    /\ cache = [p \in Console |-> B!EmptyBook]
    /\ commands = 0
    /\ trusted = TRUE /\ rivals = FALSE /\ unclean = FALSE

Others(p) == Program \ {p}

-----------------------------------------------------------------------------
(* save: shared by both stores.                                            *)

\* Variant: the file itself is opened.
OpenInPlace(p) ==
    /\ pc[p] = "open"
    /\ \E c \in {Blank, Torn} : /\ path' = [path EXCEPT ![job[p].file] = c]
                                /\ tmp' = [tmp EXCEPT ![job[p].file] = c]
    /\ pc' = [pc EXCEPT ![p] = "write"]
    /\ UNCHANGED <<job, marks, cache, commands, trusted, rivals, unclean>>

\* os.WriteFile truncates first.  Torn stands for a part written already.
Open(p) ==
    /\ pc[p] = "open"
    /\ \E c \in {Blank, Torn} : tmp' = [tmp EXCEPT ![job[p].file] = c]
    /\ pc' = [pc EXCEPT ![p] = "write"]
    /\ UNCHANGED <<path, job, marks, cache, commands, trusted, rivals, unclean>>

\* Two programs that have the file open at once may leave a mixture.
Write(p) ==
    /\ pc[p] = "write"
    /\ LET f == job[p].file
           mixed == \/ tmp[f].kind \notin {"blank", "torn"}
                    \/ \E q \in Others(p) : pc[q] = "write" /\ job[q].file = f
       IN  \E c \in {job[p].new} \cup (IF mixed THEN {Torn} ELSE {}) : tmp' = [tmp EXCEPT ![f] = c]
    /\ pc' = [pc EXCEPT ![p] = "rename"]
    /\ UNCHANGED <<path, job, marks, cache, commands, trusted, rivals, unclean>>

\* An operation on the marker is over; the next one, or the window's end.
MarkDone(p) ==
    /\ marks' = [marks EXCEPT ![p] = Tail(@)]
    /\ pc' = [pc EXCEPT ![p] = IF Head(marks[p]) = "exit" THEN "down"
                               ELSE IF Tail(marks[p]) = <<>> THEN "idle" ELSE "mark"]

\* What the thread does when a save has ended.
AfterSave(p, ok) ==
    /\ job' = [job EXCEPT ![p] = NoJob]
    /\ IF job[p].file = "store"
       THEN /\ cache' = IF ok /\ p \in Console THEN [cache EXCEPT ![p] = job[p].result] ELSE cache
            /\ marks' = IF job[p].strict /\ ~ok THEN [marks EXCEPT ![p] = <<>>] ELSE marks
            /\ pc' = [pc EXCEPT ![p] = IF marks'[p] = <<>> THEN "idle" ELSE "mark"]
       ELSE MarkDone(p) /\ UNCHANGED cache

\* Windows refuses to rename a file that another program has open, and there
\* is nothing to rename when another program has done so.
Rename(p) ==
    /\ pc[p] = "rename"
    /\ LET f == job[p].file IN
       /\ tmp[f] # None
       /\ \A q \in Others(p) : ~(pc[q] = "write" /\ job[q].file = f)
       /\ path' = [path EXCEPT ![f] = tmp[f]]
       /\ tmp' = [tmp EXCEPT ![f] = None]
       /\ trusted' = (trusted /\ (f = "store" => \A q \in Others(p) \cap Console : pc[q] = "down"))
       /\ unclean' = IF f = "store" THEN unclean
                     ELSE CASE Head(marks[p]) = "start" -> TRUE
                            [] Head(marks[p]) = "exit" -> FALSE
                            [] OTHER -> unclean
    /\ AfterSave(p, TRUE)
    /\ UNCHANGED <<commands, rivals>>

\* Any of the three system calls returns an error.
SaveFails(p) ==
    /\ pc[p] \in {"open", "write", "rename"}
    /\ AfterSave(p, FALSE)
    /\ UNCHANGED <<path, tmp, commands, trusted, rivals, unclean>>

-----------------------------------------------------------------------------
(* winclientstore: the operations, as the programs' commands call them.    *)

\* p starts to save book b, which app.state will be; then come the operations ms
\* on the marker, unless how says that an error ends the command.
BeginSave(p, b, ms, how) ==
    /\ commands < MaxCommands
    /\ commands' = commands + 1
    /\ job' = [job EXCEPT ![p] = [file |-> "store", new |-> Whole(normalizeState(b)),
                                  result |-> b, strict |-> how]]
    /\ marks' = [marks EXCEPT ![p] = ms]
    /\ pc' = [pc EXCEPT ![p] = "open"]
    /\ trusted' = (trusted /\ \A q \in Others(p) : job[q].file # "store")
    /\ UNCHANGED <<path, tmp, rivals, unclean>>

\* A store that cannot be read is left as it is.
saveProfile(p, n, c) ==
    /\ pc[p] = "idle" /\ p \in Console /\ Readable("store")
    /\ BeginSave(p, SaveWorkspaceOf(LoadStore, n, c), <<"update">>, TRUE)
    /\ UNCHANGED cache

\* The user client saves the workspace it has mounted, and has no marker.
start(p, n, c) ==
    /\ pc[p] = "idle" /\ p \in User /\ Readable("store")
    /\ BeginSave(p, SaveWorkspaceOf(LoadStore, n, c), <<>>, TRUE)
    /\ UNCHANGED cache

deleteSelectedProfile(p, n) ==
    /\ pc[p] = "idle" /\ p \in Console /\ Readable("store")
    /\ BeginSave(p, DeleteProfileOf(LoadStore, n), <<"update">>, TRUE)
    /\ UNCHANGED cache

\* What the console saves here is its own copy of the store.
loadSelectedProfile(p, n) ==
    /\ pc[p] = "idle" /\ p \in Console /\ n \in B!Saved(cache[p])
    /\ cache' = [cache EXCEPT ![p].active = n]
    /\ BeginSave(p, cache'[p], <<"update">>, TRUE)

\* The mount has started.  Again the console saves its own copy; an error is
\* ignored.
startMount(p, n) ==
    /\ pc[p] = "idle" /\ p \in Console
    /\ cache' = [cache EXCEPT ![p].active = n]
    /\ BeginSave(p, cache'[p], <<"start", "update">>, FALSE)

\* Without a profile name only the marker is written.
startMountUnnamed(p) ==
    /\ pc[p] = "idle" /\ p \in Console
    /\ marks' = [marks EXCEPT ![p] = <<"start", "update">>]
    /\ pc' = [pc EXCEPT ![p] = "mark"]
    /\ UNCHANGED <<path, tmp, job, cache, commands, trusted, rivals, unclean>>

-----------------------------------------------------------------------------
(* winclientrecovery.                                                      *)

\* Variant: the marker is not read before it is rewritten.
MarkerAfterBlind(op) == op = "start"

\* Dirty after the operation: MarkStart sets it, MarkCleanExit clears it,
\* Update keeps what it has read.
MarkerAfter(op) ==
    CASE op = "start" -> TRUE
      [] op = "exit" -> FALSE
      [] OTHER -> path["marker"].kind = "whole" /\ path["marker"].doc

\* All but MarkStart read the marker first.
Mark(p) ==
    /\ pc[p] = "mark"
    /\ Head(marks[p]) = "start" \/ Readable("marker")
    /\ job' = [job EXCEPT ![p].file = "marker", ![p].new = Whole(MarkerAfter(Head(marks[p])))]
    /\ pc' = [pc EXCEPT ![p] = "open"]
    /\ UNCHANGED <<path, tmp, marks, cache, commands, trusted, rivals, unclean>>

\* A marker that cannot be read is left as it is.
MarkFails(p) ==
    /\ pc[p] = "mark" /\ Head(marks[p]) # "start"
    /\ MarkDone(p)
    /\ UNCHANGED <<path, tmp, job, cache, commands, trusted, rivals, unclean>>

\* The timer, a failed start and every other refresh of the console.
refreshRuntimeViews(p, ms) ==
    /\ pc[p] = "idle" /\ p \in Console
    /\ marks' = [marks EXCEPT ![p] = ms]
    /\ pc' = [pc EXCEPT ![p] = "mark"]
    /\ UNCHANGED <<path, tmp, job, cache, commands, trusted, rivals, unclean>>

\* A stop updates the marker twice and leaves Dirty as it is.
stopMount(p) == refreshRuntimeViews(p, <<"update", "update">>)

-----------------------------------------------------------------------------
(* Programs come and go.                                                   *)

\* wmCreate of the console, loadProfiles: one that cannot read the store goes on
\* with an empty app.state.
LaunchConsole(p, ok) ==
    /\ pc[p] = "down" /\ p \in Console
    /\ ok => Readable("store")
    /\ cache' = [cache EXCEPT ![p] = IF ok THEN LoadStore ELSE B!EmptyBook]
    /\ marks' = [marks EXCEPT ![p] = <<"update">>]
    /\ pc' = [pc EXCEPT ![p] = "mark"]
    /\ trusted' = (trusted /\ ok /\ \A q \in Others(p) : job[q].file # "store")
    /\ rivals' = (rivals \/ \E q \in Others(p) \cap Console : pc[q] # "down")
    /\ UNCHANGED <<path, tmp, job, commands, unclean>>

\* wmCreate of the user client, which never saves the copy it loads.
loadState(p) ==
    /\ pc[p] = "down" /\ p \in User
    /\ pc' = [pc EXCEPT ![p] = "idle"]
    /\ UNCHANGED <<path, tmp, job, marks, cache, commands, trusted, rivals, unclean>>

\* The user client starts a console beside itself.
openSupport(p, q) ==
    /\ pc[p] = "idle" /\ p \in User
    /\ \E ok \in BOOLEAN : LaunchConsole(q, ok)

\* wmDestroy of the console; a mount that still runs is not stopped.
Exit(p) ==
    /\ pc[p] = "idle" /\ p \in Console
    /\ marks' = [marks EXCEPT ![p] = <<"exit">>]
    /\ pc' = [pc EXCEPT ![p] = "mark"]
    /\ UNCHANGED <<path, tmp, job, cache, commands, trusted, rivals, unclean>>

\* wmDestroy of the user client, or the end of a process at any point.
Vanish(p) ==
    /\ pc[p] # "down"
    /\ pc' = [pc EXCEPT ![p] = "down"]
    /\ job' = [job EXCEPT ![p] = NoJob]
    /\ marks' = [marks EXCEPT ![p] = <<>>]
    /\ cache' = IF p \in Console THEN [cache EXCEPT ![p] = B!EmptyBook] ELSE cache
    /\ UNCHANGED <<path, tmp, commands, trusted, rivals, unclean>>

-----------------------------------------------------------------------------
handleCommand(p) ==
    \/ \E n \in Names : \/ \E c \in Configs : saveProfile(p, n, c)
                        \/ deleteSelectedProfile(p, n)
                        \/ loadSelectedProfile(p, n)
                        \/ startMount(p, n)
    \/ startMountUnnamed(p) \/ stopMount(p)
    \/ refreshRuntimeViews(p, <<"update">>)

\* The console's icon offers some of the commands, and the exit.
handleTrayCommand(p) ==
    \/ \E n \in Names : startMount(p, n)
    \/ startMountUnnamed(p) \/ stopMount(p) \/ Exit(p)

\* The user client: its stop and its explorer touch neither file.
handleUserCommand(p) ==
    \/ \E n \in Names, c \in Configs : start(p, n, c)
    \/ \E q \in Console : openSupport(p, q)

Next ==
    \E p \in Program :
        \/ handleCommand(p) \/ handleTrayCommand(p) \/ handleUserCommand(p)
        \/ Open(p) \/ Write(p) \/ Rename(p) \/ SaveFails(p)
        \/ Mark(p) \/ MarkFails(p)
        \/ LaunchConsole(p, TRUE) \/ LaunchConsole(p, FALSE) \/ loadState(p) \/ Vanish(p)

Spec == Init /\ [][Next]_vars

-----------------------------------------------------------------------------
(* Properties.                                                             *)

\* The profile store behaves as one book that is edited one whole edit at a
\* time, whatever crashes between two steps of a save: no reader finds half a
\* file, and no edit undoes another.  It does so until two saves overlap, a
\* program saves under a console that has its own copy, or a console starts
\* without having read the store (store.go, Save; app_windows.go, loadProfiles).
RefinesBook == B!BookSpec

\* The default workspace of a stored book is one of its workspaces, and there
\* is one as soon as there is a workspace: whatever the order of saves and
\* deletions, of however many programs (normalizeState, DeleteProfile).
DefaultIsSaved ==
    path["store"].kind = "whole" =>
        LET b == path["store"].doc
        IN  IF B!Saved(b) = {} THEN b.dflt = 0 ELSE b.dflt \in B!Saved(b)

\* The marker says dirty exactly when a mount was marked and no clean exit
\* followed: no crash, refresh, stop, failed write or restart in between loses
\* the mark or makes one up.  Two consoles at once may (recovery.go, Update).
MarkerTruthful ==
    ~rivals => (path["marker"] = Whole(TRUE) <=> unclean)

=============================================================================
