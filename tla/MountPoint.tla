----------------------------- MODULE MountPoint -----------------------------
(***************************************************************************)
(* Where a mount goes: how a configuration becomes a mount point           *)
(* (internal/winclient/config.go) when the support console, the user       *)
(* client or the command starts a mount, while other programs take and     *)
(* free drive letters and make directories.                                *)
(*                                                                         *)
(* A drive letter is its place in candidateDriveLetters, 0 when it is not  *)
(* there.  Of directories there is one, with what the file system says of  *)
(* it.  The fields that Normalized fills in when they are blank cannot make*)
(* Validate fail and are left out.                                         *)
(***************************************************************************)
EXTENDS Integers

CONSTANTS
    Letters,    \* how many letters candidateDriveLetters has
    Fallback    \* the place of M: among them

ASSUME LettersAssumption == Letters \in Nat \ {0}
ASSUME FallbackAssumption == Fallback \in 1..Letters

VARIABLES
    stage,      \* how far the start, and later the host, is
    plan,       \* who starts, and the configuration as it stands
    places,     \* the letters whose root exists, and what is at the directory
    raced       \* history: another program came between a check and the mount

planVars == <<plan, places, raced>>

-----------------------------------------------------------------------------
(* Configurations.                                                         *)

Drive(l) == [form |-> "drive", letter |-> l]        \* Z:
Slashed(l) == [form |-> "slashed", letter |-> l]    \* z:\
LocalDir == [form |-> "local", letter |-> 0]           \* D:\mnt\leaf
Share == [form |-> "share", letter |-> 0]           \* \\host\name, /mnt
Wrong == [form |-> "wrong", letter |-> 0]           \* anything else
Unset == [form |-> "blank", letter |-> 0]

\* What a user may type.
Typed == {Drive(l) : l \in 0..Letters} \cup {Slashed(1), LocalDir, Share, Wrong, Unset}

\* For a directory: it can be created, its parent has to be created too, it
\* exists, or its state or its parent's gives an error.
Leaf == {"new", "orphan", "exists", "error"}

NoPlan == [by |-> "none", point |-> Unset, backend |-> "none"]
NoPlaces == [used |-> {}, leaf |-> "new"]

NormalizeMountPoint(v) == IF v.form = "slashed" THEN Drive(v.letter) ELSE v

ValidateMountPoint(v) == NormalizeMountPoint(v).form \in {"drive", "local", "share"}

candidateDriveLetters == 1..Letters

FirstOf(S) == CHOOSE l \in S : \A m \in S : l <= m

defaultMountPoint ==
    LET free == candidateDriveLetters \ places.used
    IN  IF free = {} THEN Fallback ELSE FirstOf(free)

\* Variant: the search ends at the last letter.
nextLetterToTheEnd(current) ==
    LET free == {l \in current + 1 .. Letters : l \notin places.used}
    IN  IF current = 0 THEN {defaultMountPoint}
        ELSE IF free = {} THEN {} ELSE {FirstOf(free)}

\* The letter to take instead, if any: the search goes around the list.
nextAvailableDriveLetter(current) ==
    LET at(k) == 1 + ((current - 1 + k) % Letters)
        free  == {k \in 1 .. Letters - 1 : at(k) \notin places.used}
    IN  IF current = 0 THEN {defaultMountPoint}
        ELSE IF free = {} THEN {} ELSE {at(FirstOf(free))}

ResolveMountPointForStart(v) ==
    LET norm == NormalizeMountPoint(v)
        next == nextAvailableDriveLetter(norm.letter) \ {norm.letter}
    IN  IF norm.form = "drive" /\ norm.letter \in places.used /\ next # {}
        THEN Drive(FirstOf(next)) ELSE norm

NormalizeHostBackend(b) == IF b = "" THEN "auto" ELSE b

Normalized(p) ==
    [p EXCEPT !.point = IF p.point = Unset THEN Drive(defaultMountPoint) ELSE NormalizeMountPoint(@),
              !.backend = NormalizeHostBackend(@)]

Validate(p) ==
    /\ ValidateMountPoint(Normalized(p).point)
    /\ Normalized(p).backend \in {"auto", "preflight", "dispatcher-v1"}

-----------------------------------------------------------------------------
(* Starting a mount.                                                       *)

PlanInit ==
    /\ places \in [used : SUBSET (0..Letters), leaf : Leaf]
    /\ plan \in [by : {"console", "user", "command"}, point : Typed,
                 backend : {"", "auto", "preflight", "dispatcher-v1", "other"}]
    /\ plan.by = "user" => plan.backend = "auto"
    /\ raced = FALSE

\* The configuration has been dealt with, or the start ends here.
Proceed(p, ok, next) ==
    /\ plan' = p
    /\ stage' = IF ok THEN next ELSE "refused"
    /\ UNCHANGED raced

\* startMount of the console: the fields parse, or not.
readConfigFields(ok) ==
    /\ stage = "fields" /\ plan.by = "console"
    /\ Proceed(Normalized(plan), ok, "resolve")
    /\ UNCHANGED places

\* start of the user client; an occupied letter is not looked for.
currentConfig ==
    /\ stage = "fields" /\ plan.by = "user"
    /\ Proceed(Normalized(plan), Validate(plan), "prepare")
    /\ UNCHANGED places

\* The command mounts what it is given.
commandConfig ==
    /\ stage = "fields" /\ plan.by = "command"
    /\ Proceed(Normalized(plan), TRUE, "probe")
    /\ UNCHANGED places

startMountResolve ==
    /\ stage = "resolve"
    /\ Proceed([plan EXCEPT !.point = ResolveMountPointForStart(@)], TRUE, "prepare")
    /\ UNCHANGED places

\* The parent is created when it is missing, unless that fails.  The user client
\* goes on after an error.
PrepareDirectoryMountPoint(made) ==
    LET isDir == plan.point = LocalDir
        ok    == isDir => places.leaf = "new" \/ (places.leaf = "orphan" /\ made)
    IN  /\ stage = "prepare"
        /\ places' = IF isDir /\ places.leaf = "orphan" /\ made
                     THEN [places EXCEPT !.leaf = "new"] ELSE places
        /\ Proceed(plan, ok \/ plan.by = "user", "validate")

\* Runtime.Start, up to the mount itself, which MountRuntime has.
runtimeStart ==
    /\ stage = "validate"
    /\ Proceed(Normalized(plan), Validate(plan), "probe")
    /\ UNCHANGED places

\* Another program mounts, unmounts or makes the directory: once in a start, and
\* where it matters, just before the next look at the places.
OthersMount ==
    /\ stage \in {"prepare", "mountpoint"} /\ plan.by # "none" /\ ~raced
    /\ raced' = TRUE
    /\ \/ \E l \in 0..Letters : places' = [places EXCEPT !.used = IF l \in @ THEN @ \ {l} ELSE @ \cup {l}]
       \/ \E s \in Leaf : places' = [places EXCEPT !.leaf = s]
    /\ UNCHANGED <<stage, plan>>

StartStep ==
    \/ \E yes \in BOOLEAN : readConfigFields(yes) \/ PrepareDirectoryMountPoint(yes)
    \/ currentConfig \/ commandConfig \/ startMountResolve \/ runtimeStart

\* WinFsp (external) mounts on a letter that is free and on a directory that is
\* not there.
Mountable(v) ==
    CASE v.form = "drive" -> v.letter \notin places.used
      [] v.form = "local" -> places.leaf = "new"
      [] OTHER -> TRUE

=============================================================================
