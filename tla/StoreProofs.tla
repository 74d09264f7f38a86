---------------------------- MODULE StoreProofs ----------------------------
(***************************************************************************)
(* Proofs about ClientStores, for any programs, names and configurations.  *)
(*                                                                         *)
(* Every stored book is sound (Books); the program that saves is alone with*)
(* <path>.tmp and has an edit of the book on disk (Saving); from these two *)
(* the store implements ProfileBook.  The marker has an invariant of its   *)
(* own (Marking).                                                          *)
(***************************************************************************)
EXTENDS ClientStores, WellFoundedInduction, TLAPS

-----------------------------------------------------------------------------
(* Books.                                                                  *)

\* A book whose default, if any, is one of its workspaces.
Sound(b) == b \in B!Book /\ b.dflt \in B!Saved(b) \cup {0}

\* A book that has a default as soon as it has a workspace.
Settled(b) == Sound(b) /\ (B!Saved(b) # {} => b.dflt # 0)

\* The first saved workspace is a saved one, if there is one (SortedProfileNames).
LEMMA FirstSavedIsSaved ==
    ASSUME NEW b \in B!Book
    PROVE  IF B!Saved(b) = {} THEN B!FirstSaved(b) = 0 ELSE B!FirstSaved(b) \in B!Saved(b)
  <1>1. CASE B!Saved(b) = {}
    BY Zenon, <1>1 DEF B!FirstSaved
  <1>2. CASE B!Saved(b) # {}
    <2>1. B!Saved(b) \in SUBSET Nat
      BY Zenon, NamesAssumption DEF B!Saved
    <2>2. PICK n \in B!Saved(b) : \A m \in B!Saved(b) : ~(<<m, n>> \in OpToRel(<, Nat))
      BY <1>2, <2>1, NatLessThanWellFounded, WFMin, Zenon
    <2>3. \A m \in B!Saved(b) : n <= m
      <3>1. TAKE m \in B!Saved(b)
      <3>2. m \in Nat /\ n \in Nat /\ ~(m < n)
        BY Zenon, <2>1, <2>2 DEF OpToRel
      <3>3. QED
        BY <3>2
    <2>4. QED
      BY <1>2, <2>2, <2>3, Zenon DEF B!FirstSaved
  <1>3. QED
    BY Zenon, <1>1, <1>2

\* The empty book is settled.
LEMMA EmptyBookSettled == Settled(B!EmptyBook)
  BY Zenon DEF Settled, Sound, B!EmptyBook, B!Book, B!Saved

\* normalizeState settles a sound book, keeps its workspaces, and keeps the active
\* one when it is saved and the default when there is one.
LEMMA NormalizeSettles ==
    ASSUME NEW b, Sound(b)
    PROVE  /\ Settled(normalizeState(b))
           /\ normalizeState(b).profiles = b.profiles
           /\ B!Saved(normalizeState(b)) = B!Saved(b)
           /\ normalizeState(b).active = IF b.active \in B!Saved(b) THEN b.active ELSE 0
           /\ b.dflt # 0 => normalizeState(b).dflt = b.dflt
           /\ B!Saved(b) = {} => normalizeState(b).dflt = 0
  <1> DEFINE s == B!Saved(b)
             active == IF b.active \in s THEN b.active ELSE 0
             dflt == IF b.dflt # 0 THEN b.dflt ELSE IF active # 0 THEN active ELSE B!FirstSaved(b)
             c == [profiles |-> b.profiles, active |-> active, dflt |-> dflt]
  <1>1. normalizeState(b) = c
    BY Zenon DEF normalizeState
  <1>2. B!Saved(c) = s
    BY Zenon DEF B!Saved
  <1>3. IF s = {} THEN B!FirstSaved(b) = 0 ELSE B!FirstSaved(b) \in s
    BY Zenon, FirstSavedIsSaved DEF Sound
  <1>4. 0 \notin s /\ s \subseteq Names
    BY Zenon, NamesAssumption DEF B!Saved
  <1>5. dflt \in s \cup {0} /\ (s # {} => dflt # 0) /\ (s = {} => dflt = 0)
    BY Zenon, <1>3, <1>4 DEF Sound
  <1>6. c \in B!Book
    BY Zenon, <1>4, <1>5 DEF B!Book, Sound
  <1>7. QED
    BY <1>1, <1>2, <1>5, <1>6 DEF Settled, Sound

\* What SaveWorkspace writes is the edit of the book it has loaded.
LEMMA SaveWorkspaceEdits ==
    ASSUME NEW b, Settled(b), NEW n \in Names, NEW c \in Configs
    PROVE  LET d == SaveWorkspaceOf(normalizeState(b), n, c)
           IN  /\ Sound(d)
               /\ normalizeState(d) = [profiles |-> [b.profiles EXCEPT ![n] = c],
                                       active   |-> n,
                                       dflt     |-> IF b.dflt = 0 THEN n ELSE b.dflt]
  <1> DEFINE d == SaveWorkspaceOf(normalizeState(b), n, c)
             e == [profiles |-> [b.profiles EXCEPT ![n] = c], active |-> n,
                   dflt |-> IF b.dflt = 0 THEN n ELSE b.dflt]
  <1>1. n # 0 /\ c # 0
    BY Zenon, NamesAssumption, ConfigsAssumption
  <1>2. normalizeState(b).profiles = b.profiles /\ normalizeState(b).dflt = b.dflt
    BY Zenon, NormalizeSettles DEF Settled
  <1>3. d = e
    BY Zenon, <1>2 DEF SaveWorkspaceOf
  <1>4. e \in B!Book
    BY Zenon DEF B!Book, Settled, Sound
  <1>5. B!Saved(e) = B!Saved(b) \cup {n}
    BY Zenon, <1>1 DEF B!Saved, Settled, Sound, B!Book
  <1>6. Sound(e)
    BY Zenon, <1>4, <1>5 DEF Settled, Sound
  <1>7. normalizeState(e) = e
    BY Zenon, <1>1, <1>5 DEF normalizeState
  <1>8. QED
    BY <1>3, <1>6, <1>7, Zenon

\* What DeleteProfile writes lacks the workspace and nothing else.
LEMMA DeleteProfileEdits ==
    ASSUME NEW b, Sound(b), b.active \in B!Saved(b) \cup {0}, NEW n \in Names
    PROVE  LET d == DeleteProfileOf(b, n)
           IN  Sound(d) /\ d.profiles = [b.profiles EXCEPT ![n] = 0]
  <1> DEFINE rest == [b EXCEPT !.profiles[n] = 0]
             active == IF b.active = n THEN B!FirstSaved(rest) ELSE b.active
             d == [profiles |-> rest.profiles, active |-> active,
                   dflt |-> IF b.dflt = n THEN active ELSE b.dflt]
  <1>1. DeleteProfileOf(b, n) = d
    BY Zenon DEF DeleteProfileOf
  <1>2. rest \in B!Book /\ rest.profiles = [b.profiles EXCEPT ![n] = 0]
    BY Zenon DEF Sound, B!Book
  <1>3. B!Saved(rest) = B!Saved(b) \ {n} /\ B!Saved(d) = B!Saved(rest)
    BY Zenon, <1>2 DEF B!Saved, Sound, B!Book
  <1>4. IF B!Saved(rest) = {} THEN B!FirstSaved(rest) = 0 ELSE B!FirstSaved(rest) \in B!Saved(rest)
    BY Zenon, <1>2, FirstSavedIsSaved
  <1>5. active \in B!Saved(rest) \cup {0}
    BY Zenon, <1>3, <1>4
  <1>6. d.dflt \in B!Saved(d) \cup {0}
    BY Zenon, <1>3, <1>5 DEF Sound
  <1>7. d \in B!Book
    BY Zenon, <1>2, <1>3, <1>5, <1>6 DEF B!Book, B!Saved
  <1>8. QED
    BY <1>1, <1>2, <1>6, <1>7 DEF Sound

-----------------------------------------------------------------------------
(* Every stored book is settled.                                           *)

SettledBook == {b \in B!Book : Settled(b)}
SoundBook == {b \in B!Book : Sound(b)}

Contents(docs) == {None, Blank, Torn} \cup {Whole(d) : d \in docs}

File == {"store", "marker"}
Saver == {"open", "write", "rename"}
Step == {"down", "idle", "mark"} \cup Saver
Op == {"start", "update", "exit"}

\* Of a program: its save, if any, has a settled book or a mark to write.
JobOK(p) ==
    /\ pc[p] \notin Saver => job[p] = NoJob
    /\ pc[p] \in Saver => job[p].file \in File
    /\ job[p].file = "store" => /\ job[p].new \in {Whole(d) : d \in SettledBook}
                                /\ job[p].result \in SoundBook
    /\ job[p].file = "marker" => job[p].new \in {Whole(d) : d \in BOOLEAN}
    /\ pc[p] = "mark" \/ job[p].file = "marker" => marks[p] # <<>>
    /\ p \notin Console => marks[p] = <<>>

Books ==
    /\ path = [f \in File |-> path[f]] /\ tmp = [f \in File |-> tmp[f]]
    /\ pc \in [Program -> Step]
    /\ job = [p \in Program |-> job[p]]
    /\ marks \in [Program -> Seq(Op)]
    /\ cache \in [Console -> SoundBook]
    /\ path["store"] \in Contents(SettledBook) /\ tmp["store"] \in Contents(SettledBook)
    /\ \A p \in Program : JobOK(p)

\* The initial state has no books.
LEMMA BooksInit == Init => Books
  <1> SUFFICES ASSUME Init PROVE Books
    BY Zenon
  <1>1. B!EmptyBook \in SoundBook
    BY Zenon, EmptyBookSettled DEF Settled, Sound, SoundBook
  <1>2. QED
    BY <1>1 DEF Init, Books, JobOK, NoJob, File, Step, Saver, Contents, Op

\* The book on disk, and what Load returns.
LEMMA LoadSettled ==
    ASSUME Books
    PROVE  /\ BookOnDisk \in SettledBook /\ LoadStore \in SettledBook
           /\ LoadStore.profiles = BookOnDisk.profiles
           /\ LoadStore.active \in B!Saved(LoadStore) \cup {0}
  <1>1. BookOnDisk \in SettledBook
    <2>1. B!EmptyBook \in SettledBook
      BY Zenon, EmptyBookSettled DEF Settled, Sound, SettledBook
    <2>2. CASE path["store"].kind = "whole"
      <3>1. PICK d \in SettledBook : path["store"] = Whole(d)
        BY <2>2 DEF Books, Contents, None, Blank, Torn
      <3>2. QED
        BY <2>2, <3>1 DEF BookOnDisk, Whole
    <2>3. CASE path["store"].kind # "whole"
      BY Zenon, <2>1, <2>3 DEF BookOnDisk, B!EmptyBook
    <2>4. QED
      BY Zenon, <2>2, <2>3
  <1>2. Settled(normalizeState(BookOnDisk))
    BY Zenon, <1>1, NormalizeSettles DEF SettledBook, Settled
  <1>3. normalizeState(BookOnDisk) \in B!Book
    BY Zenon, <1>2 DEF Settled, Sound
  <1>4. QED
    BY Zenon, <1>1, <1>2, <1>3, NormalizeSettles DEF SettledBook, Settled, LoadStore

\* A step of one program leaves what the others have to write.
LEMMA OthersKeep ==
    ASSUME Books, NEW p \in Program, JobOK(p)',
           \A q \in Program \ {p} : job'[q] = job[q] /\ pc'[q] = pc[q] /\ marks'[q] = marks[q]
    PROVE  \A q \in Program : JobOK(q)'
  BY Zenon DEF Books, JobOK

\* Of what the commands save: a sound book, whose edit is normalised.
LEMMA BeginSaveKeeps ==
    ASSUME Books, NEW p \in Program, NEW b \in SoundBook, NEW ms \in Seq(Op), NEW how,
           BeginSave(p, b, ms, how), cache' \in [Console -> SoundBook],
           p \notin Console => ms = <<>>
    PROVE  Books'
  <1>1. normalizeState(b) \in SettledBook
    BY Zenon, NormalizeSettles DEF SoundBook, SettledBook, Settled, Sound
  <1>2. /\ job' = [q \in Program |-> job'[q]] /\ pc' \in [Program -> Step]
        /\ marks' \in [Program -> Seq(Op)]
        /\ path' = path /\ tmp' = tmp
    BY Zenon DEF BeginSave, Books, Step, Saver
  <1>3. ASSUME NEW q \in Program PROVE JobOK(q)'
    <2>1. CASE q = p
      <3>1. /\ pc'[q] = "open" /\ job'[q].file = "store"
            /\ job'[q].new = Whole(normalizeState(b)) /\ job'[q].result = b
            /\ marks'[q] = ms
        BY Zenon, <2>1 DEF BeginSave, Books
      <3>2. QED
        BY Zenon, <1>1, <2>1, <3>1 DEF JobOK, Saver, File
    <2>2. CASE q # p
      BY Zenon, <2>2 DEF BeginSave, Books, JobOK
    <2>3. QED
      BY Zenon, <2>1, <2>2
  <1>4. QED
    BY Zenon, <1>2, <1>3 DEF Books

\* The end of a save keeps the program's books sound.
LEMMA AfterSaveKeeps ==
    ASSUME Books, NEW p \in Program, NEW ok, pc[p] \in Saver, AfterSave(p, ok)
    PROVE  /\ job' = [q \in Program |-> job'[q]] /\ pc' \in [Program -> Step]
           /\ marks' \in [Program -> Seq(Op)] /\ cache' \in [Console -> SoundBook]
           /\ JobOK(p)'
           /\ \A q \in Program \ {p} : job'[q] = job[q] /\ pc'[q] = pc[q] /\ marks'[q] = marks[q]
  <1>1. /\ job' = [q \in Program |-> job'[q]] /\ job'[p] = NoJob
        /\ \A q \in Program \ {p} : job'[q] = job[q]
    BY Zenon DEF AfterSave, Books
  <1>2. job'[p].file = "none"
    BY <1>1 DEF NoJob
  <1>3. JobOK(p)
    BY Zenon DEF Books
  <1>4. CASE job[p].file = "store"
    <2>1. marks' = [marks EXCEPT ![p] = <<>>] \/ marks' = marks
      BY <1>4, Zenon DEF AfterSave
    <2>2. job[p].result \in SoundBook
      BY Zenon, <1>4 DEF Books, JobOK
    <2>3. cache' \in [Console -> SoundBook]
      BY Zenon, <1>4, <2>2 DEF AfterSave, Books
    <2>4. pc' = [pc EXCEPT ![p] = IF marks'[p] = <<>> THEN "idle" ELSE "mark"]
      BY Zenon, <1>4 DEF AfterSave
    <2>5. pc'[p] \in {"idle", "mark"} /\ (pc'[p] = "mark" => marks'[p] # <<>>)
      BY Zenon, <2>4 DEF Books
    <2>6. p \notin Console => marks'[p] = <<>>
      BY Zenon, <1>3, <2>1 DEF JobOK, Books
    <2>7. JobOK(p)'
      BY Zenon, <1>1, <1>2, <2>5, <2>6 DEF JobOK, Saver
    <2>8. marks' \in [Program -> Seq(Op)] /\ \A q \in Program \ {p} : marks'[q] = marks[q]
      <3>1. <<>> \in Seq(Op)
        OBVIOUS
      <3>2. QED
        BY Zenon, <2>1, <3>1 DEF Books
    <2>9. pc' \in [Program -> Step] /\ \A q \in Program \ {p} : pc'[q] = pc[q]
      BY Zenon, <2>4 DEF Books, Step
    <2>10. QED
      BY Zenon, <1>1, <2>3, <2>7, <2>8, <2>9
  <1>5. CASE job[p].file # "store"
    <2>1. MarkDone(p) /\ cache' = cache /\ marks[p] # <<>>
      BY Zenon, <1>5, <1>3 DEF AfterSave, JobOK, File
    <2>2. p \in Console
      BY Zenon, <1>3, <2>1 DEF JobOK
    <2>3. marks' = [marks EXCEPT ![p] = Tail(@)] /\ marks' \in [Program -> Seq(Op)]
      BY <2>1 DEF MarkDone, Books
    <2>4. /\ pc'[p] \in {"down", "idle", "mark"} /\ (pc'[p] = "mark" => marks'[p] # <<>>)
          /\ pc' = [pc EXCEPT ![p] = pc'[p]]
      BY Zenon, <2>1, <2>3 DEF MarkDone, Books
    <2>5. JobOK(p)'
      BY Zenon, <1>1, <1>2, <2>2, <2>4 DEF JobOK, Saver
    <2>6. QED
      BY Zenon, <1>1, <2>1, <2>3, <2>4, <2>5 DEF Books, Step, Saver
  <1>6. QED
    BY Zenon, <1>4, <1>5

\* A program turns to the marker.
LEMMA TurnToMarkerKeeps ==
    ASSUME Books, NEW p \in Console, NEW ms \in Seq(Op), ms # <<>>, job[p] = NoJob,
           marks' = [marks EXCEPT ![p] = ms], pc' = [pc EXCEPT ![p] = "mark"],
           cache' \in [Console -> SoundBook],
           UNCHANGED <<path, tmp, job>>
    PROVE  Books'
  <1>1. p \in Program /\ job'[p] = NoJob /\ NoJob.file = "none"
    BY Zenon DEF Program, NoJob
  <1>2. pc' \in [Program -> Step] /\ marks' \in [Program -> Seq(Op)]
    BY Zenon DEF Books, Step
  <1>3. pc'[p] = "mark" /\ marks'[p] = ms
    BY Zenon, <1>1 DEF Books
  <1>4. JobOK(p)'
    BY Zenon, <1>1, <1>3 DEF JobOK, Saver
  <1>5. \A q \in Program : JobOK(q)'
    BY Zenon, <1>1, <1>4, OthersKeep DEF Books
  <1>6. QED
    BY Zenon, <1>2, <1>5 DEF Books

\* The commands that save the store.
LEMMA CommandKeepsBooks ==
    ASSUME Books, NEW p \in Program, NEW n \in Names,
           \/ \E c \in Configs : saveProfile(p, n, c) \/ start(p, n, c)
           \/ deleteSelectedProfile(p, n) \/ loadSelectedProfile(p, n) \/ startMount(p, n)
    PROVE  Books'
  <1>1. /\ <<>> \in Seq(Op) /\ <<"update">> \in Seq(Op) /\ <<"start", "update">> \in Seq(Op)
    BY DEF Op
  <1>2. Console \cap User = {}
    BY Zenon, ProgramAssumption
  <1>3. ASSUME NEW c \in Configs, saveProfile(p, n, c) \/ start(p, n, c) PROVE Books'
    <2> DEFINE d == SaveWorkspaceOf(LoadStore, n, c)
    <2>1. d \in SoundBook
      BY Zenon, LoadSettled, SaveWorkspaceEdits DEF LoadStore, SettledBook, SoundBook, Sound
    <2>2. cache' \in [Console -> SoundBook]
      BY Zenon, <1>3 DEF saveProfile, start, Books
    <2>3. CASE saveProfile(p, n, c)
      BY Zenon, <1>1, <2>1, <2>2, <2>3, BeginSaveKeeps DEF saveProfile
    <2>4. CASE start(p, n, c)
      BY Zenon, <1>1, <2>1, <2>2, <2>4, BeginSaveKeeps DEF start
    <2>5. QED
      BY Zenon, <1>3, <2>3, <2>4
  <1>4. ASSUME deleteSelectedProfile(p, n) PROVE Books'
    <2> DEFINE d == DeleteProfileOf(LoadStore, n)
    <2>1. d \in SoundBook
      BY Zenon, LoadSettled, DeleteProfileEdits DEF SettledBook, SoundBook, Sound, Settled
    <2>2. cache' \in [Console -> SoundBook]
      BY Zenon, <1>4 DEF deleteSelectedProfile, Books
    <2>3. QED
      BY Zenon, <1>1, <1>4, <2>1, <2>2, BeginSaveKeeps DEF deleteSelectedProfile
  <1>5. ASSUME loadSelectedProfile(p, n) \/ startMount(p, n) PROVE Books'
    <2>1. p \in Console /\ cache' = [cache EXCEPT ![p].active = n]
      BY Zenon, <1>5 DEF loadSelectedProfile, startMount
    <2>2. cache[p] \in SoundBook
      BY Zenon, <2>1 DEF Books
    <2>3. [cache[p] EXCEPT !.active = n] \in SoundBook
      BY Zenon, <2>2 DEF SoundBook, Sound, B!Book, B!Saved
    <2>4. cache'[p] = [cache[p] EXCEPT !.active = n] /\ cache' \in [Console -> SoundBook]
      BY Zenon, <2>1, <2>3 DEF Books
    <2>5. CASE loadSelectedProfile(p, n)
      BY Zenon, <1>1, <2>1, <2>3, <2>4, <2>5, BeginSaveKeeps DEF loadSelectedProfile
    <2>6. CASE startMount(p, n)
      BY Zenon, <1>1, <2>1, <2>3, <2>4, <2>6, BeginSaveKeeps DEF startMount
    <2>7. QED
      BY Zenon, <1>5, <2>5, <2>6
  <1>6. QED
    BY Zenon, <1>3, <1>4, <1>5

\* The steps of a save.
LEMMA SaveKeepsBooks ==
    ASSUME Books, NEW p \in Program, Open(p) \/ Write(p) \/ Rename(p) \/ SaveFails(p)
    PROVE  Books'
  <1>1. JobOK(p) /\ pc[p] \in Step
    BY Zenon DEF Books
  <1>2. CASE Open(p)
    <2>1. \E x \in {Blank, Torn} : tmp' = [tmp EXCEPT ![job[p].file] = x]
      BY Zenon, <1>2 DEF Open
    <2>2. tmp' = [f \in File |-> tmp'[f]] /\ tmp'["store"] \in Contents(SettledBook)
      BY Zenon, <2>1 DEF Books, File, Contents
    <2>3. pc' = [pc EXCEPT ![p] = "write"] /\ pc[p] = "open" /\ UNCHANGED <<path, job, marks, cache>>
      BY Zenon, <1>2 DEF Open
    <2>4. pc' \in [Program -> Step]
      BY Zenon, <2>3 DEF Books, Step, Saver
    <2>5. JobOK(p)'
      BY Zenon, <1>1, <2>3 DEF Books, JobOK, Saver
    <2>6. \A q \in Program : JobOK(q)'
      BY Zenon, <2>3, <2>5, OthersKeep DEF Books
    <2>7. QED
      BY Zenon, <2>2, <2>3, <2>4, <2>6 DEF Books
  <1>3. CASE Write(p)
    <2>1. \E x \in {job[p].new, Torn} : tmp' = [tmp EXCEPT ![job[p].file] = x]
      BY <1>3, Zenon DEF Write
    <2>2. job[p].file = "store" => job[p].new \in Contents(SettledBook)
      BY Zenon, <1>1 DEF JobOK, Contents
    <2>3. tmp' = [f \in File |-> tmp'[f]] /\ tmp'["store"] \in Contents(SettledBook)
      BY Zenon, <2>1, <2>2 DEF Books, File, Contents
    <2>4. pc' = [pc EXCEPT ![p] = "rename"] /\ pc[p] = "write" /\ UNCHANGED <<path, job, marks, cache>>
      BY Zenon, <1>3 DEF Write
    <2>5. pc' \in [Program -> Step]
      BY Zenon, <2>4 DEF Books, Step, Saver
    <2>6. JobOK(p)'
      BY Zenon, <1>1, <2>4 DEF Books, JobOK, Saver
    <2>7. \A q \in Program : JobOK(q)'
      BY Zenon, <2>4, <2>6, OthersKeep DEF Books
    <2>8. QED
      BY Zenon, <2>3, <2>4, <2>5, <2>7 DEF Books
  <1>4. ASSUME AfterSave(p, TRUE) \/ AfterSave(p, FALSE), pc[p] \in Saver,
               path' = [f \in File |-> path'[f]], tmp' = [f \in File |-> tmp'[f]],
               path'["store"] \in Contents(SettledBook), tmp'["store"] \in Contents(SettledBook)
        PROVE  Books'
    <2>1. /\ job' = [q \in Program |-> job'[q]] /\ pc' \in [Program -> Step]
          /\ marks' \in [Program -> Seq(Op)] /\ cache' \in [Console -> SoundBook]
          /\ JobOK(p)'
          /\ \A q \in Program \ {p} : job'[q] = job[q] /\ pc'[q] = pc[q] /\ marks'[q] = marks[q]
      BY Zenon, <1>4, AfterSaveKeeps
    <2>2. \A q \in Program : JobOK(q)'
      BY Zenon, <2>1, OthersKeep
    <2>3. QED
      BY Zenon, <1>4, <2>1, <2>2 DEF Books
  <1>5. CASE Rename(p)
    <2>1. /\ pc[p] = "rename" /\ AfterSave(p, TRUE)
          /\ path' = [path EXCEPT ![job[p].file] = tmp[job[p].file]]
          /\ tmp' = [tmp EXCEPT ![job[p].file] = None]
      BY Zenon, <1>5 DEF Rename
    <2>2. /\ path' = [f \in File |-> path'[f]] /\ tmp' = [f \in File |-> tmp'[f]]
          /\ path'["store"] \in {path["store"], tmp["store"]}
          /\ tmp'["store"] \in {tmp["store"], None}
      BY Zenon, <2>1 DEF Books, File
    <2>3. QED
      BY Zenon, <1>4, <2>1, <2>2 DEF Saver, Books, Contents
  <1>6. CASE SaveFails(p)
    BY Zenon, <1>4, <1>6 DEF SaveFails, Saver, Books
  <1>7. QED
    BY Zenon, <1>2, <1>3, <1>5, <1>6

\* Every step keeps the stored books settled.
LEMMA BooksNext == Books /\ [Next]_vars => Books'
  <1> SUFFICES ASSUME Books, [Next]_vars PROVE Books'
    BY Zenon
  <1>1. /\ <<"update">> \in Seq(Op) /\ <<"update", "update">> \in Seq(Op)
        /\ <<"start", "update">> \in Seq(Op) /\ <<"exit">> \in Seq(Op) /\ <<>> \in Seq(Op)
    BY DEF Op
  <1>2. NoJob.file = "none"
    BY Zenon DEF NoJob
  <1>3. ASSUME NEW p \in Program, \/ startMountUnnamed(p) \/ stopMount(p) \/ Exit(p)
                                   \/ refreshRuntimeViews(p, <<"update">>)
        PROVE  Books'
    <2>1. p \in Console /\ pc[p] = "idle" /\ UNCHANGED <<path, tmp, job, cache>>
          /\ pc' = [pc EXCEPT ![p] = "mark"]
      BY Zenon, <1>3 DEF startMountUnnamed, stopMount, Exit, refreshRuntimeViews
    <2>2. \E ms \in Seq(Op) : ms # <<>> /\ marks' = [marks EXCEPT ![p] = ms]
      BY Zenon, <1>1, <1>3 DEF startMountUnnamed, stopMount, Exit, refreshRuntimeViews
    <2>3. job[p] = NoJob
      BY Zenon, <2>1 DEF Books, JobOK, Saver
    <2>4. QED
      BY Zenon, <2>1, <2>2, <2>3, TurnToMarkerKeeps DEF Books
  <1>4. ASSUME NEW p \in Program, Mark(p) PROVE Books'
    <2>1. pc[p] = "mark" /\ job[p] = NoJob /\ marks[p] # <<>> /\ JobOK(p)
      BY Zenon, <1>4 DEF Mark, Books, JobOK, Saver
    <2>2. MarkerAfter(Head(marks[p])) \in BOOLEAN
      BY Zenon DEF MarkerAfter
    <2>3. /\ job' = [job EXCEPT ![p].file = "marker", ![p].new = Whole(MarkerAfter(Head(marks[p])))]
          /\ pc' = [pc EXCEPT ![p] = "open"] /\ UNCHANGED <<path, tmp, marks, cache>>
      BY Zenon, <1>4 DEF Mark
    <2>4. /\ job' = [q \in Program |-> job'[q]]
          /\ job'[p].file = "marker" /\ job'[p].new = Whole(MarkerAfter(Head(marks[p])))
          /\ \A q \in Program \ {p} : job'[q] = job[q]
      BY Zenon, <2>1, <2>3 DEF Books, NoJob
    <2>5. pc'[p] = "open" /\ pc' \in [Program -> Step]
      BY Zenon, <2>3 DEF Books, Step, Saver
    <2>6. JobOK(p)'
      BY ZenonT(30), <2>1, <2>2, <2>3, <2>4, <2>5 DEF JobOK, Saver, File
    <2>7. \A q \in Program : JobOK(q)'
      BY Zenon, <2>3, <2>4, <2>6, OthersKeep DEF Books
    <2>8. QED
      BY Zenon, <2>3, <2>4, <2>5, <2>7 DEF Books
  <1>5. ASSUME NEW p \in Program, MarkFails(p) PROVE Books'
    <2>1. pc[p] = "mark" /\ job[p] = NoJob /\ marks[p] # <<>> /\ p \in Console
      BY Zenon, <1>5 DEF MarkFails, Books, JobOK, Saver
    <2>2. MarkDone(p) /\ UNCHANGED <<path, tmp, job, cache>>
      BY Zenon, <1>5 DEF MarkFails
    <2>3. marks' = [marks EXCEPT ![p] = Tail(@)] /\ marks' \in [Program -> Seq(Op)]
      BY <2>1, <2>2 DEF MarkDone, Books
    <2>4. /\ pc'[p] \in {"down", "idle", "mark"} /\ (pc'[p] = "mark" => marks'[p] # <<>>)
          /\ pc' = [pc EXCEPT ![p] = pc'[p]]
      BY Zenon, <2>2, <2>3 DEF MarkDone, Books
    <2>5. JobOK(p)'
      BY Zenon, <1>2, <2>1, <2>2, <2>4 DEF JobOK, Saver
    <2>6. \A q \in Program : JobOK(q)'
      BY Zenon, <2>2, <2>3, <2>4, <2>5, OthersKeep DEF Books
    <2>7. pc' \in [Program -> Step]
      BY Zenon, <2>4 DEF Books, Step
    <2>8. QED
      BY Zenon, <2>2, <2>3, <2>6, <2>7 DEF Books
  <1>6. ASSUME NEW p \in Program, NEW ok, LaunchConsole(p, ok) PROVE Books'
    <2>1. B!EmptyBook \in SoundBook /\ LoadStore \in SoundBook
      BY Zenon, LoadSettled, EmptyBookSettled DEF Settled, SettledBook, SoundBook, Sound
    <2>2. cache' \in [Console -> SoundBook]
      BY Zenon, <1>6, <2>1 DEF LaunchConsole, Books
    <2>3. p \in Console /\ job[p] = NoJob
      BY Zenon, <1>6 DEF LaunchConsole, Books, JobOK, Saver
    <2>4. QED
      BY Zenon, <1>1, <1>6, <2>2, <2>3, TurnToMarkerKeeps DEF LaunchConsole
  <1>7. ASSUME NEW p \in Program, loadState(p) PROVE Books'
    <2>1. pc[p] = "down" /\ pc' = [pc EXCEPT ![p] = "idle"] /\ UNCHANGED <<path, tmp, job, marks, cache>>
      BY Zenon, <1>7 DEF loadState
    <2>2. JobOK(p)'
      BY Zenon, <2>1 DEF Books, JobOK, Saver
    <2>3. \A q \in Program : JobOK(q)'
      BY Zenon, <2>1, <2>2, OthersKeep DEF Books
    <2>4. QED
      BY Zenon, <2>1, <2>3 DEF Books, Step
  <1>8. ASSUME NEW p \in Program, Vanish(p) PROVE Books'
    <2>1. /\ pc' = [pc EXCEPT ![p] = "down"] /\ job' = [job EXCEPT ![p] = NoJob]
          /\ marks' = [marks EXCEPT ![p] = <<>>] /\ UNCHANGED <<path, tmp>>
      BY Zenon, <1>8 DEF Vanish
    <2>2. cache' \in [Console -> SoundBook]
      BY Zenon, <1>8, EmptyBookSettled DEF Vanish, Books, Settled, Sound, SoundBook
    <2>3. /\ pc'[p] = "down" /\ job'[p] = NoJob /\ marks'[p] = <<>>
          /\ \A q \in Program \ {p} : job'[q] = job[q] /\ pc'[q] = pc[q] /\ marks'[q] = marks[q]
          /\ job' = [q \in Program |-> job'[q]]
      BY Zenon, <2>1 DEF Books
    <2>4. JobOK(p)'
      BY Zenon, <1>2, <2>3 DEF JobOK, Saver
    <2>5. \A q \in Program : JobOK(q)'
      BY Zenon, <2>3, <2>4, OthersKeep
    <2>6. pc' \in [Program -> Step] /\ marks' \in [Program -> Seq(Op)]
      BY Zenon, <1>1, <2>1 DEF Books, Step
    <2>7. QED
      BY Zenon, <2>1, <2>2, <2>3, <2>5, <2>6 DEF Books
  <1>9. CASE UNCHANGED vars
    BY Zenon, <1>9 DEF vars, Books, JobOK
  <1>10. ASSUME Next PROVE Books'
    <2>1. PICK p \in Program :
             \/ handleCommand(p) \/ handleTrayCommand(p) \/ handleUserCommand(p)
             \/ Open(p) \/ Write(p) \/ Rename(p) \/ SaveFails(p)
             \/ Mark(p) \/ MarkFails(p)
             \/ LaunchConsole(p, TRUE) \/ LaunchConsole(p, FALSE) \/ loadState(p) \/ Vanish(p)
      BY <1>10, Zenon DEF Next
    <2>2. CASE handleCommand(p)
      BY <1>3, <2>2, CommandKeepsBooks, Zenon DEF handleCommand
    <2>3. CASE handleTrayCommand(p)
      BY <1>3, <2>3, CommandKeepsBooks, Zenon DEF handleTrayCommand
    <2>4. CASE handleUserCommand(p)
      BY <1>6, <2>4, CommandKeepsBooks, Zenon DEF handleUserCommand, openSupport, Program
    <2>5. QED
      BY <1>4, <1>5, <1>6, <1>7, <1>8, <2>1, <2>2, <2>3, <2>4, SaveKeepsBooks, Zenon
  <1>11. QED
    BY Zenon, <1>9, <1>10

\* The default of a stored book is one of its workspaces, whatever the programs
\* do to each other's saves (normalizeState, DeleteProfile).
THEOREM DefaultAlwaysSaved == Spec => []DefaultIsSaved
  <1>1. Books => DefaultIsSaved
    <2> SUFFICES ASSUME Books, path["store"].kind = "whole"
                 PROVE  LET b == path["store"].doc
                        IN  IF B!Saved(b) = {} THEN b.dflt = 0 ELSE b.dflt \in B!Saved(b)
      BY Zenon DEF DefaultIsSaved
    <2>1. PICK d \in SettledBook : path["store"] = Whole(d)
      BY DEF Books, Contents, None, Blank, Torn
    <2>2. path["store"].doc = d
      BY <2>1 DEF Whole
    <2>3. QED
      BY Zenon, <2>2 DEF SettledBook, Settled, Sound
  <1>2. QED
    BY <1>1, BooksInit, BooksNext, PTL DEF Spec

-----------------------------------------------------------------------------
(* The store implements ProfileBook.                                       *)

\* d is b after one edit of ProfileBook.
EditOf(b, d) ==
    \/ \E n \in Names, c \in Configs :
          d = [profiles |-> [b.profiles EXCEPT ![n] = c], active |-> n,
               dflt |-> IF b.dflt = 0 THEN n ELSE b.dflt]
    \/ \E n \in Names : d.profiles = [b.profiles EXCEPT ![n] = 0]
    \/ \E n \in Names : /\ d.profiles = b.profiles
                        /\ d.active = IF n \in B!Saved(b) THEN n ELSE 0

\* What p writes is an edit of the book on disk, and the temporary file is its own.
SavingOK(p) ==
    job[p].file = "store" =>
        /\ \E d \in SettledBook : /\ job[p].new = Whole(d) /\ EditOf(BookOnDisk, d)
                                  /\ job[p].result.profiles = d.profiles
        /\ pc[p] = "write" => tmp["store"] \in {Blank, Torn}
        /\ pc[p] = "rename" => tmp["store"] = job[p].new

\* While the store is used as it may be, one program saves at a time, and every
\* running console has the workspaces that are on disk.
Saving ==
    /\ trusted \in BOOLEAN
    /\ trusted =>
         /\ \A p, q \in Program : job[p].file = "store" /\ job[q].file = "store" => p = q
         /\ \A p \in Program : SavingOK(p)
         /\ \A p \in Console : pc[p] # "down" => cache[p].profiles = BookOnDisk.profiles

\* The initial state is an empty book, and nobody saves.
LEMMA SavingInit == Init => Saving /\ B!BookInit
  <1> SUFFICES ASSUME Init PROVE Saving /\ B!BookInit
    BY Zenon
  <1>1. BookOnDisk = B!EmptyBook
    BY Zenon DEF Init, BookOnDisk, None, B!EmptyBook
  <1>2. trusted = TRUE
    BY Zenon DEF Init
  <1>3. \A p \in Program : job[p].file = "none" /\ pc[p] = "down"
    BY Zenon DEF Init, NoJob
  <1>4. QED
    BY Zenon, <1>1, <1>2, <1>3 DEF Saving, SavingOK, B!BookInit, Program

\* A step of p that leaves the store and its temporary file alone, and after which
\* p saves no book.
LEMMA QuietKeepsSaving ==
    ASSUME Saving, trusted, trusted' = TRUE, NEW p \in Program,
           path'["store"] = path["store"], tmp'["store"] = tmp["store"],
           \A q \in Program \ {p} : job'[q] = job[q] /\ pc'[q] = pc[q],
           job'[p].file # "store",
           \A q \in Console : pc'[q] # "down" => cache'[q].profiles = BookOnDisk.profiles
    PROVE  Saving' /\ BookOnDisk' = BookOnDisk
  <1>1. BookOnDisk' = BookOnDisk
    BY Zenon DEF BookOnDisk
  <1>2. ASSUME NEW q \in Program PROVE SavingOK(q)'
    <2>1. CASE q = p
      BY Zenon, <2>1 DEF SavingOK
    <2>2. CASE q # p
      BY <1>1, <2>2 DEF Saving, SavingOK
    <2>3. QED
      BY Zenon, <2>1, <2>2
  <1>3. \A q, r \in Program : job'[q].file = "store" /\ job'[r].file = "store" => q = r
    BY Zenon DEF Saving
  <1>4. \A q \in Console : pc'[q] # "down" => cache'[q].profiles = BookOnDisk'.profiles
    BY Zenon, <1>1
  <1>5. QED
    BY Zenon, <1>1, <1>2, <1>3, <1>4 DEF Saving

\* A command begins to save an edit of the book on disk.
LEMMA BeginSaveSaves ==
    ASSUME Books, Saving, trusted' = TRUE, NEW p \in Program, NEW b \in SoundBook, NEW ms, NEW how,
           pc[p] = "idle", BeginSave(p, b, ms, how), EditOf(BookOnDisk, normalizeState(b)),
           \A q \in Console : cache'[q].profiles = cache[q].profiles
    PROVE  Saving' /\ BookOnDisk' = BookOnDisk /\ trusted' = trusted
  <1>1. trusted /\ \A q \in Others(p) : job[q].file # "store"
    BY Zenon DEF BeginSave
  <1>2. trusted = TRUE
    BY <1>1, Zenon DEF Saving
  <1>3. /\ path' = path /\ tmp' = tmp
        /\ job'[p].file = "store" /\ job'[p].new = Whole(normalizeState(b)) /\ job'[p].result = b
        /\ pc'[p] = "open" /\ \A q \in Program \ {p} : job'[q] = job[q] /\ pc'[q] = pc[q]
    BY Zenon DEF BeginSave, Books
  <1>4. BookOnDisk' = BookOnDisk
    BY Zenon, <1>3 DEF BookOnDisk
  <1>5. normalizeState(b) \in SettledBook /\ normalizeState(b).profiles = b.profiles
    BY Zenon, NormalizeSettles DEF SoundBook, SettledBook, Settled, Sound
  <1>6. SavingOK(p)'
    BY Zenon, <1>3, <1>4, <1>5 DEF SavingOK
  <1>7. \A q \in Program \ {p} : job'[q].file # "store"
    BY Zenon, <1>1, <1>3 DEF Others
  <1>8. \A q \in Program : SavingOK(q)'
    BY Zenon, <1>6, <1>7 DEF SavingOK
  <1>9. \A q \in Console : pc'[q] # "down" => cache'[q].profiles = BookOnDisk'.profiles
    BY Zenon, <1>1, <1>3, <1>4 DEF Saving, Program
  <1>10. QED
    BY Zenon, <1>2, <1>4, <1>7, <1>8, <1>9 DEF Saving

\* Every command saves an edit of the book on disk: the ones that load it first,
\* and the ones that save the console's own copy.
LEMMA CommandSaves ==
    ASSUME Books, Saving, trusted' = TRUE, NEW p \in Program, NEW n \in Names,
           \/ \E c \in Configs : saveProfile(p, n, c) \/ start(p, n, c)
           \/ deleteSelectedProfile(p, n) \/ loadSelectedProfile(p, n) \/ startMount(p, n)
    PROVE  Saving' /\ BookOnDisk' = BookOnDisk /\ trusted' = trusted
  <1>1. ASSUME NEW c \in Configs, saveProfile(p, n, c) \/ start(p, n, c)
        PROVE  Saving' /\ BookOnDisk' = BookOnDisk /\ trusted' = trusted
    <2> DEFINE d == SaveWorkspaceOf(LoadStore, n, c)
    <2>1. Settled(BookOnDisk) /\ LoadStore = normalizeState(BookOnDisk)
      BY Zenon, LoadSettled DEF SettledBook, LoadStore
    <2>2. /\ Sound(d)
          /\ normalizeState(d) = [profiles |-> [BookOnDisk.profiles EXCEPT ![n] = c], active |-> n,
                                  dflt |-> IF BookOnDisk.dflt = 0 THEN n ELSE BookOnDisk.dflt]
      BY Zenon, <2>1, SaveWorkspaceEdits
    <2>3. d \in SoundBook /\ EditOf(BookOnDisk, normalizeState(d))
      BY <2>2, Zenon DEF EditOf, SoundBook, Sound
    <2>4. pc[p] = "idle" /\ cache' = cache
      BY Zenon, <1>1 DEF saveProfile, start
    <2>5. \E ms, how : BeginSave(p, d, ms, how)
      BY <1>1, Zenon DEF saveProfile, start
    <2>6. QED
      BY <2>3, <2>4, <2>5, BeginSaveSaves, Zenon
  <1>2. ASSUME deleteSelectedProfile(p, n)
        PROVE  Saving' /\ BookOnDisk' = BookOnDisk /\ trusted' = trusted
    <2> DEFINE d == DeleteProfileOf(LoadStore, n)
    <2>1. Sound(d) /\ d.profiles = [BookOnDisk.profiles EXCEPT ![n] = 0]
      BY SMTT(30), LoadSettled, DeleteProfileEdits DEF SettledBook, Settled
    <2>2. normalizeState(d).profiles = d.profiles
      BY Zenon, <2>1, NormalizeSettles
    <2>3. d \in SoundBook /\ EditOf(BookOnDisk, normalizeState(d))
      BY <2>1, <2>2, Zenon DEF EditOf, SoundBook, Sound
    <2>4. pc[p] = "idle" /\ cache' = cache
      BY Zenon, <1>2 DEF deleteSelectedProfile
    <2>5. \E ms, how : BeginSave(p, d, ms, how)
      BY <1>2, Zenon DEF deleteSelectedProfile
    <2>6. QED
      BY <2>3, <2>4, <2>5, BeginSaveSaves, Zenon
  <1>3. ASSUME loadSelectedProfile(p, n) \/ startMount(p, n)
        PROVE  Saving' /\ BookOnDisk' = BookOnDisk /\ trusted' = trusted
    <2> DEFINE d == cache'[p]
    <2>1. p \in Console /\ pc[p] = "idle" /\ cache' = [cache EXCEPT ![p].active = n]
      BY Zenon, <1>3 DEF loadSelectedProfile, startMount
    <2>2. \E ms, how : BeginSave(p, d, ms, how)
      BY <1>3, Zenon DEF loadSelectedProfile, startMount
    <2>3. trusted
      BY <2>2, Zenon DEF BeginSave
    <2>4. cache[p] \in SoundBook /\ cache[p].profiles = BookOnDisk.profiles
      BY Zenon, <2>1, <2>3 DEF Books, Saving
    <2>5. /\ d = [cache[p] EXCEPT !.active = n]
          /\ \A q \in Console : cache'[q].profiles = cache[q].profiles
      BY Zenon, <2>1, <2>4 DEF Books, SoundBook, B!Book
    <2>6. /\ d \in SoundBook /\ d.profiles = BookOnDisk.profiles /\ d.active = n
          /\ B!Saved(d) = B!Saved(BookOnDisk)
      BY Zenon, <2>4, <2>5 DEF SoundBook, Sound, B!Book, B!Saved
    <2>7. /\ normalizeState(d).profiles = BookOnDisk.profiles
          /\ normalizeState(d).active = IF n \in B!Saved(BookOnDisk) THEN n ELSE 0
      BY Zenon, <2>6, NormalizeSettles DEF SoundBook
    <2>8. EditOf(BookOnDisk, normalizeState(d))
      BY <2>7, Zenon DEF EditOf
    <2>9. QED
      BY <2>1, <2>2, <2>5, <2>6, <2>8, BeginSaveSaves, Zenon
  <1>4. QED
    BY Zenon, <1>1, <1>2, <1>3

\* The rename of a saved book is an edit of the book on disk.
LEMMA RenameEdits ==
    ASSUME Books, Saving, trusted' = TRUE, NEW p \in Program, Rename(p), job[p].file = "store"
    PROVE  Saving' /\ B!BookNext
  <1>1. trusted /\ \A q \in Others(p) \cap Console : pc[q] = "down"
    BY Zenon DEF Rename
  <1>2. trusted = TRUE /\ trusted' = trusted
    BY <1>1, Zenon DEF Saving
  <1>3. PICK d \in SettledBook : /\ job[p].new = Whole(d) /\ EditOf(BookOnDisk, d)
                                /\ job[p].result.profiles = d.profiles
    BY Zenon, <1>1 DEF Saving, SavingOK
  <1>4. tmp["store"] = Whole(d) /\ pc[p] = "rename"
    BY Zenon, <1>1, <1>3 DEF Saving, SavingOK, Rename
  <1>5. /\ path'["store"] = Whole(d)
        /\ AfterSave(p, TRUE)
    BY Zenon, <1>4 DEF Rename, Books, File
  <1>6. BookOnDisk' = d
    BY <1>5 DEF BookOnDisk, Whole
  <1>7. /\ job'[p].file = "none"
        /\ \A q \in Program \ {p} : job'[q] = job[q] /\ pc'[q] = pc[q]
    BY Zenon, <1>4, <1>5, AfterSaveKeeps DEF Saver, AfterSave, NoJob, Books
  <1>8. \A q \in Program : job'[q].file # "store"
    BY Zenon, <1>1, <1>7 DEF Saving
  <1>9. \A q \in Console : pc'[q] # "down" => cache'[q].profiles = d.profiles
    <2>1. SUFFICES ASSUME NEW q \in Console, pc'[q] # "down" PROVE cache'[q].profiles = d.profiles
      BY Zenon
    <2>2. q = p
      BY Zenon, <1>1, <1>7, <2>1 DEF Others, Program
    <2>3. cache' = [cache EXCEPT ![p] = job[p].result]
      BY Zenon, <1>5, <2>2 DEF AfterSave
    <2>4. QED
      BY Zenon, <1>3, <2>2, <2>3 DEF Books
  <1>10. Saving'
    BY Zenon, <1>2, <1>6, <1>8, <1>9 DEF Saving, SavingOK
  <1>11. d \in B!Book
    BY Zenon DEF SettledBook
  <1>12. B!BookNext
    BY <1>2, <1>3, <1>6, <1>11, Zenon
       DEF EditOf, B!BookNext, B!SaveEntry, B!DeleteEntry, B!Activate
  <1>13. QED
    BY Zenon, <1>10, <1>12

\* The other steps of a save leave the book on disk alone.
LEMMA SaveStepSaves ==
    ASSUME Books, Saving, trusted' = TRUE, NEW p \in Program,
           Open(p) \/ Write(p) \/ SaveFails(p) \/ (Rename(p) /\ job[p].file # "store")
    PROVE  Saving' /\ BookOnDisk' = BookOnDisk /\ trusted' = trusted
  <1>1. trusted' = trusted
    <2>1. CASE Open(p) \/ Write(p) \/ SaveFails(p)
      BY Zenon, <2>1 DEF Open, Write, SaveFails
    <2>2. CASE Rename(p) /\ job[p].file # "store"
      <3>1. trusted' = (trusted /\ TRUE)
        BY <2>2, Zenon DEF Rename
      <3>2. QED
        BY <3>1, Zenon DEF Saving
    <2>3. QED
      BY Zenon, <2>1, <2>2
  <1>2. trusted
    BY <1>1
  <1>3. pc[p] \in Saver /\ job[p].file \in File /\ p \in Program
    BY Zenon DEF Books, JobOK, Open, Write, SaveFails, Rename, Saver
  <1>4. \A q \in Console : pc[q] # "down" => cache[q].profiles = BookOnDisk.profiles
    BY Zenon, <1>2 DEF Saving
  <1>5. ASSUME Open(p) \/ Write(p)
        PROVE  Saving' /\ BookOnDisk' = BookOnDisk
    <2>1. /\ UNCHANGED <<path, job, cache>>
          /\ \E s \in {"write", "rename"} : pc' = [pc EXCEPT ![p] = s]
      BY Zenon, <1>5 DEF Open, Write
    <2>2. /\ \A q \in Program \ {p} : pc'[q] = pc[q]
          /\ \A q \in Program : pc'[q] # "down" => pc[q] # "down"
      BY Zenon, <1>3, <2>1 DEF Books, Saver
    <2>3. BookOnDisk' = BookOnDisk
      BY Zenon, <2>1 DEF BookOnDisk
    <2>4. CASE job[p].file # "store"
      <3>1. tmp'["store"] = tmp["store"]
        BY Zenon, <1>3, <1>5, <2>4 DEF Open, Write, Books, File
      <3>2. QED
        BY Zenon, <1>2, <1>4, <2>1, <2>2, <2>4, <3>1, QuietKeepsSaving DEF Program
    <2>5. CASE job[p].file = "store"
      <3>1. \A q \in Program \ {p} : job[q].file # "store"
        BY Zenon, <1>2, <2>5 DEF Saving
      <3>2. SavingOK(p)
        BY Zenon, <1>2 DEF Saving
      <3>3. ASSUME Open(p) PROVE SavingOK(p)'
        <4>1. pc'[p] = "write" /\ tmp'["store"] \in {Blank, Torn}
          BY Zenon, <1>3, <2>5, <3>3 DEF Open, Books, File
        <4>2. QED
          BY Zenon, <2>1, <2>3, <3>2, <4>1 DEF SavingOK
      <3>4. ASSUME Write(p) PROVE SavingOK(p)'
        <4>1. tmp["store"].kind \in {"blank", "torn"}
          BY SMTT(30), <2>5, <3>2, <3>4 DEF SavingOK, Write, Blank, Torn
        <4>2. ~(\E q \in Others(p) : pc[q] = "write" /\ job[q].file = job[p].file)
          BY Zenon, <2>5, <3>1 DEF Others
        <4>3. tmp' = [tmp EXCEPT ![job[p].file] = job[p].new]
          BY Zenon, <2>5, <3>4, <4>1, <4>2 DEF Write
        <4>4. pc'[p] = "rename" /\ tmp'["store"] = job[p].new
          BY Zenon, <2>5, <3>4, <4>3 DEF Write, Books, File
        <4>5. QED
          BY Zenon, <2>1, <2>3, <3>2, <4>4 DEF SavingOK
      <3>5. SavingOK(p)'
        BY Zenon, <1>5, <3>3, <3>4
      <3>6. \A q \in Program : SavingOK(q)'
        BY Zenon, <2>1, <3>1, <3>5 DEF SavingOK
      <3>7. \A q \in Console : pc'[q] # "down" => cache'[q].profiles = BookOnDisk'.profiles
        BY Zenon, <1>4, <2>1, <2>2, <2>3 DEF Program
      <3>8. QED
        BY Zenon, <2>1, <2>3, <3>1, <3>6, <3>7 DEF Saving
    <2>6. QED
      BY Zenon, <2>4, <2>5
  <1>6. ASSUME SaveFails(p) \/ (Rename(p) /\ job[p].file # "store")
        PROVE  Saving' /\ BookOnDisk' = BookOnDisk
    <2>1. path'["store"] = path["store"] /\ tmp'["store"] = tmp["store"]
      BY Zenon, <1>3, <1>6 DEF SaveFails, Rename, Books, File
    <2>2. cache' = cache
      BY Zenon, <1>3, <1>6 DEF SaveFails, Rename, AfterSave
    <2>3. /\ job'[p].file = "none"
          /\ \A q \in Program \ {p} : job'[q] = job[q] /\ pc'[q] = pc[q]
      <3>1. PICK ok \in BOOLEAN : AfterSave(p, ok)
        BY Zenon, <1>6 DEF SaveFails, Rename
      <3>2. job'[p].file = "none"
        BY Zenon, <3>1 DEF AfterSave, NoJob, Books
      <3>3. QED
        BY Zenon, <1>3, <3>1, <3>2, AfterSaveKeeps
    <2>4. \A q \in Program : pc'[q] # "down" => pc[q] # "down"
      BY Zenon, <1>3, <2>3 DEF Saver
    <2>5. \A q \in Console : pc'[q] # "down" => cache'[q].profiles = BookOnDisk.profiles
      BY Zenon, <1>4, <2>2, <2>4 DEF Program
    <2>6. QED
      BY Zenon, <1>2, <2>1, <2>3, <2>5, QuietKeepsSaving
  <1>7. QED
    BY Zenon, <1>1, <1>5, <1>6

\* The steps that have nothing to do with a save of the store.
LEMMA OtherStepSaves ==
    ASSUME Books, Saving, trusted' = TRUE, NEW p \in Program,
           \/ startMountUnnamed(p) \/ stopMount(p) \/ Exit(p) \/ refreshRuntimeViews(p, <<"update">>)
           \/ Mark(p) \/ MarkFails(p) \/ loadState(p) \/ Vanish(p)
           \/ \E ok \in BOOLEAN : LaunchConsole(p, ok)
    PROVE  Saving' /\ BookOnDisk' = BookOnDisk /\ trusted' = trusted
  <1>1. NoJob.file = "none"
    BY Zenon DEF NoJob
  <1>2. path' = path /\ tmp' = tmp
    BY Zenon DEF startMountUnnamed, stopMount, Exit, refreshRuntimeViews, Mark, MarkFails, loadState,
           Vanish, LaunchConsole
  <1>3. CASE \/ startMountUnnamed(p) \/ stopMount(p) \/ Exit(p) \/ refreshRuntimeViews(p, <<"update">>)
             \/ Mark(p) \/ MarkFails(p)
    <2>1. /\ trusted' = trusted /\ cache' = cache /\ pc[p] \in {"idle", "mark"}
          /\ \E s \in {"down", "idle", "mark", "open"} : pc' = [pc EXCEPT ![p] = s]
      BY Zenon, <1>3 DEF startMountUnnamed, stopMount, Exit, refreshRuntimeViews, Mark, MarkFails, MarkDone
    <2>2. job[p] = NoJob
      BY Zenon, <2>1 DEF Books, JobOK, Saver
    <2>3. job'[p].file # "store" /\ \A q \in Program \ {p} : job'[q] = job[q]
      <3>1. CASE Mark(p)
        BY Zenon, <2>2, <3>1 DEF Mark, Books, NoJob
      <3>2. CASE ~Mark(p)
        BY Zenon, <1>1, <1>3, <2>2, <3>2
           DEF startMountUnnamed, stopMount, Exit, refreshRuntimeViews, MarkFails
      <3>3. QED
        BY Zenon, <3>1, <3>2
    <2>4. trusted
      BY <2>1
    <2>5. /\ \A q \in Program \ {p} : pc'[q] = pc[q]
          /\ \A q \in Program : pc'[q] # "down" => pc[q] # "down"
      BY Zenon, <2>1 DEF Books
    <2>6. \A q \in Console : pc'[q] # "down" => cache'[q].profiles = BookOnDisk.profiles
      BY Zenon, <2>1, <2>4, <2>5 DEF Saving, Program
    <2>7. QED
      BY Zenon, <1>2, <2>1, <2>3, <2>4, <2>5, <2>6, QuietKeepsSaving
  <1>4. CASE loadState(p) \/ Vanish(p)
    <2>1. trusted' = trusted
      BY Zenon, <1>4 DEF loadState, Vanish
    <2>2. trusted
      BY <2>1
    <2>3. job'[p] = NoJob /\ \A q \in Program \ {p} : job'[q] = job[q] /\ pc'[q] = pc[q]
      BY Zenon, <1>4 DEF loadState, Vanish, Books, JobOK, Saver
    <2>4. ASSUME NEW q \in Console, pc'[q] # "down" PROVE cache'[q].profiles = BookOnDisk.profiles
      <3>1. q # p /\ q \in Program
        BY Zenon, <1>4, <2>4, ProgramAssumption DEF loadState, Vanish, Books, Program
      <3>2. cache'[q] = cache[q] /\ pc[q] # "down"
        BY Zenon, <1>4, <2>3, <2>4, <3>1 DEF loadState, Vanish, Books
      <3>3. QED
        BY Zenon, <2>2, <3>2 DEF Saving
    <2>5. QED
      BY Zenon, <1>1, <1>2, <2>1, <2>2, <2>3, <2>4, QuietKeepsSaving
  <1>5. ASSUME NEW ok \in BOOLEAN, LaunchConsole(p, ok)
        PROVE  Saving' /\ BookOnDisk' = BookOnDisk /\ trusted' = trusted
    <2>1. trusted /\ ok
      BY <1>5, Zenon DEF LaunchConsole
    <2>2. trusted = TRUE
      BY <2>1, Zenon DEF Saving
    <2>3. cache' = [cache EXCEPT ![p] = LoadStore]
      BY Zenon, <1>5, <2>1 DEF LaunchConsole
    <2>4. /\ job' = job /\ job[p] = NoJob /\ p \in Console
          /\ \A q \in Program \ {p} : pc'[q] = pc[q]
      BY Zenon, <1>5 DEF LaunchConsole, Books, JobOK, Saver
    <2>5. LoadStore.profiles = BookOnDisk.profiles
      BY Zenon, LoadSettled
    <2>6. \A q \in Console : pc'[q] # "down" => cache'[q].profiles = BookOnDisk.profiles
      BY Zenon, <2>1, <2>3, <2>4, <2>5 DEF Saving, Books, Program
    <2>7. QED
      BY Zenon, <1>1, <1>2, <2>1, <2>2, <2>4, <2>6, QuietKeepsSaving
  <1>6. QED
    BY Zenon, <1>3, <1>4, <1>5

\* Every step of the programs is an edit of the book, or a stutter.
LEMMA StepRefines == Books /\ Saving /\ [Next]_vars => Saving' /\ [B!BookNext]_<<BookOnDisk, trusted>>
  <1> SUFFICES ASSUME Books, Saving, [Next]_vars
               PROVE  Saving' /\ [B!BookNext]_<<BookOnDisk, trusted>>
    BY Zenon
  <1>1. CASE UNCHANGED vars
    BY Zenon, <1>1 DEF vars, Saving, SavingOK, BookOnDisk
  <1>2. ASSUME NEW p \in Program, trusted' = TRUE,
               \/ handleCommand(p) \/ handleTrayCommand(p) \/ handleUserCommand(p)
               \/ Open(p) \/ Write(p) \/ Rename(p) \/ SaveFails(p)
               \/ Mark(p) \/ MarkFails(p)
               \/ LaunchConsole(p, TRUE) \/ LaunchConsole(p, FALSE) \/ loadState(p) \/ Vanish(p)
        PROVE  Saving' /\ [B!BookNext]_<<BookOnDisk, trusted>>
    <2> DEFINE Goal == Saving' /\ BookOnDisk' = BookOnDisk /\ trusted' = trusted
    <2>1. CASE handleCommand(p)
      <3>1. Goal
        BY <1>2, <2>1, CommandSaves, OtherStepSaves, Zenon DEF handleCommand
      <3>2. QED
        BY Zenon, <3>1
    <2>2. CASE handleTrayCommand(p)
      <3>1. Goal
        BY <1>2, <2>2, CommandSaves, OtherStepSaves, Zenon DEF handleTrayCommand
      <3>2. QED
        BY Zenon, <3>1
    <2>3. CASE handleUserCommand(p)
      <3>1. Goal
        BY <1>2, <2>3, CommandSaves, OtherStepSaves, Zenon DEF handleUserCommand, openSupport, Program
      <3>2. QED
        BY Zenon, <3>1
    <2>4. CASE Rename(p) /\ job[p].file = "store"
      BY <1>2, <2>4, RenameEdits, Zenon
    <2>5. CASE Open(p) \/ Write(p) \/ SaveFails(p) \/ (Rename(p) /\ job[p].file # "store")
      <3>1. Goal
        BY <1>2, <2>5, SaveStepSaves, Zenon
      <3>2. QED
        BY Zenon, <3>1
    <2>6. CASE \/ Mark(p) \/ MarkFails(p) \/ loadState(p) \/ Vanish(p)
               \/ LaunchConsole(p, TRUE) \/ LaunchConsole(p, FALSE)
      <3>1. Goal
        BY <1>2, <2>6, OtherStepSaves, Zenon
      <3>2. QED
        BY Zenon, <3>1
    <2>7. QED
      BY <1>2, <2>1, <2>2, <2>3, <2>4, <2>5, <2>6, Zenon
  <1>3. ASSUME Next PROVE trusted' \in BOOLEAN
    <2>1. PICK p \in Program :
             \/ handleCommand(p) \/ handleTrayCommand(p) \/ handleUserCommand(p)
             \/ Open(p) \/ Write(p) \/ Rename(p) \/ SaveFails(p)
             \/ Mark(p) \/ MarkFails(p)
             \/ LaunchConsole(p, TRUE) \/ LaunchConsole(p, FALSE) \/ loadState(p) \/ Vanish(p)
      BY <1>3, Zenon DEF Next
    <2>2. ASSUME NEW b, NEW ms, NEW how, BeginSave(p, b, ms, how) PROVE trusted' \in BOOLEAN
      BY <2>2, Zenon DEF BeginSave
    <2>3. ASSUME NEW q, NEW ok, LaunchConsole(q, ok) PROVE trusted' \in BOOLEAN
      BY <2>3, Zenon DEF LaunchConsole
    <2>4. ASSUME Rename(p) PROVE trusted' \in BOOLEAN
      BY <2>4, Zenon DEF Rename
    <2>5. CASE handleCommand(p) \/ handleTrayCommand(p)
      BY <2>2, <2>5, Zenon DEF handleCommand, handleTrayCommand, saveProfile, deleteSelectedProfile,
         loadSelectedProfile, startMount, startMountUnnamed, stopMount, refreshRuntimeViews, Exit, Saving
    <2>6. CASE handleUserCommand(p)
      BY <2>2, <2>3, <2>6, Zenon DEF handleUserCommand, start, openSupport
    <2>7. CASE \/ Open(p) \/ Write(p) \/ SaveFails(p) \/ Mark(p) \/ MarkFails(p) \/ loadState(p) \/ Vanish(p)
      BY <2>7, Zenon DEF Open, Write, SaveFails, Mark, MarkFails, loadState, Vanish, Saving
    <2>8. QED
      BY <2>1, <2>3, <2>4, <2>5, <2>6, <2>7, Zenon
  <1>4. ASSUME Next, trusted' = FALSE PROVE Saving' /\ [B!BookNext]_<<BookOnDisk, trusted>>
    BY <1>4, Zenon DEF Saving, B!BookNext, B!Broken
  <1>5. ASSUME Next, trusted' = TRUE PROVE Saving' /\ [B!BookNext]_<<BookOnDisk, trusted>>
    BY <1>2, <1>5, Zenon DEF Next
  <1>6. QED
    BY <1>1, <1>3, <1>4, <1>5, Zenon

\* The profile store implements ProfileBook (store.go, Save; app_windows.go,
\* loadProfiles): whatever crashes, a reader finds one whole book, and each change
\* of it is one edit, as long as the store is used as it may be.
THEOREM StoreRefinesBook == Spec => RefinesBook
  <1>1. Init => Books /\ Saving /\ B!BookInit
    BY Zenon, BooksInit, SavingInit
  <1>2. Books /\ Saving /\ [Next]_vars => Books' /\ Saving' /\ [B!BookNext]_<<BookOnDisk, trusted>>
    BY Zenon, BooksNext, StepRefines
  <1>3. QED
    BY <1>1, <1>2, PTL DEF Spec, RefinesBook, B!BookSpec

-----------------------------------------------------------------------------
(* The marker.                                                             *)

Dirty == Whole(TRUE)

\* What p is about to write follows from what the marker says, and the temporary
\* file is its own.
MarkingOK(p) ==
    job[p].file = "marker" =>
        /\ Head(marks[p]) = "start" => job[p].new = Dirty
        /\ Head(marks[p]) = "exit" => job[p].new # Dirty
        /\ Head(marks[p]) \notin {"start", "exit"} => (job[p].new = Dirty <=> path["marker"] = Dirty)
        /\ pc[p] = "write" => tmp["marker"] \in {Blank, Torn}
        /\ pc[p] = "rename" => tmp["marker"] = job[p].new

\* As long as consoles have run one at a time.
Marking ==
    /\ rivals \in BOOLEAN /\ unclean \in BOOLEAN
    /\ rivals = FALSE =>
         /\ \A p, q \in Console : pc[p] # "down" /\ pc[q] # "down" => p = q
         /\ path["marker"] \in {None, Dirty, Whole(FALSE)}
         /\ path["marker"] = Dirty <=> unclean = TRUE
         /\ \A p \in Program : MarkingOK(p)

\* Contents of the marker that differ.
LEMMA MarkerContents ==
    /\ Dirty # Whole(FALSE) /\ Dirty # None /\ Blank # Dirty /\ Torn # Dirty
    /\ \A v \in BOOLEAN : Whole(v) \in {Dirty, Whole(FALSE)} /\ (Whole(v) = Dirty <=> v = TRUE)
    /\ Dirty.kind = "whole" /\ Dirty.doc = TRUE /\ Whole(FALSE).doc = FALSE /\ None.kind = "none"
  BY Zenon DEF Dirty, Whole, None, Blank, Torn

\* At first there is no marker.
LEMMA MarkingInit == Init => Marking
  <1> SUFFICES ASSUME Init PROVE Marking
    BY Zenon
  <1>1. rivals = FALSE /\ unclean = FALSE
    BY Zenon DEF Init
  <1>2. path["marker"] = None /\ \A p \in Program : pc[p] = "down" /\ job[p].file = "none"
    BY Zenon DEF Init, NoJob
  <1>3. QED
    BY Zenon, <1>1, <1>2, MarkerContents DEF Marking, MarkingOK, Program

\* A step of p that leaves the marker and its temporary file alone, and after which
\* p writes no mark.
LEMMA QuietKeepsMarking ==
    ASSUME Marking, rivals = FALSE, rivals' = FALSE, NEW p \in Program,
           path'["marker"] = path["marker"], tmp'["marker"] = tmp["marker"], unclean' = unclean,
           \A q \in Program \ {p} : job'[q] = job[q] /\ pc'[q] = pc[q] /\ marks'[q] = marks[q],
           job'[p].file # "marker",
           \/ pc[p] # "down" \/ pc'[p] = "down" \/ p \notin Console
           \/ \A q \in Console \ {p} : pc[q] = "down"
    PROVE  Marking'
  <1>1. \A q \in Program : MarkingOK(q)'
    BY SMTT(30) DEF Marking, MarkingOK
  <1>2. \A q, r \in Console : pc'[q] # "down" /\ pc'[r] # "down" => q = r
    BY SMTT(30) DEF Marking, Program
  <1>3. QED
    BY Zenon, <1>1, <1>2 DEF Marking

\* A console that has the marker to write is the only one, and writes what
\* it should.
LEMMA MarkStepKeepsMarking ==
    ASSUME Books, Marking, rivals = FALSE, rivals' = FALSE, NEW p \in Program,
           Mark(p) \/ (job[p].file = "marker" /\ (Open(p) \/ Write(p) \/ Rename(p)))
    PROVE  Marking'
  <1>1. JobOK(p) /\ MarkingOK(p)
    BY Zenon DEF Books, Marking
  <1>2. p \in Console /\ marks[p] # <<>> /\ pc[p] # "down"
    BY Zenon, <1>1 DEF JobOK, Mark, Open, Write, Rename
  <1>3. \A q \in Program \ {p} : job[q].file # "marker"
    <2>1. SUFFICES ASSUME NEW q \in Program \ {p}, job[q].file = "marker" PROVE FALSE
      BY Zenon
    <2>2. JobOK(q)
      BY Zenon DEF Books
    <2>3. q \in Console /\ pc[q] # "down"
      BY SMTT(30), <2>1, <2>2 DEF JobOK, Saver, NoJob
    <2>4. QED
      BY Zenon, <1>2, <2>1, <2>3 DEF Marking
  <1>4. ASSUME \A q \in Program \ {p} : job'[q] = job[q] /\ pc'[q] = pc[q],
               path'["marker"] = path["marker"], unclean' = unclean, MarkingOK(p)'
        PROVE  Marking'
    <2>1. \A q \in Program : MarkingOK(q)'
      BY Zenon, <1>3, <1>4 DEF MarkingOK
    <2>2. \A q, r \in Console : pc'[q] # "down" /\ pc'[r] # "down" => q = r
      BY Zenon, <1>2, <1>4 DEF Marking, Program
    <2>3. QED
      BY Zenon, <1>4, <2>1, <2>2 DEF Marking
  <1>5. CASE Mark(p)
    <2> DEFINE op == Head(marks[p])
    <2>1. /\ job' = [job EXCEPT ![p].file = "marker", ![p].new = Whole(MarkerAfter(op))]
          /\ pc' = [pc EXCEPT ![p] = "open"] /\ UNCHANGED <<path, tmp, marks, unclean>>
      BY Zenon, <1>5 DEF Mark
    <2>2. job[p] = NoJob
      BY Zenon, <1>1, <1>5 DEF JobOK, Mark, Saver
    <2>3. /\ job'[p].new = Whole(MarkerAfter(op)) /\ pc'[p] = "open"
          /\ \A q \in Program \ {p} : job'[q] = job[q] /\ pc'[q] = pc[q]
      BY Zenon, <2>1, <2>2 DEF Books, NoJob
    <2>4. MarkerAfter(op) \in BOOLEAN
      BY Zenon DEF MarkerAfter
    <2>5. /\ op = "start" => MarkerAfter(op) = TRUE
          /\ op = "exit" => MarkerAfter(op) = FALSE
      BY Zenon DEF MarkerAfter
    <2>6. op \notin {"start", "exit"} => (MarkerAfter(op) = TRUE <=> path["marker"] = Dirty)
      BY Zenon, MarkerContents DEF MarkerAfter, Marking
    <2>7. MarkingOK(p)'
      BY Zenon, <2>1, <2>3, <2>4, <2>5, <2>6, MarkerContents DEF MarkingOK
    <2>8. QED
      BY Zenon, <1>4, <2>1, <2>3, <2>7
  <1>6. CASE job[p].file = "marker" /\ Open(p)
    <2>1. pc'[p] = "write" /\ tmp'["marker"] \in {Blank, Torn}
      BY Zenon, <1>6 DEF Open, Books, File
    <2>2. UNCHANGED <<path, job, marks, unclean>> /\ \A q \in Program \ {p} : pc'[q] = pc[q]
      BY Zenon, <1>6 DEF Open, Books
    <2>3. MarkingOK(p)'
      BY Zenon, <1>1, <2>1, <2>2 DEF MarkingOK
    <2>4. QED
      BY Zenon, <1>4, <2>2, <2>3
  <1>7. CASE job[p].file = "marker" /\ Write(p)
    <2>1. tmp["marker"].kind \in {"blank", "torn"}
      BY SMTT(30), <1>1, <1>7 DEF MarkingOK, Write, Blank, Torn
    <2>2. ~(\E q \in Others(p) : pc[q] = "write" /\ job[q].file = job[p].file)
      BY Zenon, <1>3, <1>7 DEF Others
    <2>3. tmp' = [tmp EXCEPT ![job[p].file] = job[p].new]
      BY Zenon, <1>7, <2>1, <2>2 DEF Write
    <2>4. pc'[p] = "rename" /\ tmp'["marker"] = job[p].new
      BY Zenon, <1>7, <2>3 DEF Write, Books, File
    <2>5. UNCHANGED <<path, job, marks, unclean>> /\ \A q \in Program \ {p} : pc'[q] = pc[q]
      BY Zenon, <1>7 DEF Write, Books
    <2>6. MarkingOK(p)'
      BY Zenon, <1>1, <2>4, <2>5 DEF MarkingOK
    <2>7. QED
      BY Zenon, <1>4, <2>5, <2>6
  <1>8. CASE job[p].file = "marker" /\ Rename(p)
    <2>1. tmp["marker"] = job[p].new /\ pc[p] = "rename" /\ AfterSave(p, TRUE)
      BY Zenon, <1>1, <1>8 DEF MarkingOK, Rename
    <2>2. path'["marker"] = job[p].new
      BY Zenon, <1>8, <2>1 DEF Rename, Books, File
    <2>3. job[p].new \in {Dirty, Whole(FALSE)}
      BY Zenon, <1>1, <1>8, MarkerContents DEF JobOK
    <2>4. unclean' = CASE Head(marks[p]) = "start" -> TRUE
                       [] Head(marks[p]) = "exit" -> FALSE
                       [] OTHER -> unclean
      BY Zenon, <1>8 DEF Rename
    <2>5. unclean' \in BOOLEAN /\ (path'["marker"] = Dirty <=> unclean' = TRUE)
      <3>1. CASE Head(marks[p]) = "start"
        BY Zenon, <1>1, <1>8, <2>2, <2>4, <3>1 DEF MarkingOK
      <3>2. CASE Head(marks[p]) = "exit"
        BY Zenon, <1>1, <1>8, <2>2, <2>4, <3>2 DEF MarkingOK
      <3>3. CASE Head(marks[p]) \notin {"start", "exit"}
        BY Zenon, <1>1, <1>8, <2>2, <2>4, <3>3 DEF MarkingOK, Marking
      <3>4. QED
        BY Zenon, <3>1, <3>2, <3>3
    <2>6. /\ job'[p].file = "none"
          /\ \A q \in Program \ {p} : job'[q] = job[q] /\ pc'[q] = pc[q]
      <3>1. job'[p].file = "none"
        BY Zenon, <2>1 DEF AfterSave, NoJob, Books
      <3>2. pc[p] \in Saver
        BY Zenon, <2>1 DEF Saver
      <3>3. QED
        BY Zenon, <2>1, <3>1, <3>2, AfterSaveKeeps
    <2>7. \A q \in Program : MarkingOK(q)'
      BY Zenon, <1>3, <2>6 DEF MarkingOK
    <2>8. \A q, r \in Console : pc'[q] # "down" /\ pc'[r] # "down" => q = r
      BY Zenon, <1>2, <2>6 DEF Marking, Program
    <2>9. QED
      BY Zenon, <2>2, <2>3, <2>5, <2>7, <2>8 DEF Marking
  <1>9. QED
    BY Zenon, <1>5, <1>6, <1>7, <1>8

\* A command that begins to save the store, or turns to the marker.
LEMMA CommandKeepsMarking ==
    ASSUME Books, Marking, rivals = FALSE, NEW p \in Program, pc[p] \in {"idle", "mark"},
           \/ \E b, ms, how : BeginSave(p, b, ms, how)
           \/ startMountUnnamed(p) \/ stopMount(p) \/ Exit(p) \/ refreshRuntimeViews(p, <<"update">>)
           \/ MarkFails(p)
    PROVE  Marking'
  <1>1. /\ path' = path /\ tmp' = tmp /\ unclean' = unclean /\ rivals' = rivals
        /\ \E s : pc' = [pc EXCEPT ![p] = s]
        /\ \E ms : marks' = [marks EXCEPT ![p] = ms]
    BY Zenon DEF BeginSave, startMountUnnamed, stopMount, Exit, refreshRuntimeViews, MarkFails, MarkDone
  <1>2. job[p].file = "none"
    BY SMTT(30) DEF Books, JobOK, Saver, NoJob
  <1>3. job'[p].file # "marker" /\ \A q \in Program \ {p} : job'[q] = job[q]
    <2>1. ASSUME NEW b, NEW ms, NEW how, BeginSave(p, b, ms, how)
          PROVE  job'[p].file # "marker" /\ \A q \in Program \ {p} : job'[q] = job[q]
      BY Zenon, <2>1 DEF BeginSave, Books
    <2>2. ASSUME \/ startMountUnnamed(p) \/ stopMount(p) \/ Exit(p) \/ refreshRuntimeViews(p, <<"update">>)
                 \/ MarkFails(p)
          PROVE  job' = job
      BY Zenon, <2>2 DEF startMountUnnamed, stopMount, Exit, refreshRuntimeViews, MarkFails
    <2>3. QED
      BY Zenon, <1>2, <2>1, <2>2
  <1>4. \A q \in Program \ {p} : pc'[q] = pc[q] /\ marks'[q] = marks[q]
    BY Zenon, <1>1 DEF Books
  <1>5. QED
    BY Zenon, <1>1, <1>3, <1>4, QuietKeepsMarking

\* A step of a save of the store, and a save that fails.
LEMMA StoreStepKeepsMarking ==
    ASSUME Books, Marking, rivals = FALSE, NEW p \in Program,
           \/ SaveFails(p)
           \/ job[p].file # "marker" /\ (Open(p) \/ Write(p) \/ Rename(p))
    PROVE  Marking'
  <1>1. JobOK(p) /\ NoJob.file = "none"
    BY Zenon DEF Books, NoJob
  <1>2. CASE SaveFails(p)
    <2>1. pc[p] \in Saver /\ AfterSave(p, FALSE) /\ pc[p] # "down"
      BY Zenon, <1>2 DEF SaveFails, Saver
    <2>2. \A q \in Program \ {p} : job'[q] = job[q] /\ pc'[q] = pc[q] /\ marks'[q] = marks[q]
      BY Zenon, <2>1, AfterSaveKeeps
    <2>3. job'[p].file # "marker"
      BY Zenon, <1>1, <2>1 DEF AfterSave, Books
    <2>4. QED
      BY Zenon, <1>2, <2>1, <2>2, <2>3, QuietKeepsMarking DEF SaveFails
  <1>3. CASE job[p].file # "marker" /\ (Open(p) \/ Write(p))
    <2>1. job[p].file = "store" /\ pc[p] # "down"
      BY Zenon, <1>1, <1>3 DEF JobOK, Open, Write, Saver, File
    <2>2. \E x : tmp' = [tmp EXCEPT !["store"] = x]
      BY Zenon, <1>3, <2>1 DEF Open, Write
    <2>3. tmp'["marker"] = tmp["marker"]
      BY Zenon, <2>2 DEF Books, File
    <2>4. /\ UNCHANGED <<path, job, marks, unclean, rivals>>
          /\ \A q \in Program \ {p} : pc'[q] = pc[q]
      BY Zenon, <1>3 DEF Open, Write, Books
    <2>5. QED
      BY Zenon, <1>3, <2>1, <2>3, <2>4, QuietKeepsMarking
  <1>4. CASE job[p].file # "marker" /\ Rename(p)
    <2>1. job[p].file = "store" /\ pc[p] \in Saver /\ pc[p] # "down" /\ AfterSave(p, TRUE)
      BY Zenon, <1>1, <1>4 DEF JobOK, Rename, Saver, File
    <2>2. \A q \in Program \ {p} : job'[q] = job[q] /\ pc'[q] = pc[q] /\ marks'[q] = marks[q]
      BY Zenon, <2>1, AfterSaveKeeps
    <2>3. job'[p].file # "marker"
      BY Zenon, <1>1, <2>1 DEF AfterSave, Books
    <2>4. path'["marker"] = path["marker"] /\ tmp'["marker"] = tmp["marker"]
      BY Zenon, <1>4, <2>1 DEF Rename, Books, File
    <2>5. unclean' = unclean /\ rivals' = rivals
      BY Zenon, <1>4, <2>1 DEF Rename
    <2>6. QED
      BY Zenon, <2>1, <2>2, <2>3, <2>4, <2>5, QuietKeepsMarking
  <1>5. QED
    BY Zenon, <1>2, <1>3, <1>4

\* A program starts or ends: a console that starts is the only one, or a rival.
LEMMA ComeAndGoKeepMarking ==
    ASSUME Books, Marking, rivals = FALSE, rivals' = FALSE, NEW p \in Program,
           loadState(p) \/ Vanish(p) \/ \E ok \in BOOLEAN : LaunchConsole(p, ok)
    PROVE  Marking'
  <1>1. NoJob.file = "none"
    BY Zenon DEF NoJob
  <1>2. CASE loadState(p)
    <2>1. /\ p \notin Console /\ job'[p].file # "marker"
          /\ \A q \in Program \ {p} : pc'[q] = pc[q]
      BY Zenon, <1>1, <1>2, ProgramAssumption DEF loadState, Books, JobOK, Saver
    <2>2. QED
      BY Zenon, <1>2, <2>1, QuietKeepsMarking DEF loadState
  <1>3. CASE Vanish(p)
    <2>1. /\ job'[p].file # "marker" /\ pc'[p] = "down"
          /\ \A q \in Program \ {p} : job'[q] = job[q] /\ pc'[q] = pc[q] /\ marks'[q] = marks[q]
      BY Zenon, <1>1, <1>3 DEF Vanish, Books
    <2>2. QED
      BY Zenon, <1>3, <2>1, QuietKeepsMarking DEF Vanish
  <1>4. ASSUME NEW ok \in BOOLEAN, LaunchConsole(p, ok) PROVE Marking'
    <2>1. ~(\E q \in Others(p) \cap Console : pc[q] # "down")
      BY <1>4, Zenon DEF LaunchConsole
    <2>2. \A q \in Console \ {p} : pc[q] = "down"
      BY Zenon, <2>1 DEF Others, Program
    <2>3. /\ job' = job /\ job'[p].file # "marker"
          /\ \A q \in Program \ {p} : pc'[q] = pc[q] /\ marks'[q] = marks[q]
      BY Zenon, <1>1, <1>4 DEF LaunchConsole, Books, JobOK, Saver
    <2>4. QED
      BY Zenon, <1>4, <2>2, <2>3, QuietKeepsMarking DEF LaunchConsole
  <1>5. QED
    BY Zenon, <1>2, <1>3, <1>4

\* Every step keeps what is known of the marker, or brings a rival.
LEMMA MarkingNext == Books /\ Marking /\ [Next]_vars => Marking'
  <1> SUFFICES ASSUME Books, Marking, [Next]_vars PROVE Marking'
    BY Zenon
  <1>1. CASE UNCHANGED vars
    BY Zenon, <1>1 DEF vars, Marking, MarkingOK
  <1>2. ASSUME NEW p \in Program,
               \/ handleCommand(p) \/ handleTrayCommand(p) \/ handleUserCommand(p)
               \/ Open(p) \/ Write(p) \/ Rename(p) \/ SaveFails(p)
               \/ Mark(p) \/ MarkFails(p)
               \/ LaunchConsole(p, TRUE) \/ LaunchConsole(p, FALSE) \/ loadState(p) \/ Vanish(p)
        PROVE  /\ rivals' \in BOOLEAN /\ unclean' \in BOOLEAN /\ (rivals = TRUE => rivals' = TRUE)
               /\ rivals' = FALSE => Marking'
    <2> DEFINE Kinds == rivals' \in BOOLEAN /\ unclean' \in BOOLEAN /\ (rivals = TRUE => rivals' = TRUE)
    <2>1. ASSUME UNCHANGED <<rivals, unclean>> PROVE Kinds
      BY Zenon, <2>1 DEF Marking
    <2>2. ASSUME NEW q, NEW ok, LaunchConsole(q, ok) PROVE Kinds
      <3>1. unclean' = unclean /\ rivals' = (rivals \/ \E r \in Others(q) \cap Console : pc[r] # "down")
        BY <2>2, Zenon DEF LaunchConsole
      <3>2. QED
        BY <3>1, Zenon DEF Marking
    <2>3. ASSUME Rename(p) PROVE Kinds
      BY <2>3, Zenon DEF Rename, Marking
    <2>4. ASSUME \/ \E n \in Names : \/ \E c \in Configs : saveProfile(p, n, c) \/ start(p, n, c)
                                     \/ deleteSelectedProfile(p, n) \/ loadSelectedProfile(p, n)
                                     \/ startMount(p, n)
                 \/ startMountUnnamed(p) \/ stopMount(p) \/ Exit(p)
                 \/ refreshRuntimeViews(p, <<"update">>) \/ MarkFails(p)
          PROVE  Kinds /\ (rivals' = FALSE => Marking')
      <3>1. /\ pc[p] \in {"idle", "mark"}
            /\ \/ \E b, ms, how : BeginSave(p, b, ms, how)
               \/ startMountUnnamed(p) \/ stopMount(p) \/ Exit(p)
               \/ refreshRuntimeViews(p, <<"update">>) \/ MarkFails(p)
        BY <2>4, Zenon DEF saveProfile, start, deleteSelectedProfile, loadSelectedProfile, startMount,
                           startMountUnnamed, stopMount, Exit, refreshRuntimeViews, MarkFails
      <3>2. UNCHANGED <<rivals, unclean>>
        BY Zenon, <3>1 DEF BeginSave, startMountUnnamed, stopMount, Exit, refreshRuntimeViews, MarkFails
      <3>3. rivals' = FALSE => rivals = FALSE
        BY Zenon, <3>2
      <3>4. QED
        BY <2>1, <3>1, <3>2, <3>3, CommandKeepsMarking, Zenon
    <2>5. ASSUME NEW q \in Program, NEW ok \in BOOLEAN, LaunchConsole(q, ok)
          PROVE  Kinds /\ (rivals' = FALSE => Marking')
      <3>1. Kinds
        BY <2>2, <2>5, Zenon
      <3>2. rivals' = FALSE => rivals = FALSE
        BY Zenon, <3>1 DEF Marking
      <3>3. QED
        BY <2>5, <3>1, <3>2, ComeAndGoKeepMarking, Zenon
    <2>6. ASSUME \/ Open(p) \/ Write(p) \/ SaveFails(p) \/ Mark(p) \/ loadState(p) \/ Vanish(p) \/ Rename(p)
          PROVE  Kinds /\ (rivals' = FALSE => Marking')
      <3>1. \/ UNCHANGED <<rivals, unclean>> \/ Rename(p)
        BY Zenon, <2>6 DEF Open, Write, SaveFails, Mark, loadState, Vanish
      <3>2. Kinds
        BY <2>1, <2>3, <3>1, Zenon
      <3>3. rivals' = FALSE => rivals = FALSE
        BY Zenon, <3>2 DEF Marking
      <3>4. QED
        BY <2>6, <3>2, <3>3, MarkStepKeepsMarking, StoreStepKeepsMarking, ComeAndGoKeepMarking, Zenon
    <2>7. CASE handleCommand(p)
      BY <2>4, <2>7, Zenon DEF handleCommand
    <2>8. CASE handleTrayCommand(p)
      BY <2>4, <2>8, Zenon DEF handleTrayCommand
    <2>9. CASE handleUserCommand(p)
      BY <2>4, <2>5, <2>9, Zenon DEF handleUserCommand, openSupport, Program
    <2>10. QED
      BY <1>2, <2>4, <2>5, <2>6, <2>7, <2>8, <2>9, Zenon
  <1>3. ASSUME Next PROVE Marking'
    <2>1. /\ rivals' \in BOOLEAN /\ unclean' \in BOOLEAN
          /\ rivals' = FALSE => Marking'
      BY <1>2, <1>3, Zenon DEF Next
    <2>2. CASE rivals' = FALSE
      BY Zenon, <2>1, <2>2
    <2>3. CASE rivals' = TRUE
      BY Zenon, <2>1, <2>3 DEF Marking
    <2>4. QED
      BY <2>1, <2>2, <2>3, Zenon
  <1>4. QED
    BY Zenon, <1>1, <1>3

\* The marker tells the truth about the last run for any number of consoles and
\* user clients, at every point at which a process may end: as long as consoles run
\* one at a time it is dirty exactly when a mount was started and no clean exit
\* was recorded since (recovery.go, MarkStart, Update and MarkCleanExit).
THEOREM MarkerAlwaysTruthful == Spec => []MarkerTruthful
  <1>1. Marking => MarkerTruthful
    BY Zenon DEF Marking, MarkerTruthful, Dirty
  <1>2. QED
    BY <1>1, BooksInit, BooksNext, MarkingInit, MarkingNext, PTL DEF Spec

=============================================================================
