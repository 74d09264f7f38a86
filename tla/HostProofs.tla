----------------------------- MODULE HostProofs -----------------------------
(***************************************************************************)
(* Proofs about a mounted volume and the WinFsp host that runs it, for any *)
(* number of WinFsp's threads, of handles and of drive letters.            *)
(*                                                                         *)
(* The handles: none that the server has opened is forgotten, what a       *)
(* caller holds can be used, and marks stay.  None is inductive.  What     *)
(* carries them (HandleInv) is who is responsible for a server handle: one *)
(* entry of the mount core's table or one thread, never two.  That a       *)
(* thread which has opened one also finds a place for it rests on counting *)
(* (Count).                                                                *)
(*                                                                         *)
(* The host: Run leaves nothing behind, and the mount point the console    *)
(* resolves is free.  What carries them (HostInv) is what the host has at  *)
(* each stage of Run (StageInv), where in a script it may hold a handle    *)
(* (ScriptInv, which rests on HandlesUsable), and how far the              *)
(* configuration has been dealt with (PlanInv).                            *)
(***************************************************************************)
EXTENDS WinFspHost, FiniteSetTheorems, WellFoundedInduction, TLAPS

-----------------------------------------------------------------------------
(* The handles' invariant.                                                 *)

Goal == {"none", "info", "any", "file", "dir"}
CallStep == {"idle", "attr", "open", "store", "track", "read", "close", "untrack", "update"}
Mark == {"cleaned", "flushed"}
Reg == [goal : Goal, h : Nat, rem : Nat, flags : SUBSET Mark, stale : BOOLEAN]

Types ==
    /\ remote \in Seq(BOOLEAN) /\ Len(remote) <= MaxHandles
    /\ local = [h \in Handle |-> local[h]] /\ \A h \in Handle : local[h].rem \in Nat
    /\ nextLocalHandle \in Nat \ {0}
    /\ tracked = [h \in Handle |-> tracked[h]] /\ \A h \in Handle : tracked[h].flags \subseteq Mark
    /\ pc \in [Thread -> CallStep] /\ reg \in [Thread -> Reg]
    /\ held \in [Handle -> {"none", "host", "kernel"}]

\* The server handle a thread alone is responsible for.
Carries(t) == pc[t] \in {"store", "close"}

\* What a thread in the middle of a call has.
CallOK(t) ==
    /\ Carries(t) =>
         /\ reg[t].rem \in 1..Len(remote) /\ remote[reg[t].rem] = TRUE
         /\ \A h \in Handle : local[h].rem # reg[t].rem
         /\ \A u \in Thread \ {t} : Carries(u) => reg[u].rem # reg[t].rem
    /\ pc[t] \in {"open", "store", "track"} => reg[t].goal \in {"file", "dir"}
    /\ pc[t] \in {"read", "close", "untrack", "update"} => reg[t].goal = "none"
    /\ pc[t] = "track" =>
         /\ reg[t].h \in Handle /\ reg[t].h < nextLocalHandle
         /\ local[reg[t].h].rem # 0 /\ held[reg[t].h] = "none" /\ tracked[reg[t].h].known = FALSE
         /\ \A u \in Thread \ {t} : pc[u] = "track" => reg[u].h # reg[t].h
    /\ pc[t] \in {"close", "untrack"} =>
         reg[t].h \in Handle /\ reg[t].h < nextLocalHandle /\ local[reg[t].h].rem = 0
    /\ pc[t] = "update" =>
         /\ reg[t].h \in Handle /\ reg[t].h < nextLocalHandle
         /\ reg[t].stale = FALSE => tracked[reg[t].h].flags \subseteq reg[t].flags
         /\ \A u \in Thread : pc[u] = "track" => reg[u].h # reg[t].h

\* What an entry of the tables has.
EntryOK(h) ==
    /\ local[h].rem # 0 =>
         /\ local[h].rem \in 1..Len(remote) /\ remote[local[h].rem] = TRUE
         /\ \A g \in Handle \ {h} : local[g].rem # local[h].rem
    /\ h >= nextLocalHandle => local[h].rem = 0 /\ tracked[h].known = FALSE
    /\ held[h] # "none" => tracked[h].known = TRUE /\ local[h].rem # 0

\* The server handle r is not forgotten.
Kept(r) ==
    \/ r \in abandoned
    \/ \E h \in Handle : local[h].rem = r
    \/ \E t \in Thread : Carries(t) /\ reg[t].rem = r

\* The handles that have a place or wait for one are no more than the server's.
Storing == {t \in Thread : pc[t] = "store"}
Count == nextLocalHandle - 1 + Cardinality(Storing) <= Len(remote)

HandleInv ==
    /\ Types
    /\ \A t \in Thread : CallOK(t)
    /\ \A h \in Handle : EntryOK(h)
    /\ \A r \in 1..Len(remote) : remote[r] = TRUE => Kept(r)
    /\ Count

-----------------------------------------------------------------------------
\* The threads that wait for a place can be counted.
LEMMA StoringFinite == IsFiniteSet(Storing) /\ Cardinality(Storing) \in Nat
  <1>1. IsFiniteSet(Thread)
    BY Zenon, ThreadAssumption, FS_AddElement DEF Thread
  <1>2. QED
    BY Zenon, <1>1, FS_Subset, FS_CardinalityType DEF Storing

\* One more, one less.
LEMMA CountStoring ==
    ASSUME NEW t \in Thread, NEW S, NEW T, S \subseteq Thread, t \notin S, T = S \cup {t}
    PROVE  /\ IsFiniteSet(S) /\ IsFiniteSet(T)
           /\ Cardinality(S) \in Nat /\ Cardinality(T) = Cardinality(S) + 1
  <1>1. IsFiniteSet(Thread)
    BY Zenon, ThreadAssumption, FS_AddElement DEF Thread
  <1>2. IsFiniteSet(S)
    BY Zenon, <1>1, FS_Subset
  <1>3. QED
    BY Zenon, <1>2, FS_AddElement, FS_CardinalityType

\* The two properties follow.
LEMMA InvImplies == HandleInv => NoStrayHandles /\ HandlesUsable
  <1> SUFFICES ASSUME HandleInv PROVE NoStrayHandles /\ HandlesUsable
    BY Zenon
  <1>1. NoStrayHandles
    <2>1. SUFFICES ASSUME NEW r \in 1..Len(remote), remote[r]
                   PROVE  \/ r \in abandoned
                          \/ \E h \in Handle : local[h].rem = r
                          \/ \E t \in Thread : pc[t] \in {"store", "close"} /\ reg[t].rem = r
      BY Zenon DEF NoStrayHandles
    <2>2. remote[r] \in BOOLEAN
      BY DEF HandleInv, Types
    <2>3. remote[r] = TRUE
      BY <2>1, <2>2, Zenon
    <2>4. QED
      BY Zenon, <2>3 DEF HandleInv, Kept, Carries
  <1>2. HandlesUsable
    BY Zenon DEF HandlesUsable, HandleInv, EntryOK
  <1>3. QED
    BY Zenon, <1>1, <1>2

LEMMA InvInit == Init => HandleInv
  <1> SUFFICES ASSUME MHInit PROVE HandleInv
    BY Zenon DEF Init
  <1>1. Types
    BY HandleAssumption DEF MHInit, Types, Absent, NoState, NoReg, Reg, Goal, CallStep, Mark
  <1>2. Storing = {} /\ Cardinality({}) = 0
    BY Zenon, FS_EmptySet DEF MHInit, Storing
  <1>3. Count
    BY <1>2 DEF MHInit, Count
  <1>4. \A t \in Thread : CallOK(t)
    BY Zenon DEF MHInit, CallOK, Carries
  <1>5. \A h \in Handle : EntryOK(h)
    BY Zenon DEF MHInit, EntryOK, Absent, NoState
  <1>6. \A r \in 1..Len(remote) : remote[r] = TRUE => Kept(r)
    BY DEF MHInit
  <1>7. QED
    BY Zenon, <1>1, <1>3, <1>4, <1>5, <1>6 DEF HandleInv

-----------------------------------------------------------------------------
(* The steps of a call.                                                    *)

\* A call begins, goes on without a server handle of its own, or ends.
LEMMA QuietKeeps ==
    ASSUME HandleInv, NEW t \in Thread, NEW r \in Reg,
           NEW s \in {"idle", "attr", "open", "read", "update"},
           s = "open" => r.goal \in {"file", "dir"},
           s \in {"read", "update"} => r.goal = "none",
           s = "update" => /\ r.h \in Handle /\ held[r.h] # "none"
                           /\ r.stale = FALSE /\ tracked[r.h].flags \subseteq r.flags,
           pc[t] # "store", pc[t] = "close" => reg[t].rem \in abandoned', abandoned \subseteq abandoned',
           pc' = [pc EXCEPT ![t] = s], reg' = [reg EXCEPT ![t] = r],
           UNCHANGED <<remote, local, nextLocalHandle, tracked, held>>
    PROVE  HandleInv'
  <1>1. /\ pc'[t] = s /\ reg'[t] = r
        /\ \A u \in Thread \ {t} : pc'[u] = pc[u] /\ reg'[u] = reg[u]
    BY Zenon DEF HandleInv, Types
  <1>2. Types'
    BY Zenon DEF HandleInv, Types, CallStep
  <1>3. \A u \in Thread : CallOK(u)'
    <2>1. CallOK(t)'
      <3>1. s = "update" =>
               /\ r.h < nextLocalHandle
               /\ \A u \in Thread : pc[u] = "track" => reg[u].h # r.h
        <4>1. SUFFICES ASSUME s = "update"
                       PROVE  r.h < nextLocalHandle /\ \A u \in Thread : pc[u] = "track" => reg[u].h # r.h
          BY Zenon
        <4>2. r.h \in Nat /\ nextLocalHandle \in Nat /\ ~(r.h >= nextLocalHandle)
          BY Zenon, <4>1 DEF HandleInv, Types, EntryOK, Reg
        <4>3. \A u \in Thread : pc[u] = "track" => reg[u].h # r.h
          BY Zenon, <4>1 DEF HandleInv, CallOK
        <4>4. QED
          BY <4>2, <4>3
      <3>2. QED
        BY Zenon, <1>1, <3>1 DEF CallOK, Carries
    <2>2. \A u \in Thread \ {t} : CallOK(u)'
      BY SMTT(30), <1>1 DEF HandleInv, CallOK, Carries
    <2>3. QED
      BY Zenon, <2>1, <2>2
  <1>4. \A h \in Handle : EntryOK(h)'
    BY Zenon DEF HandleInv, EntryOK
  <1>5. \A k \in 1..Len(remote') : remote'[k] = TRUE => Kept(k)'
    BY <1>1 DEF HandleInv, Kept, Carries
  <1>6. Count'
    <2>1. Storing' = Storing
      BY Zenon, <1>1 DEF Storing
    <2>2. QED
      BY Zenon, <2>1 DEF HandleInv, Count
  <1>7. QED
    BY Zenon, <1>2, <1>3, <1>4, <1>5, <1>6 DEF HandleInv

\* The server opens a handle; the thread has it, or its answer was lost.
LEMMA OpenRemoteKeeps ==
    ASSUME HandleInv, NEW t \in Thread, NEW lost \in BOOLEAN, OpenRemote(t, lost)
    PROVE  HandleInv'
  <1> DEFINE n == Len(remote) + 1
  <1>1. /\ remote' = Append(remote, TRUE) /\ pc[t] = "open" /\ Len(remote) < MaxHandles
        /\ UNCHANGED <<local, nextLocalHandle, tracked>>
    BY Zenon DEF OpenRemote, mount
  <1>2. /\ remote' \in Seq(BOOLEAN) /\ Len(remote') = n /\ Len(remote) \in Nat
        /\ remote'[n] = TRUE /\ \A k \in 1..Len(remote) : remote'[k] = remote[k]
    BY <1>1 DEF HandleInv, Types
  <1>3. /\ CallOK(t) /\ reg[t] \in Reg /\ NoReg \in Reg
    BY Zenon DEF HandleInv, Types, NoReg, Reg, Goal
  <1>4. \A h \in Handle : local[h].rem # n /\ local[h].rem \in Nat
    BY <1>2 DEF HandleInv, Types, EntryOK
  <1>5. \A u \in Thread : Carries(u) => reg[u].rem # n /\ reg[u].rem \in 1..Len(remote)
    BY <1>2 DEF HandleInv, CallOK
  <1>6. CASE lost = TRUE
    <2>1. /\ held' = held /\ abandoned' = abandoned \cup {n}
          /\ pc' = [pc EXCEPT ![t] = "idle"] /\ reg' = [reg EXCEPT ![t] = NoReg]
      BY Zenon, <1>2, <1>6 DEF OpenRemote, Return, Go, Abandon
    <2>2. /\ pc'[t] = "idle"
          /\ \A u \in Thread \ {t} : pc'[u] = pc[u] /\ reg'[u] = reg[u]
      BY Zenon, <2>1 DEF HandleInv, Types
    <2>3. Types'
      BY <1>1, <1>2, <1>3, <2>1, HandleAssumption DEF HandleInv, Types, CallStep
    <2>4. \A u \in Thread : CallOK(u)'
      BY SMTT(30), <1>1, <1>2, <2>1, <2>2 DEF HandleInv, CallOK, Carries
    <2>5. \A h \in Handle : EntryOK(h)'
      BY SMTT(30), <1>1, <1>2, <2>1 DEF HandleInv, EntryOK
    <2>6. \A k \in 1..Len(remote') : remote'[k] = TRUE => Kept(k)'
      BY SMTT(30), <1>1, <1>2, <2>1, <2>2 DEF HandleInv, Kept, Carries
    <2>7. Storing' = Storing
      BY Zenon, <1>1, <2>2 DEF Storing
    <2>8. Count'
      BY <1>1, <1>2, <2>7, StoringFinite DEF HandleInv, Types, Count
    <2>9. QED
      BY Zenon, <2>3, <2>4, <2>5, <2>6, <2>8 DEF HandleInv
  <1>7. CASE lost = FALSE
    <2>1. /\ held' = held /\ abandoned' = abandoned
          /\ pc' = [pc EXCEPT ![t] = "store"] /\ reg' = [reg EXCEPT ![t] = [reg[t] EXCEPT !.rem = n]]
      BY Zenon, <1>2, <1>7 DEF OpenRemote, Go, caller
    <2>2. /\ pc'[t] = "store" /\ reg'[t].rem = n /\ reg'[t].goal = reg[t].goal /\ reg'[t] \in Reg
          /\ \A u \in Thread \ {t} : pc'[u] = pc[u] /\ reg'[u] = reg[u]
      <3>1. [reg[t] EXCEPT !.rem = n] \in Reg
        BY <1>2, <1>3 DEF Reg
      <3>2. [reg[t] EXCEPT !.rem = n].rem = n /\ [reg[t] EXCEPT !.rem = n].goal = reg[t].goal
        BY Zenon, <1>3 DEF Reg
      <3>3. QED
        BY Zenon, <2>1, <3>1, <3>2 DEF HandleInv, Types
    <2>3. Types'
      <3>1. pc' \in [Thread -> CallStep] /\ reg' \in [Thread -> Reg]
        BY Zenon, <2>1, <2>2 DEF HandleInv, Types, CallStep
      <3>2. QED
        BY <1>1, <1>2, <2>1, <3>1, HandleAssumption DEF HandleInv, Types
    <2>4. CallOK(t)'
      BY SMTT(30), <1>1, <1>2, <1>3, <1>4, <1>5, <2>1, <2>2 DEF CallOK, Carries
    <2>5. \A u \in Thread \ {t} : CallOK(u)'
      BY SMTT(30), <1>1, <1>2, <1>5, <2>1, <2>2 DEF HandleInv, CallOK, Carries
    <2>6. \A h \in Handle : EntryOK(h)'
      BY <1>1, <1>2, <2>1 DEF HandleInv, EntryOK
    <2>7. \A k \in 1..Len(remote') : remote'[k] = TRUE => Kept(k)'
      BY SMTT(30), <1>1, <1>2, <2>1, <2>2 DEF HandleInv, Kept, Carries
    <2>8. Storing' = Storing \cup {t} /\ t \notin Storing
      BY Zenon, <1>1, <2>2 DEF Storing
    <2>9. Cardinality(Storing') = Cardinality(Storing) + 1 /\ Cardinality(Storing) \in Nat
      BY Zenon, <2>8, CountStoring DEF Storing
    <2>10. Count'
      BY <1>1, <1>2, <2>9 DEF HandleInv, Types, Count
    <2>11. QED
      BY Zenon, <2>3, <2>4, <2>5, <2>6, <2>7, <2>10 DEF HandleInv
  <1>8. QED
    BY Zenon, <1>6, <1>7

\* The mount core finds a place for it.
LEMMA StoreHandleKeeps ==
    ASSUME HandleInv, NEW t \in Thread, StoreHandle(t)
    PROVE  HandleInv'
  <1>1. PICK n : n = nextLocalHandle
    BY Zenon
  <1>2. /\ pc[t] = "store" /\ n = nextLocalHandle /\ nextLocalHandle' = n + 1 /\ n \in Nat \ {0}
        /\ UNCHANGED <<remote, tracked, held, abandoned>>
    BY Zenon, <1>1 DEF StoreHandle, caller, HandleInv, Types
  <1>3. CallOK(t) /\ reg[t] \in Reg /\ Carries(t)
    BY Zenon, <1>2 DEF HandleInv, Types, Carries
  <1>4. Cardinality(Storing) = Cardinality(Storing') + 1 /\ Cardinality(Storing') \in Nat
    <2>1. Storing = Storing' \cup {t} /\ t \notin Storing' /\ Storing' \subseteq Thread
      BY Zenon, <1>2 DEF Storing, StoreHandle, Go, HandleInv, Types
    <2>2. QED
      BY Zenon, <2>1, CountStoring
  <1>5. n \in Handle
    BY <1>2, <1>4, HandleAssumption DEF Handle, HandleInv, Types, Count
  <1>6. /\ local' = [h \in Handle |-> local'[h]] /\ local'[n].rem = reg[t].rem
        /\ \A h \in Handle \ {n} : local'[h] = local[h]
    BY Zenon, <1>1, <1>5 DEF StoreHandle, HandleInv, Types
  <1>7. /\ pc'[t] = "track" /\ reg'[t].h = n /\ reg'[t].goal = reg[t].goal
        /\ \A u \in Thread \ {t} : pc'[u] = pc[u] /\ reg'[u] = reg[u]
        /\ pc' \in [Thread -> CallStep] /\ reg' \in [Thread -> Reg]
    BY Zenon, <1>2, <1>3 DEF StoreHandle, Go, HandleInv, Types, Reg, CallStep
  <1>8. local[n].rem = 0 /\ held[n] = "none" /\ tracked[n].known = FALSE
    BY <1>2, <1>5 DEF HandleInv, EntryOK, Types
  <1>9. /\ reg[t].rem \in 1..Len(remote) /\ remote[reg[t].rem] = TRUE
        /\ \A h \in Handle : local[h].rem # reg[t].rem
        /\ reg[t].goal \in {"file", "dir"}
    BY Zenon, <1>2, <1>3 DEF CallOK
  <1>10. Types'
    <2>1. reg[t].rem \in Nat
      BY Zenon, <1>3 DEF Reg
    <2>2. \A h \in Handle : local'[h].rem \in Nat
      BY Zenon, <1>6, <2>1 DEF HandleInv, Types
    <2>3. nextLocalHandle' \in Nat \ {0}
      BY <1>2
    <2>4. QED
      BY Zenon, <1>2, <1>6, <1>7, <2>2, <2>3 DEF HandleInv, Types
  <1>11. CallOK(t)'
    <2>1. ASSUME NEW u \in Thread \ {t}, pc[u] = "track" PROVE reg[u].h # n
      <3>1. CallOK(u)
        BY Zenon DEF HandleInv
      <3>2. reg[u].h \in Handle /\ reg[u].h < nextLocalHandle
        BY Zenon, <2>1, <3>1 DEF CallOK
      <3>3. QED
        BY SMTT(30), <1>2, <3>2 DEF Handle
    <2>2. n < nextLocalHandle'
      BY <1>2
    <2>3. QED
      BY SMTT(30), <1>2, <1>5, <1>6, <1>7, <1>8, <1>9, <2>1, <2>2 DEF CallOK, Carries
  <1>12. ASSUME NEW u \in Thread \ {t} PROVE CallOK(u)'
    <2>1. CallOK(u) /\ (Carries(u) => reg[u].rem # reg[t].rem)
      <3>1. CallOK(u)
        BY Zenon DEF HandleInv
      <3>2. QED
        BY Zenon, <1>3, <3>1 DEF CallOK
    <2>2. reg[u].h < n => reg[u].h < nextLocalHandle' /\ reg[u].h # n
      BY SMTT(30), <1>2, <1>7 DEF HandleInv, Types, Reg
    <2>3. pc[u] \in {"track", "update"} => reg[u].h # n
      BY Zenon, <1>2, <2>1, <2>2 DEF CallOK
    <2>4. pc[u] \in {"track", "close", "untrack"} => local'[reg[u].h] = local[reg[u].h]
      BY Zenon, <1>2, <1>6, <2>1, <2>2 DEF CallOK
    <2>5. QED
      BY SMTT(30), <1>2, <1>6, <1>7, <2>1, <2>2, <2>3, <2>4 DEF CallOK, Carries
  <1>13. \A h \in Handle : EntryOK(h)'
    <2>1. EntryOK(n)'
      BY <1>2, <1>6, <1>8, <1>9 DEF EntryOK
    <2>2. ASSUME NEW h \in Handle \ {n} PROVE EntryOK(h)'
      <3>1. EntryOK(h) /\ (h >= nextLocalHandle' => h >= n)
        BY <1>2 DEF HandleInv, Handle
      <3>2. QED
        BY SMTT(30), <1>2, <1>6, <1>9, <3>1 DEF EntryOK
    <2>3. QED
      BY Zenon, <2>1, <2>2
  <1>14. \A k \in 1..Len(remote') : remote'[k] = TRUE => Kept(k)'
    BY SMTT(30), <1>2, <1>5, <1>6, <1>7, <1>8 DEF HandleInv, Kept, Carries
  <1>15. Count'
    BY <1>2, <1>4 DEF HandleInv, Types, Count
  <1>16. QED
    BY Zenon, <1>10, <1>11, <1>12, <1>13, <1>14, <1>15 DEF HandleInv

\* The callbacks' table gets its entry, and the caller the handle.
LEMMA TrackHandleKeeps ==
    ASSUME HandleInv, NEW t \in Thread, TrackHandle(t)
    PROVE  HandleInv'
  <1>1. PICK h : h = reg[t].h
    BY Zenon
  <1>2. /\ pc[t] = "track" /\ CallOK(t) /\ h \in Handle /\ local[h].rem # 0 /\ NoReg \in Reg
    <2>1. pc[t] = "track" /\ CallOK(t)
      BY Zenon DEF TrackHandle, HandleInv
    <2>2. h \in Handle /\ local[h].rem # 0
      BY Zenon, <1>1, <2>1 DEF CallOK
    <2>3. NoReg \in Reg
      BY Zenon DEF NoReg, Reg, Goal
    <2>4. QED
      BY Zenon, <2>1, <2>2, <2>3
  <1>3. /\ pc' = [pc EXCEPT ![t] = "idle"] /\ reg' = [reg EXCEPT ![t] = NoReg]
        /\ UNCHANGED <<remote, local, nextLocalHandle, abandoned>>
    BY Zenon DEF TrackHandle, Return, Go, mount
  <1>4. held' = [held EXCEPT ![h] = IF t = Host THEN "host" ELSE "kernel"]
    <2>1. reg[t].goal \in {"file", "dir"}
      BY Zenon, <1>2 DEF CallOK
    <2>2. QED
      BY Zenon, <1>1, <1>2, <2>1 DEF TrackHandle, Return
  <1>5. tracked' = [tracked EXCEPT ![h] = [known |-> TRUE, flags |-> {}]]
    BY Zenon, <1>1 DEF TrackHandle
  <1>6. /\ tracked' = [g \in Handle |-> tracked'[g]] /\ tracked'[h].known = TRUE /\ tracked'[h].flags = {}
        /\ \A g \in Handle \ {h} : tracked'[g] = tracked[g] /\ held'[g] = held[g]
    BY Zenon, <1>2, <1>4, <1>5 DEF HandleInv, Types
  <1>7. /\ pc'[t] = "idle"
        /\ \A u \in Thread \ {t} : pc'[u] = pc[u] /\ reg'[u] = reg[u]
    BY Zenon, <1>3 DEF HandleInv, Types
  <1>8. Types'
    <2>1. \A g \in Handle : tracked'[g].flags \subseteq Mark
      BY Zenon, <1>6 DEF HandleInv, Types
    <2>2. held' \in [Handle -> {"none", "host", "kernel"}]
      BY Zenon, <1>4 DEF HandleInv, Types
    <2>3. QED
      BY Zenon, <1>2, <1>3, <1>6, <2>1, <2>2 DEF HandleInv, Types, CallStep
  <1>9. ASSUME NEW u \in Thread \ {t} PROVE CallOK(u)'
    <2>1. CallOK(u) /\ (pc[u] = "track" => reg[u].h # h)
      BY Zenon, <1>1, <1>2 DEF HandleInv, CallOK
    <2>2. QED
      BY SMTT(30), <1>2, <1>3, <1>6, <1>7, <2>1 DEF CallOK, Carries
  <1>10. CallOK(t)'
    BY Zenon, <1>7 DEF CallOK, Carries
  <1>11. \A g \in Handle : EntryOK(g)'
    BY SMTT(30), <1>2, <1>3, <1>6 DEF HandleInv, EntryOK
  <1>12. \A k \in 1..Len(remote') : remote'[k] = TRUE => Kept(k)'
    BY SMTT(30), <1>2, <1>3, <1>7 DEF HandleInv, Kept, Carries
  <1>13. Count'
    <2>1. Storing' = Storing
      BY Zenon, <1>2, <1>7 DEF Storing
    <2>2. QED
      BY Zenon, <1>3, <2>1 DEF HandleInv, Count
  <1>14. QED
    BY Zenon, <1>8, <1>9, <1>10, <1>11, <1>12, <1>13 DEF HandleInv

\* The caller closes a handle it holds: the entry goes, and the thread becomes
\* responsible for what it stood for.
LEMMA ForgetHandleKeeps ==
    ASSUME HandleInv, NEW t \in Thread, NEW h \in Handle, held[h] # "none", ForgetHandle(t, h)
    PROVE  HandleInv'
  <1>1. PICK r : r = local[h].rem
    BY Zenon
  <1>2. /\ r # 0 /\ r \in 1..Len(remote) /\ remote[r] = TRUE /\ r \in Nat
        /\ \A g \in Handle \ {h} : local[g].rem # r
        /\ h < nextLocalHandle /\ pc[t] = "idle"
    BY <1>1 DEF HandleInv, EntryOK, ForgetHandle, Types, Handle
  <1>3. /\ pc' = [pc EXCEPT ![t] = "close"]
        /\ reg' = [reg EXCEPT ![t] = [NoReg EXCEPT !.h = h, !.rem = r]]
        /\ held' = [held EXCEPT ![h] = "none"] /\ local' = [local EXCEPT ![h] = Absent]
        /\ UNCHANGED <<remote, nextLocalHandle, tracked, abandoned>>
    BY Zenon, <1>1, <1>2 DEF ForgetHandle, Go
  <1>4. /\ [NoReg EXCEPT !.h = h, !.rem = r] \in Reg
        /\ [NoReg EXCEPT !.h = h, !.rem = r].h = h
        /\ [NoReg EXCEPT !.h = h, !.rem = r].rem = r
        /\ [NoReg EXCEPT !.h = h, !.rem = r].goal = "none"
    <2> DEFINE x == [NoReg EXCEPT !.h = h]
    <2>1. h \in Nat /\ NoReg \in Reg /\ NoReg.goal = "none"
      BY HandleAssumption DEF Handle, NoReg, Reg, Goal
    <2>2. x \in Reg /\ x.h = h /\ x.goal = "none"
      BY Zenon, <2>1 DEF Reg
    <2>3. /\ [x EXCEPT !.rem = r] \in Reg /\ [x EXCEPT !.rem = r].h = h
          /\ [x EXCEPT !.rem = r].rem = r /\ [x EXCEPT !.rem = r].goal = "none"
      <3> HIDE DEF x
      <3>1. QED
        BY Zenon, <1>2, <2>2 DEF Reg
    <2>4. QED
      BY <2>3, Zenon
  <1>5. /\ pc'[t] = "close" /\ reg'[t].h = h /\ reg'[t].rem = r /\ reg'[t].goal = "none"
        /\ \A u \in Thread \ {t} : pc'[u] = pc[u] /\ reg'[u] = reg[u]
        /\ pc' \in [Thread -> CallStep] /\ reg' \in [Thread -> Reg]
    BY Zenon, <1>3, <1>4 DEF HandleInv, Types, CallStep
  <1>6. /\ local' = [g \in Handle |-> local'[g]] /\ local'[h].rem = 0
        /\ \A g \in Handle \ {h} : local'[g] = local[g] /\ held'[g] = held[g]
        /\ held'[h] = "none" /\ held' \in [Handle -> {"none", "host", "kernel"}]
    BY Zenon, <1>3 DEF HandleInv, Types, Absent
  <1>7. Types'
    BY <1>3, <1>5, <1>6 DEF HandleInv, Types
  <1>8. CallOK(t)'
    <2>1. ASSUME NEW u \in Thread \ {t}, Carries(u) PROVE reg[u].rem # r
      <3>1. CallOK(u)
        BY Zenon DEF HandleInv
      <3>2. QED
        BY Zenon, <1>1, <2>1, <3>1 DEF CallOK
    <2>2. QED
      BY <1>2, <1>3, <1>5, <1>6, <2>1 DEF CallOK, Carries
  <1>9. ASSUME NEW u \in Thread \ {t} PROVE CallOK(u)'
    <2>1. CallOK(u) /\ (Carries(u) => reg[u].rem # r /\ reg[u].rem # 0)
      <3>1. CallOK(u)
        BY Zenon DEF HandleInv
      <3>2. QED
        BY SMTT(30), <1>1, <3>1 DEF CallOK
    <2>2. pc[u] = "track" => reg[u].h # h
      BY Zenon, <2>1 DEF CallOK
    <2>3. QED
      BY SMTT(30), <1>2, <1>3, <1>5, <1>6, <2>1, <2>2 DEF CallOK, Carries
  <1>10. \A g \in Handle : EntryOK(g)'
    BY <1>2, <1>3, <1>6 DEF HandleInv, EntryOK
  <1>11. \A k \in 1..Len(remote') : remote'[k] = TRUE => Kept(k)'
    BY <1>1, <1>2, <1>3, <1>5, <1>6 DEF HandleInv, Kept, Carries
  <1>12. Count'
    <2>1. Storing' = Storing
      BY Zenon, <1>2, <1>5 DEF Storing
    <2>2. QED
      BY Zenon, <1>3, <2>1 DEF HandleInv, Count
  <1>13. QED
    BY Zenon, <1>7, <1>8, <1>9, <1>10, <1>11, <1>12 DEF HandleInv

\* The server closes it.
LEMMA CloseRemoteKeeps ==
    ASSUME HandleInv, NEW t \in Thread, NEW lost \in BOOLEAN, CloseRemote(t, lost)
    PROVE  HandleInv'
  <1>1. PICK r : r = reg[t].rem
    BY Zenon
  <1>2. /\ pc[t] = "close" /\ CallOK(t) /\ Carries(t) /\ r \in 1..Len(remote) /\ remote[r] = TRUE
        /\ reg[t].goal = "none" /\ reg[t] \in Reg /\ NoReg \in Reg
    BY Zenon, <1>1 DEF CloseRemote, HandleInv, CallOK, Carries, Types, NoReg, Reg, Goal
  <1>3. remote' = [remote EXCEPT ![r] = FALSE] /\ UNCHANGED <<local, nextLocalHandle, tracked>>
    BY Zenon, <1>1 DEF CloseRemote, mount
  <1>4. /\ remote' \in Seq(BOOLEAN) /\ Len(remote') = Len(remote) /\ remote'[r] = FALSE
        /\ \A k \in 1..Len(remote) : k # r => remote'[k] = remote[k]
    BY <1>2, <1>3 DEF HandleInv, Types
  <1>5. /\ held' = held /\ abandoned \subseteq abandoned'
        /\ \/ pc' = [pc EXCEPT ![t] = "idle"] /\ reg' = [reg EXCEPT ![t] = NoReg]
           \/ pc' = [pc EXCEPT ![t] = "untrack"] /\ reg' = [reg EXCEPT ![t] = reg[t]]
    BY Zenon, <1>2 DEF CloseRemote, Return, Go, Abandon, caller
  <1>6. /\ pc'[t] \in {"idle", "untrack"} /\ (pc'[t] = "untrack" => reg'[t] = reg[t])
        /\ \A u \in Thread \ {t} : pc'[u] = pc[u] /\ reg'[u] = reg[u]
        /\ pc' \in [Thread -> CallStep] /\ reg' \in [Thread -> Reg]
    BY Zenon, <1>2, <1>5 DEF HandleInv, Types, CallStep
  <1>7. Types'
    BY Zenon, <1>3, <1>4, <1>5, <1>6 DEF HandleInv, Types
  <1>8. CallOK(t)'
    BY Zenon, <1>2, <1>3, <1>5, <1>6 DEF CallOK, Carries
  <1>9. ASSUME NEW u \in Thread \ {t} PROVE CallOK(u)'
    <2>1. CallOK(u) /\ (Carries(u) => reg[u].rem # r)
      BY Zenon, <1>1, <1>2 DEF HandleInv, CallOK
    <2>2. QED
      BY SMTT(30), <1>3, <1>4, <1>5, <1>6, <2>1 DEF CallOK, Carries
  <1>10. \A g \in Handle : EntryOK(g)'
    <2>1. \A g \in Handle : local[g].rem # r
      BY Zenon, <1>1, <1>2 DEF CallOK
    <2>2. QED
      BY Zenon, <1>3, <1>4, <1>5, <2>1 DEF HandleInv, EntryOK
  <1>11. \A k \in 1..Len(remote') : remote'[k] = TRUE => Kept(k)'
    <2>1. SUFFICES ASSUME NEW k \in 1..Len(remote'), remote'[k] = TRUE PROVE Kept(k)'
      BY Zenon
    <2>2. k # r /\ k \in 1..Len(remote) /\ remote[k] = TRUE
      BY Zenon, <1>4, <2>1
    <2>3. QED
      BY SMTT(30), <1>1, <1>3, <1>5, <1>6, <2>2 DEF HandleInv, Kept, Carries
  <1>12. Count'
    <2>1. Storing' = Storing
      BY Zenon, <1>2, <1>6 DEF Storing
    <2>2. QED
      BY Zenon, <1>3, <1>4, <2>1 DEF HandleInv, Count
  <1>13. QED
    BY Zenon, <1>7, <1>8, <1>9, <1>10, <1>11, <1>12 DEF HandleInv

\* Thread t returns, and only the callbacks' table changes; what another thread
\* relies on in it must be known.
LEMMA OtherCallKeeps ==
    ASSUME NEW t \in Thread, NEW u \in Thread \ {t}, CallOK(u), pc'[t] = "idle",
           \A v \in Thread \ {t} :
               /\ pc'[v] = pc[v] /\ reg'[v].h = reg[v].h /\ reg'[v].rem = reg[v].rem
               /\ reg'[v].goal = reg[v].goal /\ reg'[v].flags = reg[v].flags,
           pc[u] = "track" => tracked'[reg[u].h].known = FALSE,
           pc[u] = "update" /\ reg'[u].stale = FALSE => tracked'[reg[u].h].flags \subseteq reg[u].flags,
           UNCHANGED <<remote, local, nextLocalHandle, held>>
    PROVE  CallOK(u)'
  <1>1. Carries(u)' =>
          /\ reg'[u].rem \in 1..Len(remote') /\ remote'[reg'[u].rem] = TRUE
          /\ \A h \in Handle : local'[h].rem # reg'[u].rem
          /\ \A v \in Thread \ {u} : Carries(v)' => reg'[v].rem # reg'[u].rem
    BY SMTT(30) DEF CallOK, Carries
  <1>2. pc'[u] = "track" =>
          /\ reg'[u].h \in Handle /\ reg'[u].h < nextLocalHandle'
          /\ local'[reg'[u].h].rem # 0 /\ held'[reg'[u].h] = "none" /\ tracked'[reg'[u].h].known = FALSE
          /\ \A v \in Thread \ {u} : pc'[v] = "track" => reg'[v].h # reg'[u].h
    BY SMTT(30) DEF CallOK
  <1>3. pc'[u] = "update" =>
          /\ reg'[u].h \in Handle /\ reg'[u].h < nextLocalHandle'
          /\ reg'[u].stale = FALSE => tracked'[reg'[u].h].flags \subseteq reg'[u].flags
          /\ \A v \in Thread : pc'[v] = "track" => reg'[v].h # reg'[u].h
    BY SMTT(30) DEF CallOK
  <1>4. /\ pc'[u] \in {"open", "store", "track"} => reg'[u].goal \in {"file", "dir"}
        /\ pc'[u] \in {"read", "close", "untrack", "update"} => reg'[u].goal = "none"
        /\ pc'[u] \in {"close", "untrack"} =>
             reg'[u].h \in Handle /\ reg'[u].h < nextLocalHandle' /\ local'[reg'[u].h].rem = 0
    BY Zenon DEF CallOK
  <1>5. QED
    BY Zenon, <1>1, <1>2, <1>3, <1>4 DEF CallOK

\* The callbacks' table drops an entry that nobody holds.
LEMMA UntrackHandleKeeps ==
    ASSUME HandleInv, NEW t \in Thread, UntrackHandle(t)
    PROVE  HandleInv'
  <1>1. PICK h : h = reg[t].h
    BY Zenon
  <1>2. /\ pc[t] = "untrack" /\ h \in Handle /\ local[h].rem = 0 /\ reg[t].goal = "none"
        /\ NoReg \in Reg
    <2>1. pc[t] = "untrack" /\ CallOK(t)
      BY Zenon DEF UntrackHandle, HandleInv
    <2>2. NoReg \in Reg
      BY Zenon DEF NoReg, Reg, Goal
    <2>3. QED
      BY Zenon, <1>1, <2>1, <2>2 DEF CallOK
  <1>3. /\ pc' = [pc EXCEPT ![t] = "idle"] /\ reg' = [reg EXCEPT ![t] = NoReg]
        /\ tracked' = [tracked EXCEPT ![h] = NoState]
        /\ UNCHANGED <<remote, local, nextLocalHandle, abandoned, held>>
    BY Zenon, <1>1, <1>2 DEF UntrackHandle, Return, Go, mount
  <1>4. /\ tracked' = [g \in Handle |-> tracked'[g]]
        /\ tracked'[h].flags = {} /\ tracked'[h].known = FALSE
        /\ \A g \in Handle \ {h} : tracked'[g] = tracked[g]
    BY Zenon, <1>2, <1>3 DEF HandleInv, Types, NoState
  <1>5. /\ pc'[t] = "idle"
        /\ \A u \in Thread \ {t} : pc'[u] = pc[u] /\ reg'[u] = reg[u]
    BY Zenon, <1>3 DEF HandleInv, Types
  <1>6. Types'
    <2>1. \A g \in Handle : tracked'[g].flags \subseteq Mark
      BY Zenon, <1>4 DEF HandleInv, Types
    <2>2. QED
      BY Zenon, <1>2, <1>3, <1>4, <2>1 DEF HandleInv, Types, CallStep
  <1>7. \A u \in Thread : CallOK(u)'
    <2>1. CallOK(t)'
      BY Zenon, <1>5 DEF CallOK, Carries
    <2>2. ASSUME NEW u \in Thread \ {t} PROVE CallOK(u)'
      <3>1. CallOK(u)
        BY Zenon DEF HandleInv
      <3>2. /\ pc[u] = "track" => tracked'[reg[u].h].known = FALSE
            /\ pc[u] = "update" /\ reg'[u].stale = FALSE => tracked'[reg[u].h].flags \subseteq reg[u].flags
        BY Zenon, <1>4, <1>5, <3>1 DEF CallOK
      <3>3. QED
        BY Zenon, <1>3, <1>5, <3>1, <3>2, OtherCallKeeps
    <2>3. QED
      BY Zenon, <2>1, <2>2
  <1>8. \A g \in Handle : EntryOK(g)'
    BY SMTT(30), <1>2, <1>3, <1>4 DEF HandleInv, EntryOK
  <1>9. \A k \in 1..Len(remote') : remote'[k] = TRUE => Kept(k)'
    BY SMTT(30), <1>2, <1>3, <1>5 DEF HandleInv, Kept, Carries
  <1>10. Count'
    <2>1. Storing' = Storing
      BY Zenon, <1>2, <1>5 DEF Storing
    <2>2. QED
      BY Zenon, <1>3, <2>1 DEF HandleInv, Count
  <1>11. QED
    BY Zenon, <1>6, <1>7, <1>8, <1>9, <1>10 DEF HandleInv

\* A state is written back: its entry may come back, but is held by nobody then.
LEMMA UpdateHandleKeeps ==
    ASSUME HandleInv, NEW t \in Thread, UpdateHandle(t)
    PROVE  HandleInv'
  <1>1. PICK h : h = reg[t].h
    BY Zenon
  <1>2. /\ pc[t] = "update" /\ h \in Handle /\ h < nextLocalHandle
        /\ reg[t] \in Reg /\ NoReg \in Reg
    BY Zenon, <1>1 DEF UpdateHandle, HandleInv, CallOK, Types, NoReg, Reg, Goal
  <1>3. /\ pc' = [pc EXCEPT ![t] = "idle"]
        /\ tracked' = [tracked EXCEPT ![h] = [known |-> TRUE, flags |-> reg[t].flags]]
        /\ UNCHANGED <<remote, local, nextLocalHandle, abandoned, held>>
    BY Zenon, <1>1 DEF UpdateHandle, mount
  <1>4. reg' = [u \in Thread |-> IF u = t THEN NoReg
                                 ELSE IF pc[u] = "update" /\ reg[u].h = h THEN [reg[u] EXCEPT !.stale = TRUE]
                                 ELSE reg[u]]
    BY Zenon, <1>1 DEF UpdateHandle
  <1>5. /\ tracked' = [g \in Handle |-> tracked'[g]]
        /\ tracked'[h].flags = reg[t].flags /\ tracked'[h].known = TRUE
        /\ \A g \in Handle \ {h} : tracked'[g] = tracked[g]
    BY Zenon, <1>2, <1>3 DEF HandleInv, Types
  <1>6. /\ pc'[t] = "idle" /\ \A u \in Thread \ {t} : pc'[u] = pc[u]
    BY Zenon, <1>3 DEF HandleInv, Types
  <1>7. \A u \in Thread \ {t} : /\ reg'[u] \in Reg /\ reg'[u].h = reg[u].h /\ reg'[u].rem = reg[u].rem
                                /\ reg'[u].goal = reg[u].goal /\ reg'[u].flags = reg[u].flags
                                /\ reg'[u].stale = FALSE =>
                                     reg[u].stale = FALSE /\ ~(pc[u] = "update" /\ reg[u].h = h)
    <2>1. \A u \in Thread : reg[u] \in Reg
      BY Zenon DEF HandleInv, Types
    <2>2. ASSUME NEW x \in Reg
          PROVE  /\ [x EXCEPT !.stale = TRUE] \in Reg /\ [x EXCEPT !.stale = TRUE].h = x.h
                 /\ [x EXCEPT !.stale = TRUE].rem = x.rem /\ [x EXCEPT !.stale = TRUE].goal = x.goal
                 /\ [x EXCEPT !.stale = TRUE].flags = x.flags /\ [x EXCEPT !.stale = TRUE].stale = TRUE
      BY Zenon DEF Reg
    <2>3. QED
      BY Zenon, <1>4, <2>1, <2>2
  <1>8. Types'
    <2>1. \A g \in Handle : tracked'[g].flags \subseteq Mark
      BY Zenon, <1>2, <1>5 DEF HandleInv, Types, Reg
    <2>2. reg' \in [Thread -> Reg]
      BY Zenon, <1>2, <1>4, <1>7
    <2>3. QED
      BY Zenon, <1>3, <1>5, <2>1, <2>2 DEF HandleInv, Types, CallStep
  <1>9. \A u \in Thread : CallOK(u)'
    <2>1. CallOK(t)'
      BY Zenon, <1>6 DEF CallOK, Carries
    <2>2. ASSUME NEW u \in Thread \ {t} PROVE CallOK(u)'
      <3>1. CallOK(u) /\ (pc[u] = "track" => reg[u].h # h)
        BY Zenon, <1>1, <1>2 DEF HandleInv, CallOK
      <3>2. pc[u] = "track" => tracked'[reg[u].h].known = FALSE
        <4>1. pc[u] = "track" => reg[u].h \in Handle \ {h} /\ tracked[reg[u].h].known = FALSE
          BY Zenon, <3>1 DEF CallOK
        <4>2. QED
          BY Zenon, <1>5, <4>1
      <3>3. ASSUME pc[u] = "update", reg'[u].stale = FALSE
            PROVE  tracked'[reg[u].h].flags \subseteq reg[u].flags
        <4>1. reg[u].stale = FALSE /\ reg[u].h # h
          BY Zenon, <1>7, <3>3
        <4>2. reg[u].h \in Handle \ {h} /\ tracked[reg[u].h].flags \subseteq reg[u].flags
          BY Zenon, <3>1, <3>3, <4>1 DEF CallOK
        <4>3. QED
          BY Zenon, <1>5, <4>2
      <3>4. QED
        BY Zenon, <1>3, <1>6, <1>7, <3>1, <3>2, <3>3, OtherCallKeeps
    <2>3. QED
      BY Zenon, <2>1, <2>2
  <1>10. \A g \in Handle : EntryOK(g)'
    <2>1. EntryOK(h) /\ ~(h >= nextLocalHandle)
      BY <1>2 DEF HandleInv, Types, Handle
    <2>2. EntryOK(h)'
      BY Zenon, <1>3, <1>5, <2>1 DEF EntryOK
    <2>3. \A g \in Handle \ {h} : EntryOK(g)'
      BY Zenon, <1>3, <1>5 DEF HandleInv, EntryOK
    <2>4. QED
      BY Zenon, <2>2, <2>3
  <1>11. \A k \in 1..Len(remote') : remote'[k] = TRUE => Kept(k)'
    BY SMTT(30), <1>2, <1>3, <1>6, <1>7 DEF HandleInv, Kept, Carries
  <1>12. Count'
    <2>1. Storing' = Storing
      BY Zenon, <1>2, <1>6 DEF Storing
    <2>2. QED
      BY Zenon, <1>3, <2>1 DEF HandleInv, Count
  <1>13. QED
    BY Zenon, <1>8, <1>9, <1>10, <1>11, <1>12 DEF HandleInv

\* One step of a call that has begun.
LEMMA ContinueKeeps ==
    ASSUME HandleInv, NEW t \in Thread, Continue(t)
    PROVE  HandleInv'
  <1>1. reg[t] \in Reg /\ NoReg \in Reg /\ CallOK(t) /\ pc[t] \in CallStep
    BY Zenon DEF HandleInv, Types, NoReg, Reg, Goal
  <1>2. ASSUME NEW type \in {"file", "dir"}, GetAttr(t, type) PROVE HandleInv'
    <2>1. [reg[t] EXCEPT !.goal = type] \in Reg /\ [reg[t] EXCEPT !.goal = type].goal = type
      BY Zenon, <1>1 DEF Reg, Goal
    <2>2. CASE reg[t].goal = "info"
      BY Zenon, <1>1, <1>2, <2>2, QuietKeeps DEF GetAttr, Return, Go, mount
    <2>3. CASE reg[t].goal # "info"
      BY Zenon, <1>1, <1>2, <2>1, <2>3, QuietKeeps DEF GetAttr, Go, caller, mount
    <2>4. QED
      BY Zenon, <2>2, <2>3
  <1>3. ASSUME ReadRemote(t) PROVE HandleInv'
    <2>1. reg[t].goal = "none" /\ pc[t] = "read"
      BY Zenon, <1>1, <1>3 DEF ReadRemote, CallOK
    <2>2. QED
      BY Zenon, <1>1, <1>3, <2>1, QuietKeeps DEF ReadRemote, Return, Go, mount
  <1>4. ASSUME Refused(t) PROVE HandleInv'
    <2>1. /\ pc[t] = "close" => reg[t].rem \in abandoned'
          /\ abandoned \subseteq abandoned' /\ pc[t] # "store" /\ held' = held
      BY Zenon, <1>4 DEF Refused, Abandon, Return
    <2>2. QED
      BY Zenon, <1>1, <1>4, <2>1, QuietKeeps DEF Refused, Return, Go, mount
  <1>5. QED
    BY Zenon, <1>2, <1>3, <1>4, OpenRemoteKeeps, StoreHandleKeeps, TrackHandleKeeps, CloseRemoteKeeps,
       UntrackHandleKeeps, UpdateHandleKeeps DEF Continue

\* The beginning of a call: what the host and WinFsp may do.
LEMMA CallKeeps ==
    ASSUME HandleInv, NEW t \in Thread,
           \/ \E goal \in {"info", "any", "file", "dir"} : ByPath(t, goal)
           \/ \E h \in Handle :
                 /\ held[h] # "none"
                 /\ \/ \E goal \in {"list", "read"} : FindHandle(t, goal, h)
                    \/ \E goal \in {"flush", "cleanup", "delete"} : LookupHandle(t, goal, h)
                    \/ ForgetHandle(t, h)
    PROVE  HandleInv'
  <1>1. NoReg \in Reg /\ NoReg.goal = "none" /\ NoReg.stale = FALSE /\ \A h \in Handle : h \in Nat
    BY SMTT(30), HandleAssumption DEF NoReg, Reg, Goal, Handle
  <1>2. ASSUME NEW goal \in {"info", "any", "file", "dir"}, ByPath(t, goal) PROVE HandleInv'
    <2>1. [NoReg EXCEPT !.goal = goal] \in Reg
      BY Zenon, <1>1 DEF Reg, Goal
    <2>2. QED
      BY Zenon, <1>2, <2>1, QuietKeeps DEF ByPath, Go, mount, caller
  <1>3. ASSUME NEW h \in Handle, NEW goal, FindHandle(t, goal, h) PROVE HandleInv'
    <2> DEFINE x == [NoReg EXCEPT !.h = h, !.rem = local[h].rem]
    <2>1. x \in Reg /\ x.goal = "none"
      <3> DEFINE y == [NoReg EXCEPT !.h = h]
      <3>1. y \in Reg /\ y.goal = "none" /\ local[h].rem \in Nat
        BY Zenon, <1>1 DEF Reg, HandleInv, Types
      <3>2. [y EXCEPT !.rem = local[h].rem] \in Reg /\ [y EXCEPT !.rem = local[h].rem].goal = "none"
        <4> HIDE DEF y
        <4>1. QED
          BY Zenon, <3>1 DEF Reg
      <3>3. QED
        BY <3>2, Zenon
    <2>2. /\ pc[t] = "idle" /\ held' = held
          /\ UNCHANGED <<remote, local, nextLocalHandle, tracked, abandoned>>
          /\ \/ pc' = [pc EXCEPT ![t] = "read"] /\ reg' = [reg EXCEPT ![t] = x]
             \/ pc' = [pc EXCEPT ![t] = "idle"] /\ reg' = [reg EXCEPT ![t] = NoReg]
      BY Zenon, <1>3 DEF FindHandle, Go, Return, mount, caller
    <2>3. QED
      <3> HIDE DEF x
      <3>1. QED
        BY Zenon, <1>1, <2>1, <2>2, QuietKeeps
  <1>4. ASSUME NEW h \in Handle, held[h] # "none",
               NEW goal \in {"flush", "cleanup", "delete"}, LookupHandle(t, goal, h)
        PROVE  HandleInv'
    <2> DEFINE f == tracked[h].flags \cup Flag[goal]
               x == [NoReg EXCEPT !.h = h, !.flags = f]
    <2>1. f \in SUBSET Mark
      BY SMTT(30) DEF Flag, HandleInv, Types, Mark
    <2>2. x \in Reg /\ x.goal = "none" /\ x.h = h /\ x.flags = f /\ x.stale = FALSE
      <3> DEFINE y == [NoReg EXCEPT !.h = h]
      <3>1. y \in Reg /\ y.goal = "none" /\ y.h = h /\ y.stale = FALSE
        BY Zenon, <1>1 DEF Reg
      <3>2. /\ [y EXCEPT !.flags = f] \in Reg /\ [y EXCEPT !.flags = f].flags = f
            /\ [y EXCEPT !.flags = f].goal = "none" /\ [y EXCEPT !.flags = f].h = h
            /\ [y EXCEPT !.flags = f].stale = FALSE
        <4> HIDE DEF y, f
        <4>1. QED
          BY Zenon, <2>1, <3>1 DEF Reg
      <3>3. QED
        BY <3>2, Zenon
    <2>3. /\ pc[t] = "idle" /\ held' = held
          /\ UNCHANGED <<remote, local, nextLocalHandle, tracked, abandoned>>
          /\ \/ pc' = [pc EXCEPT ![t] = "update"] /\ reg' = [reg EXCEPT ![t] = x]
             \/ pc' = [pc EXCEPT ![t] = "idle"] /\ reg' = [reg EXCEPT ![t] = NoReg]
      BY Zenon, <1>4 DEF LookupHandle, Go, Return, mount, caller
    <2>4. QED
      <3> HIDE DEF x
      <3>1. QED
        BY Zenon, <1>1, <1>4, <2>2, <2>3, QuietKeeps
  <1>5. QED
    BY Zenon, <1>2, <1>3, <1>4, ForgetHandleKeeps

\* A close that WinFsp makes without a registered file system.
LEMMA CloseUnregisteredKeeps ==
    ASSUME HandleInv, NEW t, NEW h \in Handle, goCloseUnregistered(t, h)
    PROVE  HandleInv'
  <1>1. /\ held' = [held EXCEPT ![h] = "none"]
        /\ UNCHANGED <<remote, local, nextLocalHandle, tracked, pc, reg, abandoned>>
    BY Zenon DEF goCloseUnregistered, mount
  <1>2. Types'
    BY Zenon, <1>1 DEF HandleInv, Types
  <1>3. held'[h] = "none" /\ \A g \in Handle \ {h} : held'[g] = held[g]
    BY Zenon, <1>1 DEF HandleInv, Types
  <1>4. ASSUME NEW u \in Thread PROVE CallOK(u)'
    <2>1. CallOK(u)
      BY Zenon DEF HandleInv
    <2>2. pc[u] = "track" => held'[reg[u].h] = "none"
      BY Zenon, <1>3, <2>1 DEF CallOK
    <2>3. QED
      BY Zenon, <1>1, <2>1, <2>2 DEF CallOK, Carries
  <1>5. ASSUME NEW g \in Handle PROVE EntryOK(g)'
    <2>1. EntryOK(g)
      BY Zenon DEF HandleInv
    <2>2. held'[g] # "none" => held[g] # "none"
      BY Zenon, <1>3
    <2>3. QED
      BY Zenon, <1>1, <2>1, <2>2 DEF EntryOK
  <1>6. \A k \in 1..Len(remote') : remote'[k] = TRUE => Kept(k)'
    BY Zenon, <1>1 DEF HandleInv, Kept, Carries
  <1>7. Count'
    BY Zenon, <1>1 DEF HandleInv, Count, Storing
  <1>8. QED
    BY Zenon, <1>2, <1>4, <1>5, <1>6, <1>7 DEF HandleInv

\* A step that leaves the tables, the server and the threads alone.
LEMMA StutterKeeps ==
    ASSUME HandleInv,
           UNCHANGED <<remote, local, nextLocalHandle, tracked, pc, reg, held, abandoned>>
    PROVE  HandleInv'
  <1>1. Types' /\ Count'
    BY Zenon DEF HandleInv, Types, Count, Storing
  <1>2. \A t \in Thread : CallOK(t)'
    <2>1. SUFFICES ASSUME NEW t \in Thread PROVE CallOK(t)'
      BY Zenon
    <2>2. CallOK(t)
      BY Zenon DEF HandleInv
    <2>3. QED
      BY ZenonT(30), <2>2 DEF CallOK, Carries
  <1>3. \A h \in Handle : EntryOK(h)'
    BY Zenon DEF HandleInv, EntryOK
  <1>4. \A k \in 1..Len(remote') : remote'[k] = TRUE => Kept(k)'
    BY Zenon DEF HandleInv, Kept, Carries
  <1>5. QED
    BY Zenon, <1>1, <1>2, <1>3, <1>4 DEF HandleInv

\* Every step of the host, of WinFsp and of a call.
LEMMA InvNext == HandleInv /\ [Next]_vars => HandleInv'
  <1> SUFFICES ASSUME HandleInv, [Next]_vars PROVE HandleInv'
    BY Zenon
  <1> DEFINE Still == UNCHANGED <<remote, local, nextLocalHandle, tracked, pc, reg, held, abandoned>>
  <1>1. CASE UNCHANGED vars
    <2>1. Still
      BY Zenon, <1>1 DEF vars, mhVars
    <2>2. QED
      BY Zenon, <2>1, StutterKeeps
  <1>2. CASE Start \/ OtherProgram \/ Wait \/ Stop
    <2>1. Still
      BY Zenon, <1>2 DEF Start, OtherProgram, Wait, Stop, mhVars
    <2>2. QED
      BY Zenon, <2>1, StutterKeeps
  <1>3. CASE HostStep
    <2>1. CASE HostCall
      <3>1. Host \in Thread
        BY Zenon DEF Thread
      <3>2. BridgeCall(Script[step])
        BY Zenon, <2>1 DEF HostCall
      <3>3. QED
        BY Zenon, <3>1, <3>2, CallKeeps DEF BridgeCall
    <2>2. CASE HostAnswer
      <3>1. Still
        BY Zenon, <2>2 DEF HostAnswer, mount
      <3>2. QED
        BY Zenon, <3>1, StutterKeeps
    <2>3. CASE ~HostCall /\ ~HostAnswer
      <3>1. Still
        BY Zenon, <1>3, <2>3 DEF HostStep, findWinFspDLL, preflightMount, probeDispatcherBindings, probeBinding,
              CreateFails, Create, Warm, StartFails, SetMountPoint, StartDispatcher, Serve, Stopped,
              Unregister, Delete, CommandReturns, mhVars
      <3>2. QED
        BY Zenon, <3>1, StutterKeeps
    <2>4. QED
      BY Zenon, <2>1, <2>2, <2>3
  <1>4. ASSUME NEW t \in Thread, ContinueCall(t) PROVE HandleInv'
    BY Zenon, <1>4, ContinueKeeps DEF ContinueCall
  <1>5. ASSUME NEW t \in Kernel, KernelCall(t) PROVE HandleInv'
    <2>1. t \in Thread
      BY Zenon DEF Thread
    <2>2. ASSUME NEW h \in Handle, goCloseUnregistered(t, h) PROVE HandleInv'
      BY Zenon, <2>2, CloseUnregisteredKeeps
    <2>3. ASSUME ~(\E h \in Handle : goCloseUnregistered(t, h)) PROVE HandleInv'
      <3>1. \/ \E goal \in {"info", "any", "file", "dir"} : ByPath(t, goal)
            \/ \E h \in Handle :
                  /\ held[h] # "none"
                  /\ \/ \E goal \in {"list", "read"} : FindHandle(t, goal, h)
                     \/ \E goal \in {"flush", "cleanup", "delete"} : LookupHandle(t, goal, h)
                     \/ ForgetHandle(t, h)
        BY Zenon, <1>5, <2>3 DEF KernelCall, goOpen, goGetSecurityByName, goRead, goGetDirInfoByName, goCanDelete,
              goCleanup, goFlush, goSetDelete, Marking, goClose
      <3>2. QED
        BY Zenon, <2>1, <3>1, CallKeeps
    <2>4. QED
      BY Zenon, <2>2, <2>3
  <1>6. QED
    BY Zenon, <1>1, <1>2, <1>3, <1>4, <1>5 DEF Next

\* No server handle that the volume has opened is forgotten, for any number of
\* WinFsp's threads and of handles, however opens, closes and their answers
\* interleave (mount.go, Open, OpenDirectory, Close).
THEOREM NoHandleIsForgotten == Spec => []NoStrayHandles
  <1>1. Spec => Init /\ [][Next]_vars
    BY PTL DEF Spec
  <1>2. HandleInv => NoStrayHandles
    BY Zenon, InvImplies
  <1>3. QED
    BY <1>1, <1>2, InvInit, InvNext, PTL

\* A handle that the host or WinFsp holds is known to both tables and to the
\* server, and is no other caller's (mount.go, allocLocalHandleLocked;
\* callbacks.go, trackHandle).
THEOREM HeldHandlesAreUsable == Spec => []HandlesUsable
  <1>1. Spec => Init /\ [][Next]_vars
    BY PTL DEF Spec
  <1>2. HandleInv => HandlesUsable
    BY Zenon, InvImplies
  <1>3. QED
    BY <1>1, <1>2, InvInit, InvNext, PTL

\* Only the end of an open or a close and a state written back change the
\* callbacks' table.
LEMMA MarksStep ==
    ASSUME HandleInv, [Next]_vars, NEW h \in Handle, tracked[h].known, tracked'[h].known,
           ~(\E t \in Thread : pc[t] = "update" /\ reg[t].h = h /\ reg[t].stale)
    PROVE  tracked[h].flags \cap {"cleaned", "flushed"} \subseteq tracked'[h].flags
  <1>1. CASE tracked' = tracked
    BY Zenon, <1>1
  <1>2. ASSUME NEW t \in Thread, TrackHandle(t) PROVE tracked'[h] = tracked[h]
    <2>1. reg[t].h \in Handle /\ tracked[reg[t].h].known = FALSE
      <3>1. pc[t] = "track" /\ CallOK(t)
        BY Zenon, <1>2 DEF TrackHandle, HandleInv
      <3>2. QED
        BY Zenon, <3>1 DEF CallOK
    <2>2. h # reg[t].h
      BY Zenon, <2>1
    <2>3. QED
      BY Zenon, <1>2, <2>2 DEF TrackHandle, HandleInv, Types
  <1>3. ASSUME NEW t \in Thread, UntrackHandle(t) PROVE tracked'[h] = tracked[h]
    <2>1. h # reg[t].h
      BY Zenon, <1>3 DEF UntrackHandle, HandleInv, Types, NoState
    <2>2. QED
      BY Zenon, <1>3, <2>1 DEF UntrackHandle, HandleInv, Types
  <1>4. ASSUME NEW t \in Thread, UpdateHandle(t) PROVE tracked[h].flags \subseteq tracked'[h].flags
    <2>1. CASE h = reg[t].h
      <3>1. pc[t] = "update" /\ reg[t].stale \in BOOLEAN
        BY Zenon, <1>4 DEF UpdateHandle, HandleInv, Types, Reg
      <3>2. reg[t].stale = FALSE
        BY <2>1, <3>1, Zenon
      <3>3. tracked[h].flags \subseteq reg[t].flags
        <4>1. CallOK(t)
          BY Zenon DEF HandleInv
        <4>2. QED
          BY Zenon, <2>1, <3>1, <3>2, <4>1 DEF CallOK
      <3>4. tracked'[h].flags = reg[t].flags
        BY Zenon, <1>4, <2>1 DEF UpdateHandle, HandleInv, Types
      <3>5. QED
        BY Zenon, <3>3, <3>4
    <2>2. CASE h # reg[t].h
      BY Zenon, <1>4, <2>2 DEF UpdateHandle, HandleInv, Types
    <2>3. QED
      BY Zenon, <2>1, <2>2
  <1>5. \/ tracked' = tracked
        \/ \E t \in Thread : TrackHandle(t) \/ UntrackHandle(t) \/ UpdateHandle(t)
    <2>1. CASE UNCHANGED vars
      BY Zenon, <2>1 DEF vars, mhVars
    <2>2. CASE Start \/ OtherProgram \/ Wait \/ Stop
      BY Zenon, <2>2 DEF Start, OtherProgram, Wait, Stop, mhVars
    <2>3. CASE HostStep
      <3>1. CASE HostCall
        BY Zenon, <3>1 DEF HostCall, BridgeCall, ByPath, FindHandle, LookupHandle, ForgetHandle
      <3>2. CASE ~HostCall
        BY Zenon, <2>3, <3>2 DEF HostStep, findWinFspDLL, preflightMount, probeDispatcherBindings, probeBinding,
              CreateFails, Create, Warm, StartFails, SetMountPoint, StartDispatcher, Serve, Stopped,
              Unregister, Delete, CommandReturns, HostAnswer, mhVars
      <3>3. QED
        BY Zenon, <3>1, <3>2
    <2>4. ASSUME NEW t \in Thread, ContinueCall(t)
          PROVE  tracked' = tracked \/ TrackHandle(t) \/ UntrackHandle(t) \/ UpdateHandle(t)
      BY Zenon, <2>4 DEF ContinueCall, Continue, GetAttr, OpenRemote, StoreHandle, ReadRemote, CloseRemote, Refused
    <2>5. ASSUME NEW t \in Kernel, KernelCall(t) PROVE tracked' = tracked
      BY Zenon, <2>5 DEF KernelCall, goOpen, goGetSecurityByName, goRead, goGetDirInfoByName, goCanDelete,
            goCleanup, goFlush, goSetDelete, Marking, goClose, goCloseUnregistered,
            ByPath, FindHandle, LookupHandle, ForgetHandle
    <2>6. QED
      BY Zenon, <2>1, <2>2, <2>3, <2>4, <2>5 DEF Next
  <1>6. QED
    BY Zenon, <1>1, <1>2, <1>3, <1>4, <1>5

\* A mark that Cleanup or Flush has left stays for as long as the handle is known,
\* whatever the threads do, unless two of them overlapped (callbacks.go, Cleanup,
\* Flush, updateHandle).
THEOREM MarksAreKept == Spec => MarksStay
  <1>1. Spec => Init /\ [][Next]_vars
    BY PTL DEF Spec
  <1>2. HandleInv /\ [Next]_vars =>
            [\A h \in Handle : tracked[h].known /\ tracked'[h].known
                 /\ ~(\E t \in Thread : pc[t] = "update" /\ reg[t].h = h /\ reg[t].stale)
                 => tracked[h].flags \cap {"cleaned", "flushed"} \subseteq tracked'[h].flags]_vars
    BY Zenon, MarksStep
  <1>3. QED
    BY <1>1, <1>2, InvInit, InvNext, PTL DEF MarksStay

-----------------------------------------------------------------------------
(* The host's invariant.                                                   *)

\* The stages in which the host makes calls of its own.
Scripted == {"warm", "snapshot", "getattr", "readdir", "read"}

\* The host is at one of these calls of its script.
AtCall(ops) == stage \in Scripted /\ step <= Len(Script) /\ Script[step] \in ops

Opening == AtCall({"opendir", "openfile"})
Using == AtCall({"list", "read", "flush", "cleanup", "delete"})
Closing == AtCall({"close"})

\* The host calls only from a script, one call at a time, and holds at most one
\* handle: from the answer of an open to the close that belongs to it, or for
\* ever when a command has failed in between.
ScriptInv ==
    /\ stage \in Scripted => step \in 1 .. Len(Script) + 1
    /\ answer \in {"none", "ok", "error"}
    /\ pc[Host] # "idle" \/ answer # "none" => stage \in Scripted /\ step <= Len(Script)
    /\ pc[Host] # "idle" => answer = "none"
    /\ pc[Host] \in {"open", "store", "track"} \/ (pc[Host] = "attr" /\ reg[Host].goal # "info") => Opening
    /\ \A g, h \in Handle : held[g] = "host" /\ held[h] = "host" => g = h
    /\ \A h \in Handle : held[h] = "host" =>
         \/ stage = "fatal"
         \/ Opening /\ pc[Host] = "idle" /\ answer = "ok"
         \/ Using
         \/ Closing /\ pc[Host] = "idle" /\ answer = "none"

\* Until the file system is created.
Early == {"fields", "resolve", "prepare", "validate", "refused", "probe", "bindings", "preflight",
          "choose", "wait", "create", "getattr", "readdir", "read", "fatal"}

\* What the host has at each stage of Run.
StageInv ==
    /\ stage \in Early \cup {"warm", "mountpoint", "dispatch", "snapshot", "serving", "stop", "close",
                             "delete", "returned"}
    /\ registered \in BOOLEAN /\ running \in BOOLEAN /\ dispatching \in BOOLEAN
    /\ dll \in 0..2
    /\ fs = CASE stage \in Early -> "none"
              [] stage = "returned" -> fs
              [] OTHER -> "created"
    /\ stage = "returned" => fs \in {"none", "deleted"}
    /\ registered <=> stage \in {"warm", "mountpoint", "dispatch", "snapshot", "serving", "stop", "close"}
    /\ running <=> stage \in {"mountpoint", "dispatch", "snapshot", "serving", "stop"}
    /\ stage \in {"snapshot", "serving", "stop"} => dispatching
    /\ stage \in {"close", "delete", "returned"} => (dispatching => probeFailed)
    /\ stage \notin {"snapshot", "serving", "stop", "close", "delete", "returned"} => ~dispatching
    /\ stage \in Early \ {"preflight", "choose", "wait", "create"} => dll = 0
    /\ stage \in {"preflight", "choose", "wait", "create"} => dll <= 1
    /\ stage \notin Early \cup {"returned"} => dll >= 1
    /\ stage = "returned" /\ fs = "deleted" => dll <= 1

\* A configuration that NormalizeMountPoint has been over.
Normal == {Drive(l) : l \in 0..Letters} \cup {LocalDir, Share, Wrong}

DriveIsFree ==
    plan.point.form = "drive" =>
        plan.point.letter \notin places.used \/ candidateDriveLetters \subseteq places.used

\* How far the console's configuration has been dealt with, when no other program
\* came in between.
PlanInv ==
    /\ plan = [by |-> plan.by, point |-> plan.point, backend |-> plan.backend]
    /\ places = [used |-> places.used, leaf |-> places.leaf] /\ places.used \subseteq 0..Letters
    /\ raced \in BOOLEAN
    /\ plan.by = "console" /\ raced = FALSE =>
         /\ stage = "fields" => plan.point \in Typed
         /\ stage = "resolve" => plan.point \in Normal
         /\ stage = "prepare" => plan.point \in Normal /\ DriveIsFree
         /\ stage \in {"validate", "probe", "bindings", "preflight", "choose", "create", "warm", "mountpoint"} =>
              /\ plan.point \in Normal /\ DriveIsFree
              /\ plan.point.form = "local" => places.leaf = "new"

HostInv == ScriptInv /\ StageInv /\ PlanInv

\* The calls that open and those that use a handle.
OpenOp == {"opendir", "openfile"}
UseOp == {"list", "read", "flush", "cleanup", "delete"}

-----------------------------------------------------------------------------
(* The scripts.                                                            *)

\* Every script opens before it uses and closes after.
LEMMA ScriptShape ==
    ASSUME stage \in Scripted
    PROVE  /\ Len(Script) \in Nat \ {0}
           /\ \A i \in 1..Len(Script) :
                /\ Script[i] \in OpenOp \cup UseOp \cup {"must", "info", "close"}
                /\ Script[i] = "must" => stage = "warm"
                /\ Script[i] \in OpenOp \cup UseOp =>
                     i < Len(Script) /\ Script[i + 1] \in UseOp \cup {"close"}
                /\ Script[i] \in OpenOp =>
                     \E j \in i .. Len(Script) :
                         Script[j] = "close" /\ \A k \in i .. j - 1 : Script[k] # "close"
                /\ Script[i] \notin OpenOp \cup UseOp =>
                     i = Len(Script) \/ Script[i + 1] \notin UseOp \cup {"close"}
  <1> DEFINE s == Script
  <1>1. DOMAIN Command = {"getattr", "readdir", "read"}
    BY Zenon DEF Command
  <1>2. CASE stage = "warm"
    <2>1. s = Warmup
      BY Zenon, <1>1, <1>2 DEF Script
    <2>2. /\ Len(s) = 14
          /\ s[1] = "must" /\ s[2] = "must" /\ s[3] = "must" /\ s[4] = "must"
          /\ s[5] = "opendir" /\ s[6] = "list" /\ s[7] = "flush" /\ s[8] = "cleanup" /\ s[9] = "close"
          /\ s[10] = "info"
          /\ s[11] = "openfile" /\ s[12] = "delete" /\ s[13] = "cleanup" /\ s[14] = "close"
      BY Zenon, <2>1 DEF Warmup
    <2> HIDE DEF s
    <2>3. \A i \in 1..14 : i = 1 \/ i = 2 \/ i = 3 \/ i = 4 \/ i = 5 \/ i = 6 \/ i = 7 \/ i = 8 \/ i = 9
                           \/ i = 10 \/ i = 11 \/ i = 12 \/ i = 13 \/ i = 14
      OBVIOUS
    <2>4. \A i \in 1..14 :
                /\ s[i] \in OpenOp \cup UseOp \cup {"must", "info", "close"}
                /\ s[i] \in OpenOp \cup UseOp => i < 14 /\ s[i + 1] \in UseOp \cup {"close"}
                /\ s[i] \notin OpenOp \cup UseOp => i = 14 \/ s[i + 1] \notin UseOp \cup {"close"}
      BY <2>2, <2>3 DEF OpenOp, UseOp
    <2>5. ASSUME NEW i \in 1..14, s[i] \in OpenOp
          PROVE  \E j \in i .. 14 : s[j] = "close" /\ \A k \in i .. j - 1 : s[k] # "close"
      <3>1. i = 5 \/ i = 11
        BY Zenon, <2>2, <2>3, <2>5 DEF OpenOp
      <3>2. CASE i = 5
        <4>1. \A k \in 5..9 - 1 : k = 5 \/ k = 6 \/ k = 7 \/ k = 8
          OBVIOUS
        <4>2. 9 \in i .. 14 /\ s[9] = "close" /\ \A k \in i..9 - 1 : s[k] # "close"
          BY <2>2, <3>2, <4>1
        <4>3. QED
          BY Zenon, <4>2
      <3>3. CASE i = 11
        <4>1. \A k \in 11..14 - 1 : k = 11 \/ k = 12 \/ k = 13
          OBVIOUS
        <4>2. 14 \in i .. 14 /\ s[14] = "close" /\ \A k \in i..14 - 1 : s[k] # "close"
          BY <2>2, <3>3, <4>1
        <4>3. QED
          BY Zenon, <4>2
      <3>4. QED
        BY Zenon, <3>1, <3>2, <3>3
    <2>6. QED
      BY SMTT(30), <1>2, <2>2, <2>4, <2>5 DEF s
  <1>3. CASE stage = "getattr"
    <2>1. Len(s) = 1 /\ s[1] = "info"
      BY Zenon, <1>1, <1>3 DEF Script, Command
    <2> HIDE DEF s
    <2>2. QED
      BY <2>1 DEF s, OpenOp, UseOp
  <1>4. CASE stage \in {"snapshot", "readdir", "read"}
    <2>1. Len(s) = 3 /\ s[1] \in OpenOp /\ s[2] \in UseOp /\ s[3] = "close"
      BY <1>1, <1>4 DEF Script, Command, Snapshot, OpenOp, UseOp
    <2> HIDE DEF s
    <2>2. \A i \in 1..3 : i = 1 \/ i = 2 \/ i = 3
      OBVIOUS
    <2>3. "close" \notin OpenOp \cup UseOp /\ OpenOp \cap UseOp = {} /\ "must" \notin OpenOp \cup UseOp
      BY Zenon DEF OpenOp, UseOp
    <2>4. \A i \in 1..3 :
                /\ s[i] \in OpenOp \cup UseOp \cup {"must", "info", "close"} /\ s[i] # "must"
                /\ s[i] \in OpenOp \cup UseOp => i < 3 /\ s[i + 1] \in UseOp \cup {"close"}
                /\ s[i] \notin OpenOp \cup UseOp => i = 3 \/ s[i + 1] \notin UseOp \cup {"close"}
      BY <2>1, <2>2, <2>3
    <2>5. ASSUME NEW i \in 1..3, s[i] \in OpenOp
          PROVE  \E j \in i .. 3 : s[j] = "close" /\ \A k \in i .. j - 1 : s[k] # "close"
      <3>1. i = 1
        BY Zenon, <2>1, <2>2, <2>3, <2>5
      <3>2. \A k \in 1..3 - 1 : k = 1 \/ k = 2
        OBVIOUS
      <3>3. 3 \in i .. 3 /\ s[3] = "close" /\ \A k \in i..3 - 1 : s[k] # "close"
        BY <2>1, <2>3, <3>1, <3>2
      <3>4. QED
        BY Zenon, <3>3
    <2>6. QED
      BY <2>1, <2>4, <2>5 DEF s
  <1>5. QED
    BY Zenon, <1>2, <1>3, <1>4 DEF Scripted


\* What the host's calls have to do with its script, in one place.
LEMMA AtCallFacts ==
    ASSUME stage \in Scripted, step \in 1 .. Len(Script) + 1
    PROVE  /\ Opening <=> step <= Len(Script) /\ Script[step] \in OpenOp
           /\ Using <=> step <= Len(Script) /\ Script[step] \in UseOp
           /\ Closing <=> step <= Len(Script) /\ Script[step] = "close"
           /\ ~(Opening /\ Using) /\ ~(Opening /\ Closing) /\ ~(Using /\ Closing)
  BY Zenon DEF Opening, Using, Closing, AtCall, OpenOp, UseOp

\* A step of another thread, or of nobody, that gives the host nothing.
LEMMA ScriptOthersKeep ==
    ASSUME ScriptInv, stage' = stage, step' = step, answer' = answer,
           pc'[Host] = pc[Host], reg'[Host].goal = reg[Host].goal,
           \A h \in Handle : held'[h] = "host" => held[h] = "host"
    PROVE  ScriptInv'
  <1>1. Script' = Script /\ (Opening' <=> Opening) /\ (Using' <=> Using) /\ (Closing' <=> Closing)
    BY Zenon DEF Script, Opening, Using, Closing, AtCall
  <1>2. QED
    BY Zenon, <1>1 DEF ScriptInv

\* Run goes from one stage to the next between its scripts.
LEMMA ScriptStageKeeps ==
    ASSUME ScriptInv, stage # "fatal", stage \in Scripted => step > Len(Script),
           UNCHANGED <<pc, reg, held, answer>>, stage' \in Scripted => step' = 1
    PROVE  ScriptInv'
  <1>1. /\ pc[Host] = "idle" /\ answer = "none"
        /\ \A h \in Handle : held[h] # "host"
    <2>1. stage \in Scripted => Len(Script) \in Nat /\ step \in 1..Len(Script) + 1
      BY Zenon, ScriptShape DEF ScriptInv
    <2>2. ~Opening /\ ~Using /\ ~Closing /\ ~(stage \in Scripted /\ step <= Len(Script))
      BY <2>1 DEF Opening, Using, Closing, AtCall
    <2>3. QED
      BY Zenon, <2>2 DEF ScriptInv
  <1>2. stage' \in Scripted => step' \in 1 .. Len(Script') + 1
    <2>1. stage' \in Scripted => Len(Script') \in Nat
      <3>1. DOMAIN Command = {"getattr", "readdir", "read"}
        BY Zenon DEF Command
      <3>2. /\ Len(Warmup) \in Nat /\ Len(Snapshot) \in Nat
            /\ \A c \in DOMAIN Command : Len(Command[c]) \in Nat
        BY <3>1 DEF Warmup, Snapshot, Command
      <3>3. QED
        BY Zenon, <3>1, <3>2 DEF Script, Scripted
    <2>2. QED
      BY <2>1
  <1>3. QED
    BY Zenon, <1>1, <1>2 DEF ScriptInv

\* The host begins the next call of its script.
LEMMA ScriptCallKeeps ==
    ASSUME HandleInv, ScriptInv, HostCall
    PROVE  ScriptInv'
  <1>1. /\ stage \in Scripted /\ step \in 1..Len(Script) /\ Len(Script) \in Nat
        /\ pc[Host] = "idle" /\ answer = "none" /\ stage' = stage /\ step' = step
        /\ BridgeCall(Script[step]) /\ Host \in Thread
    <2>1. stage \in Scripted
      BY Zenon DEF HostCall, Scripted, Command
    <2>2. Len(Script) \in Nat /\ step \in 1..Len(Script) + 1
      BY Zenon, <2>1, ScriptShape DEF ScriptInv
    <2>3. QED
      BY <2>1, <2>2 DEF HostCall, hostVars, Thread
  <1>2. Script' = Script /\ (Opening' <=> Opening) /\ (Using' <=> Using) /\ (Closing' <=> Closing)
    BY Zenon, <1>1 DEF Script, Opening, Using, Closing, AtCall
  <1>3. /\ \A h \in Handle : held[h] = "host" => Using \/ Closing
        /\ \A g, h \in Handle : held[g] = "host" /\ held[h] = "host" => g = h
    BY Zenon, <1>1 DEF ScriptInv, Scripted
  <1> DEFINE Begun == /\ answer' \in {"none", "ok", "error"}
                      /\ pc'[Host] # "idle" => answer' = "none"
                      /\ pc'[Host] \notin {"open", "store", "track"}
                      /\ pc'[Host] = "attr" /\ reg'[Host].goal # "info" => Opening
                      /\ \A h \in Handle : held'[h] = "host" => held[h] = "host" /\ ~Closing
  <1>4. SUFFICES Begun
    BY <1>1, <1>2, <1>3 DEF ScriptInv
  <1>5. ASSUME NEW goal \in {"info", "dir", "file"}, ByPath(Host, goal),
               goal # "info" => Opening, ~Closing
        PROVE  Begun
    <2>1. [NoReg EXCEPT !.goal = goal].goal = goal
      BY Zenon DEF NoReg
    <2>2. /\ pc'[Host] = "attr" /\ reg'[Host].goal = goal /\ held' = held /\ answer' = "none"
      BY Zenon, <1>1, <1>5, <2>1 DEF ByPath, Go, caller, HandleInv, Types
    <2>3. QED
      BY Zenon, <1>5, <2>2
  <1>6. ASSUME NEW h \in Handle, NEW goal \in {"list", "read"}, FindHandle(Host, goal, h), ~Closing
        PROVE  Begun
    <2>1. /\ pc'[Host] \in {"idle", "read"} /\ held' = held
          /\ answer' \in {"none", "error"} /\ (pc'[Host] # "idle" => answer' = "none")
      BY Zenon, <1>1, <1>6 DEF FindHandle, Return, Go, Answer, caller, HandleInv, Types
    <2>2. QED
      BY Zenon, <1>6, <2>1
  <1>7. ASSUME NEW h \in Handle, NEW goal \in {"flush", "cleanup", "delete"}, LookupHandle(Host, goal, h), ~Closing
        PROVE  Begun
    <2>1. /\ pc'[Host] \in {"idle", "update"} /\ held' = held
          /\ answer' \in {"none", "error"} /\ (pc'[Host] # "idle" => answer' = "none")
      BY Zenon, <1>1, <1>7 DEF LookupHandle, Return, Go, Answer, caller, HandleInv, Types
    <2>2. QED
      BY Zenon, <1>7, <2>1
  <1>8. ASSUME NEW h \in Handle, held[h] = "host", ForgetHandle(Host, h)
        PROVE  Begun
    <2>1. /\ pc'[Host] \in {"idle", "close"} /\ held' = [held EXCEPT ![h] = "none"]
          /\ answer' \in {"none", "error"} /\ (pc'[Host] # "idle" => answer' = "none")
      BY Zenon, <1>1, <1>8 DEF ForgetHandle, Go, Answer, HandleInv, Types
    <2>2. \A g \in Handle : held'[g] # "host"
      BY Zenon, <1>3, <1>8, <2>1 DEF HandleInv, Types
    <2>3. QED
      BY Zenon, <2>1, <2>2
  <1>9. QED
    <2>1. /\ Opening <=> Script[step] \in OpenOp
          /\ Closing <=> Script[step] = "close"
      BY <1>1, AtCallFacts
    <2>2. PICK op : op = Script[step]
      BY Zenon
    <2>3. BridgeCall(op)
      BY Zenon, <1>1, <2>2
    <2>4. QED
      BY Zenon, <1>5, <1>6, <1>7, <1>8, <2>1, <2>2, <2>3 DEF BridgeCall, OpenOp

\* A call of the host goes on.
LEMMA ScriptContinueKeeps ==
    ASSUME HandleInv, ScriptInv, ContinueCall(Host)
    PROVE  ScriptInv'
  <1> DEFINE p == pc[Host]
  <1>1. /\ stage' = stage /\ step' = step /\ Continue(Host)
        /\ Host \in Thread /\ CallOK(Host)
    BY Zenon DEF ContinueCall, hostVars, Thread, HandleInv
  <1>2. p # "idle"
    BY Zenon, <1>1 DEF Continue, GetAttr, OpenRemote, StoreHandle, TrackHandle, ReadRemote, CloseRemote, UntrackHandle,
           UpdateHandle, Refused
  <1>3. /\ answer = "none" /\ stage \in Scripted /\ step \in 1..Len(Script) /\ Len(Script) \in Nat
    <2>1. answer = "none" /\ stage \in Scripted /\ step <= Len(Script)
      BY Zenon, <1>2 DEF ScriptInv
    <2>2. Len(Script) \in Nat /\ step \in 1..Len(Script) + 1
      BY Zenon, <2>1, ScriptShape DEF ScriptInv
    <2>3. QED
      BY <2>1, <2>2
  <1>4. Script' = Script /\ (Opening' <=> Opening) /\ (Using' <=> Using) /\ (Closing' <=> Closing)
    BY Zenon, <1>1 DEF Script, Opening, Using, Closing, AtCall
  <1>5. /\ \A h \in Handle : held[h] = "host" => Using
        /\ \A g, h \in Handle : held[g] = "host" /\ held[h] = "host" => g = h
    BY Zenon, <1>2, <1>3 DEF ScriptInv, Scripted
  <1>6. Opening => ~Using
    BY <1>3, AtCallFacts
  <1>7. /\ p \in {"open", "store", "track"} => Opening
        /\ p = "attr" /\ reg[Host].goal # "info" => Opening
    BY Zenon DEF ScriptInv
  <1>8. ASSUME pc'[Host] \in {"idle", "read", "close", "untrack", "update"}, held' = held,
               answer' \in {"none", "ok", "error"}, pc'[Host] # "idle" => answer' = "none"
        PROVE  ScriptInv'
    BY SMTT(30), <1>1, <1>3, <1>4, <1>5, <1>8 DEF ScriptInv
  <1>9. ASSUME pc'[Host] \in {"open", "store", "track"}, Opening, held' = held, answer' = "none"
        PROVE  ScriptInv'
    BY <1>1, <1>3, <1>4, <1>5, <1>9 DEF ScriptInv
  <1>10. ASSUME NEW ok \in BOOLEAN, Return(Host, ok), ok = FALSE \/ reg[Host].goal \notin {"file", "dir"}
         PROVE  ScriptInv'
    <2>1. pc'[Host] = "idle" /\ held' = held /\ answer' \in {"ok", "error"}
      BY Zenon, <1>1, <1>10 DEF Return, Go, Answer, HandleInv, Types
    <2>2. QED
      BY Zenon, <1>8, <2>1
  <1>11. ASSUME NEW type \in {"file", "dir"}, GetAttr(Host, type) PROVE ScriptInv'
    <2>1. CASE reg[Host].goal = "info"
      BY Zenon, <1>10, <1>11, <2>1 DEF GetAttr
    <2>2. CASE reg[Host].goal # "info"
      BY Zenon, <1>1, <1>3, <1>7, <1>9, <1>11, <2>2 DEF GetAttr, Go, caller, HandleInv, Types
    <2>3. QED
      BY Zenon, <2>1, <2>2
  <1>12. ASSUME NEW lost \in BOOLEAN, OpenRemote(Host, lost) PROVE ScriptInv'
    <2>1. CASE lost = TRUE
      BY Zenon, <1>10, <1>12, <2>1 DEF OpenRemote
    <2>2. CASE lost = FALSE
      BY Zenon, <1>1, <1>3, <1>7, <1>9, <1>12, <2>2 DEF OpenRemote, Go, caller, HandleInv, Types
    <2>3. QED
      BY Zenon, <2>1, <2>2
  <1>13. CASE StoreHandle(Host)
    BY Zenon, <1>1, <1>3, <1>7, <1>9, <1>13 DEF StoreHandle, Go, caller, HandleInv, Types
  <1>14. CASE TrackHandle(Host)
    <2>1. Opening /\ reg[Host].goal \in {"file", "dir"} /\ reg[Host].h \in Handle
      BY Zenon, <1>1, <1>7, <1>14 DEF TrackHandle, CallOK
    <2>2. /\ pc'[Host] = "idle" /\ answer' = "ok" /\ held' = [held EXCEPT ![reg[Host].h] = "host"]
      BY Zenon, <1>1, <1>14, <2>1 DEF TrackHandle, Return, Go, Answer, HandleInv, Types
    <2>3. \A h \in Handle : held'[h] = "host" => h = reg[Host].h
      BY Zenon, <1>5, <1>6, <2>1, <2>2 DEF HandleInv, Types
    <2>4. QED
      BY SMTT(30), <1>1, <1>3, <1>4, <2>1, <2>2, <2>3 DEF ScriptInv
  <1>15. CASE ReadRemote(Host)
    <2>1. reg[Host].goal = "none" /\ Return(Host, remote[reg[Host].rem])
      BY Zenon, <1>1, <1>15 DEF ReadRemote, CallOK
    <2>2. pc'[Host] = "idle" /\ held' = held /\ answer' \in {"ok", "error"}
      BY Zenon, <1>1, <2>1 DEF Return, Go, Answer, HandleInv, Types
    <2>3. QED
      BY Zenon, <1>8, <2>2
  <1>16. ASSUME NEW lost \in BOOLEAN, CloseRemote(Host, lost) PROVE ScriptInv'
    <2>1. CASE Return(Host, FALSE)
      BY Zenon, <1>10, <2>1
    <2>2. CASE Go(Host, "untrack", reg[Host]) /\ UNCHANGED caller
      BY Zenon, <1>1, <1>3, <1>8, <2>2 DEF Go, caller, HandleInv, Types
    <2>3. QED
      BY Zenon, <1>16, <2>1, <2>2 DEF CloseRemote
  <1>17. CASE UntrackHandle(Host)
    <2>1. reg[Host].goal = "none"
      BY Zenon, <1>1, <1>17 DEF UntrackHandle, CallOK
    <2>2. QED
      BY Zenon, <1>10, <1>17, <2>1 DEF UntrackHandle
  <1>18. CASE UpdateHandle(Host)
    BY Zenon, <1>1, <1>8, <1>18 DEF UpdateHandle, Answer, HandleInv, Types
  <1>19. CASE Refused(Host)
    BY Zenon, <1>10, <1>19 DEF Refused
  <1>20. QED
    BY Zenon, <1>1, <1>11, <1>12, <1>13, <1>14, <1>15, <1>16, <1>17, <1>18, <1>19 DEF Continue

\* The host goes on to the next call, past the close when its open failed, or
\* leaves the script.
LEMMA ScriptAnswerKeeps ==
    ASSUME ScriptInv, HostAnswer
    PROVE  ScriptInv' /\ (stage' = stage \/ (stage = "warm" /\ stage' = "close")
                                         \/ (stage \in DOMAIN Command /\ stage' = "fatal"))
  <1>1. /\ pc[Host] = "idle" /\ answer \in {"ok", "error"} /\ answer' = "none"
        /\ UNCHANGED <<pc, reg, held>>
    BY Zenon DEF HostAnswer, ScriptInv
  <1>2. /\ stage \in Scripted /\ step \in 1..Len(Script) /\ Len(Script) \in Nat
    <2>1. stage \in Scripted /\ step <= Len(Script)
      BY Zenon, <1>1 DEF ScriptInv
    <2>2. Len(Script) \in Nat /\ step \in 1..Len(Script) + 1
      BY Zenon, <2>1, ScriptShape DEF ScriptInv
    <2>3. QED
      BY <2>1, <2>2
  <1>3. /\ \A h \in Handle : held[h] = "host" => Using \/ (Opening /\ answer = "ok")
        /\ \A g, h \in Handle : held[g] = "host" /\ held[h] = "host" => g = h
    BY Zenon, <1>1, <1>2 DEF ScriptInv, Scripted
  <1>4. /\ Opening <=> Script[step] \in OpenOp
        /\ Using <=> Script[step] \in UseOp
    BY <1>2, AtCallFacts
  <1>5. CASE answer = "error" /\ Script[step] = "must"
    <2>1. stage = "warm" /\ stage' = "close"
      BY Zenon, <1>2, <1>5, ScriptShape DEF HostAnswer
    <2>2. \A h \in Handle : held[h] # "host"
      BY Zenon, <1>3, <1>4, <1>5 DEF OpenOp, UseOp
    <2>3. QED
      BY Zenon, <1>1, <2>1, <2>2 DEF ScriptInv, Scripted
  <1>6. CASE ~(answer = "error" /\ Script[step] = "must")
             /\ answer = "error" /\ stage \in DOMAIN Command /\ Script[step] # "close"
    <2>1. stage' = "fatal"
      BY Zenon, <1>5, <1>6 DEF HostAnswer
    <2>2. QED
      BY Zenon, <1>1, <1>3, <1>6, <2>1 DEF ScriptInv, Scripted
  <1>7. CASE /\ ~(answer = "error" /\ Script[step] = "must")
             /\ ~(answer = "error" /\ stage \in DOMAIN Command /\ Script[step] # "close")
    <2>1. stage' = stage /\ step' = AfterCall /\ Script' = Script
      BY Zenon, <1>7 DEF HostAnswer, Script
    <2>2. CASE Opening /\ answer = "error"
      <3> DEFINE P(j) == Script[j] = "close" /\ \A k \in step .. j - 1 : Script[k] # "close"
      <3>1. \E j \in step..Len(Script) : P(j)
        BY Zenon, <1>2, <1>4, <2>2, ScriptShape
      <3>2. PICK j \in step..Len(Script) : Script[j] = "close" /\ AfterCall = 1 + j
        <4>1. AfterCall = 1 + CHOOSE j \in step..Len(Script) : P(j)
          BY Zenon, <1>4, <2>2 DEF AfterCall, OpenOp
        <4>2. (CHOOSE j \in step..Len(Script) : P(j)) \in step..Len(Script) /\ P(CHOOSE j \in step..Len(Script) : P(j))
          BY Zenon, <3>1
        <4>3. QED
          BY Zenon, <4>1, <4>2
      <3>3. /\ step' \in 1..Len(Script) + 1
            /\ j = Len(Script) \/ Script[j + 1] \notin UseOp \cup {"close"}
        BY SMTT(30), <1>2, <2>1, <3>2, ScriptShape DEF OpenOp, UseOp
      <3>4. \A h \in Handle : held[h] # "host"
        BY <1>2, <1>3, <2>2, AtCallFacts
      <3>5. QED
        BY Zenon, <1>1, <1>2, <2>1, <3>3, <3>4 DEF ScriptInv
    <2>3. CASE ~(Opening /\ answer = "error")
      <3>1. step' = step + 1
        BY Zenon, <1>4, <2>1, <2>3 DEF AfterCall, OpenOp
      <3>2. step' \in 1..Len(Script) + 1
        BY <1>2, <3>1
      <3>3. ASSUME NEW h \in Handle, held[h] = "host"
            PROVE  (Using \/ Closing)'
        <4>1. step < Len(Script) /\ Script[step + 1] \in UseOp \cup {"close"}
          BY Zenon, <1>2, <1>3, <1>4, <3>3, ScriptShape
        <4>2. QED
          BY <1>2, <2>1, <3>1, <4>1 DEF Using, Closing, AtCall, UseOp
      <3>4. QED
        BY Zenon, <1>1, <1>2, <1>3, <2>1, <3>2, <3>3 DEF ScriptInv
    <2>4. QED
      BY Zenon, <2>2, <2>3
  <1>8. QED
    BY Zenon, <1>5, <1>6, <1>7

-----------------------------------------------------------------------------
\* The threads of WinFsp leave the host's stages and its own calls alone.
LEMMA KernelLeavesHost ==
    ASSUME HandleInv, NEW t \in Kernel, KernelCall(t) \/ ContinueCall(t)
    PROVE  /\ UNCHANGED hostVars /\ answer' = answer
           /\ pc'[Host] = pc[Host] /\ reg'[Host].goal = reg[Host].goal
           /\ \A h \in Handle : held'[h] = "host" => held[h] = "host"
  <1>1. t \in Thread /\ Host \in Thread /\ t # Host /\ CallOK(t)
    BY Zenon, ThreadAssumption DEF Thread, HandleInv
  <1>2. ASSUME NEW s, NEW r, Go(t, s, r)
        PROVE  pc'[Host] = pc[Host] /\ reg'[Host].goal = reg[Host].goal
    BY Zenon, <1>1, <1>2 DEF Go, HandleInv, Types
  <1>3. ASSUME NEW ok, Return(t, ok), ok => (reg[t].goal \in {"file", "dir"} => reg[t].h \in Handle)
        PROVE  /\ pc'[Host] = pc[Host] /\ reg'[Host].goal = reg[Host].goal /\ answer' = answer
               /\ \A h \in Handle : held'[h] = "host" => held[h] = "host"
    <2>1. pc'[Host] = pc[Host] /\ reg'[Host].goal = reg[Host].goal
      BY Zenon, <1>2, <1>3 DEF Return
    <2>2. answer' = answer
      BY Zenon, <1>1, <1>3 DEF Return, Answer
    <2>3. \A h \in Handle : held'[h] = "host" => held[h] = "host"
      BY Zenon, <1>1, <1>3 DEF Return, HandleInv, Types
    <2>4. QED
      BY Zenon, <2>1, <2>2, <2>3
  <1>4. CASE KernelCall(t)
    <2>1. UNCHANGED hostVars
      BY Zenon, <1>4 DEF KernelCall, goOpen, goGetSecurityByName, goRead, goGetDirInfoByName, goCanDelete,
              goCleanup, goFlush, goSetDelete, Marking, goClose, goCloseUnregistered
    <2>2. CASE \E h \in Handle : goCloseUnregistered(t, h)
      BY Zenon, <2>1, <2>2 DEF goCloseUnregistered, HandleInv, Types
    <2>3. ASSUME NEW goal, ByPath(t, goal)
          PROVE  /\ pc'[Host] = pc[Host] /\ reg'[Host].goal = reg[Host].goal /\ answer' = answer
                 /\ \A h \in Handle : held'[h] = "host" => held[h] = "host"
      BY Zenon, <1>2, <2>3 DEF ByPath, caller
    <2>4. ASSUME NEW goal, NEW h \in Handle, FindHandle(t, goal, h) \/ LookupHandle(t, goal, h)
          PROVE  /\ pc'[Host] = pc[Host] /\ reg'[Host].goal = reg[Host].goal /\ answer' = answer
                 /\ \A g \in Handle : held'[g] = "host" => held[g] = "host"
      <3>1. CASE Return(t, FALSE)
        BY Zenon, <1>3, <3>1
      <3>2. CASE ~Return(t, FALSE)
        BY Zenon, <1>2, <2>4, <3>2 DEF FindHandle, LookupHandle, caller
      <3>3. QED
        BY Zenon, <3>1, <3>2
    <2>5. ASSUME NEW h \in Handle, ForgetHandle(t, h)
          PROVE  /\ pc'[Host] = pc[Host] /\ reg'[Host].goal = reg[Host].goal /\ answer' = answer
                 /\ \A g \in Handle : held'[g] = "host" => held[g] = "host"
      <3>1. answer' = answer /\ \A g \in Handle : held'[g] = "host" => held[g] = "host"
        BY Zenon, <1>1, <2>5 DEF ForgetHandle, Answer, HandleInv, Types
      <3>2. pc'[Host] = pc[Host] /\ reg'[Host].goal = reg[Host].goal
        BY Zenon, <1>2, <2>5 DEF ForgetHandle
      <3>3. QED
        BY Zenon, <3>1, <3>2
    <2>6. ASSUME NEW h \in Handle,
                 \/ goRead(t, h) \/ goGetDirInfoByName(t, h) \/ goCanDelete(t, h)
                 \/ goCleanup(t, h) \/ goFlush(t, h) \/ goSetDelete(t, h) \/ goClose(t, h)
          PROVE  \/ ByPath(t, "info") \/ ForgetHandle(t, h)
                 \/ \E goal \in {"list", "read", "flush", "cleanup", "delete"} :
                       FindHandle(t, goal, h) \/ LookupHandle(t, goal, h)
      BY Zenon, <2>6 DEF goRead, goGetDirInfoByName, goCanDelete, goCleanup, goFlush, goSetDelete, Marking, goClose
    <2>7. CASE goOpen(t, "any") \/ goOpen(t, "dir") \/ goGetSecurityByName(t)
      BY Zenon, <2>1, <2>3, <2>7 DEF goOpen, goGetSecurityByName
    <2>8. QED
      BY Zenon, <1>4, <2>1, <2>2, <2>3, <2>4, <2>5, <2>6, <2>7 DEF KernelCall
  <1>5. CASE ContinueCall(t)
    <2>1. UNCHANGED hostVars /\ Continue(t)
      BY Zenon, <1>5 DEF ContinueCall
    <2> DEFINE Left == /\ pc'[Host] = pc[Host] /\ reg'[Host].goal = reg[Host].goal /\ answer' = answer
                       /\ \A h \in Handle : held'[h] = "host" => held[h] = "host"
    <2>2. ASSUME NEW type \in {"file", "dir"}, GetAttr(t, type) PROVE Left
      BY Zenon, <1>2, <1>3, <2>2 DEF GetAttr, caller
    <2>3. ASSUME NEW lost \in BOOLEAN, OpenRemote(t, lost) PROVE Left
      BY Zenon, <1>2, <1>3, <2>3 DEF OpenRemote, caller
    <2>4. ASSUME StoreHandle(t) PROVE Left
      BY Zenon, <1>2, <2>4 DEF StoreHandle, caller
    <2>5. ASSUME TrackHandle(t) PROVE Left
      <3>1. reg[t].h \in Handle
        BY Zenon, <1>1, <2>5 DEF TrackHandle, CallOK
      <3>2. QED
        BY Zenon, <1>3, <2>5, <3>1 DEF TrackHandle
    <2>6. ASSUME ReadRemote(t) \/ UntrackHandle(t) PROVE Left
      <3>1. reg[t].goal = "none"
        BY Zenon, <1>1, <2>6 DEF ReadRemote, UntrackHandle, CallOK
      <3>2. QED
        BY Zenon, <1>3, <2>6, <3>1 DEF ReadRemote, UntrackHandle
    <2>7. ASSUME NEW lost \in BOOLEAN, CloseRemote(t, lost) PROVE Left
      BY Zenon, <1>2, <1>3, <2>7 DEF CloseRemote, caller
    <2>8. ASSUME UpdateHandle(t) PROVE Left
      BY Zenon, <1>1, <2>8 DEF UpdateHandle, Answer, HandleInv, Types, Reg
    <2>9. ASSUME Refused(t) PROVE Left
      BY Zenon, <1>3, <2>9 DEF Refused
    <2>10. QED
      BY Zenon, <2>1, <2>2, <2>3, <2>4, <2>5, <2>6, <2>7, <2>8, <2>9 DEF Continue
  <1>6. QED
    BY Zenon, <1>4, <1>5

-----------------------------------------------------------------------------
(* Where the mount goes.                                                   *)

\* A set of letters that is not empty has a first one.
LEMMA FirstOfIsIn ==
    ASSUME NEW S, S \subseteq Nat, S # {}
    PROVE  FirstOf(S) \in S
  <1>1. PICK l \in S : \A m \in S : ~(<<m, l>> \in OpToRel(<, Nat))
    BY Zenon, WFMin, NatLessThanWellFounded
  <1>2. ASSUME NEW m \in S PROVE l <= m
    <2>1. m \in Nat /\ l \in Nat /\ ~(m < l)
      BY Zenon, <1>1 DEF OpToRel
    <2>2. QED
      BY <2>1
  <1>3. QED
    BY Zenon, <1>2 DEF FirstOf

\* The default is a candidate, and free unless none is.
LEMMA DefaultIsFree ==
    /\ defaultMountPoint \in 1..Letters
    /\ defaultMountPoint \notin places.used \/ candidateDriveLetters \subseteq places.used
  <1> DEFINE free == candidateDriveLetters \ places.used
  <1>1. free \subseteq 1..Letters /\ free \subseteq Nat
    BY LettersAssumption DEF candidateDriveLetters
  <1>2. CASE free = {}
    BY Zenon, <1>2, FallbackAssumption DEF defaultMountPoint, candidateDriveLetters
  <1>3. CASE free # {}
    <2>1. FirstOf(free) \in free
      BY Zenon, <1>1, <1>3, FirstOfIsIn
    <2>2. defaultMountPoint = FirstOf(free)
      BY Zenon, <1>3 DEF defaultMountPoint
    <2>3. QED
      BY Zenon, <1>1, <2>1, <2>2
  <1>4. QED
    BY Zenon, <1>2, <1>3

\* Every other letter is some way around the list from this one.
LEMMA AroundTheList ==
    ASSUME NEW c \in 1..Letters, NEW l \in 1..Letters, l # c
    PROVE  \E k \in 1 .. Letters - 1 : 1 + ((c - 1 + k) % Letters) = l
  <1>1. Letters \in Nat \ {0}
    BY Zenon, LettersAssumption
  <1>2. CASE l > c
    <2>1. PICK k \in 1 .. Letters - 1 : c - 1 + k = l - 1
      BY <1>1, <1>2
    <2>2. (l - 1) % Letters = l - 1
      BY <1>1
    <2>3. 1 + ((c - 1 + k) % Letters) = 1 + (l - 1)
      BY Zenon, <2>1, <2>2
    <2>4. QED
      BY <2>3
  <1>3. CASE l < c
    <2>1. PICK k \in 1 .. Letters - 1 : c - 1 + k = l - 1 + Letters
      <3>1. l - c + Letters \in 1 .. Letters - 1 /\ c - 1 + (l - c + Letters) = l - 1 + Letters
        BY <1>1, <1>3
      <3>2. QED
        BY Zenon, <3>1
    <2>2. (l - 1 + Letters) % Letters = l - 1
      BY <1>1
    <2>3. 1 + ((c - 1 + k) % Letters) = 1 + (l - 1)
      BY Zenon, <2>1, <2>2
    <2>4. QED
      BY <2>3
  <1>4. QED
    BY <1>1, <1>2, <1>3

\* A letter in use is replaced by a free one, if a candidate is free.
LEMMA ResolvedLetterIsFree ==
    ASSUME NEW v \in Normal
    PROVE  LET w == ResolveMountPointForStart(v)
           IN  /\ w \in Normal
               /\ w.form = "drive" => w.letter \notin places.used \/ candidateDriveLetters \subseteq places.used
  <1>1. NormalizeMountPoint(v) = v
    BY DEF Normal, NormalizeMountPoint, Drive, LocalDir, Share, Wrong
  <1>2. CASE ~(v.form = "drive" /\ v.letter \in places.used)
    BY Zenon, <1>1, <1>2 DEF ResolveMountPointForStart
  <1>3. CASE v.form = "drive" /\ v.letter \in places.used
    <2>1. PICK c \in 0..Letters : v = Drive(c)
      BY <1>3 DEF Normal, LocalDir, Share, Wrong
    <2>2. v.letter = c /\ c \in places.used
      BY Zenon, <1>3, <2>1 DEF Drive
    <2> DEFINE next == nextAvailableDriveLetter(c) \ {c}
               w == ResolveMountPointForStart(v)
    <2>3. w = IF next # {} THEN Drive(FirstOf(next)) ELSE v
      BY Zenon, <1>1, <1>3, <2>2 DEF ResolveMountPointForStart
    <2>4. ASSUME NEW l \in 1..Letters, next = {l},
                 l \notin places.used \/ candidateDriveLetters \subseteq places.used
          PROVE  /\ w \in Normal
                 /\ w.form = "drive" => w.letter \notin places.used \/ candidateDriveLetters \subseteq places.used
      <3>1. {l} \subseteq Nat /\ {l} # {}
        BY LettersAssumption
      <3>2. FirstOf({l}) = l
        BY Zenon, <3>1, FirstOfIsIn
      <3>3. w = Drive(l) /\ l \in 0..Letters
        BY <2>3, <2>4, <3>2, LettersAssumption
      <3>4. QED
        BY SMTT(30), <2>4, <3>3 DEF Normal, Drive
    <2>5. CASE c = 0
      <3>1. next = {defaultMountPoint} \ {0}
        BY Zenon, <2>5 DEF nextAvailableDriveLetter
      <3>2. next = {defaultMountPoint}
        BY <3>1, DefaultIsFree, LettersAssumption
      <3>3. QED
        BY Zenon, <2>4, <3>2, DefaultIsFree
    <2>6. CASE c # 0
      <3> DEFINE at(k) == 1 + ((c - 1 + k) % Letters)
                 free == {k \in 1 .. Letters - 1 : at(k) \notin places.used}
      <3>1. nextAvailableDriveLetter(c) = IF free = {} THEN {} ELSE {at(FirstOf(free))}
        BY Zenon, <2>6 DEF nextAvailableDriveLetter
      <3>2. c \in 1..Letters
        BY <2>6, LettersAssumption
      <3>3. CASE free = {}
        <4>1. candidateDriveLetters \subseteq places.used
          BY <2>2, <3>2, <3>3, AroundTheList DEF candidateDriveLetters
        <4>2. w = v
          BY Zenon, <2>3, <3>1, <3>3
        <4>3. QED
          BY Zenon, <4>1, <4>2
      <3>4. CASE free # {}
        <4>1. PICK k \in free : k = FirstOf(free)
          <5>1. free \subseteq Nat
            BY LettersAssumption
          <5>2. QED
            BY Zenon, <3>4, <5>1, FirstOfIsIn
        <4>2. at(k) \notin places.used /\ k \in 1 .. Letters - 1
          BY Zenon, <4>1
        <4>3. at(k) \in 1..Letters
          BY <3>2, <4>2, LettersAssumption
        <4>4. next = {at(k)}
          BY Zenon, <2>2, <3>1, <3>4, <4>1, <4>2
        <4>5. QED
          <5> HIDE DEF at, next
          <5>1. QED
            BY Zenon, <2>4, <4>2, <4>3, <4>4
      <3>5. QED
        BY Zenon, <3>3, <3>4
    <2>7. QED
      BY Zenon, <2>5, <2>6
  <1>4. QED
    BY Zenon, <1>2, <1>3

\* What the user typed, once the fields are read.
LEMMA NormalizedIsNormal ==
    ASSUME plan = [by |-> plan.by, point |-> plan.point, backend |-> plan.backend]
    PROVE  /\ Normalized(plan).by = plan.by
           /\ Normalized(plan) = [by |-> Normalized(plan).by, point |-> Normalized(plan).point,
                                  backend |-> Normalized(plan).backend]
           /\ plan.point \in Typed => Normalized(plan).point \in Normal
           /\ plan.point \in Normal => Normalized(plan).point = plan.point
  <1> DEFINE n == IF plan.point = Unset THEN Drive(defaultMountPoint) ELSE NormalizeMountPoint(plan.point)
  <1>1. Normalized(plan) = [by |-> plan.by, point |-> n, backend |-> NormalizeHostBackend(plan.backend)]
    <2> DEFINE m == [plan EXCEPT !.point = n]
    <2>1. Normalized(plan) = [m EXCEPT !.backend = NormalizeHostBackend(m.backend)]
      BY Zenon DEF Normalized
    <2> HIDE DEF n
    <2>2. m = [by |-> plan.by, point |-> n, backend |-> plan.backend]
      OBVIOUS
    <2> HIDE DEF m
    <2>3. QED
      BY Zenon, <2>1, <2>2
  <1>2. plan.point \in Typed => n \in Normal
    BY SMTT(30), DefaultIsFree, LettersAssumption
       DEF Typed, Normal, NormalizeMountPoint, Drive, Slashed, LocalDir, Share, Wrong, Unset
  <1>3. plan.point \in Normal => n = plan.point
    BY DEF Normal, NormalizeMountPoint, Drive, LocalDir, Share, Wrong, Unset
  <1> HIDE DEF n
  <1>4. QED
    BY <1>1, <1>2, <1>3

\* At first nothing is planned but what was typed.
LEMMA PlanInvInit == Init => PlanInv
  <1>1. ASSUME PlanInit, stage = "fields" PROVE PlanInv
    <2>1. /\ plan = [by |-> plan.by, point |-> plan.point, backend |-> plan.backend] /\ plan.point \in Typed
          /\ places = [used |-> places.used, leaf |-> places.leaf] /\ places.used \subseteq 0..Letters
          /\ raced \in BOOLEAN
      BY Zenon, <1>1 DEF PlanInit
    <2>2. QED
      BY Zenon, <1>1, <2>1 DEF PlanInv
  <1>2. ASSUME plan = NoPlan, places = NoPlaces, raced = FALSE PROVE PlanInv
    BY Zenon, <1>2 DEF PlanInv, NoPlan, NoPlaces
  <1>3. QED
    BY Zenon, <1>1, <1>2 DEF Init

\* The steps of a start.
LEMMA PlanStartKeeps ==
    ASSUME PlanInv, StartStep
    PROVE  PlanInv'
  <1>1. plan = [by |-> plan.by, point |-> plan.point, backend |-> plan.backend]
    BY Zenon DEF PlanInv
  <1> DEFINE n == Normalized(plan)
             free == DriveIsFree
  <1>2. /\ n.by = plan.by /\ n = [by |-> n.by, point |-> n.point, backend |-> n.backend]
        /\ plan.point \in Typed => n.point \in Normal
        /\ plan.point \in Normal => n.point = plan.point
    BY Zenon, <1>1, NormalizedIsNormal
  <1>3. ASSUME NEW ok \in BOOLEAN, readConfigFields(ok) PROVE PlanInv'
    <2>1. /\ plan' = n /\ places' = places /\ raced' = raced /\ stage = "fields" /\ stage' \in {"resolve", "refused"}
      BY Zenon, <1>3 DEF readConfigFields, Proceed
    <2> HIDE DEF n
    <2>2. QED
      BY Zenon, <1>2, <2>1 DEF PlanInv
  <1>4. CASE currentConfig \/ commandConfig
    <2>1. /\ plan' = n /\ places' = places /\ raced' = raced /\ plan.by # "console"
      BY Zenon, <1>4 DEF currentConfig, commandConfig, Proceed
    <2> HIDE DEF n
    <2>2. QED
      BY Zenon, <1>2, <2>1 DEF PlanInv
  <1>5. CASE startMountResolve
    <2> DEFINE w == ResolveMountPointForStart(plan.point)
    <2>1. /\ plan' = [plan EXCEPT !.point = w] /\ places' = places /\ raced' = raced
          /\ stage = "resolve" /\ stage' = "prepare"
      BY Zenon, <1>5 DEF startMountResolve, Proceed
    <2>2. plan.point \in Normal =>
             /\ w \in Normal
             /\ w.form = "drive" => w.letter \notin places.used \/ candidateDriveLetters \subseteq places.used
      BY Zenon, ResolvedLetterIsFree
    <2> HIDE DEF w
    <2>3. plan' = [by |-> plan.by, point |-> w, backend |-> plan.backend]
      BY Zenon, <1>1, <2>1
    <2>4. QED
      BY Zenon, <2>1, <2>2, <2>3 DEF PlanInv, DriveIsFree
  <1>6. ASSUME NEW made \in BOOLEAN, PrepareDirectoryMountPoint(made) PROVE PlanInv'
    <2>1. /\ plan' = plan /\ raced' = raced /\ stage = "prepare" /\ stage' \in {"validate", "refused"}
          /\ places'.used = places.used
          /\ places' = [used |-> places'.used, leaf |-> places'.leaf]
      BY Zenon, <1>6 DEF PrepareDirectoryMountPoint, Proceed, PlanInv
    <2>2. plan.by = "console" /\ stage' = "validate" /\ plan.point = LocalDir => places'.leaf = "new"
      BY Zenon, <1>6 DEF PrepareDirectoryMountPoint, Proceed, PlanInv
    <2>3. plan.point \in Normal /\ plan.point.form = "local" => plan.point = LocalDir
      BY SMTT(30) DEF Normal, LocalDir, Drive, Share, Wrong
    <2>4. QED
      BY Zenon, <2>1, <2>2, <2>3 DEF PlanInv, DriveIsFree
  <1>7. CASE runtimeStart
    <2>1. /\ plan' = n /\ places' = places /\ raced' = raced /\ stage = "validate" /\ stage' \in {"probe", "refused"}
      BY Zenon, <1>7 DEF runtimeStart, Proceed
    <2> HIDE DEF n
    <2>2. QED
      BY Zenon, <1>2, <2>1 DEF PlanInv, DriveIsFree
  <1>8. QED
    BY Zenon, <1>3, <1>4, <1>5, <1>6, <1>7 DEF StartStep

\* A step of the host, which keeps the mount point until it is set.
LEMMA PlanStageKeeps ==
    ASSUME PlanInv, UNCHANGED <<places, raced>>, plan'.by = plan.by, plan'.point = plan.point,
           plan' = [by |-> plan'.by, point |-> plan'.point, backend |-> plan'.backend],
           \/ stage' = stage
           \/ stage' \notin {"fields", "resolve", "prepare", "validate", "probe"}
              /\ stage \in {"validate", "probe", "bindings", "preflight", "choose", "create", "warm"}
           \/ stage' \notin {"fields", "resolve", "prepare", "validate", "probe", "bindings", "preflight",
                             "choose", "create", "warm", "mountpoint"}
    PROVE  PlanInv'
  BY Zenon DEF PlanInv, DriveIsFree

\* Another program comes in between, and nothing is said of the plan any more.
LEMMA PlanOthersKeep ==
    ASSUME PlanInv, OthersMount
    PROVE  PlanInv'
  <1>1. plan' = plan /\ raced' = TRUE
    BY Zenon DEF OthersMount
  <1>2. /\ places' = [used |-> places'.used, leaf |-> places'.leaf] /\ places'.used \subseteq 0..Letters
    BY DEF OthersMount, PlanInv
  <1>3. QED
    BY Zenon, <1>1, <1>2 DEF PlanInv

-----------------------------------------------------------------------------
(* The stages of Run.                                                      *)

\* At first the host has nothing.
LEMMA HostInvInit == Init => HostInv
  <1> SUFFICES ASSUME Init PROVE HostInv
    BY Zenon
  <1>1. stage \in {"fields", "getattr", "readdir", "read"} /\ (stage # "fields" => step = 1)
    BY Zenon DEF Init, Command
  <1>2. StageInv
    <2>1. /\ dll = 0 /\ fs = "none" /\ registered = FALSE /\ dispatching = FALSE /\ running = FALSE
      BY Zenon DEF Init
    <2>2. /\ ~registered /\ ~dispatching /\ ~running
          /\ registered \in BOOLEAN /\ running \in BOOLEAN /\ dispatching \in BOOLEAN
      BY Zenon, <2>1
    <2>3. stage \in Early
      BY Zenon, <1>1 DEF Early
    <2>4. fs = CASE stage \in Early -> "none" [] stage = "returned" -> fs [] OTHER -> "created"
      BY Zenon, <1>1, <2>1, <2>3
    <2>5. QED
      BY SMTT(30), <1>1, <2>1, <2>2, <2>3, <2>4 DEF StageInv
  <1>3. ScriptInv
    <2>1. Host \in Thread /\ pc[Host] = "idle" /\ answer = "none" /\ \A h \in Handle : held[h] # "host"
      BY Zenon DEF Init, MHInit, Thread
    <2>2. stage \in Scripted => step = 1 /\ Len(Script) \in Nat
      BY Zenon, <1>1, ScriptShape DEF Scripted
    <2>3. QED
      BY SMTT(30), <2>1, <2>2 DEF ScriptInv
  <1>4. QED
    BY Zenon, <1>2, <1>3, PlanInvInit DEF HostInv

\* A step that leaves the stage and what the host has alone.
LEMMA StageOthersKeep ==
    ASSUME StageInv, UNCHANGED <<stage, dll, fs, registered, dispatching, running, probeFailed>>
    PROVE  StageInv'
  BY Zenon DEF StageInv

\* Nor what has been planned.
LEMMA PlanSame ==
    ASSUME PlanInv, UNCHANGED <<stage, plan, places, raced>>
    PROVE  PlanInv'
  BY Zenon DEF PlanInv, DriveIsFree

\* The steps of Run between the calls, from the DLL to the file system.
LEMMA ProbeKeeps ==
    ASSUME HostInv, UNCHANGED mhVars,
           \/ \E yes \in BOOLEAN : findWinFspDLL(yes) \/ preflightMount(yes)
           \/ \E loads, ready \in BOOLEAN : probeDispatcherBindings(loads, ready)
           \/ probeBinding \/ Wait \/ CreateFails(0) \/ CreateFails(1) \/ Create
    PROVE  HostInv'
  <1>1. /\ stage \in {"probe", "bindings", "preflight", "choose", "wait", "create"}
        /\ stage' \in {"bindings", "preflight", "choose", "wait", "create", "warm", "returned"}
        /\ stage' = "warm" => step' = 1
        /\ stage = "wait" => stage' = "returned"
    BY Zenon DEF findWinFspDLL, preflightMount, probeDispatcherBindings, probeBinding, Wait, CreateFails, Create, Goto
  <1>2. ScriptInv'
    BY Zenon, <1>1, ScriptStageKeeps DEF HostInv, mhVars, Scripted
  <1>3. PlanInv'
    <2>1. plan = [by |-> plan.by, point |-> plan.point, backend |-> plan.backend]
      BY Zenon DEF HostInv, PlanInv
    <2>2. UNCHANGED <<places, raced>> /\ (plan' = plan \/ plan' = [plan EXCEPT !.backend = "none"])
      BY Zenon DEF findWinFspDLL, preflightMount, probeDispatcherBindings, probeBinding, Wait, CreateFails, Create, planVars
    <2>3. /\ plan'.by = plan.by /\ plan'.point = plan.point
          /\ plan' = [by |-> plan'.by, point |-> plan'.point, backend |-> plan'.backend]
      BY Zenon, <2>1, <2>2
    <2>4. QED
      BY Zenon, <1>1, <2>2, <2>3, PlanStageKeeps DEF HostInv
  <1>4. StageInv'
    <2>1. ASSUME NEW yes \in BOOLEAN, findWinFspDLL(yes) \/ preflightMount(yes) PROVE StageInv'
      BY <2>1 DEF HostInv, StageInv, Early, findWinFspDLL, preflightMount, Goto
    <2>2. ASSUME NEW loads \in BOOLEAN, NEW ready \in BOOLEAN, probeDispatcherBindings(loads, ready) PROVE StageInv'
      BY <2>2 DEF HostInv, StageInv, Early, probeDispatcherBindings, Goto
    <2>3. CASE probeBinding \/ Wait
      <3>1. /\ stage \in {"choose", "wait"} /\ stage' \in {"create", "wait", "returned"}
            /\ UNCHANGED <<dll, fs, registered, dispatching, running, probeFailed>>
        BY Zenon, <2>3 DEF probeBinding, Wait, Goto
      <3>2. QED
        BY Zenon, <3>1 DEF HostInv, StageInv, Early
    <2>4. CASE CreateFails(0) \/ CreateFails(1)
      BY <2>4 DEF HostInv, StageInv, Early, CreateFails, Goto
    <2>5. CASE Create
      BY <2>5 DEF HostInv, StageInv, Early, Create
    <2>6. QED
      BY Zenon, <2>1, <2>2, <2>3, <2>4, <2>5
  <1>5. QED
    BY Zenon, <1>2, <1>3, <1>4 DEF HostInv

\* From the end of the warm-up to the end of Run, or the end of a command.
LEMMA ServeKeeps ==
    ASSUME HostInv, UNCHANGED mhVars,
           \/ Warm \/ StartFails \/ SetMountPoint \/ StartDispatcher \/ Serve \/ Stop \/ Stopped
           \/ Unregister \/ Delete \/ CommandReturns
    PROVE  HostInv'
  <1>1. /\ stage \in Scripted => step > Len(Script)
        /\ stage \in {"warm", "mountpoint", "dispatch", "snapshot", "serving", "stop", "close", "delete"} \cup DOMAIN Command
        /\ stage' \in {"mountpoint", "dispatch", "snapshot", "serving", "stop", "close", "delete", "returned"}
        /\ stage' = "snapshot" => step' = 1
        /\ stage' = "mountpoint" => stage = "warm"
    <2>1. DOMAIN Command = {"getattr", "readdir", "read"}
      BY Zenon DEF Command
    <2>2. (stage = "warm" => Script = Warmup) /\ (stage = "snapshot" => Script = Snapshot)
      BY Zenon, <2>1 DEF Script
    <2>3. QED
      BY Zenon, <2>1, <2>2 DEF Warm, StartFails, SetMountPoint, StartDispatcher, Serve, Stop, Stopped,
            Unregister, Delete, CommandReturns, Goto, Scripted
  <1>2. ScriptInv'
    BY Zenon, <1>1, ScriptStageKeeps DEF HostInv, mhVars, Scripted, Command
  <1>3. PlanInv'
    <2>1. CASE SetMountPoint
      BY Zenon, <2>1 DEF SetMountPoint, PlanInv, NoPlan, NoPlaces, Goto
    <2>2. CASE ~SetMountPoint
      <3>1. UNCHANGED <<plan, places, raced>>
        BY Zenon, <2>2 DEF Warm, StartFails, SetMountPoint, StartDispatcher, Serve, Stop, Stopped,
            Unregister, Delete, CommandReturns, planVars
      <3>2. plan = [by |-> plan.by, point |-> plan.point, backend |-> plan.backend]
        BY Zenon DEF HostInv, PlanInv
      <3>3. QED
        BY Zenon, <1>1, <3>1, <3>2, PlanStageKeeps DEF HostInv
    <2>3. QED
      BY Zenon, <2>1, <2>2
  <1>4. StageInv'
    <2>1. CASE Warm
      BY Zenon, <2>1 DEF HostInv, StageInv, Early, Warm, Goto
    <2>2. CASE StartFails
      BY Zenon, <2>2 DEF HostInv, StageInv, Early, StartFails, Goto
    <2>3. CASE SetMountPoint \/ Serve \/ Stop
      BY SMTT(30), <2>3 DEF HostInv, StageInv, Early, SetMountPoint, Serve, Stop, Goto
    <2>4. CASE StartDispatcher
      BY Zenon, <2>4 DEF HostInv, StageInv, Early, StartDispatcher
    <2>5. CASE Stopped
      BY Zenon, <2>5 DEF HostInv, StageInv, Early, Stopped, Goto
    <2>6. CASE Unregister
      BY Zenon, <2>6 DEF HostInv, StageInv, Early, Unregister, Goto
    <2>7. CASE Delete
      BY <2>7 DEF HostInv, StageInv, Early, Delete, Goto
    <2>8. CASE CommandReturns
      BY Zenon, <2>8 DEF HostInv, StageInv, Early, CommandReturns, Goto, Command
    <2>9. QED
      BY Zenon, <2>1, <2>2, <2>3, <2>4, <2>5, <2>6, <2>7, <2>8
  <1>5. QED
    BY Zenon, <1>2, <1>3, <1>4 DEF HostInv

\* Every step.
LEMMA HostInvNext == HandleInv /\ HostInv /\ [Next]_vars => HostInv'
  <1> SUFFICES ASSUME HandleInv, HostInv, [Next]_vars PROVE HostInv'
    BY Zenon
  <1>1. ASSUME UNCHANGED hostVars, ScriptInv' PROVE HostInv'
    BY Zenon, <1>1, StageOthersKeep, PlanSame DEF HostInv, hostVars, planVars
  <1>2. CASE UNCHANGED vars
    <2>1. ScriptInv'
      BY Zenon, <1>2, ScriptOthersKeep DEF HostInv, vars, mhVars, hostVars
    <2>2. QED
      BY Zenon, <1>1, <1>2, <2>1 DEF vars
  <1>3. CASE Start
    <2>1. /\ stage \in {"fields", "resolve", "prepare", "validate"}
          /\ stage' \in {"resolve", "prepare", "validate", "probe", "refused"}
      BY Zenon, <1>3 DEF Start, StartStep, readConfigFields, PrepareDirectoryMountPoint, currentConfig, commandConfig,
            startMountResolve, runtimeStart, Proceed
    <2>2. ScriptInv'
      BY Zenon, <1>3, <2>1, ScriptStageKeeps DEF HostInv, Start, mhVars, Scripted
    <2>3. StageInv'
      <3>1. UNCHANGED <<dll, fs, registered, dispatching, running, probeFailed>>
        BY Zenon, <1>3 DEF Start
      <3>2. QED
        BY Zenon, <2>1, <3>1 DEF HostInv, StageInv, Early
    <2>4. QED
      BY Zenon, <1>3, <2>2, <2>3, PlanStartKeeps DEF HostInv, Start
  <1>4. CASE OtherProgram
    <2>1. stage' = stage /\ UNCHANGED <<mhVars, step, dll, fs, registered, dispatching, running, probeFailed>>
      BY Zenon, <1>4 DEF OtherProgram, OthersMount
    <2>2. ScriptInv'
      BY Zenon, <2>1, ScriptOthersKeep DEF HostInv, mhVars
    <2>3. QED
      BY Zenon, <1>4, <2>1, <2>2, StageOthersKeep, PlanOthersKeep DEF HostInv, OtherProgram
  <1>5. CASE HostCall
    BY Zenon, <1>1, <1>5, ScriptCallKeeps DEF HostInv, HostCall
  <1>6. CASE HostAnswer
    <2>1. /\ ScriptInv'
          /\ \/ stage' = stage \/ (stage = "warm" /\ stage' = "close")
             \/ (stage \in {"getattr", "readdir", "read"} /\ stage' = "fatal")
      BY Zenon, <1>6, ScriptAnswerKeeps DEF HostInv, Command
    <2>2. UNCHANGED <<plan, places, raced, dll, fs, registered, dispatching, running, probeFailed>>
      BY Zenon, <1>6 DEF HostAnswer, planVars
    <2>3. StageInv'
      BY Zenon, <2>1, <2>2 DEF HostInv, StageInv, Early
    <2>4. PlanInv'
      <3>1. plan = [by |-> plan.by, point |-> plan.point, backend |-> plan.backend]
        BY Zenon DEF HostInv, PlanInv
      <3>2. QED
        BY Zenon, <2>1, <2>2, <3>1, PlanStageKeeps DEF HostInv
    <2>5. QED
      BY Zenon, <2>1, <2>3, <2>4 DEF HostInv
  <1>7. CASE (HostStep \/ Wait \/ Stop) /\ ~HostCall /\ ~HostAnswer
    <2>1. \/ /\ UNCHANGED mhVars
             /\ \/ \E yes \in BOOLEAN : findWinFspDLL(yes) \/ preflightMount(yes)
                \/ \E loads, ready \in BOOLEAN : probeDispatcherBindings(loads, ready)
                \/ probeBinding \/ Wait \/ CreateFails(0) \/ CreateFails(1) \/ Create
          \/ /\ UNCHANGED mhVars
             /\ \/ Warm \/ StartFails \/ SetMountPoint \/ StartDispatcher \/ Serve \/ Stop \/ Stopped
                \/ Unregister \/ Delete \/ CommandReturns
      BY Zenon, <1>7 DEF HostStep, findWinFspDLL, preflightMount, probeDispatcherBindings, probeBinding, Wait,
            CreateFails, Create, Warm, StartFails, SetMountPoint, StartDispatcher, Serve, Stop, Stopped,
            Unregister, Delete, CommandReturns
    <2>2. QED
      BY Zenon, <2>1, ProbeKeeps, ServeKeeps
  <1>8. CASE ContinueCall(Host)
    BY Zenon, <1>1, <1>8, ScriptContinueKeeps DEF HostInv, ContinueCall
  <1>9. ASSUME NEW t \in Kernel, KernelCall(t) \/ ContinueCall(t) PROVE HostInv'
    <2>1. /\ UNCHANGED hostVars /\ answer' = answer
          /\ pc'[Host] = pc[Host] /\ reg'[Host].goal = reg[Host].goal
          /\ \A h \in Handle : held'[h] = "host" => held[h] = "host"
      BY Zenon, <1>9, KernelLeavesHost
    <2>2. ScriptInv'
      BY Zenon, <2>1, ScriptOthersKeep DEF HostInv, hostVars
    <2>3. QED
      BY Zenon, <1>1, <2>1, <2>2
  <1>10. QED
    <2>1. ASSUME NEW t \in Thread, ContinueCall(t) PROVE HostInv'
      BY Zenon, <1>8, <1>9, <2>1 DEF Thread
    <2>2. QED
      BY Zenon, <1>2, <1>3, <1>4, <1>5, <1>6, <1>7, <1>9, <2>1 DEF Next

\* Always.
LEMMA HostInvariance == Spec => [](HandleInv /\ HostInv)
  <1>1. Spec => Init /\ [][Next]_vars
    BY PTL DEF Spec
  <1>2. QED
    BY <1>1, InvInit, InvNext, HostInvInit, HostInvNext, PTL

\* Run leaves nothing behind when it has returned, at whatever step it gave up
\* and whatever calls were in progress: no file system, no registration, no
\* service, no handle of its own, no dispatcher but the one whose probe failed
\* (dispatcher_windows.go, runDispatcherHostV1).
THEOREM RunReturnsClean == Spec => []ReturnsClean
  <1>1. HandleInv /\ HostInv => ReturnsClean
    <2>1. SUFFICES ASSUME HostInv, stage = "returned" PROVE ReturnsClean
      BY Zenon DEF ReturnsClean
    <2>2. \A h \in Handle : held[h] # "host"
      BY Zenon, <2>1 DEF HostInv, ScriptInv, Opening, Using, Closing, AtCall, Scripted
    <2>3. /\ fs # "created" /\ ~registered /\ ~running
          /\ dispatching => probeFailed
          /\ dll <= (IF fs = "none" THEN 2 ELSE 1)
      BY <2>1 DEF HostInv, StageInv
    <2>4. QED
      BY Zenon, <2>2, <2>3 DEF ReturnsClean
  <1>2. QED
    BY <1>1, HostInvariance, PTL

\* The letter that the console's mount comes to WinFsp with is free, if any
\* candidate is, however many letters there are and whichever are in use
\* (config.go, ResolveMountPointForStart, nextAvailableDriveLetter).
THEOREM ResolvedMountPointIsFree == Spec => []ResolvedIsFree
  <1>1. HandleInv /\ HostInv => ResolvedIsFree
    <2>1. SUFFICES ASSUME HostInv, stage = "mountpoint", plan.by = "console", ~raced, ~Mountable(plan.point)
                   PROVE  plan.point.form = "drive" /\ candidateDriveLetters \subseteq places.used
      BY Zenon DEF ResolvedIsFree
    <2>2. raced = FALSE
      BY Zenon, <2>1 DEF HostInv, PlanInv
    <2>3. /\ DriveIsFree /\ (plan.point.form = "local" => places.leaf = "new")
      BY Zenon, <2>1, <2>2 DEF HostInv, PlanInv
    <2>4. QED
      BY Zenon, <2>1, <2>3 DEF Mountable, DriveIsFree
  <1>2. QED
    BY <1>1, HostInvariance, PTL

=============================================================================
