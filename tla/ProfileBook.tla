---------------------------- MODULE ProfileBook ----------------------------
(***************************************************************************)
(* What the profile store of the Windows client promises: one book of      *)
(* workspaces that is only ever edited, one whole edit at a time.  The     *)
(* programs and files that implement it are in ClientStores.               *)
(*                                                                         *)
(* A workspace name is a number, in the order sort.Strings gives; 0 is the *)
(* empty string.  Of a workspace only a version of its configuration is    *)
(* kept, 0 where there is none.                                            *)
(***************************************************************************)
EXTENDS Integers

CONSTANTS
    Names,      \* workspace names, sorted
    Configs     \* versions of a configuration

VARIABLES
    book,       \* what a reader of the store finds
    trusted     \* the store is used as one program at a time may use it

Book == [profiles : [Names -> Configs \cup {0}],
         active   : Names \cup {0},
         dflt     : Names \cup {0}]

Saved(b) == {n \in Names : b.profiles[n] # 0}

\* DefaultState of the store.
EmptyBook == [profiles |-> [n \in Names |-> 0], active |-> 0, dflt |-> 0]

\* The first of SortedProfileNames, if any.
FirstSaved(b) ==
    IF Saved(b) = {} THEN 0
    ELSE CHOOSE n \in Saved(b) : \A m \in Saved(b) : n <= m

-----------------------------------------------------------------------------
BookInit == book = EmptyBook /\ trusted = TRUE

\* A workspace is saved and becomes the active one; nothing else changes.
SaveEntry(n, c) ==
    /\ book' = [profiles |-> [book.profiles EXCEPT ![n] = c],
                active   |-> n,
                dflt     |-> IF book.dflt = 0 THEN n ELSE book.dflt]
    /\ UNCHANGED trusted

\* A workspace is removed; the others keep their configuration.
DeleteEntry(n) ==
    /\ book'.profiles = [book.profiles EXCEPT ![n] = 0]
    /\ book' \in Book
    /\ UNCHANGED trusted

\* Another workspace becomes the active one, or none when the name is not
\* saved; the others keep their configuration.
Activate(n) ==
    /\ book'.profiles = book.profiles
    /\ book'.active = IF n \in Saved(book) THEN n ELSE 0
    /\ book' \in Book
    /\ UNCHANGED trusted

\* The store is used in a way that voids the promise.
Broken == trusted' = FALSE

BookNext ==
    \/ \E n \in Names, c \in Configs : SaveEntry(n, c)
    \/ \E n \in Names : DeleteEntry(n) \/ Activate(n)
    \/ Broken

BookSpec == BookInit /\ [][BookNext]_<<book, trusted>>
=============================================================================
