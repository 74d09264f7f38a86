\* Two threads, and two changes by another client.
CONSTANTS
    Thread = {t1, t2}
    Path <- MCPath
    Raw <- MCRaw
    Nodes = {1, 2, 3, 4, 5}
    DirNodes = {1, 2}
    InitTree <- MCTree
    MaxChanges = 2
    Bytes <- MCBytes
    Folded <- MCFolded
    Trimmed <- MCTrimmed
    MaxEntries = 2
SPECIFICATION SyncSpec
SYMMETRY MCSymmetry
INVARIANTS
    CacheWasTrue
    EnumerationComplete
    CopyFaithful
CHECK_DEADLOCK FALSE
