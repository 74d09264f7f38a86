\* Two connections change the tree at the same time, one uses the events channel.
CONSTANTS
    Writer = {w1, w2}
    Watcher = {c1}
    Path <- MCPath
    Root <- MCRoot
    Retention = 2
    MaxEvents = {0}
    MaxMutations = 2
    MaxWatches = 2
SPECIFICATION Spec
SYMMETRY MCSymmetry
CHECK_DEADLOCK FALSE
INVARIANTS
    JournalIsLogTail
PROPERTIES
    AckNeverRetreats
