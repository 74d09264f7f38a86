\* Two connections change the tree at the same time.
CONSTANTS
    Writer = {w1, w2}
    Watcher = {k1, k2}
    Path <- MCPath
    Root <- MCRoot
    WatchRoot <- MCWatchRoot
    Retention = 2
    MaxEvents = {0}
    MaxMutations = 2
    MaxWatches = 3
    MaxDrops = 0
SPECIFICATION WSpec
CHECK_DEADLOCK FALSE
INVARIANTS
    PollingLosesNothing
