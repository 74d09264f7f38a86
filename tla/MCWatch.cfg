\* One connection changes the tree; the client overflows, drops and recovers.
CONSTANTS
    Writer = {w1}
    Watcher = {k1, k2}
    Path <- MCPath
    Root <- MCRoot
    WatchRoot <- MCWatchRoot
    Retention = 2
    MaxEvents = {0, 1}
    MaxMutations = 2
    MaxWatches = 3
    MaxDrops = 1
SPECIFICATION WFairSpec
CHECK_DEADLOCK FALSE
INVARIANTS
    PollComplete
    PollingLosesNothing
    AckedWasDelivered
    

    
    
