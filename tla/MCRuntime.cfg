\* Two callers, valid and invalid configurations, a server that answers.
SPECIFICATION FairSpec
CONSTANTS
    Caller <- MCTwoCallers
    MaxMounts = 2
INVARIANTS OneSession PhaseTruthful ClosedAfterUse
PROPERTIES FailureIsShown StopCompletes
CHECK_DEADLOCK FALSE
