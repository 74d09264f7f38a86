\* Three handles: two to recover, and the one that makes their ids collide after
\* a restart.  One fault, and a second session for when the first is gone.
CONSTANTS
    Node = {1}
    MaxHandles = 3
    MaxSessions = 2
    MaxFaults = 1
SPECIFICATION Spec
INVARIANTS
    AnswersMatched
    
    NoneForgotten
PROPERTIES
    RecoveryKeepsHandles
    RequestsReturn
CHECK_DEADLOCK FALSE
