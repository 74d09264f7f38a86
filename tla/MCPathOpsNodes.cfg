\* Two connections, every interleaving of two names' requests.
SPECIFICATION Spec
CONSTANTS
    c1 = c1
    c2 = c2
    Conn <- MCConn
    Name = {"f", "g"}
    NoName = NoName
    InitName = {"f"}
    MaxFiles = 2
    MaxNodes = 3
    MaxHandles = 1
    MaxRequests = 4
SYMMETRY MCSymmetry
INVARIANTS
    SameNodeForAll
    
CHECK_DEADLOCK FALSE
