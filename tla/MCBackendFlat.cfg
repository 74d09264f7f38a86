\* One directory, two names: every sequence of requests of a disciplined client.
SPECIFICATION DisciplinedSpec
CONSTANTS
    Name = {"f", "g"}
    MaxDepth = 1
    InitDirs <- MCFlat
    InitFiles <- MCFlatFiles
    HotName = {}
    SmallName = {"f"}
    MaxObjects = 3
    MaxVersion = 1
    MaxNodes = 3
    MaxHandles = 2
    MaxCursors = 1
INVARIANTS
    NegativesTruthful
    CachesExact
