\* A hot directory below the root: requests that cross directories.
SPECIFICATION DisciplinedSpec
CONSTANTS
    Name = {"d", "f"}
    MaxDepth = 2
    InitDirs <- MCNested
    InitFiles <- MCNestedFiles
    HotName = {"d"}
    SmallName = {"f"}
    MaxObjects = 4
    MaxVersion = 1
    MaxNodes = 4
    MaxHandles = 1
    MaxCursors = 0
INVARIANTS
    ListingsExact
    NodesFollowRenames
