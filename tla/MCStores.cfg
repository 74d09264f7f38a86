\* One console and one user client over one store and one marker.
SPECIFICATION Spec
CONSTANTS
    Console = {c1}
    User = {u1}
    Names = {1, 2}
    Configs = {1}
    MaxCommands = 3
INVARIANTS DefaultIsSaved MarkerTruthful
PROPERTIES RefinesBook
CHECK_DEADLOCK FALSE
