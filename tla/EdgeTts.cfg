SPECIFICATION Spec
CONSTANTS
    Expand = 2
    HighWater = 1
    PipeSize = 1
    MaxChunks = 4
INVARIANTS
    NothingOutlives
    SpokenWhole
PROPERTIES
    CloseCompletes
    PlaysOut
CHECK_DEADLOCK FALSE
