SPECIFICATION Spec
CONSTANTS
    FrameTicks = 2
    LeadTicks = 3
    QueueCap = 5
    Units = 15
    MaxQuiet = 5
\* A reply ends.
CHECK_DEADLOCK FALSE
INVARIANTS
    NeverDropsWithHeadroom
PROPERTIES
    AllSpoken
