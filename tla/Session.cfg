SPECIFICATION Spec
CONSTANTS
    MaxTurns = 2
    MicCap = 1
    Deployments <- MCDeployments
\* A connection ends: once run() has returned and its turns are over nothing happens.
CHECK_DEADLOCK FALSE
INVARIANTS
    OneTurn
    CountedOut
    RowTracksTurn
    SlotOnlyInPipeline
    ReminderHangsUp
PROPERTIES
    ImplementsVoice
    CancelEndsTurn312
    TeardownCompletes
