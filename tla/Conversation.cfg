SPECIFICATION Spec
CONSTANTS
    Session = {d1, d2}
    Device = {d1, d2}
    Id = {1, 2}
    MaxDevices = 1
    MaxRounds = 2
    MaxTurns = 2
    MaxCalls = 2
INVARIANTS
    RequestsPaired
    SpokenIsNewest
    MirrorExplained
    NoUncountedReminder
PROPERTIES
    HistoryGrowsByTurns
CHECK_DEADLOCK FALSE
