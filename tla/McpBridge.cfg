SPECIFICATION Spec
CONSTANTS
    Pages = 2
    MaxCalls = 2
    RingSize = 1
\* A closed session stops.
CHECK_DEADLOCK FALSE
INVARIANTS
    PendingIsAwaited
    WaitersResolvable
PROPERTIES
    OnlyCancelledCrash
    ImplementsRpc
    CallsReturn
    GateOpens
