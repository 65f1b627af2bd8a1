SPECIFICATION Spec
CONSTANTS
    Turn = {t1, t2, t3, t4}
    Slots = 2
INVARIANTS
    PermitsConserved
    NoIdlePermit
    FirstComeFirstServed
PROPERTIES
    QueueMoves
    ImplementsPool
