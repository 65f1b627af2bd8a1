SPECIFICATION Spec
CONSTANTS
    Conn = {c1, c2, c3}
    Device = {d1, d2}
    NoId = NoId
    Allowed = {d2}
    Ttl = 1
    MaxSessions = 1
    Cooldown = 2
    MaxTracked = 1
    MaxOpened = 2
SYMMETRY Symmetry
INVARIANTS
    PermitsAreSessions
    RowsAreSessions
PROPERTIES
    GatesAreExact
