SPECIFICATION AsrSpec
CONSTANTS
    Call = {c1, c2, c3, c4}
    Workers = 3
    Parallelism = 0
INVARIANTS
    OneModel
    InferenceBounded
PROPERTIES
    NeverWedges
CHECK_DEADLOCK FALSE
