SPECIFICATION Spec
CONSTANTS
    Worker = {w1, w2}
    Device = {d1, d2}
    Stamp = {1, 2}
INVARIANTS
    FileIsWhole
    TouchIsStored
PROPERTIES
    LockComesBack
    ImplementsRegistry
