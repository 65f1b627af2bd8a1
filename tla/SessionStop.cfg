SPECIFICATION Spec
CONSTANTS
    MaxTurns = 1
    MicCap = 1
    Deployments <- MCSlow
CHECK_DEADLOCK FALSE
INVARIANT DeviceReleased
