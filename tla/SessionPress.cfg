SPECIFICATION Spec
CONSTANTS
    MaxTurns = 1
    MicCap = 1
    Deployments <- MCFast
CHECK_DEADLOCK FALSE
PROPERTY PressInterrupts
