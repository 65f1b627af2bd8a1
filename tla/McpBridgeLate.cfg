SPECIFICATION Spec
CONSTANTS
    Pages = 1
    MaxCalls = 1
    RingSize = 1
CHECK_DEADLOCK FALSE
PROPERTY LateAnswersHarmless
