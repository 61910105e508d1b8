SPECIFICATION FairSpec
CONSTANTS
    Callers = {c1, c2}
    Run = run
    PipeCap = 3
    MaxCalls = 3
    Faults = FALSE
PROPERTIES
    NoParkedTouchDelivered
    PressDelivered
    CallsReturn
