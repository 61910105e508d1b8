SPECIFICATION Spec
CONSTANTS
    kMaxSimSlot = 2
    MaxRetries = 3
CHECK_DEADLOCK FALSE
INVARIANTS
    VerdictIsSound
PROPERTY
    Terminates
