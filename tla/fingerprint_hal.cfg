SPECIFICATION Spec
CONSTANTS
    MaxCalls = 5
    MaxPending = 2
    MaxDeaths = 2
CHECK_DEADLOCK FALSE
INVARIANTS
    DarkAtRest
    LitWhileSensing
PROPERTY
    GoesDark
