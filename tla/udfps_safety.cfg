SPECIFICATION Spec
CONSTANTS
    Callers = {c1, c2}
    Run = run
    PipeCap = 2
    MaxCalls = 4
    Faults = TRUE
INVARIANTS
    AtMostOnePerActivation
    NothingSleptThrough
PROPERTY
    ImplementsOneShot
