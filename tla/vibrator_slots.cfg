SPECIFICATION HalSpec
CONSTANTS
    Slots = {s1, s2, s3}
    Timeouts = {0, 20, 70000}
    Pattern = 30
    ReplayMod = 65536
    MaxCalls = 4
    Amplitudes = {128}
SYMMETRY SlotSymmetry
CHECK_DEADLOCK FALSE
INVARIANTS
    LedProgrammed
PROPERTIES
    StoppedMeansSilent
    PlaysAsAsked
