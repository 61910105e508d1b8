SPECIFICATION SubHalSpec
CONSTANTS
    Handles = {1, 2}
    MaxHalCalls = 4
    MaxPosts = 3
CHECK_DEADLOCK FALSE
INVARIANT
    OneShotKept
