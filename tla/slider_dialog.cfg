SPECIFICATION FairPluginSpec
CONSTANTS
    Infos = {i1, i2}
    NoInfo = none
    Configs = {portrait, landscape}
    MaxChanges = 3
    MaxConfigs = 2
CHECK_DEADLOCK FALSE
INVARIANTS
    DialogKeepsUp
PROPERTIES
    ShowLostOnlyToDismissal
    EventuallyDismissed
