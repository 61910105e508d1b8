SPECIFICATION Spec
CONSTANTS
    MaxTaps = 3
    MaxOpens = 1
CHECK_DEADLOCK FALSE
INVARIANTS
    PowerOffIsOwned
    SwitchShowsSlot
PROPERTIES
    SwitchedUnpowered
    PowerRestored
