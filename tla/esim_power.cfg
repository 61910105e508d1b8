SPECIFICATION Spec
CONSTANTS
    MaxTaps = 1
    MaxOpens = 0
CHECK_DEADLOCK FALSE
PROPERTY PowerComesBack
