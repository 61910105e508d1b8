SPECIFICATION FairSpec
CONSTANTS
    Positions <- SliderPositions
    ModeOf <- DndModes
    WithBoot = TRUE
    ExternalZen = 1
    MaxMoves = 2
    MaxUser = 1
CHECK_DEADLOCK FALSE
INVARIANTS
    SettlesOnPosition
    WasMutedAccurate
PROPERTIES
    AnnouncedInForce
    WorkIsDone
