SPECIFICATION ServicesSpec
CONSTANTS
    Gestures = {2, 3}
    MaxRequests = 4
    Speakers = {speaker, voice_speaker}
    Others = {headset}
    BinderThreads = {b1, b2}
    MaxHalDeaths = 2
    RETRY_LIMIT = 3
    MaxEvents = 3
    UintMod = 100000000
    Lengths = {20, 100001}
    Prebaked = 15
    MaxVibrations = 3
    Configs <- ConfigFiles
    Bad = Bad
    DriverChoice = 16000
    MaxEffects = 2
    LiveThreads = {l1, l2}
    MaxSets = 3
SYMMETRY ThreadSymmetry
CHECK_DEADLOCK FALSE
INVARIANTS
    AcknowledgedInForce
    FeedbackIsSound
    DeadProxyIsCleared
    LidFollowsMagnet
    NotToldWhileItLasts
    EveryEffectHasItsStream
    PanelAsAnswered
    DefaultSurvives
