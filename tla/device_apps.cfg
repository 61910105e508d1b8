SPECIFICATION AppsSpec
CONSTANTS
    MaxUser = 2
    MaxPen = 3
    MaxAttach = 2
    MaxKills = 2
    MaxTaps = 3
    MaxScreens = 4
    MaxDeaths = 1
CHECK_DEADLOCK FALSE
INVARIANTS
    RateMatchesPen
    UserChoiceKept
    NotificationTrue
    ServiceMatchesPrefs
    NoListenerLeft
    ListenersMatchScreen
PROPERTY
    ComesToRest
