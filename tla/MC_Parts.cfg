SPECIFICATION PartsSpec
CONSTANTS
    MaxPlugs = 4
    Keyboards = {k1, k2}
    Nodes = {n1, n2}
    MaxSessions = 2
    MaxLevel = 7
    Critical = 1
    Severe = 2
    Warning = 3
    Half = 4
    High = 5
    FullAt = 6
    ValueCap = 2
    TokenCap = 2
    MaxWaits = 2
    MaxUpdates = 6
    ReportCap = 2
    MaxLines = 2
    EventCap = 2
    SocketLost = TRUE
    Lux = {2, 10, 12, 60}
    DarkLux = 10
    MaxSamples = 3
INVARIANTS
    PartsTypeOK
    UsbSettles
    SessionsAreCounted
    ObserversKnow
    TokensAreTimeouts
    AcksAreEarned
    RootHasSetting
    SuspendedLedIsDark
PROPERTIES
    UsbComesToAgree
    GoneIsCountedOff
    DetachedOnlyAfterGrace
    SamplesMatchLink
    LossIsTold
    WarnedOncePerDip
    MilestonesRise
    LedShowsSource
    KnownFollowsLight
