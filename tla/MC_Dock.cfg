SPECIFICATION FairSpec
CONSTANTS
    Ops = {}
    EventCap = 1
    MaxDelayed = 0
    MaxSpawned = 1
    WritesMayFail = FALSE
    FileMayFail = FALSE
PROPERTIES
    SettlesWithoutSession
