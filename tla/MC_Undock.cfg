SPECIFICATION Spec
CONSTANTS
    Ops = {}
    EventCap = 2
    MaxDelayed = 1
    MaxSpawned = 1
    WritesMayFail = FALSE
    FileMayFail = FALSE
PROPERTIES
    UndockTellsAfterPower
