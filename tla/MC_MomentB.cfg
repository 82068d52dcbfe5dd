SPECIFICATION Spec
CONSTANTS
    o1 = o1
    Ops = {o1}
    EventCap = 1
    MaxDelayed = 1
    MaxSpawned = 0
    WritesMayFail = FALSE
    FileMayFail = FALSE
PROPERTIES
    MomentBKeepsWantedPanel
