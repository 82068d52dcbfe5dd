SPECIFICATION Spec
CONSTANTS
    o1 = o1
    o2 = o2
    Ops = {o1, o2}
    EventCap = 2
    MaxDelayed = 1
    MaxSpawned = 1
    WritesMayFail = TRUE
    FileMayFail = TRUE
SYMMETRY OpSymmetry
CONSTRAINT ThreeUnderWay
INVARIANTS
    TypeOK
    ForceHasEvent
    EnabledIsWantedUndocked
    FileEndsAtDesired
PROPERTIES
    DesiredIsDurable
