SPECIFICATION FairSpec
CONSTANTS
    c1 = c1
    Callers = {c1}
    Top = 2
    EventCap = 2
INVARIANTS
    TypeOK
    LightIsEffective
PROPERTIES
    DisabledEndsIdle
