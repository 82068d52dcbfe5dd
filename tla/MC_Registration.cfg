SPECIFICATION FairSpec
CONSTANTS
    s1 = s1
    s2 = s2
    k1 = k1
    k2 = k2
    k3 = k3
    Sessions = {s1, s2}
    Conns = {k1, k2, k3}
    NoConn = NoConn
    MaxAttempts = 1
    MaxDecays = 2
INVARIANTS
    TypeOK
    BudgetNotLeaked
    WithinMaximum
PROPERTIES
    LoneSessionIsRegistered
