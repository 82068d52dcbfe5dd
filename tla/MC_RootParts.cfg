SPECIFICATION RootSpec
CONSTANTS
    MaxPlugs = 2
    Keyboards = {}
    Nodes = {n1}
    MaxSessions = 1
    Values = {v1, v2}
    Default = v1
    MaxSaving = 2
    Options = {idle, battery}
    Choices = {c1, c2}
    Shipped = c1
    Persists = {p1, p2}
INVARIANTS
    RootTypeOK
    KeyboardIsShown
    MemoryIsSaved
    ConfigIsKept
PROPERTIES
    EntriesAreKept
