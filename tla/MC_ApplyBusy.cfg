CONSTANTS
    Turns = {"normal"}
    Cap = 1
    MaxDeep = 2
    MaxAttempts = 2
    MaxDisturbances = 3
SPECIFICATION Spec
INVARIANT BusyCoversApplies
CHECK_DEADLOCK FALSE
