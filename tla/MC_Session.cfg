CONSTANTS
    Turns = {"normal", "left"}
    Cap = 2
    MaxDeep = 1
    MaxAttempts = 2
    MaxDisturbances = 3
SPECIFICATION FairSpec
INVARIANTS TypeOK CampaignIsAlone SettledIsTarget LoopIsThrottled
PROPERTY ComesToRest
CHECK_DEADLOCK FALSE
