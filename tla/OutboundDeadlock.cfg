SPECIFICATION FairSpec
CONSTANTS
    OutCap = 1
    PubCap = 1
    MaxFrames = 1
    MaxAuths = 0
    MaxDeliveries = 0
PROPERTY TearsDown
CHECK_DEADLOCK FALSE
