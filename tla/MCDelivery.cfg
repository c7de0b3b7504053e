SPECIFICATION MCSpec
CONSTANTS
    Members = {p1}
    Writes = {"create", "update", "append", "enter", "leave"}
    Owns = {FALSE}
    Echo = TRUE
    Attaches <- Subscribing
    Capabilities <- Publishing
    Syncs = FALSE
    Detaches = TRUE
    MaxCMs = 4
    MaxFrames = 3
    Numbers = {"7"}
    LargeNumbers = {}
INVARIANTS
    SubscriberIsCurrent
    ModesFollowCapability
    PayloadSurvives
CHECK_DEADLOCK FALSE
