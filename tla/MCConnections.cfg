SPECIFICATION MCSpec
CONSTANTS
    OutCap = 1
    PubCap = 1
    MaxFrames = 3
    MaxAuths = 0
    MaxDeliveries = 0
    Clients = {m1}
    NumTransports = 3
    MaxOps = 3
    Conns = {c1, c2}
    Ids = {i1, i2}
    Shared = {i1}
    Resumes = TRUE
    Signals = TRUE
    Stuck = TRUE
INVARIANTS
    AnswersInOrder
    AckedIsCommitted
    DisconnectedIsLast
    MembersFollowClients
    KeyNamesLive
    ToldHaveLeft
PROPERTIES
    ConnectionsWindUp
    ShutdownEnds
CHECK_DEADLOCK FALSE
