SPECIFICATION MCSpec
CONSTANTS
    Streams = {c1}
    Ids = {}
    NoId = NoId
    Members = {}
    NoSubject = NoSubject
    MaxBatch = 1
    ReplayCap = 2
    OutCap = 2
    PublishActs = {"create", "annotate"}
    Rewinds <- CountRewinds
    HistoryMayFail = TRUE
    MaxPublishes = 4
    MaxAttaches = 3
    MaxReattaches = 0
    MaxDrops = 1
    MayFail = TRUE
    Callers = {p1, p2, p3, p4}
    Attaching = {p1, p2}
    Backends = {"memory", "bbolt", "postgres"}
INVARIANTS
    ReceivesExactly
    OneLiveChannel
PROPERTY AttachedCatchUp
CHECK_DEADLOCK FALSE
