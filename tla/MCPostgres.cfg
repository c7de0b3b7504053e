SPECIFICATION MCSpec
CONSTANTS
    Nodes = {n1, n2, n3}
    Clients = {m1, m2}
    Fixtures = {f}
    LeaseWindow = 3
    BumpInterval = 1
    MaxMissed = 2
    ReapsFail = TRUE
    MaxCrashes = 1
    MaxEvents = 4
    Publishers = {p1, p2}
    Published = {"create", "update", "append", "delete", "annotate", "enter", "leave"}
    OpenWhen = "first"
    MaxSerial = 4
    MaxBatch = 1
    MaxDrops = 0
    MaxFailures = 0
    Ids = {i1}
    NoId = NoId
    Members = {e1}
    NoSubject = NoSubject
    Streams = {}
INVARIANTS
    LiveMembersNeverLapse
    TableMatchesFeed
    OneLeavePerDeparture
    RetriesAgree
    LatestIsNewest
    AppendedInOrder
CHECK_DEADLOCK FALSE
