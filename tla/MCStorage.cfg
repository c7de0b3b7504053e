\* Two streams, one id and one member; two publishers on disk.
CONSTANTS
    Streams = {s1, s2}
    Ids = {i1}
    NoId = NoId
    Members = {m1}
    NoSubject = NoSubject
    MaxBatch = 2
    MaxSerial = 5
    Publishers = {p1, p2}
SPECIFICATION MCSpec
INVARIANTS
    AppendsMatchLog
    RetriesAgree
    ProjectionIsFoldOfLog
    MembersAreFoldOfLog
    DiskLosesNothing
PROPERTIES
    ImplementsFeed
CHECK_DEADLOCK FALSE
