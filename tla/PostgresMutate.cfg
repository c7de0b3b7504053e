\* Two mutations of one message.
CONSTANTS
    Streams = {}
    Ids = {}
    NoId = NoId
    Members = {}
    NoSubject = NoSubject
    MaxBatch = 1
    Publishers = {p1, p2}
    Published = {"create", "append"}
    OpenWhen = "first"
    MaxSerial = 4
    MaxDrops = 0
    MaxFailures = 0
SPECIFICATION Spec
INVARIANTS
    ProjectionIsFoldOfLog
CHECK_DEADLOCK FALSE
