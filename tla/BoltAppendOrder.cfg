\* Two publishers whose Appends follow their transactions.
CONSTANTS
    Streams = {}
    Ids = {}
    NoId = NoId
    Members = {}
    NoSubject = NoSubject
    MaxBatch = 1
    Publishers = {p1, p2}
    MaxCounter = 3
    MaxSeries = 2
    MaxClock = 3
    MaxMints = 4
    MaxCrashes = 0
    ClockAdvances = TRUE
SPECIFICATION Spec
INVARIANT
    AppendsIncrease
CHECK_DEADLOCK FALSE
