SPECIFICATION MCSpec
CONSTANTS
    MaxCounter = 2
    MaxClock = 3
    MaxMints = 7
    Apps = {a1, a2}
    Signals = TRUE
    Runs = {r1, r2}
    Modes = {"memory", "disk", "cluster"}
    Configs <- AllConfigs
    NumChannels = 1
    StepsFail = TRUE
    p1 = p1
    p2 = p2
    p3 = p3
    Processes = {p1, p2, p3}
    Embedded <- Builds
    MaxFailures = 3
    Nodes = {n1, n2, n3}
    Clients = {m1}
    Fixtures = {f}
    Publishers = {w1, w2}
    NoId = NoId
    NoSubject = NoSubject
INVARIANTS
    StrictlyIncreasing
    TerminatedOnce
    NothingForgotten
    ServesWhileReady
    SchemaSwept
PROPERTIES
    SignalledEnd
    EveryoneServes
    NodeCatchesUp
    OrphansDepart
CHECK_DEADLOCK FALSE
