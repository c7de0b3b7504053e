SPECIFICATION MCSpec
CONSTANTS
    PerMs = 2
    Radix = 10
    IdxWidth = 3
    Neighbours = {"before", "after"}
    Backends = {"memory", "bbolt", "postgres"}
    Clients = {c1, c2}
    NoClient = NoClient
    DefaultLimit = 2
    MaxLimit = 3
    MaxBatch = 2
    MaxCMs = 4
    Writes = {"create", "update", "append", "delete", "annotate", "enter", "leave"}
    Requests <- AllRequests
    Names = {n1, n2}
    Tallied = {t1}
SYMMETRY Symmetry
INVARIANTS
    WalksComplete
    QueriesAgree
    SummariesStand
CHECK_DEADLOCK FALSE
