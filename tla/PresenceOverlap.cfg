SPECIFICATION Spec
CONSTANTS
    NumTransports = 2
    Clients = {m1}
    Allowed = {"lateTeardown"}
    MaxOps = 2
INVARIANT EnteredStay
CHECK_DEADLOCK FALSE
