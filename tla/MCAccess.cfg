SPECIFICATION MCSpec
CONSTANTS
    Reread <- ReadBack
    KeyCapabilities <- Odd
    Requested <- Invalid
    Channels <- AllChannels
    Ops = {"publish", "subscribe"}
    UnknownOps = {"fly"}
    ClientIds = {"alice", "bob"}
    TTLs <- Milliseconds
    Millisecond = 2
    DurationWidth = 5
    DefaultTokenTTL = 3
    MaxTokenTTL = 5
    Operations <- Mutating
    ConnectionIds = {"a", "*", ""}
    Capabilities <- Owners
    Principals <- Callers
    RestRequests = {r1}
    RequestedModes = {}
    Channel <- OneChannel
    MayFail = FALSE
    MaxAsked = 3
    MaxMessages = 2
INVARIANTS
    CredentialBinds
    PermittedOnce
CHECK_DEADLOCK FALSE
