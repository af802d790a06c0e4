SPECIFICATION FairSpec
CONSTANTS
    MaxConns = 2
    Limits = {1, 2}
    MaxFrames = 1
    WriterCap = 1
    InboxCap = 1
    Workers = 2
    Policy = TRUE
    Watching = FALSE
INVARIANTS
    ListenerIsConsistent
PROPERTIES
    StopReachesAll
    HandlersProceed
CHECK_DEADLOCK FALSE
