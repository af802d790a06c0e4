SPECIFICATION FairSpec
CONSTANTS
    Calls = {c1}
    Streams = {s1}
    WriteCap = 1
    FrameCap = 1
    SockCap = 1
    MaxFrames = 3
    MidStream = FALSE
    MayRefuse = TRUE
INVARIANTS
    ClientIsConsistent
    StreamIsIntact
PROPERTIES
    AnswerReachesItsCaller
    DisconnectReturns
CHECK_DEADLOCK FALSE
