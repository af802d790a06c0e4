SPECIFICATION FairSpec
CONSTANTS
    Actor = {a, b}
    MaxBroadcasts = 2
    MaxLives = 2
    InboxCap = 1
    BrokerCap = 1
    Restarted = {a}
    Relays = {b}
    Quitters = {a}
    Stale = FALSE
INVARIANTS
    BrokerIsConsistent
    DeliveryWasAskedFor
    ShutdownLosesNoBroadcast
PROPERTIES
    StopsComplete
CHECK_DEADLOCK FALSE
