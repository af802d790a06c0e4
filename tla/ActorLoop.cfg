SPECIFICATION FairSpec
CONSTANTS
    MaxSends = 3
    Kinds = {"mutate", "read", "Terminate"}
    Remote = {2}
    InboxCap = 1
    HighWater = 2
    Catching = FALSE
INVARIANTS
    HandlersDoNotClash
    NothingIsAbandoned
    AnswersProveThePast
PROPERTIES
    RevokedNeverStarts
    AsksEnd
    LoopProgresses
CHECK_DEADLOCK FALSE
