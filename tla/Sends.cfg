CONSTANTS
    Interval = 2
    Capacity = 1
    Horizon = 8
SPECIFICATION SendFairSpec
INVARIANTS
    ScheduleIsConsistent
    NoCatchUpBurst
PROPERTIES
    OutcomeResolves
CHECK_DEADLOCK FALSE
