CONSTANTS
    Enabled = TRUE
    MaxRestarts = 2
    Window = 3
    InitialBackoff = 1
    MaxBackoff = 3
    Multiplier = 2
    FloatMax = 8
    MaxTime = 12
    MaxGrants = 6
SPECIFICATION Spec
INVARIANTS
    LimiterIsConsistent
    IntensityIsBounded
    BackoffCompounds
PROPERTIES
    GivesUpOnlyWhenSpent
CHECK_DEADLOCK FALSE
