SPECIFICATION Spec
CONSTANTS
    Actor = {a, b}
    Shared = {n}
    MaxLives = 2
INVARIANTS
    NamesLeadToTheLiving
CHECK_DEADLOCK FALSE
