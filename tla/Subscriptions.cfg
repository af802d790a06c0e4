SPECIFICATION Spec
CONSTANTS
    n1 = n1
    n2 = n2
    p1 = p1
    Conns = {c1, c2}
    Names = {n1, n2}
    Patterns = {p1}
    Matches <- MCMatches
    LongNames = {}
    RouteCap = 1
    PatternCap = 1
    PushCap = 1
    MaxInc = 2
    Forwards = {f1}
    NoRoute = NoRoute
    Nobody = Nobody
INVARIANTS
    DerivedStateAgrees
PROPERTIES
    DeliveryIsWarranted
CHECK_DEADLOCK FALSE
