CONSTANTS
    a = a
    b = b
    c = c
    Name <- MCName
    Policy <- MCPolicy
    Strategy = "RestForOne"
    MaxRestarts = 2
    MaxSlots = 3
    MaxHandles = 6
    Deferred = {}
    Hired = {a, b}
    Adopted = {c}
    Reused = {}
    Released = {}
    Escalation = "NotifyParent"
    FaultReasons = {"Panic"}
    BuildOutcomes = {"ok", "error", "panic"}
    MayStop = TRUE
    Overruns = {b}
    MaxFaults = 1
SPECIFICATION Spec
INVARIANTS
    AtMostOneIncarnation
    NoChildForgotten
PROPERTIES
    GroupsComeBackInOrder
CHECK_DEADLOCK FALSE
