CONSTANTS
    a = a
    b = b
    c = c
    Name <- MCName
    Policy <- MCPolicy
    Strategy = "OneForOne"
    MaxRestarts = 1
    MaxSlots = 2
    MaxHandles = 3
    Deferred = {a}
    Hired = {}
    Adopted = {}
    Reused = {a}
    Released = {a}
    Escalation = "NotifyParent"
    FaultReasons = {"Panic"}
    BuildOutcomes = {"ok"}
    MayStop = FALSE
    Overruns = {}
    MaxFaults = 0
SPECIFICATION Spec
PROPERTIES
    FailuresAreTheChildsOwn
CHECK_DEADLOCK FALSE
