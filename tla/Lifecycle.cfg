CONSTANTS
    a = a
    b = b
    c = c
    Name <- MCName
    Policy <- MCPolicy
    Strategy = "OneForOne"
    MaxRestarts = 1
    MaxSlots = 2
    MaxHandles = 5
    Deferred = {a, c}
    Hired = {}
    Adopted = {}
    Reused = {a}
    Released = {}
    Escalation = "NotifyParent"
    FaultReasons = {"Normal", "Panic"}
    BuildOutcomes = {"ok", "error"}
    MayStop = TRUE
    Overruns = {}
    MaxFaults = 2
SPECIFICATION Spec
INVARIANTS
    RegistryIsConsistent
    SupervisionIsConsistent
    StoppedLeavesNoneRunning
PROPERTIES
    TerminalStatesAreFinal
CHECK_DEADLOCK FALSE
