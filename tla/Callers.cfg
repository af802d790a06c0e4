CONSTANTS
    a = a
    b = b
    c = c
    Name <- MCName
    Policy <- MCPolicy
    Strategy = "OneForOne"
    MaxRestarts = 2
    MaxSlots = 3
    MaxHandles = 8
    Deferred = {}
    Hired = {a}
    Adopted = {}
    Reused = {}
    Released = {a}
    Escalation = "StopSupervisor"
    FaultReasons = {"Panic"}
    BuildOutcomes = {"ok", "error"}
    MayStop = TRUE
    Overruns = {a}
    MaxFaults = 3
SPECIFICATION FairSpec
INVARIANTS
    ReleasedIsLeftRunning
    EveryWaiterAnswered
PROPERTIES
    RecordsAreForever
    WatchersSeeTheCycle
    CallersReturn
    SupervisorProgresses
CHECK_DEADLOCK FALSE
