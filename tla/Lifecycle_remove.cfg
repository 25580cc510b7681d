SPECIFICATION Spec
CHECK_DEADLOCK FALSE
CONSTANTS
    c1 = c1
    c2 = c2
    Clients = {c1, c2}
    Ops = {"start", "rm", "rm -f", "pause", "unpause"}
    Policy = "no"
    MaxRetry = 0
    AutoRemove = TRUE
    StopForever = FALSE
    SignalMatches = FALSE
    Errors = {"early", "layer", "filesystem", "signal"}
    MaxRuns = 2
    MaxFaults = 0
    MaxQueue = 1
SYMMETRY Symmetry
INVARIANT DeadHasNoProcess
INVARIANT RemovalExclusive
INVARIANT LifecycleInv
PROPERTY DeadStaysDead
PROPERTY PauseAgrees
PROPERTY ImplementsSetters
