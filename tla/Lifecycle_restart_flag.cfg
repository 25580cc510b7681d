SPECIFICATION Spec
CHECK_DEADLOCK FALSE
CONSTANTS
    c1 = c1
    Clients = {c1}
    Ops = {"start", "restart"}
    Policy = "no"
    MaxRetry = 0
    AutoRemove = FALSE
    StopForever = FALSE
    SignalMatches = TRUE
    Errors = {}
    MaxRuns = 2
    MaxFaults = 0
    MaxQueue = 2
INVARIANT RestartFlagDoesNotLinger
