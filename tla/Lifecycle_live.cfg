SPECIFICATION FairSpec
CHECK_DEADLOCK FALSE
CONSTANTS
    c1 = c1
    Clients = {c1}
    Ops = {"start", "stop", "shutdown"}
    Policy = "always"
    MaxRetry = 0
    AutoRemove = FALSE
    StopForever = FALSE
    SignalMatches = TRUE
    Errors = {}
    MaxRuns = 2
    MaxFaults = 1
    MaxQueue = 2
PROPERTY EveryCallReturns
PROPERTY ExitIsHandled
PROPERTY RestartingEnds
