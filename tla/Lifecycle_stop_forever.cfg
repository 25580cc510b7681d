SPECIFICATION ObedientSpec
CHECK_DEADLOCK FALSE
CONSTANTS
    c1 = c1
    Clients = {c1}
    Ops = {"start", "stop"}
    Policy = "always"
    MaxRetry = 0
    AutoRemove = FALSE
    StopForever = TRUE
    SignalMatches = TRUE
    Errors = {}
    MaxRuns = 2
    MaxFaults = 0
    MaxQueue = 2
PROPERTY StopReturns
