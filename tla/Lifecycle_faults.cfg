SPECIFICATION Spec
CHECK_DEADLOCK FALSE
CONSTANTS
    c1 = c1
    Clients = {c1}
    Ops = {"start", "stop", "restart", "kill", "signal", "pause"}
    Policy = "on-failure"
    MaxRetry = 1
    AutoRemove = FALSE
    StopForever = FALSE
    SignalMatches = TRUE
    Errors = {"created", "network"}
    MaxRuns = 3
    MaxFaults = 1
    MaxQueue = 1
INVARIANT RunningIfAlive
INVARIANT StopKills
INVARIANT StopIsFinal
INVARIANT ExitNotLost
INVARIANT RunInv
PROPERTY ExitCodeReported
