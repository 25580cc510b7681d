SPECIFICATION FairSpec
CHECK_DEADLOCK FALSE
CONSTANTS
    Retries = 2
    maxLogEntries = 2
    Codes = {0}
    MaxRuns = 2
    MaxMonitors = 2
    MaxStreak = 2
    MaxRestarters = 1
INVARIANT HealthInv
INVARIANT MonitorMatchesState
INVARIANT HealthyIsEarned
PROPERTY ResultsAreCurrent
PROPERTY StoppedMonitorsEnd
