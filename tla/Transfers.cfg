SPECIFICATION FairSpec
CHECK_DEADLOCK FALSE
CONSTANTS
    c1 = c1
    c2 = c2
    a = a
    b = b
    Callers = {c1, c2}
    Descriptors = {a, b}
    Pulls <- MCPulls
    Depth = 2
    Limits = {0, 1}
INVARIANT TransfersInv
INVARIANT NobodyWatchesCancelled
INVARIANT SlotsAccounted
INVARIANT PulledLayersExist
PROPERTY DownloadReturns
