SPECIFICATION FairSpec
CHECK_DEADLOCK FALSE
CONSTANTS
    w1 = w1
    Watchers = {w1}
    maxPendingStatusChanges = 2
    Pids = {1}
    Codes = {0}
    Msgs = {"start"}
    MaxChanges = 3
INVARIANT ChangesChain
INVARIANT WatcherChain
INVARIANT WatchInv
PROPERTY ImplementsFeed
PROPERTY ChangeIsSeen
PROPERTY RemovalEndsWatch
