SPECIFICATION FairSpec
CONSTANTS
    Sessions = {s1, s2}
    MaxPeers = 1
    RecentMax = 1
INVARIANTS PeersAccounted NoOrphanWorker ShutdownIsFinal
PROPERTIES FailedIsReaped ShutdownReturns
CHECK_DEADLOCK FALSE
