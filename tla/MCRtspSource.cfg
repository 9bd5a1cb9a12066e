SPECIFICATION FairSpec
CONSTANTS
    ReconnectDelay = 2
    MaxReconnectDelay = 5
    MaxStreak = 4
    Capacity = 1
    Generations = 3
    MaxUnits = 3
    MaxFaults = 1
CHECK_DEADLOCK FALSE
INVARIANTS CallbacksSeeTheirPipeline MediaStatusDelivered
PROPERTIES  DeadSourceReported SourceRecovers StopReturns
