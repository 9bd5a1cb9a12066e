SPECIFICATION FairSpec
CONSTANTS
    Modulus = 64
    TicksPerUnit = 4
    FrameTicks = 3
    MaxStep = 9
    MaxPending = 1
    Window = 1
    MaxSeiBytes = 6
    SeiOverhead = 1
    ResultBytes = 1
    BoxBytes = 2
    MediaCapacity = 1
    FeedCapacity = 1
    Kinds <- Stream
    BoxLists <- Boxes
    Lags = {1}
    Starts = {63}
    MaxUnits = 3
    MaxResults = 1
    MaxAttempts = 2
    MaxFaults = 1
    Unity = 10000
CHECK_DEADLOCK FALSE
  
PROPERTIES DecodableUplink RtpTimeContinues NoSilentSession
