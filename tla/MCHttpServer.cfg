SPECIFICATION FairSpec
CONSTANTS
    Conns = {c1, c2}
    Publishers = {p1}
    InboxCapacity = 2
    OutgoingCapacity = 1
    PoolThreads = 1
    SignalingLimit = 1
CHECK_DEADLOCK FALSE
INVARIANTS SingleWriter NoStrandedEvents NoLeakedPeer
PROPERTIES ServerStops
