SPECIFICATION FairSpec
CONSTANTS
    Producers = {p1, p2}
    Consumers = {c1, c2}
    Capacity = 2
    MaxPush = 4
INVARIANTS NewestSuffix NoLostWakeup
PROPERTIES ImplementsChannel BlockedConsumersDrain
