SPECIFICATION FairSpec
CONSTANTS
    Producers = {p1, p2}
    Consumers = {c1, c2}
    Capacities <- MCCapacities
    MaxPushes = 4
INVARIANTS
    BacklogExplained
    NoLostWakeup
PROPERTIES
    ImplementsFifo
    NoItemStranded
    CloseReleases
