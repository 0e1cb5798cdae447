SPECIFICATION FairSpec
CONSTANTS
    p1 = p1  p2 = p2  p3 = p3
    k1 = k1  k2 = k2
    m1 = m1  m2 = m2
    Producers = {p1, p2, p3}
    Consumers = {k1, k2}
    Messages = {m1, m2}
    Capacity = 2
    NoMessage = NoMessage
INVARIANTS
    NoLostWakeup
    NobodyWaitsAfterShutdown
PROPERTIES
    ImplementsFifo
    ShutdownReleases
