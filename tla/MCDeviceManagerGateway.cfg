SPECIFICATION GatewaySpec
CONSTANTS
    n1 = n1  n2 = n2
    c1 = c1  c2 = c2  c3 = c3
    t1 = t1  t2 = t2
    Nodes = {n1, n2}
    Commands = {c1, c2, c3}
    Target <- MCTargetThree
    Conns <- PairedConns
    MaxDevices = 1
    QueueCap = 2
    NoCommand = NoCommand
    NoConn = NoConn
INVARIANTS
    OfflineHasNothingPending
    PendingIsForTheOwner
    TakenByItsOwner
PROPERTIES
    ImplementsChannels
