SPECIFICATION Spec
CONSTANTS
    n1 = n1  n2 = n2
    c1 = c1  c2 = c2
    w1 = w1  w2 = w2  bt = bt
    Nodes = {n1}
    Commands = {c1, c2}
    Target <- MCTarget2
    WifiWorkers = {w1, w2}
    BtWorker = bt
    SerialPresent = FALSE
    MaxDevices = 1
    QueueCap = 2
    UpstreamCap = 1
    MaxLines = 0
    MaySignal = FALSE
    NoCommand = NoCommand
    NoConn = NoConn
    NoNode = NoNode
    NoMsg = NoMsg
    Upload = Upload
SYMMETRY WifiSymmetry
INVARIANTS
    OnlineHasLiveWorker
    LastBinderStaysOwner
    NothingIsLost
    TakenByItsOwner
