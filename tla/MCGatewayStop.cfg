SPECIFICATION FairSpec
CONSTANTS
    n1 = n1  n2 = n2
    c1 = c1  c2 = c2
    w1 = w1  w2 = w2  bt = bt
    Nodes = {n1, n2}
    Commands = {c1}
    Target <- MCTarget1
    WifiWorkers = {w1}
    BtWorker = bt
    SerialPresent = TRUE
    MaxDevices = 1
    QueueCap = 1
    UpstreamCap = 1
    MaxLines = 1
    MaySignal = TRUE
    NoCommand = NoCommand
    NoConn = NoConn
    NoNode = NoNode
    NoMsg = NoMsg
    Upload = Upload
INVARIANTS
    NothingIsLost
    NoUseAfterDestroy
PROPERTIES
    Terminates
    AbortTerminates
