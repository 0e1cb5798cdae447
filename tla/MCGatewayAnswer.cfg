SPECIFICATION ServedSpec
CONSTANTS
    n1 = n1  n2 = n2
    c1 = c1  c2 = c2
    w1 = w1  w2 = w2  bt = bt
    Nodes = {n1}
    Commands = {c1}
    Target <- MCTarget1
    WifiWorkers = {w1, w2}
    BtWorker = bt
    SerialPresent = FALSE
    MaxDevices = 1
    QueueCap = 1
    UpstreamCap = 1
    MaxLines = 1
    MaySignal = FALSE
    NoCommand = NoCommand
    NoConn = NoConn
    NoNode = NoNode
    NoMsg = NoMsg
    Upload = Upload
PROPERTIES
    EveryCommandAnswered
