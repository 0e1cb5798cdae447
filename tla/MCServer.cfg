SPECIFICATION Spec
CONSTANTS
    n1 = n1
    Nodes = {n1}
    NoNode = NoNode
    NL = NL
    CR = CR
    MaxCommands = 2
    SequenceModulus = 4
    TimeoutSec = 1
    MaxRetries = 1
    RetryCapacity = 1
    DeviceQueueCap = 1
    MaxConnections = 2
    Stalling = {2}
    MaxTyped = 2
    MaxRestarts = 1
INVARIANTS
    WholeLines
    NeverBlocks
    FalseAckOnlyAfterRestart
    NackedYetExecutedOnlyIfResent
    ExecutedNoMoreThanSent
