SPECIFICATION Spec
CONSTANTS
    n1 = n1  n2 = n2
    Nodes = {n1, n2}
    NoNode = NoNode
    MaxCommands = 2
    SequenceModulus = 4
    TimeoutSec = 2
    MaxRetries = 2
    RetryCapacity = 1
INVARIANTS
    TimeoutAfterAllRetries
