SPECIFICATION Spec
CONSTANTS
    n1 = n1  n2 = n2
    Nodes = {n1, n2}
    NoNode = NoNode
    MaxCommands = 2
    SequenceModulus = 4
    TimeoutSec = 1
    MaxRetries = 1
    RetryCapacity = 2
INVARIANTS
    FullMeansInFlight
