SPECIFICATION FairSpec
CONSTANTS
    n1 = n1  n2 = n2
    Nodes = {n1, n2}
    NoNode = NoNode
    MaxCommands = 3
    SequenceModulus = 5
    TimeoutSec = 2
    MaxRetries = 1
    RetryCapacity = 2
INVARIANTS
    UniqueSequences
    TimeoutNotEarly
    TimeoutAfterTheRetriesThatFit
PROPERTIES
    FinalIsFinal
    EveryCommandDecided
