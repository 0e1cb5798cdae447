\* Four nodes compete for three slots.
SPECIFICATION Spec
CONSTANTS
  n1 = n1  n2 = n2  n3 = n3  n4 = n4  d1 = d1  d2 = d2
  Nodes <- FourNodes
  Payloads <- TwoPayloads
  MaxNodes = 3
  OnlineTimeout = 2
  MaxTime = 4
SYMMETRY NodeSymmetry
INVARIANTS HoldsTheLatest ForgetsTheStalest RecentAreOnline
