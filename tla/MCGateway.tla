----------------------------- MODULE MCGateway -----------------------------
EXTENDS Gateway, TLC
CONSTANTS n1, n2, c1, c2, w1, w2, bt

MCTarget1 == (c1 :> n1)
MCTarget2 == (c1 :> n1) @@ (c2 :> n1)
\* The WiFi threads are interchangeable, and so are two commands for one node.
WifiSymmetry == Permutations({w1, w2}) \cup Permutations({c1, c2})
=============================================================================
