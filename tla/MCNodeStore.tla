---------------------------- MODULE MCNodeStore ----------------------------
(* Small instances of NodeStore for TLC. *)
EXTENDS NodeStore, TLC
CONSTANTS n1, n2, n3, n4, d1, d2
FourNodes == {n1, n2, n3, n4}
TwoPayloads == {d1, d2}
NodeSymmetry == Permutations(FourNodes) \cup Permutations(TwoPayloads)
=============================================================================
