--------------------------- MODULE MCMessageQueue ---------------------------
EXTENDS MessageQueue
CONSTANTS p1, p2, p3, k1, k2, m1, m2
=============================================================================
