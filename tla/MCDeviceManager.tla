-------------------------- MODULE MCDeviceManager --------------------------
EXTENDS DeviceManager, TLC
CONSTANTS n1, n2, c1, c2, c3, t1, t2

Conn(f, t) == [fd |-> f, thread |-> t]

\* One node is sent two or three commands: a ring of two slots fills, and it is
\* filled again when its head is in the middle.
MCTargetTwo   == (c1 :> n1) @@ (c2 :> n1)
MCTargetThree == (c1 :> n1) @@ (c2 :> n1) @@ (c3 :> n1)

\* Any thread with any fd (the interface), or one fd per thread (the gateway).
MixedConns  == {Conn(0, t1), Conn(1, t1)}
PairedConns == {Conn(0, t1), Conn(1, t2)}
=============================================================================
