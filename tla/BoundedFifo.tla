---------------------------- MODULE BoundedFifo ----------------------------
(***************************************************************************)
(* What the gateway's message queue promises: a first-in first-out channel *)
(* that holds at most Capacity messages, takes none once it is closed, and *)
(* never loses, copies or reorders one that it took.                       *)
(***************************************************************************)
EXTENDS Naturals, Sequences

CONSTANTS Messages, Capacity

VARIABLES fifo, closed

Init == fifo = <<>> /\ closed = FALSE

Put(m) == /\ ~closed
          /\ Len(fifo) < Capacity
          /\ fifo' = Append(fifo, m)
          /\ UNCHANGED closed

Get == fifo # <<>> /\ fifo' = Tail(fifo) /\ UNCHANGED closed

Close == closed' = TRUE /\ UNCHANGED fifo

Next == (\E m \in Messages : Put(m)) \/ Get \/ Close

Spec == Init /\ [][Next]_<<fifo, closed>>
=============================================================================
