---------------------------- MODULE NodeChannels ----------------------------
(***************************************************************************)
(* What the device registry promises the gateway: every node has at most   *)
(* one connection, and every connection is a FIFO of its own.  A command   *)
(* goes to the connection it was accepted for, in order, or comes back     *)
(* when that connection ends; no connection inherits another one's         *)
(* commands.                                                               *)
(***************************************************************************)
EXTENDS Naturals, Sequences

CONSTANTS Nodes, Commands, Target, Conns, NoConn, QueueCap

VARIABLES owner,     \* the connection of each node
          pending,   \* the commands it has still to send, oldest first
          fate,      \* what became of each command
          takenBy    \* the connection that took it

vars == <<owner, pending, fate, takenBy>>

Init == /\ owner = [n \in Nodes |-> NoConn]
        /\ pending = [n \in Nodes |-> <<>>]
        /\ fate = [c \in Commands |-> "new"]
        /\ takenBy = [c \in Commands |-> NoConn]

\* The connection of n becomes k; what the previous one had pending comes back.
Switch(n, k) ==
    /\ owner' = [owner EXCEPT ![n] = k]
    /\ pending' = [pending EXCEPT ![n] = <<>>]
    /\ fate' = [c \in Commands |->
                  IF \E i \in DOMAIN pending[n] : pending[n][i] = c
                  THEN "returned" ELSE fate[c]]
    /\ UNCHANGED takenBy

Connect(n, k) == owner[n] # k /\ Switch(n, k)

End(n) == owner[n] # NoConn /\ Switch(n, NoConn)

Accept(n, c) ==
    /\ fate[c] = "new" /\ Target[c] = n
    /\ owner[n] # NoConn
    /\ Len(pending[n]) < QueueCap
    /\ pending' = [pending EXCEPT ![n] = Append(@, c)]
    /\ fate' = [fate EXCEPT ![c] = "queued"]
    /\ UNCHANGED <<owner, takenBy>>

Take(n) ==
    /\ pending[n] # <<>>
    /\ pending' = [pending EXCEPT ![n] = Tail(@)]
    /\ fate' = [fate EXCEPT ![Head(pending[n])] = "taken"]
    /\ takenBy' = [takenBy EXCEPT ![Head(pending[n])] = owner[n]]
    /\ UNCHANGED owner

Next == \E n \in Nodes : \/ \E k \in Conns : Connect(n, k)
                         \/ End(n)
                         \/ \E c \in Commands : Accept(n, c)
                         \/ Take(n)

Spec == Init /\ [][Next]_vars
=============================================================================
