------------------------------- MODULE Server -------------------------------
(***************************************************************************)
(* The server's main loop (server/main.c) around its command table         *)
(* (CommandManager), with what it talks to: the operator's console, the    *)
(* TCP connections, the gateway and the nodes behind it.  The loop is one  *)
(* thread; everything else may happen between any two of its steps.        *)
(*                                                                         *)
(* The gateway is reduced to where a command or an answer can be: a ring   *)
(* per node, the way to the node and back, the upstream queue.  (Gateway   *)
(* and DeviceManager are the detailed models of that part.)  A message is  *)
(* on a connection as a text and a line feed.  A send that fails may leave *)
(* a part of it there, without its line feed: the text, whole or cut.  The *)
(* connection is closed then, but not when it was the NACK of a command    *)
(* that could not be routed: what is sent next is joined to that part.     *)
(* DATA lines concern the node store alone (NodeStore) and are left out: a *)
(* NACK that is joined with one has come alone, as far as the table goes.  *)
(*                                                                         *)
(* A command carries the run of the server that issued it.  Nothing in the *)
(* program can see that field: it is there to say what an answer is for.   *)
(***************************************************************************)
EXTENDS Integers, Sequences, FiniteSets

CONSTANTS Nodes, NoNode, MaxCommands, SequenceModulus, TimeoutSec, MaxRetries,
          RetryCapacity,             \* of CommandManager
          NL, CR,                    \* of LineParser
          DeviceQueueCap,            \* DEVICE_COMMAND_QUEUE_CAPACITY
          MaxConnections,            \* bound: connections the gateway makes
          Stalling,                  \* bound: those on which a NACK may be sent in part
          MaxTyped,                  \* bound: commands the operator types
          MaxRestarts                \* bound: times the server is started again

ASSUME BoundsAssumption == /\ MaxConnections \in Nat /\ MaxTyped \in Nat
                           /\ MaxRestarts \in Nat /\ DeviceQueueCap \in Nat
ASSUME NoNodeAssumption == NoNode \notin Nodes
ASSUME SizesAssumption  == /\ MaxCommands \in Nat \ {0}
                           /\ SequenceModulus \in Nat
                           /\ MaxCommands < SequenceModulus - 1
                           /\ TimeoutSec \in Nat \ {0}
                           /\ MaxRetries \in Nat /\ RetryCapacity \in Nat

VARIABLES entries, next_sequence, copies, elapsed,     \* of CommandManager
          pc, revents,     \* the main loop: location, events still to be handled
          client_fd,       \* the connection served, 0 for none
          receive_buffer,
          run,             \* how often the server was started again
          typed,           \* commands typed so far
          state,           \* of each connection, as the server's kernel has it
          backlog,         \* connections that wait for accept
          up, down,        \* bytes on their way to the server, to the gateway
          gw_fd,           \* the gateway's connection, 0 for none
          queue,           \* its upstream queue, with the message it holds
          ring,            \* its commands per node
          toNode,          \* commands on their way to a node, or in its hands
          executed         \* history: how often a node executed a command

CM == INSTANCE CommandManager
LP == INSTANCE LineParser

table   == <<entries, next_sequence, copies, elapsed>>
loop    == <<pc, revents, client_fd, receive_buffer, run>>
links   == <<state, backlog, up, down>>
gateway == <<gw_fd, queue, ring, toNode>>
vars    == <<table, loop, typed, links, gateway, executed>>

Connections == 1 .. MaxConnections
Commands == [run : 0 .. MaxRestarts, seq : CM!Sequences, node : Nodes]
Messages == [type : {"ACK", "NACK"}, command : Commands]
Texts    == [conn : Connections, message : Messages, whole : BOOLEAN]
Events   == {"stdin", "listen", "client", "hangup"}

\* A line feed, a carriage return and a text are different things.
ASSUME UnitsAssumption == NL \notin Texts /\ CR \notin Texts \cup {NL}

Command(i) == [run |-> run, seq |-> entries[i].sequence, node |-> entries[i].target]
Ack(c)     == [type |-> "ACK", command |-> c]
Nack(c)    == [type |-> "NACK", command |-> c]

Init == /\ CM!Init
        /\ pc = "top" /\ revents = {} /\ client_fd = 0 /\ receive_buffer = <<>>
        /\ run = 0 /\ typed = 0
        /\ state = [k \in Connections |-> "none"]
        /\ backlog = <<>>
        /\ up = [k \in Connections |-> <<>>]
        /\ down = [k \in Connections |-> <<>>]
        /\ gw_fd = 0 /\ queue = <<>>
        /\ ring = [n \in Nodes |-> <<>>]
        /\ toNode = [n \in Nodes |-> <<>>]
        /\ executed = [c \in Commands |-> 0]

-----------------------------------------------------------------------------
(* The server's main loop *)

\* send_all to the served connection: what the gateway has closed swallows it.
SendTo(k, cs) == down' = IF state[k] = "open" THEN [down EXCEPT ![k] = @ \o cs] ELSE down

\* The commands check_timeouts handed out, in the order of the table.
Handed == LET rank(i) == Cardinality({j \in CM!Emitted : j <= i})
          IN  [r \in 1 .. Cardinality(CM!Emitted) |->
                  Command(CHOOSE i \in CM!Emitted : rank(i) = r)]

\* Timeouts and retries; a retry for which there is no connection is dropped.
Top == /\ pc = "top"
       /\ CM!CheckTimeouts
       /\ IF client_fd = 0 THEN UNCHANGED down ELSE SendTo(client_fd, Handed)
       /\ pc' = "poll"
       /\ UNCHANGED <<revents, client_fd, receive_buffer, run, typed, state, backlog,
                      up, gateway, executed>>

Readable(k) == up[k] # <<>> \/ state[k] # "open"

Reported == {e \in Events :
               \/ e = "listen" /\ backlog # <<>>
               \/ client_fd # 0 /\ \/ e = "client" /\ Readable(client_fd)
                                   \/ e = "hangup" /\ state[client_fd] = "reset"}

\* What is left of the turn, in the order stdin, listen, client, hangup.
Order(e) == CASE e = "stdin" -> 1 [] e = "listen" -> 2 [] e = "client" -> 3
              [] e = "hangup" -> 4

At(e) == pc = "turn" /\ e \in revents /\ \A f \in revents : Order(e) <= Order(f)

Remain(events) == /\ revents' = events
                  /\ pc' = IF events = {} THEN "top" ELSE "turn"

\* poll reports all that is ready, a typed line perhaps, or times out.
Poll == /\ pc = "poll"
        /\ \E s \in {{}, {"stdin"}} : /\ s # {} => typed < MaxTyped
                                      /\ Remain(Reported \cup s)
        /\ UNCHANGED <<table, client_fd, receive_buffer, run, typed, links, gateway,
                       executed>>

\* `led <node> <value>': refused without a connection, or with a full table.
StdinSends(n) ==
    /\ client_fd # 0
    /\ CM!Send(n)
    /\ SendTo(client_fd, <<[run |-> run, seq |-> next_sequence, node |-> n]>>)

StdinRefused == /\ client_fd = 0 \/ \A i \in CM!Slots : CM!Used(i)
                /\ UNCHANGED <<table, down>>

Stdin == /\ At("stdin")
         /\ \/ \E n \in Nodes : StdinSends(n)
            \/ StdinRefused
         /\ typed' = typed + 1
         /\ Remain(revents \ {"stdin"})
         /\ UNCHANGED <<client_fd, receive_buffer, run, state, backlog, up, gateway,
                        executed>>

\* The server closes the connection it serves: what it has not read is lost.
CloseClient == /\ state' = [state EXCEPT ![client_fd] = "dead"]
               /\ up' = [up EXCEPT ![client_fd] = <<>>]

Replace == /\ IF client_fd # 0 THEN CloseClient ELSE UNCHANGED <<state, up>>
           /\ client_fd' = Head(backlog)
           /\ backlog' = Tail(backlog)
           /\ UNCHANGED <<table, run, typed, down, gateway, executed>>

\* Fault: the new connection starts with what was left of the old one's line.
AcceptKeepsBuffer ==
    /\ At("listen") /\ Replace /\ Remain({}) /\ UNCHANGED receive_buffer

\* Fault: the turn goes on with the events of the replaced connection.
AcceptGoesOn ==
    /\ At("listen") /\ Replace /\ Remain(revents \ {"listen"}) /\ receive_buffer' = <<>>

\* A new connection replaces the one that is served, and ends the turn.
Accept == /\ At("listen") /\ Replace /\ Remain({}) /\ receive_buffer' = <<>>

\* accept fails: the connection stays in the backlog.
AcceptFails == /\ At("listen")
               /\ Remain(revents \ {"listen"})
               /\ UNCHANGED <<table, client_fd, receive_buffer, run, typed, links,
                              gateway, executed>>

\* recv returns some of what has arrived.  The buffer has room for it: it holds
\* 16 of the longest lines a gateway builds, and never keeps a complete one.
Receive ==
    /\ At("client")
    /\ \E k \in 1 .. Len(up[client_fd]) :
          /\ receive_buffer' = receive_buffer \o SubSeq(up[client_fd], 1, k)
          /\ up' = [up EXCEPT ![client_fd] = SubSeq(@, k + 1, Len(@))]
    /\ pc' = "lines" /\ revents' = revents \ {"client"}
    /\ UNCHANGED <<table, client_fd, run, typed, state, backlog, down, gateway, executed>>

Drop == /\ CloseClient
        /\ client_fd' = 0
        /\ receive_buffer' = <<>>
        /\ Remain({})
        /\ UNCHANGED <<table, run, typed, backlog, down, gateway, executed>>

\* recv returns 0 or fails.
ReceiveEnds == /\ At("client")
               /\ up[client_fd] = <<>> /\ state[client_fd] # "open"
               /\ Drop

\* poll reported a hang-up, and the connection is still there.
HangUp == At("hangup") /\ Drop

\* Fault: looked for without its first quotation mark, ACK is in NACK too.
OnAnswerSuffix(m) ==
    \/ CM!OnAck(m.command.seq, m.command.node)
    \/ CM!AnswerIgnored(m.command.seq, m.command.node)

\* The number and the node are all that on_ack and on_nack are given.
OnAnswer(m) ==
    LET s == m.command.seq  n == m.command.node
    IN  \/ m.type = "ACK" /\ CM!OnAck(s, n)
        \/ m.type = "NACK" /\ CM!OnNack(s, n)
        \/ CM!AnswerIgnored(s, n)

\* A decoder reads the first object of a line and no further; a part of one, with
\* whatever behind it, is none.  An ACK anywhere in the line chooses the decoder,
\* and this one refuses a NACK.
Decodes(line) == /\ line # <<>> /\ line[1].whole
                 /\ (\E i \in DOMAIN line : line[i].message.type = "ACK")
                       => line[1].message.type = "ACK"

\* on_line for the first complete line.
OnLine == /\ pc = "lines" /\ LP!HasLine(receive_buffer)
          /\ LET line == LP!Line(receive_buffer)
             IN  \/ Decodes(line) /\ OnAnswer(line[1].message)
                 \/ ~Decodes(line) /\ UNCHANGED table
          /\ receive_buffer' = LP!Rest(receive_buffer)
          /\ UNCHANGED <<pc, revents, client_fd, run, typed, links, gateway, executed>>

LinesDone == /\ pc = "lines" /\ ~LP!HasLine(receive_buffer)
             /\ Remain(revents)
             /\ UNCHANGED <<table, client_fd, receive_buffer, run, typed, links,
                            gateway, executed>>

\* The process ends at any point, and is started again with an empty table.
Restart ==
    /\ run < MaxRestarts
    /\ run' = run + 1
    /\ entries' = [i \in CM!Slots |-> [state |-> "FREE", sequence |-> 0,
                                       target |-> NoNode, age |-> 0, retries |-> 0]]
    /\ next_sequence' = 1
    /\ copies' = [i \in CM!Slots |-> 0]
    /\ elapsed' = [i \in CM!Slots |-> 0]
    /\ pc' = "top" /\ revents' = {} /\ client_fd' = 0 /\ receive_buffer' = <<>>
    /\ backlog' = <<>>
    /\ state' = [k \in Connections |-> IF state[k] = "none" THEN "none" ELSE "dead"]
    /\ up' = [k \in Connections |-> <<>>]
    /\ UNCHANGED <<typed, down, gateway, executed>>

Loop == \/ Top \/ Poll \/ Stdin \/ Accept \/ AcceptFails
        \/ Receive \/ ReceiveEnds \/ OnLine \/ LinesDone \/ HangUp

-----------------------------------------------------------------------------
(* The gateway's server link *)

Connect ==
    /\ gw_fd = 0
    /\ \E k \in Connections :
          /\ state[k] = "none" /\ \A j \in 1 .. k - 1 : state[j] # "none"
          /\ gw_fd' = k
          /\ state' = [state EXCEPT ![k] = "open"]
          /\ backlog' = Append(backlog, k)
    /\ UNCHANGED <<table, loop, typed, up, down, queue, ring, toNode, executed>>

\* Bytes for a connection the server has closed go nowhere.
Arrives(units) == up' = IF state[gw_fd] = "open"
                        THEN [up EXCEPT ![gw_fd] = @ \o units] ELSE up

Text(m) == [conn |-> gw_fd, message |-> m, whole |-> TRUE]
Cut(m)  == [conn |-> gw_fd, message |-> m, whole |-> FALSE]

LinkSends == /\ gw_fd # 0 /\ queue # <<>>
             /\ Arrives(<<Text(Head(queue)), NL>>)
             /\ queue' = Tail(queue)
             /\ UNCHANGED <<table, loop, typed, state, backlog, down, gw_fd, ring,
                            toNode, executed>>

\* Closing with unread commands resets the connection.
LinkCloses == /\ state' = IF state[gw_fd] = "dead" THEN state
                          ELSE [state EXCEPT ![gw_fd] = IF down[gw_fd] = <<>>
                                                        THEN "closed" ELSE "reset"]
              /\ down' = [down EXCEPT ![gw_fd] = <<>>]
              /\ gw_fd' = 0

\* The connection fails in the middle of a message, which is kept.  What is there
\* of its text, a part or all of it, stays without a line feed.
LinkSendFails == /\ gw_fd # 0 /\ queue # <<>>
                 /\ Arrives(<<Cut(Head(queue))>>)
                 /\ LinkCloses
                 /\ UNCHANGED <<table, loop, typed, backlog, queue, ring, toNode, executed>>

LinkDisconnects == /\ gw_fd # 0
                   /\ LinkCloses
                   /\ UNCHANGED <<table, loop, typed, backlog, up, queue, ring, toNode, executed>>

\* Fault: the line stays in the receive buffer and is read again.
LinkRoutesAgain ==
    /\ gw_fd # 0 /\ down[gw_fd] # <<>>
    /\ LET c == Head(down[gw_fd])
       IN  /\ Len(ring[c.node]) < DeviceQueueCap
           /\ ring' = [ring EXCEPT ![c.node] = Append(@, c)]
    /\ UNCHANGED <<table, loop, typed, links, gw_fd, queue, toNode, executed>>

LinkRoutes ==
    /\ gw_fd # 0 /\ down[gw_fd] # <<>>
    /\ LET c == Head(down[gw_fd])
       IN  /\ Len(ring[c.node]) < DeviceQueueCap
           /\ ring' = [ring EXCEPT ![c.node] = Append(@, c)]
    /\ down' = [down EXCEPT ![gw_fd] = Tail(@)]
    /\ UNCHANGED <<table, loop, typed, state, backlog, up, gw_fd, queue, toNode, executed>>

\* What a NACK that could not be sent to its end may have left on the connection.
Parts(nack) == IF gw_fd \in Stalling THEN {<<Cut(nack)>>, <<Text(nack)>>} ELSE {}

\* The node is not there, or its ring is full: a NACK is sent at once.  Nobody
\* looks whether it was: it may be lost, or a part of it stay on the connection,
\* which goes on.
LinkRefuses ==
    /\ gw_fd # 0 /\ down[gw_fd] # <<>>
    /\ LET nack == Nack(Head(down[gw_fd]))
       IN  \E units \in {<<Text(nack), NL>>, <<>>} \cup Parts(nack) : Arrives(units)
    /\ down' = [down EXCEPT ![gw_fd] = Tail(@)]
    /\ UNCHANGED <<table, loop, typed, state, backlog, gateway, executed>>

Link == \/ Connect \/ LinkSends \/ LinkSendFails \/ LinkDisconnects
        \/ LinkRoutes \/ LinkRefuses

-----------------------------------------------------------------------------
(* The gateway's node workers, and the nodes *)

\* Fault: a command that was handed to its worker stays in the ring.
DeliversKeeping(n) ==
    /\ ring[n] # <<>> /\ Len(toNode[n]) < DeviceQueueCap
    /\ toNode' = [toNode EXCEPT ![n] = Append(@, Head(ring[n]))]
    /\ UNCHANGED <<table, loop, typed, links, gw_fd, queue, ring, executed>>

Delivers(n) ==
    /\ ring[n] # <<>>
    /\ ring' = [ring EXCEPT ![n] = Tail(@)]
    /\ toNode' = [toNode EXCEPT ![n] = Append(@, Head(ring[n]))]
    /\ UNCHANGED <<table, loop, typed, links, gw_fd, queue, executed>>

DeliveryFails(n) ==
    /\ ring[n] # <<>>
    /\ ring' = [ring EXCEPT ![n] = Tail(@)]
    /\ queue' = Append(queue, Nack(Head(ring[n])))
    /\ UNCHANGED <<table, loop, typed, links, gw_fd, toNode, executed>>

\* The node's connection ends or is taken over: what is pending is NACKed, and
\* what is under way to the node is lost.
ConnectionEnds(n) ==
    /\ ring[n] # <<>> \/ toNode[n] # <<>>
    /\ queue' = queue \o [i \in 1 .. Len(ring[n]) |-> Nack(ring[n][i])]
    /\ ring' = [ring EXCEPT ![n] = <<>>]
    /\ toNode' = [toNode EXCEPT ![n] = <<>>]
    /\ UNCHANGED <<table, loop, typed, links, gw_fd, executed>>

\* A node's answer reaches the gateway's queue, or is lost with the connection.
Answers(m) == queue' \in {Append(queue, m), queue}

\* The node executes the command and acknowledges it, or refuses it.
NodeExecutes(n) ==
    /\ toNode[n] # <<>>
    /\ executed' = [executed EXCEPT ![Head(toNode[n])] = @ + 1]
    /\ toNode' = [toNode EXCEPT ![n] = Tail(@)]
    /\ Answers(Ack(Head(toNode[n])))
    /\ UNCHANGED <<table, loop, typed, links, gw_fd, ring>>

NodeRefuses(n) ==
    /\ toNode[n] # <<>>
    /\ toNode' = [toNode EXCEPT ![n] = Tail(@)]
    /\ Answers(Nack(Head(toNode[n])))
    /\ UNCHANGED <<table, loop, typed, links, gw_fd, ring, executed>>

South(n) == \/ Delivers(n) \/ DeliveryFails(n) \/ ConnectionEnds(n)
            \/ NodeExecutes(n) \/ NodeRefuses(n)

-----------------------------------------------------------------------------
\* A second that makes a command older; any other changes nothing for the loop.
Second == /\ \E i \in CM!Slots : CM!Waiting(i) /\ entries[i].age < TimeoutSec
          /\ CM!Tick
          /\ UNCHANGED <<loop, typed, links, gateway, executed>>

Next == Loop \/ Restart \/ Link \/ (\E n \in Nodes : South(n)) \/ Second

Spec == Init /\ [][Next]_vars

-----------------------------------------------------------------------------
(* Properties *)

\* The types of the server, of the connections and of the gateway.
TypeOK ==
    /\ CM!TypeOK
    /\ pc \in {"top", "poll", "turn", "lines"}
    /\ revents \subseteq Events
    /\ client_fd \in 0 .. MaxConnections /\ gw_fd \in 0 .. MaxConnections
    /\ receive_buffer \in Seq(Texts \cup {NL})
    /\ run \in 0 .. MaxRestarts /\ typed \in 0 .. MaxTyped
    /\ state \in [Connections -> {"none", "open", "closed", "reset", "dead"}]
    /\ backlog \in Seq(Connections)
    /\ up \in [Connections -> Seq(Texts \cup {NL})]
    /\ down \in [Connections -> Seq(Commands)]
    /\ queue \in Seq(Messages)
    /\ ring \in [Nodes -> Seq(Commands)]
    /\ toNode \in [Nodes -> Seq(Commands)]
    /\ executed \in [Commands -> Nat]

\* What the server has still to read, as it will see it.
Incoming == receive_buffer \o IF client_fd = 0 THEN <<>> ELSE up[client_fd]

\* Whatever connection replaces whatever other in the middle of a message, a line
\* the server cuts out is of the connection it serves, and ends with a message that
\* is whole.  It is that message alone, unless a NACK of a command that could not be
\* routed was not sent to its end before it: only such a NACK has its line run on.
WholeLines ==
    /\ client_fd = 0 => receive_buffer = <<>>
    /\ \A i \in DOMAIN Incoming :
          IF Incoming[i] = NL
          THEN i > 1 /\ Incoming[i - 1] # NL /\ Incoming[i - 1].whole
          ELSE /\ Incoming[i].conn = client_fd
               /\ i < Len(Incoming) /\ Incoming[i + 1] # NL
                     => Incoming[i].message.type = "NACK"

\* The sockets block: recv is only called when there is something to return, so
\* that the loop, its timeouts and the console never wait there for one peer.  (Of
\* its sends, which block while the gateway does not read, nothing is said.)
NeverBlocks ==
    pc = "turn" /\ "client" \in revents => client_fd # 0 /\ Readable(client_fd)

\* "ACK from the gateway: the command was executed."  Within one run of the
\* server it was; an ACK can be taken for another command only when an earlier
\* run issued a command with the same number to the same node, and it executed.
FalseAckOnlyAfterRestart == \A i \in CM!Slots :
    entries[i].state = "ACKED" =>
        \E r \in 0 .. run : executed[[Command(i) EXCEPT !.run = r]] > 0

\* "NACK from the gateway: the command failed."  A command that was executed all
\* the same is one that was sent again: the NACK is for another copy of it.
NackedYetExecutedOnlyIfResent == \A i \in CM!Slots :
    entries[i].state = "NACKED" /\ executed[Command(i)] > 0 /\ run = 0
        => copies[i] > 1

\* No connection, queue or ring multiplies a command: it is executed at most as
\* often as the server decided to send it.
ExecutedNoMoreThanSent == \A i \in CM!Slots :
    CM!Used(i) => executed[Command(i)] <= copies[i]
=============================================================================
