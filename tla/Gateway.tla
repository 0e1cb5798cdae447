------------------------------ MODULE Gateway ------------------------------
(***************************************************************************)
(* The gateway process: the main thread (gateway_loop.c), the server link  *)
(* thread (server_link.c), the Bluetooth worker and one detached worker    *)
(* per WiFi connection, around the device registry (DeviceManager) and the *)
(* upstream queue (used here as the FIFO that MessageQueue implements).    *)
(*                                                                         *)
(* A step of a thread holds at most one access to state that another       *)
(* thread changes; a test of `running' that finds it set is part of the    *)
(* step it guards.  What a worker keeps in local variables is indexed by   *)
(* the worker.  A message in the queue is the command it is a gateway NACK *)
(* for, or Upload, which stands for any DATA, ACK or NACK of a node.       *)
(***************************************************************************)
EXTENDS Integers, Sequences, FiniteSets

CONSTANTS Nodes, Commands, Target, MaxDevices, QueueCap, NoCommand, NoConn,
          WifiWorkers,     \* the threads that can serve WiFi at one time
          BtWorker,        \* the Bluetooth thread
          NoNode, Upload, NoMsg,
          UpstreamCap,     \* MESSAGE_QUEUE_CAPACITY
          MaxLines,        \* bound: messages of a node in one read
          SerialPresent,   \* whether the serial device can be opened
          MaySignal        \* bound: whether the process is ever told to stop

Workers == WifiWorkers \cup {BtWorker}
Fds     == 0 .. Cardinality(Workers) - 1
Conns   == [fd : Fds, thread : Workers]

ASSUME WorkersAssumption == IsFiniteSet(WifiWorkers) /\ BtWorker \notin WifiWorkers
ASSUME TargetAssumption  == Target \in [Commands -> Nodes]
ASSUME SizesAssumption   == /\ MaxDevices \in Nat \ {0} /\ QueueCap \in Nat \ {0}
                            /\ UpstreamCap \in Nat \ {0} /\ MaxLines \in Nat
ASSUME ValuesAssumption  == /\ NoNode \notin Nodes /\ NoConn \notin Conns
                            /\ NoCommand \notin Commands /\ Upload \notin Commands
                            /\ NoMsg \notin Commands \cup {Upload}

VARIABLES devices, fate, acceptedFor, takenBy,    \* of DeviceManager
          running,            \* g_running, cleared by a signal
          main, newFd,        \* the main thread; the connection it accepted
          active,             \* active_workers of the WiFi worker group
          queue, shut,        \* the upstream queue and its shutting_down
          pc, fd, bound,      \* the workers: location, descriptor, bound_node_id
          cmd, todo, after,   \* command to send, messages to push, what then
          link, up, pending,  \* the server link: location, tcp_fd, held message
          sent, nacks,        \* history: commands sent, gateway NACKs for each
          told,               \* history: commands whose NACK the server was sent
          binder              \* history: the worker that bound each node last

DM == INSTANCE DeviceManager

dm      == <<devices, fate, acceptedFor, takenBy>>
mainV   == <<main, newFd, active>>
workV   == <<pc, fd, bound, cmd, todo, after>>
linkV   == <<link, up, pending>>
history == <<sent, nacks, told, binder>>
vars    == <<dm, running, mainV, queue, shut, workV, linkV, history>>

Self(w)      == [fd |-> fd[w], thread |-> w]
Transport(w) == IF w = BtWorker THEN "BLUETOOTH" ELSE "WIFI"

\* open() and accept() return the lowest free descriptor.
LowestFree(f) == LET used == {fd[w] : w \in Workers} \cup {newFd}
                 IN  f \in Fds \ used /\ \A g \in Fds \ used : f <= g

Init == /\ DM!Init
        /\ running = TRUE
        /\ main = "create" /\ newFd = -1 /\ active = 0
        /\ queue = <<>> /\ shut = FALSE
        /\ pc = [w \in Workers |-> "idle"]
        /\ fd = [w \in Workers |-> -1]
        /\ bound = [w \in Workers |-> NoNode]
        /\ cmd = [w \in Workers |-> NoCommand]
        /\ todo = [w \in Workers |-> <<>>]
        /\ after = [w \in Workers |-> "loop"]
        /\ link = "top" /\ up = FALSE /\ pending = NoMsg
        /\ sent = {} /\ told = {} /\ nacks = [c \in Commands |-> 0]
        /\ binder = [n \in Nodes |-> NoConn]

-----------------------------------------------------------------------------
(* A node worker: the loop shared by wifi_client_worker and bluetooth_worker *)

Goto(w, l) == pc' = [pc EXCEPT ![w] = l]

\* Push ms one by one, then go to l.
PushThen(w, ms, l) ==
    /\ Goto(w, IF ms = <<>> THEN l ELSE "push")
    /\ todo' = [todo EXCEPT ![w] = ms]
    /\ after' = [after EXCEPT ![w] = IF ms = <<>> THEN "loop" ELSE l]

\* A connection whose socket cannot be made non-blocking is closed at once.
WifiStart(w) ==
    /\ pc[w] = "start"
    /\ \E l \in {"loop", "close"} : Goto(w, l)
    /\ UNCHANGED <<dm, running, mainV, queue, shut, fd, bound, cmd, todo, after,
                   linkV, history>>

\* The serial port opens, or the worker retries after a second.
BtOpen ==
    /\ pc[BtWorker] = "open"
    /\ \/ /\ running /\ SerialPresent
          /\ Goto(BtWorker, "loop")
          /\ \E f \in Fds : LowestFree(f) /\ fd' = [fd EXCEPT ![BtWorker] = f]
       \/ /\ ~running
          /\ Goto(BtWorker, "exited")
          /\ UNCHANGED fd
    /\ UNCHANGED <<dm, running, mainV, queue, shut, bound, cmd, todo, after,
                   linkV, history>>

\* Top of the loop, nobody identified yet: no command can be there.
LoopUnbound(w) ==
    /\ pc[w] = "loop" /\ running
    /\ bound[w] = NoNode
    /\ Goto(w, "read")
    /\ UNCHANGED <<dm, running, mainV, queue, shut, fd, bound, cmd, todo, after,
                   linkV, history>>

LoopDequeue(w) ==
    /\ pc[w] = "loop" /\ running
    /\ bound[w] # NoNode
    /\ DM!TryDequeue(bound[w], Self(w))
    /\ Goto(w, "send")
    /\ cmd' = [cmd EXCEPT ![w] = DM!Head1(DM!Find(bound[w]))]
    /\ UNCHANGED <<running, mainV, queue, shut, fd, bound, todo, after, linkV,
                   history>>

\* No command: poll.  Not the owner any more: leave.
LoopNoCommand(w) ==
    /\ pc[w] = "loop" /\ running
    /\ bound[w] # NoNode
    /\ \/ DM!DequeueEmpty(bound[w], Self(w)) /\ Goto(w, "read")
       \/ DM!DequeueRefused(bound[w], Self(w)) /\ Goto(w, "teardown")
    /\ UNCHANGED <<running, mainV, queue, shut, fd, bound, cmd, todo, after,
                   linkV, history>>

LoopStopped(w) ==
    /\ pc[w] = "loop" /\ ~running
    /\ Goto(w, "teardown")
    /\ UNCHANGED <<dm, running, mainV, queue, shut, fd, bound, cmd, todo, after,
                   linkV, history>>

SendOK(w) ==
    /\ pc[w] = "send"
    /\ sent' = sent \cup {cmd[w]}
    /\ cmd' = [cmd EXCEPT ![w] = NoCommand]
    /\ Goto(w, "read")
    /\ UNCHANGED <<dm, running, mainV, queue, shut, fd, bound, todo, after, linkV,
                   nacks, told, binder>>

\* Fault: a command that could not be sent is forgotten.
SendFailsSilently(w) ==
    /\ pc[w] = "send"
    /\ \E l \in {"read", "teardown"} : PushThen(w, <<>>, l)
    /\ cmd' = [cmd EXCEPT ![w] = NoCommand]
    /\ UNCHANGED <<dm, running, mainV, queue, shut, fd, bound, linkV, history>>

\* Fault: an early return skips the disconnect.
SendFailsAndLeaves(w) ==
    /\ pc[w] = "send"
    /\ \E l \in {"read", "close"} : PushThen(w, <<cmd[w]>>, l)
    /\ cmd' = [cmd EXCEPT ![w] = NoCommand]
    /\ UNCHANGED <<dm, running, mainV, queue, shut, fd, bound, linkV, history>>

\* "cmd_encode_failed": the loop goes on; "transport_send_failed": it ends.
SendFails(w) ==
    /\ pc[w] = "send"
    /\ \E l \in {"read", "teardown"} : PushThen(w, <<cmd[w]>>, l)
    /\ cmd' = [cmd EXCEPT ![w] = NoCommand]
    /\ UNCHANGED <<dm, running, mainV, queue, shut, fd, bound, linkV, history>>

\* Poll timed out, nothing was read, or all of it was rejected: a message that
\* does not decode, or one of another node than the bound one.
ReadNothing(w) ==
    /\ pc[w] = "read"
    /\ Goto(w, "loop")
    /\ UNCHANGED <<dm, running, mainV, queue, shut, fd, bound, cmd, todo, after,
                   linkV, history>>

\* The Bluetooth thread sees a hang-up with the last data, the WiFi thread after.
AfterData(w) == IF w = BtWorker THEN {"loop", "teardown"} ELSE {"loop"}

\* A message whose JSON cannot be built or is too long is not queued.
Uploads(k) == [i \in 1 .. k |-> Upload]

\* Fault: the commands of the replaced connection are not NACKed.
ReadBindsForgetsReplaced(w, n, k) ==
    /\ pc[w] = "read" /\ bound[w] = NoNode
    /\ \/ DM!BindNew(n, Transport(w), Self(w))
       \/ DM!BindTakeover(n, Transport(w), Self(w), "returned")
    /\ \E l \in AfterData(w) : PushThen(w, Uploads(k), l)
    /\ bound' = [bound EXCEPT ![w] = n]
    /\ binder' = [binder EXCEPT ![n] = Self(w)]
    /\ UNCHANGED <<running, mainV, queue, shut, fd, cmd, linkV, sent, nacks, told>>

\* The first message of a connection binds it to the node it names; the
\* commands of the connection it replaces are NACKed ("transport_replaced").
\* A connection that is not bound owns no node, so that it never binds again.
ReadBinds(w, n, k) ==
    /\ pc[w] = "read" /\ bound[w] = NoNode
    /\ \/ /\ DM!BindNew(n, Transport(w), Self(w))
          /\ \E l \in AfterData(w) : PushThen(w, Uploads(k), l)
       \/ /\ DM!BindTakeover(n, Transport(w), Self(w), "returned")
          /\ \E l \in AfterData(w) :
                PushThen(w, DM!Pending(DM!Find(n)) \o Uploads(k), l)
    /\ bound' = [bound EXCEPT ![w] = n]
    /\ binder' = [binder EXCEPT ![n] = Self(w)]
    /\ UNCHANGED <<running, mainV, queue, shut, fd, cmd, linkV, sent, nacks, told>>

\* The registry is full, or knows the node on the other transport.
ReadNotBound(w, n) ==
    /\ pc[w] = "read" /\ bound[w] = NoNode
    /\ DM!BindFull(n) \/ DM!BindConflict(n, Transport(w))
    /\ Goto(w, "loop")
    /\ UNCHANGED <<running, mainV, queue, shut, fd, bound, cmd, todo, after,
                   linkV, history>>

\* Messages of the bound node go up, also when the worker lost the ownership.
ReadUploads(w, k) ==
    /\ pc[w] = "read" /\ bound[w] # NoNode
    /\ \E l \in AfterData(w) : PushThen(w, Uploads(k), l)
    /\ UNCHANGED <<dm, running, mainV, queue, shut, fd, bound, cmd, linkV, history>>

\* The peer closed, or the descriptor failed.
ReadEnds(w) ==
    /\ pc[w] = "read"
    /\ Goto(w, "teardown")
    /\ UNCHANGED <<dm, running, mainV, queue, shut, fd, bound, cmd, todo, after,
                   linkV, history>>

\* A push waits for room; after shutdown the message is dropped.
PushOne(w) ==
    /\ pc[w] = "push"
    /\ shut \/ Len(queue) < UpstreamCap
    /\ queue' = IF shut THEN queue ELSE Append(queue, Head(todo[w]))
    /\ nacks' = IF Head(todo[w]) = Upload THEN nacks
                ELSE [nacks EXCEPT ![Head(todo[w])] = @ + 1]
    /\ PushThen(w, Tail(todo[w]), after[w])
    /\ UNCHANGED <<dm, running, mainV, shut, fd, bound, cmd, linkV, sent, told,
                   binder>>

\* The owner takes its node offline and NACKs what is left
\* ("transport_disconnected"); a stale worker's disconnect is ignored.
Teardown(w) ==
    /\ pc[w] = "teardown"
    /\ \/ /\ bound[w] # NoNode
          /\ DM!Disconnect(bound[w], Self(w), "returned")
          /\ PushThen(w, DM!Pending(DM!Find(bound[w])), "close")
       \/ /\ bound[w] # NoNode
          /\ DM!DisconnectRefused(bound[w], Self(w))
          /\ PushThen(w, <<>>, "close")
       \/ /\ bound[w] = NoNode
          /\ PushThen(w, <<>>, "close")
          /\ UNCHANGED dm
    /\ UNCHANGED <<running, mainV, queue, shut, fd, bound, cmd, linkV, history>>

\* The descriptor is closed and the next connection starts unidentified.  The
\* Bluetooth thread opens the port again, a WiFi thread leaves.
Close(w) ==
    /\ pc[w] = "close"
    /\ fd' = [fd EXCEPT ![w] = -1]
    /\ bound' = [bound EXCEPT ![w] = NoNode]
    /\ Goto(w, IF w = BtWorker THEN "open" ELSE "remove")
    /\ UNCHANGED <<dm, running, mainV, queue, shut, cmd, todo, after, linkV, history>>

\* wifi_worker_group_remove, the last thing a WiFi thread does.
Remove(w) ==
    /\ pc[w] = "remove"
    /\ active' = IF active > 0 THEN active - 1 ELSE 0
    /\ Goto(w, "idle")
    /\ UNCHANGED <<dm, running, main, newFd, queue, shut, fd, bound, cmd, todo,
                   after, linkV, history>>

Worker(w) == \/ w = BtWorker /\ BtOpen
             \/ w # BtWorker /\ WifiStart(w)
             \/ LoopUnbound(w) \/ LoopDequeue(w) \/ LoopNoCommand(w) \/ LoopStopped(w)
             \/ SendOK(w) \/ SendFails(w)
             \/ ReadNothing(w) \/ ReadEnds(w)
             \/ \E n \in Nodes : \/ ReadNotBound(w, n)
                                 \/ \E k \in 0 .. MaxLines : ReadBinds(w, n, k)
             \/ \E k \in 0 .. MaxLines : ReadUploads(w, k)
             \/ PushOne(w)
             \/ Teardown(w) \/ Close(w)
             \/ w # BtWorker /\ Remove(w)

-----------------------------------------------------------------------------
(* The server link thread *)

LinkExit == link' = "exited" /\ up' = FALSE

\* It stops with the process, or on a queue that is shut down and drained; the
\* message it holds, and what is left in the queue, are lost then.
LinkTop ==
    /\ link = "top"
    /\ \/ ~running /\ LinkExit /\ UNCHANGED <<queue, pending>>
       \/ /\ running /\ pending = NoMsg /\ queue = <<>> /\ shut
          /\ LinkExit /\ UNCHANGED <<queue, pending>>
       \/ /\ running /\ pending = NoMsg /\ queue # <<>>
          /\ pending' = Head(queue) /\ queue' = Tail(queue)
          /\ link' = "serve" /\ UNCHANGED up
       \/ /\ running /\ (pending # NoMsg \/ (queue = <<>> /\ ~shut))
          /\ link' = "serve" /\ UNCHANGED <<queue, pending, up>>
    /\ UNCHANGED <<dm, running, mainV, shut, workV, history>>

LinkConnectFails ==
    /\ link = "serve" /\ ~up
    /\ link' = "top"
    /\ UNCHANGED <<dm, running, mainV, queue, shut, workV, up, pending, history>>

\* Connected, now or before, and nothing to send.
LinkIdle ==
    /\ link = "serve" /\ pending = NoMsg
    /\ up' = TRUE
    /\ link' = "poll"
    /\ UNCHANGED <<dm, running, mainV, queue, shut, workV, pending, history>>

LinkSendOK ==
    /\ link = "serve" /\ pending # NoMsg
    /\ up' = TRUE
    /\ pending' = NoMsg
    /\ told' = told \cup ({pending} \cap Commands)
    /\ link' = "poll"
    /\ UNCHANGED <<dm, running, mainV, queue, shut, workV, sent, nacks, binder>>

\* Fault: the message that could not be sent is dropped.
LinkSendFailsDrops ==
    /\ link = "serve" /\ pending # NoMsg
    /\ up' = FALSE
    /\ pending' = NoMsg
    /\ link' = "top"
    /\ UNCHANGED <<dm, running, mainV, queue, shut, workV, history>>

\* The message is kept for the next connection.
LinkSendFails ==
    /\ link = "serve" /\ pending # NoMsg
    /\ up' = FALSE
    /\ link' = "top"
    /\ UNCHANGED <<dm, running, mainV, queue, shut, workV, pending, history>>

\* Nothing to read, or the connection is gone.
LinkPollEnds ==
    /\ link = "poll"
    /\ link' = "top"
    /\ up' \in BOOLEAN
    /\ UNCHANGED <<dm, running, mainV, queue, shut, workV, pending, history>>

\* A command of the server is routed to its node's ring.
LinkRoutes(c) ==
    /\ link = "poll"
    /\ nacks[c] = 0
    /\ DM!Enqueue(Target[c], c)
    /\ UNCHANGED <<running, mainV, queue, shut, workV, linkV, history>>

\* Or answered at once with route_not_found, route_offline, route_queue_full;
\* whether that NACK could be sent makes no difference to the gateway.
LinkRefuses(c) ==
    /\ link = "poll"
    /\ fate[c] = "new" /\ nacks[c] = 0
    /\ DM!EnqueueRefused(Target[c], c)
    /\ nacks' = [nacks EXCEPT ![c] = 1]
    /\ told' \in {told, told \cup {c}}
    /\ UNCHANGED <<running, mainV, queue, shut, workV, linkV, sent, binder>>

LinkRuns == \/ LinkTop \/ LinkConnectFails \/ LinkIdle
            \/ LinkSendOK \/ LinkSendFails \/ LinkPollEnds

Link == LinkRuns \/ \E c \in Commands : LinkRoutes(c) \/ LinkRefuses(c)

-----------------------------------------------------------------------------
(* The main thread *)

\* Fault: the failed start leaves the queue open.
MainCreateLeavesQueue ==
    /\ main = "create"
    /\ \/ main' = "accept" /\ Goto(BtWorker, "open")
       \/ main' = "abort" /\ UNCHANGED pc
    /\ UNCHANGED <<dm, running, newFd, active, queue, shut, fd, bound, cmd, todo,
                   after, linkV, history>>

\* The Bluetooth thread starts, or its creation fails: the queue is shut down
\* so that the server link, already running, stops.
MainCreate ==
    /\ main = "create"
    /\ \/ /\ main' = "accept"
          /\ Goto(BtWorker, "open")
          /\ UNCHANGED shut
       \/ /\ main' = "abort"
          /\ shut' = TRUE
          /\ UNCHANGED pc
    /\ UNCHANGED <<dm, running, newFd, active, queue, fd, bound, cmd, todo, after,
                   linkV, history>>

\* A connection is accepted and counted before its thread exists.
MainAccept ==
    /\ main = "accept" /\ running
    /\ \E w \in WifiWorkers : pc[w] = "idle"
    /\ \E f \in Fds : LowestFree(f) /\ newFd' = f
    /\ active' = active + 1
    /\ main' = "spawn"
    /\ UNCHANGED <<dm, running, queue, shut, workV, linkV, history>>

MainSpawn ==
    /\ main = "spawn"
    /\ \E w \in WifiWorkers : /\ pc[w] = "idle"
                              /\ Goto(w, "start")
                              /\ fd' = [fd EXCEPT ![w] = newFd]
    /\ newFd' = -1
    /\ main' = "accept"
    /\ UNCHANGED <<dm, running, active, queue, shut, bound, cmd, todo, after, linkV,
                   history>>

MainSpawnFails ==
    /\ main = "spawn"
    /\ newFd' = -1
    /\ active' = active - 1
    /\ main' = "accept"
    /\ UNCHANGED <<dm, running, queue, shut, workV, linkV, history>>

MainStops ==
    /\ main = "accept" /\ ~running
    /\ main' = "shutdown"
    /\ UNCHANGED <<dm, running, newFd, active, queue, shut, workV, linkV, history>>

\* Fault: the joins begin with the queue open.
MainShutdownLeavesQueue ==
    /\ main = "shutdown"
    /\ main' = "join_bt"
    /\ UNCHANGED <<dm, running, newFd, active, queue, shut, workV, linkV, history>>

\* message_queue_shutdown comes before any join: workers may wait in a push.
MainShutdown ==
    /\ main = "shutdown"
    /\ shut' = TRUE
    /\ main' = "join_bt"
    /\ UNCHANGED <<dm, running, newFd, active, queue, workV, linkV, history>>

\* Fault: the detached WiFi threads are not waited for.
MainJoinsSkipsWifi ==
    /\ \/ main = "join_bt" /\ pc[BtWorker] = "exited" /\ main' = "join_link"
       \/ main \in {"join_link", "abort"} /\ link = "exited" /\ main' = "done"
    /\ UNCHANGED <<dm, running, newFd, active, queue, shut, workV, linkV, history>>

\* Bluetooth, then the WiFi group, then the server link; then all is destroyed.
MainJoins ==
    /\ \/ main = "join_bt" /\ pc[BtWorker] = "exited" /\ main' = "wait_wifi"
       \/ main = "wait_wifi" /\ active = 0 /\ main' = "join_link"
       \/ main \in {"join_link", "abort"} /\ link = "exited" /\ main' = "done"
    /\ UNCHANGED <<dm, running, newFd, active, queue, shut, workV, linkV, history>>

MainRuns == \/ MainCreate \/ MainSpawn \/ MainSpawnFails \/ MainStops
            \/ MainShutdown \/ MainJoins

\* SIGINT or SIGTERM.
Signal == /\ MaySignal /\ running
          /\ main # "done"
          /\ running' = FALSE
          /\ UNCHANGED <<dm, mainV, queue, shut, workV, linkV, history>>

\* gateway_loop_run returned.
Finished == main = "done" /\ UNCHANGED vars

Next == \/ \E w \in Workers : Worker(w)
        \/ Link
        \/ MainRuns \/ MainAccept
        \/ Signal
        \/ Finished

Spec == Init /\ [][Next]_vars

\* Every thread keeps running: no call in their loops blocks for ever except a
\* push into a full queue, which is a guard here.
Fairness == /\ \A w \in Workers : WF_vars(Worker(w))
            /\ WF_vars(LinkRuns)
            /\ WF_vars(MainRuns)

FairSpec == Spec /\ Fairness

\* And the server can be reached again and again, and no worker is passed over
\* for ever by others that push.
ServedSpec == /\ FairSpec
              /\ SF_vars(LinkSendOK)
              /\ \A w \in Workers : SF_vars(PushOne(w))

-----------------------------------------------------------------------------
(* Properties *)

Locations == {"idle", "start", "open", "loop", "send", "read", "push", "teardown",
              "close", "remove", "exited"}

\* The types of the gateway's state; the registry has its own invariant.
TypeOK == /\ DM!TypeOK
          /\ running \in BOOLEAN /\ shut \in BOOLEAN /\ up \in BOOLEAN
          /\ main \in {"create", "accept", "spawn", "shutdown", "join_bt",
                       "wait_wifi", "join_link", "abort", "done"}
          /\ newFd \in Fds \cup {-1}
          /\ active \in 0 .. Cardinality(WifiWorkers)
          /\ queue \in Seq(Commands \cup {Upload}) /\ Len(queue) <= UpstreamCap
          /\ pc \in [Workers -> Locations]
          /\ fd \in [Workers -> Fds \cup {-1}]
          /\ bound \in [Workers -> Nodes \cup {NoNode}]
          /\ cmd \in [Workers -> Commands \cup {NoCommand}]
          /\ todo \in [Workers -> Seq(Commands \cup {Upload})]
          /\ after \in [Workers -> {"loop", "read", "teardown", "close"}]
          /\ link \in {"top", "serve", "poll", "exited"}
          /\ pending \in Commands \cup {Upload, NoMsg}
          /\ sent \subseteq Commands /\ told \subseteq Commands
          /\ nacks \in [Commands -> 0 .. 1]
          /\ binder \in [Nodes -> Conns \cup {NoConn}]

\* The worker still runs its loop for the node it is bound to: it has not
\* reached its call of disconnect.
Serving(w, n) == /\ bound[w] = n
                 /\ pc[w] \in {"loop", "send", "read", "push", "teardown"}
                 /\ pc[w] = "push" => after[w] # "close"

\* A node that is online is owned by a worker that is bound to it and will
\* still send its commands or take it offline: no exit path, takeover or reuse
\* of a descriptor leaves a zombie that swallows commands.
OnlineHasLiveWorker == \A i \in DOMAIN devices :
    DM!Reachable(devices[i]) =>
       \E w \in Workers : /\ Self(w) = [fd |-> devices[i].fd, thread |-> devices[i].thread]
                         /\ Serving(w, devices[i].node)

\* The worker that bound a node last keeps it until it calls disconnect itself:
\* the late exit of an older connection does not take its node offline.
LastBinderStaysOwner == \A n \in Nodes, w \in Workers :
    (binder[n] = Self(w) /\ Serving(w, n)) =>
       /\ DM!Known(n)
       /\ DM!Reachable(DM!Find(n))
       /\ DM!OwnedBy(DM!Find(n), Self(w))

\* How often c is in the hands of the workers, to be sent or to be NACKed.
Sending(c)  == {w \in Workers : cmd[w] = c}
Returning(c) == UNION {{w} \X {i \in DOMAIN todo[w] : todo[w][i] = c} : w \in Workers}
InHand(c)    == Cardinality(Sending(c)) + Cardinality(Returning(c))

\* Every command that left its ring is in exactly one place: about to be sent or
\* NACKed by one worker, sent to the node, or NACKed once.  None is both sent
\* and NACKed, or neither.
CommandAccounting == \A c \in Commands :
    LET once == IF c \in sent THEN 1 ELSE 0
    IN  IF fate[c] \in {"taken", "returned"}
        THEN InHand(c) + once + nacks[c] = 1
        ELSE InHand(c) + once = 0 /\ (fate[c] = "queued" => nacks[c] = 0)

\* A NACK that entered the queue is there, held by the link, or sent to the
\* server, and never twice, however often the connection is lost meanwhile;
\* only the end of the process loses it.
NackAccounting == \A c \in Commands :
    LET waiting == Cardinality({i \in DOMAIN queue : queue[i] = c})
                   + (IF pending = c THEN 1 ELSE 0)
                   + (IF c \in told THEN 1 ELSE 0)
    IN  /\ waiting <= nacks[c]
        /\ (nacks[c] = 1 /\ fate[c] # "new" /\ ~shut) => waiting = 1

\* Nothing is lost between the ring of a node and the server: a command is sent
\* or becomes a NACK, and a NACK gets to the server.
NothingIsLost == CommandAccounting /\ NackAccounting

\* A worker takes commands that were accepted for its own connection only,
\* although try_dequeue does not compare descriptors.
TakenByItsOwner == DM!TakenByItsOwner

\* The queue, the registry and the worker group are destroyed after the last
\* thread that uses them has ended.
NoUseAfterDestroy == main = "done" =>
    /\ link = "exited"
    /\ \A w \in Workers : pc[w] \in {"idle", "exited"}

\* The signal ends the process: whoever was waiting, and wherever, every thread
\* gets to its end and the joins return.
Terminates == ~running ~> main = "done"

\* A failed start ends too, although nothing cleared running.
AbortTerminates == main = "abort" ~> main = "done"

\* A command that was accepted for a node is sent to it or NACKed.
EveryCommandAnswered == \A c \in Commands :
    fate[c] = "queued" ~> (c \in sent \/ nacks[c] > 0)
=============================================================================
