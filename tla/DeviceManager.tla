--------------------------- MODULE DeviceManager ---------------------------
(***************************************************************************)
(* The gateway's device registry (gateway/device_manager.c): which         *)
(* connection serves which node, and one ring of downlink commands per     *)
(* node.  Every operation takes the registry's mutex for its whole body,   *)
(* so every operation is one action; its outcomes are its disjuncts.       *)
(*                                                                         *)
(* The rings are kept as in the code (head, tail and count over a fixed    *)
(* array whose stale slots keep their old contents).  last_seen is left    *)
(* out: it is written and never read.  The history variables fate,         *)
(* acceptedFor and takenBy say what became of each command.                *)
(***************************************************************************)
EXTENDS Integers, Sequences, FiniteSets

CONSTANTS Nodes,        \* node identifiers
          Commands,     \* downlink commands, each submitted once
          Target,       \* Target[c] is the target_node field of command c
          Conns,        \* callers: [fd, thread] pairs
          MaxDevices,   \* DEVICE_MANAGER_MAX_DEVICES
          QueueCap,     \* DEVICE_COMMAND_QUEUE_CAPACITY
          NoCommand,    \* contents of a ring slot never written
          NoConn        \* no connection (history variables)

Transports == {"BLUETOOTH", "WIFI"}

ASSUME TargetAssumption  == Target \in [Commands -> Nodes]
ASSUME ConnsAssumption   == /\ \A k \in Conns : k = [fd |-> k.fd, thread |-> k.thread]
                            /\ \A k \in Conns : k.fd \in Nat
                            /\ NoConn \notin Conns
ASSUME SizesAssumption   == MaxDevices \in Nat \ {0} /\ QueueCap \in Nat \ {0}
ASSUME NoCommandAssumption == NoCommand \notin Commands

VARIABLES devices,      \* the entries in use, in registration order
          fate,         \* history: what became of each command
          acceptedFor,  \* history: the owner when the command was enqueued
          takenBy       \* history: the caller that dequeued the command

dmVars == <<devices, fate, acceptedFor, takenBy>>

Slots   == 0 .. QueueCap - 1
Threads == {k.thread : k \in Conns}
Fds     == {k.fd : k \in Conns}
Fates   == {"new", "queued", "taken", "returned", "dropped"}

Device == [node : Nodes, transport : Transports, fd : Fds \cup {-1},
           online : BOOLEAN, thread : Threads,
           queue : [Slots -> Commands \cup {NoCommand}],
           head : Slots, tail : Slots, count : 0 .. QueueCap]

-----------------------------------------------------------------------------
(* Lookup *)

\* Some entry of the registry carries this node id.
Known(n) == \E i \in DOMAIN devices : devices[i].node = n

\* The linear search: the first entry with that node id.
FindIndex(n) == CHOOSE i \in DOMAIN devices :
                   /\ devices[i].node = n
                   /\ \A j \in 1 .. i - 1 : devices[j].node # n

Find(n) == devices[FindIndex(n)]

\* A command can be routed to a node that is online with a valid fd.
Reachable(d) == d.online /\ d.fd >= 0

\* The ownership test of disconnect: both fields must match.
OwnedBy(d, k) == d.fd = k.fd /\ d.thread = k.thread

\* The commands still in the ring, oldest first.
Pending(d) == [i \in 1 .. d.count |-> d.queue[(d.head + i - 1) % QueueCap]]

PendingSet(d) == {Pending(d)[i] : i \in 1 .. d.count}

NewDevice(n, tr, fd, th, on) ==
    [node |-> n, transport |-> tr, fd |-> fd, online |-> on, thread |-> th,
     queue |-> [s \in Slots |-> NoCommand], head |-> 0, tail |-> 0, count |-> 0]

\* Fault: the indices of the ring are not reset together.
ResetQueueKeepsTail(d) == [d EXCEPT !.head = 0, !.count = 0]

ResetQueue(d) == [d EXCEPT !.head = 0, !.tail = 0, !.count = 0]

\* Replace the entry of node n.
Store(n, d) == devices' = [devices EXCEPT ![FindIndex(n)] = d]

\* The commands of a ring leave it together, with the given fate.
Settle(d, f) == fate' = [c \in Commands |-> IF c \in PendingSet(d) THEN f ELSE fate[c]]

-----------------------------------------------------------------------------
(* Operations the gateway's threads use *)

\* First connection of a node: a new entry at the end, unless the table is full.
BindNew(n, tr, k) ==
    /\ ~Known(n)
    /\ Len(devices) < MaxDevices
    /\ devices' = Append(devices, NewDevice(n, tr, k.fd, k.thread, TRUE))
    /\ UNCHANGED <<fate, acceptedFor, takenBy>>

BindFull(n) == ~Known(n) /\ Len(devices) >= MaxDevices /\ UNCHANGED dmVars

BindConflict(n, tr) == Known(n) /\ Find(n).transport # tr /\ UNCHANGED dmVars

\* The owner binds again: nothing but last_seen changes, the queue is kept.
BindAgain(n, tr, k) ==
    /\ Known(n)
    /\ Find(n).transport = tr
    /\ Find(n).online
    /\ OwnedBy(Find(n), k)
    /\ UNCHANGED dmVars

\* Fault: the new owner inherits the commands of the old one.
BindTakeoverKeepsQueue(n, tr, k, f) ==
    /\ Known(n)
    /\ Find(n).transport = tr
    /\ ~(Find(n).online /\ OwnedBy(Find(n), k))
    /\ Store(n, [Find(n) EXCEPT !.fd = k.fd, !.thread = k.thread, !.online = TRUE])
    /\ UNCHANGED <<fate, acceptedFor, takenBy>>

\* A reconnect or a takeover: the caller becomes the owner and the commands of
\* the previous connection leave the queue.  f is "returned" when the caller
\* passed a buffer for them, "dropped" when it passed NULL.
BindTakeover(n, tr, k, f) ==
    /\ Known(n)
    /\ Find(n).transport = tr
    /\ ~(Find(n).online /\ OwnedBy(Find(n), k))
    /\ Store(n, [ResetQueue(Find(n)) EXCEPT !.fd = k.fd, !.thread = k.thread,
                                            !.online = TRUE])
    /\ Settle(Find(n), f)
    /\ UNCHANGED <<acceptedFor, takenBy>>

\* Fault: the commands are copied to the caller but stay in the ring.
DisconnectKeepsQueue(n, k, f) ==
    /\ Known(n)
    /\ OwnedBy(Find(n), k)
    /\ Store(n, [Find(n) EXCEPT !.online = FALSE, !.fd = -1])
    /\ Settle(Find(n), f)
    /\ UNCHANGED <<acceptedFor, takenBy>>

\* Fault: a worker that lost the node takes it offline.
DisconnectByAnyone(n, k, f) ==
    /\ Known(n)
    /\ Store(n, [ResetQueue(Find(n)) EXCEPT !.online = FALSE, !.fd = -1])
    /\ Settle(Find(n), f)
    /\ UNCHANGED <<acceptedFor, takenBy>>

\* The owner's connection is gone: offline, and the queue goes to the caller.
Disconnect(n, k, f) ==
    /\ Known(n)
    /\ OwnedBy(Find(n), k)
    /\ Store(n, [ResetQueue(Find(n)) EXCEPT !.online = FALSE, !.fd = -1])
    /\ Settle(Find(n), f)
    /\ UNCHANGED <<acceptedFor, takenBy>>

\* The caller's buffer is too small for what is pending: all stays as it is.
BindTooSmall(n, tr, k) ==
    /\ Known(n)
    /\ Find(n).transport = tr
    /\ ~(Find(n).online /\ OwnedBy(Find(n), k))
    /\ Find(n).count > 0
    /\ UNCHANGED dmVars

DisconnectTooSmall(n, k) ==
    Known(n) /\ OwnedBy(Find(n), k) /\ Find(n).count > 0 /\ UNCHANGED dmVars

\* Anybody else is refused and changes nothing.
DisconnectRefused(n, k) ==
    /\ ~(Known(n) /\ OwnedBy(Find(n), k))
    /\ UNCHANGED dmVars

\* Fault: the room in the ring is not tested.
AcceptsWhenFull(n, c) == Target[c] = n /\ Known(n) /\ Reachable(Find(n))

\* Fault: the command's own target is not tested.
AcceptsOtherTarget(n, c) ==
    Known(n) /\ Reachable(Find(n)) /\ Find(n).count < QueueCap

\* Otherwise: ERROR, NOT_FOUND, OFFLINE or QUEUE_FULL, in this order.
Accepts(n, c) == /\ Target[c] = n
                 /\ Known(n)
                 /\ Reachable(Find(n))
                 /\ Find(n).count < QueueCap

Enqueue(n, c) ==
    /\ fate[c] = "new"
    /\ Accepts(n, c)
    /\ Store(n, [Find(n) EXCEPT !.queue[Find(n).tail] = c,
                                !.tail = (Find(n).tail + 1) % QueueCap,
                                !.count = @ + 1])
    /\ fate' = [fate EXCEPT ![c] = "queued"]
    /\ acceptedFor' = [acceptedFor EXCEPT
                         ![c] = [fd |-> Find(n).fd, thread |-> Find(n).thread]]
    /\ UNCHANGED takenBy

EnqueueRefused(n, c) == ~Accepts(n, c) /\ UNCHANGED dmVars

\* Fault: no ownership test at all.
MayDequeueAnyone(d, k) == Reachable(d)

\* The ownership test of try_dequeue compares the thread and not the fd.
MayDequeue(d, k) == Reachable(d) /\ d.thread = k.thread

\* Fault: the command is read from the wrong end.
Head1Newest(d) == d.queue[(d.head + d.count - 1) % QueueCap]

Head1(d) == d.queue[d.head]

\* Fault: the head does not move on.
TryDequeueKeepsHead(n, k) ==
    /\ Known(n)
    /\ MayDequeue(Find(n), k)
    /\ Find(n).count > 0
    /\ Store(n, [Find(n) EXCEPT !.count = @ - 1])
    /\ fate' = [fate EXCEPT ![Head1(Find(n))] = "taken"]
    /\ takenBy' = [takenBy EXCEPT ![Head1(Find(n))] = k]
    /\ UNCHANGED acceptedFor

TryDequeue(n, k) ==
    /\ Known(n)
    /\ MayDequeue(Find(n), k)
    /\ Find(n).count > 0
    /\ Store(n, [Find(n) EXCEPT !.head = (Find(n).head + 1) % QueueCap,
                                !.count = @ - 1])
    /\ fate' = [fate EXCEPT ![Head1(Find(n))] = "taken"]
    /\ takenBy' = [takenBy EXCEPT ![Head1(Find(n))] = k]
    /\ UNCHANGED acceptedFor

\* NOT_FOUND or CONFLICT
DequeueRefused(n, k) ==
    /\ ~(Known(n) /\ MayDequeue(Find(n), k))
    /\ UNCHANGED dmVars

DequeueEmpty(n, k) ==
    /\ Known(n) /\ MayDequeue(Find(n), k) /\ Find(n).count = 0
    /\ UNCHANGED dmVars

-----------------------------------------------------------------------------
(* The rest of the interface *)

\* Fault: a node that is known is registered again.
RegisterAgain(n, tr, fd, th) ==
    /\ Len(devices) < MaxDevices
    /\ devices' = Append(devices, NewDevice(n, tr, fd, th, fd > 0))
    /\ UNCHANGED <<fate, acceptedFor, takenBy>>

\* An fd of 0 registers an offline device, as the code does.
Register(n, tr, fd, th) ==
    /\ ~Known(n)
    /\ Len(devices) < MaxDevices
    /\ devices' = Append(devices, NewDevice(n, tr, fd, th, fd > 0))
    /\ UNCHANGED <<fate, acceptedFor, takenBy>>

\* The entries behind the removed one move up; its queue is gone.
Unregister(n) ==
    /\ Known(n)
    /\ devices' = [i \in 1 .. Len(devices) - 1 |->
                     IF i < FindIndex(n) THEN devices[i] ELSE devices[i + 1]]
    /\ Settle(Find(n), "dropped")
    /\ UNCHANGED <<acceptedFor, takenBy>>

\* Only online and fd change: the queue and the thread stay.
SetOnline(n, on, fd) ==
    /\ Known(n)
    /\ ~(on /\ fd < 0)
    /\ Store(n, [Find(n) EXCEPT !.online = on, !.fd = IF on THEN fd ELSE -1])
    /\ UNCHANGED <<fate, acceptedFor, takenBy>>

-----------------------------------------------------------------------------
Init == /\ devices = <<>>
        /\ fate = [c \in Commands |-> "new"]
        /\ acceptedFor = [c \in Commands |-> NoConn]
        /\ takenBy = [c \in Commands |-> NoConn]

\* The calls the gateway makes: always with a buffer for the pending commands.
GatewayNext ==
    \E n \in Nodes :
       \/ \E k \in Conns :
             \/ \E tr \in Transports : \/ BindNew(n, tr, k)
                                       \/ BindTakeover(n, tr, k, "returned")
             \/ Disconnect(n, k, "returned")
             \/ TryDequeue(n, k)
       \/ \E c \in Commands : Enqueue(n, c)

\* The calls only the tests make.
OtherNext ==
    \E n \in Nodes :
       \/ \E k \in Conns :
             \/ \E tr \in Transports : BindTakeover(n, tr, k, "dropped")
             \/ Disconnect(n, k, "dropped")
       \/ \E tr \in Transports, fd \in Fds \cup {-1}, th \in Threads :
             Register(n, tr, fd, th)
       \/ Unregister(n)
       \/ \E on \in BOOLEAN, fd \in Fds \cup {-1} : SetOnline(n, on, fd)

\* The calls that are refused, or that find nothing to do.
RefusedNext ==
    \E n \in Nodes :
       \/ BindFull(n)
       \/ \E tr \in Transports : BindConflict(n, tr)
       \/ \E k \in Conns :
             \/ \E tr \in Transports : BindAgain(n, tr, k) \/ BindTooSmall(n, tr, k)
             \/ DisconnectRefused(n, k)
             \/ DisconnectTooSmall(n, k)
             \/ DequeueRefused(n, k)
             \/ DequeueEmpty(n, k)
       \/ \E c \in Commands : EnqueueRefused(n, c)

Next == GatewayNext \/ OtherNext \/ RefusedNext

Spec == Init /\ [][Next]_dmVars

GatewaySpec == Init /\ [][GatewayNext \/ RefusedNext]_dmVars

-----------------------------------------------------------------------------
(* Properties *)

\* The types of the registry and of the history variables.
TypeOK == /\ devices \in Seq(Device)
          /\ Len(devices) <= MaxDevices
          /\ fate \in [Commands -> Fates]
          /\ acceptedFor \in [Commands -> [fd : Fds, thread : Threads] \cup {NoConn}]
          /\ takenBy \in [Commands -> Conns \cup {NoConn}]

\* A node id has one entry at most, so that the linear search finds the only
\* one: holds across registering, binding and the moves of unregister.
UniqueNodeIds == \A i, j \in DOMAIN devices :
                    devices[i].node = devices[j].node => i = j

\* head, tail and count of every ring always describe the same queue, also
\* after a wrap, a takeover or a disconnect in the middle of the ring.
RingConsistent == \A i \in DOMAIN devices :
    devices[i].tail = (devices[i].head + devices[i].count) % QueueCap

\* Every accepted command that nobody took, got back or dropped sits in exactly
\* one slot of exactly one ring, and rings hold nothing else: no operation
\* loses a command or keeps a copy of one it gave away.
RingsHoldTheQueued ==
    /\ \A i, j \in DOMAIN devices :
          \A p \in 1 .. devices[i].count, q \in 1 .. devices[j].count :
             Pending(devices[i])[p] = Pending(devices[j])[q] => i = j /\ p = q
    /\ UNION {PendingSet(devices[i]) : i \in DOMAIN devices}
          = {c \in Commands : fate[c] = "queued"}

\* A ring holds commands of its own node only, wherever unregister moved it.
RoutedToTarget == \A i \in DOMAIN devices :
    \A c \in PendingSet(devices[i]) : Target[c] = devices[i].node

\* With the gateway's calls, a node that is offline has nothing pending: what
\* the lost connection did not send was handed to its worker, and nothing was
\* accepted since.
OfflineHasNothingPending == \A i \in DOMAIN devices :
    ~Reachable(devices[i]) => devices[i].count = 0

\* With the gateway's calls, every pending command was accepted for the
\* connection that owns the node now: a takeover never inherits commands.
PendingIsForTheOwner == \A i \in DOMAIN devices :
    \A c \in PendingSet(devices[i]) :
       acceptedFor[c] = [fd |-> devices[i].fd, thread |-> devices[i].thread]

\* "fd + thread_id confirm that the caller is still the connection's owner":
\* a command is taken by the very connection it was accepted for.
TakenByItsOwner == \A c \in Commands :
    fate[c] = "taken" => takenBy[c] = acceptedFor[c]

\* The connection that serves n, and what it has to send.
OwnerOf(n) == IF Known(n) /\ Reachable(Find(n))
              THEN [fd |-> Find(n).fd, thread |-> Find(n).thread] ELSE NoConn
PendingOf(n) == IF Known(n) THEN Pending(Find(n)) ELSE <<>>

\* With the gateway's calls the registry gives every node a FIFO per
\* connection, whatever the order of takeovers, disconnects and stale calls.
Channels == INSTANCE NodeChannels WITH owner   <- [n \in Nodes |-> OwnerOf(n)],
                                       pending <- [n \in Nodes |-> PendingOf(n)]
ImplementsChannels == Channels!Spec
=============================================================================
