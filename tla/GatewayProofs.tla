--------------------------- MODULE GatewayProofs ---------------------------
(***************************************************************************)
(* Proofs about the gateway's threads, for any number of nodes, commands,  *)
(* WiFi threads and any size of registry, rings and upstream queue.        *)
(***************************************************************************)
EXTENDS Gateway, FiniteSetTheorems, SequenceTheorems, TLAPS

\* The registry, with what is proved about it.
Reg == INSTANCE DeviceManagerProofs

Mains == {"create", "accept", "spawn", "shutdown", "join_bt", "wait_wifi",
          "join_link", "abort", "done"}
Targets == {"loop", "read", "teardown", "close"}
Msgs    == Commands \cup {Upload}

\* What a worker's local variables hold, by the place it is at.
WorkerInv(w) == /\ pc[w] = "send" <=> cmd[w] # NoCommand
                /\ pc[w] = "push" <=> todo[w] # <<>>
                /\ pc[w] \in {"idle", "start", "open", "remove", "exited"}
                      => bound[w] = NoNode
                /\ pc[w] \in {"start", "loop", "send", "read", "push", "teardown", "close"}
                      => fd[w] \in Fds

WorkersInv == \A w \in Workers : WorkerInv(w)

RegistryInv == Reg!RegistryInv /\ Reg!RingsInv /\ Reg!OwnersInv

-----------------------------------------------------------------------------
(* Types and workers *)

LEMMA ConnsAre ==
    /\ \A k \in Conns : k = [fd |-> k.fd, thread |-> k.thread]
    /\ \A k \in Conns : k.fd \in Nat /\ k.fd \in Fds /\ k.thread \in Workers
    /\ NoConn \notin Conns
    /\ \A w \in Workers : fd[w] \in Fds => Self(w) \in Conns
<1>1. Fds \subseteq Nat
  BY DEF Fds
<1>2. \A k \in Conns : k = [fd |-> k.fd, thread |-> k.thread]
  BY DEF Conns
<1>3. \A k \in Conns : k.fd \in Nat /\ k.fd \in Fds /\ k.thread \in Workers
  BY <1>1 DEF Conns
<1>4. \A w \in Workers : fd[w] \in Fds => Self(w) \in Conns
  BY DEF Conns, Self
<1> QED BY <1>2, <1>3, <1>4, ValuesAssumption

\* The assumptions of DeviceManager hold of the gateway's constants.
LEMMA RegistryConstants ==
    /\ Target \in [Commands -> Nodes]
    /\ (/\ \A k \in Conns : k = [fd |-> k.fd, thread |-> k.thread]
        /\ \A k \in Conns : k.fd \in Nat
        /\ NoConn \notin Conns)
    /\ MaxDevices \in Nat \ {0} /\ QueueCap \in Nat \ {0}
    /\ NoCommand \notin Commands
  BY ConnsAre, TargetAssumption, SizesAssumption, ValuesAssumption

\* The two instances of DeviceManager, with and without its theorems, are one.
LEMMA SameRegistry ==
    ASSUME NEW n, NEW tr, NEW k, NEW c, NEW d, NEW f
    PROVE  /\ DM!Known(n) <=> Reg!Known(n)
           /\ DM!Find(n) = Reg!Find(n)
           /\ DM!Reachable(d) <=> Reg!Reachable(d)
           /\ DM!OwnedBy(d, k) <=> Reg!OwnedBy(d, k)
           /\ DM!Pending(d) = Reg!Pending(d)
           /\ DM!Head1(d) = Reg!Head1(d)
           /\ DM!BindNew(n, tr, k) <=> Reg!BindNew(n, tr, k)
           /\ DM!BindTakeover(n, tr, k, f) <=> Reg!BindTakeover(n, tr, k, f)
           /\ DM!Disconnect(n, k, f) <=> Reg!Disconnect(n, k, f)
           /\ DM!TryDequeue(n, k) <=> Reg!TryDequeue(n, k)
           /\ DM!Enqueue(n, c) <=> Reg!Enqueue(n, c)
<1>1. /\ DM!Known(n) <=> Reg!Known(n)
      /\ DM!Find(n) = Reg!Find(n) /\ DM!FindIndex(n) = Reg!FindIndex(n)
      /\ DM!Reachable(d) <=> Reg!Reachable(d)
      /\ DM!Reachable(DM!Find(n)) <=> Reg!Reachable(Reg!Find(n))
      /\ DM!OwnedBy(d, k) <=> Reg!OwnedBy(d, k)
      /\ DM!OwnedBy(DM!Find(n), k) <=> Reg!OwnedBy(Reg!Find(n), k)
      /\ DM!Pending(d) = Reg!Pending(d)
      /\ DM!Head1(d) = Reg!Head1(d)
  BY DEF DM!Known, Reg!Known, DM!Find, Reg!Find, DM!FindIndex, Reg!FindIndex,
         DM!Reachable, Reg!Reachable, DM!OwnedBy, Reg!OwnedBy, DM!Pending,
         Reg!Pending, DM!Head1, Reg!Head1
<1>2. DM!BindNew(n, tr, k) <=> Reg!BindNew(n, tr, k)
  BY <1>1 DEF DM!BindNew, Reg!BindNew, DM!NewDevice, Reg!NewDevice, DM!Slots, Reg!Slots
<1> QED
  BY <1>1, <1>2
  DEF DM!BindTakeover, Reg!BindTakeover, DM!Disconnect, Reg!Disconnect,
      DM!TryDequeue, Reg!TryDequeue, DM!Enqueue, Reg!Enqueue, DM!Store, Reg!Store,
      DM!FindIndex, Reg!FindIndex, DM!Find, Reg!Find,
      DM!ResetQueue, Reg!ResetQueue, DM!Settle, Reg!Settle, DM!PendingSet,
      Reg!PendingSet, DM!Pending, Reg!Pending, DM!Head1, Reg!Head1, DM!Reachable,
      Reg!Reachable, DM!MayDequeue, Reg!MayDequeue, DM!OwnedBy, Reg!OwnedBy,
      DM!Accepts, Reg!Accepts, DM!Known, Reg!Known

\* A step of one worker leaves the local variables of the others alone.
Others(w) == \A v \in Workers \ {w} :
    /\ pc'[v] = pc[v] /\ fd'[v] = fd[v] /\ bound'[v] = bound[v]
    /\ cmd'[v] = cmd[v] /\ todo'[v] = todo[v] /\ after'[v] = after[v]

LocalTypes == /\ pc \in [Workers -> Locations]
              /\ fd \in [Workers -> Fds \cup {-1}]
              /\ bound \in [Workers -> Nodes \cup {NoNode}]
              /\ cmd \in [Workers -> Commands \cup {NoCommand}]
              /\ todo \in [Workers -> Seq(Msgs)]
              /\ after \in [Workers -> Targets]

LEMMA PushThenIs ==
    ASSUME LocalTypes, NEW w \in Workers, NEW ms \in Seq(Msgs), NEW l \in Targets,
           PushThen(w, ms, l)
    PROVE  /\ pc' \in [Workers -> Locations]
           /\ todo' \in [Workers -> Seq(Msgs)]
           /\ after' \in [Workers -> Targets]
           /\ \A v \in Workers \ {w} : /\ pc'[v] = pc[v] /\ todo'[v] = todo[v]
                                       /\ after'[v] = after[v]
           /\ todo'[w] = ms
           /\ ms = <<>> => pc'[w] = l /\ after'[w] = "loop"
           /\ ms # <<>> => pc'[w] = "push" /\ after'[w] = l
  BY DEF LocalTypes, PushThen, Goto, Locations, Targets

LEMMA UploadsAreMsgs ==
    ASSUME NEW k \in Nat
    PROVE  Uploads(k) \in Seq(Msgs) /\ Len(Uploads(k)) = k
<1>1. Uploads(k) \in [1 .. k -> Msgs]
  BY DEF Uploads, Msgs
<1>2. Uploads(k) \in Seq(Msgs)
  BY <1>1, SeqDef
<1>3. DOMAIN Uploads(k) = 1 .. k
  BY <1>1
<1> QED BY <1>2, <1>3, LenProperties

\* Commands that leave a ring together are messages for the upstream queue.
LEMMA PendingAreMsgs ==
    ASSUME RegistryInv, NEW n \in Nodes, DM!Known(n)
    PROVE  /\ DM!Pending(DM!Find(n)) \in Seq(Msgs)
           /\ \A p \in DOMAIN DM!Pending(DM!Find(n)) :
                 Reg!Waits(Reg!FindIndex(n), p, DM!Pending(DM!Find(n))[p])
<1> DEFINE d == Reg!Find(n)
           i == Reg!FindIndex(n)
<1>1. d \in Reg!Device /\ i \in DOMAIN devices /\ d = devices[i] /\ d.count \in Nat
  <2>1. i \in 1 .. Len(devices) /\ d \in Reg!Device
    BY SameRegistry, RegistryConstants, Reg!FindFinds DEF RegistryInv
  <2>2. DOMAIN devices = 1 .. Len(devices)
    BY LenProperties DEF RegistryInv, Reg!RegistryInv, Reg!Entries
  <2>3. d.count \in Nat
    BY <2>1, RegistryConstants, Reg!PendingIs
  <2> QED BY <2>1, <2>2, <2>3 DEF Reg!Find
<1>2. DM!Pending(DM!Find(n)) = Reg!Pending(d) /\ DOMAIN Reg!Pending(d) = 1 .. d.count
  BY <1>1, SameRegistry, RegistryConstants, Reg!PendingIs
<1>3. ASSUME NEW p \in 1 .. d.count
      PROVE  Reg!Waits(i, p, Reg!Pending(d)[p])
  BY <1>1, <1>3 DEF Reg!Waits
<1>4. \A p \in 1 .. d.count : Reg!Pending(d)[p] \in Commands
  BY <1>3 DEF RegistryInv, Reg!RingsInv, Reg!Held
<1> HIDE DEF d, i
<1>5. Reg!Pending(d) = [p \in 1 .. d.count |-> Reg!Pending(d)[p]]
  BY <1>2 DEF Reg!Pending
<1>6. Reg!Pending(d) \in [1 .. d.count -> Msgs]
  BY <1>4, <1>5 DEF Msgs
<1>7. Reg!Pending(d) \in Seq(Msgs)
  BY <1>1, <1>6, SeqDef
<1> QED BY <1>2, <1>3, <1>7 DEF i

\* What a step of worker w does to the workers.
Keeps(w) == LocalTypes' /\ Others(w) /\ WorkerInv(w)'

LEMMA SimpleSteps ==
    ASSUME LocalTypes, NEW w \in Workers, WorkerInv(w),
           \/ w = BtWorker /\ BtOpen
           \/ WifiStart(w) \/ LoopUnbound(w) \/ LoopNoCommand(w) \/ LoopStopped(w)
           \/ SendOK(w) \/ ReadNothing(w) \/ ReadEnds(w) \/ Close(w) \/ Remove(w)
           \/ \E n \in Nodes : ReadNotBound(w, n)
    PROVE  Keeps(w)
<1> USE DEF Goto, LocalTypes, Locations, Keeps, Others, WorkerInv
<1>1. CASE w = BtWorker /\ BtOpen
  <2> PICK x \in Fds \cup {-1} : fd' = [fd EXCEPT ![w] = x] /\ (running => x \in Fds)
    BY <1>1 DEF BtOpen
  <2> QED BY <1>1 DEF BtOpen
<1>2. CASE WifiStart(w)
  BY <1>2 DEF WifiStart
<1>3. CASE LoopUnbound(w)
  BY <1>3 DEF LoopUnbound
<1>4. CASE LoopNoCommand(w)
  BY <1>4 DEF LoopNoCommand
<1>5. CASE LoopStopped(w)
  BY <1>5 DEF LoopStopped
<1>6. CASE SendOK(w)
  BY <1>6 DEF SendOK
<1>7. CASE ReadNothing(w)
  BY <1>7 DEF ReadNothing
<1>8. CASE ReadEnds(w)
  BY <1>8 DEF ReadEnds
<1>9. CASE Close(w)
  BY <1>9 DEF Close
<1>10. CASE Remove(w)
  BY <1>10 DEF Remove
<1>11. CASE \E n \in Nodes : ReadNotBound(w, n)
  BY <1>11 DEF ReadNotBound
<1> QED
  BY <1>1, <1>2, <1>3, <1>4, <1>5, <1>6, <1>7, <1>8, <1>9, <1>10, <1>11

\* Steps that end with messages to push, or with none.
LEMMA PushingKeeps ==
    ASSUME LocalTypes, NEW w \in Workers, WorkerInv(w), NEW ms \in Seq(Msgs),
           NEW l \in Targets, PushThen(w, ms, l),
           pc[w] \in {"send", "read", "push", "teardown"},
           UNCHANGED fd,
           \/ UNCHANGED bound
           \/ \E n \in Nodes : bound' = [bound EXCEPT ![w] = n],
           \/ UNCHANGED cmd /\ pc[w] # "send"
           \/ cmd' = [cmd EXCEPT ![w] = NoCommand]
    PROVE  Keeps(w)
<1>1. /\ pc' \in [Workers -> Locations]
      /\ todo' \in [Workers -> Seq(Msgs)]
      /\ after' \in [Workers -> Targets]
      /\ \A v \in Workers \ {w} : /\ pc'[v] = pc[v] /\ todo'[v] = todo[v]
                                  /\ after'[v] = after[v]
      /\ todo'[w] = ms
      /\ ms = <<>> => pc'[w] = l
      /\ ms # <<>> => pc'[w] = "push"
  BY PushThenIs
<1>2. /\ bound' \in [Workers -> Nodes \cup {NoNode}]
      /\ \A v \in Workers \ {w} : bound'[v] = bound[v]
  BY DEF LocalTypes
<1>3. /\ cmd' \in [Workers -> Commands \cup {NoCommand}] /\ cmd'[w] = NoCommand
      /\ \A v \in Workers \ {w} : cmd'[v] = cmd[v]
  BY DEF LocalTypes, WorkerInv
<1>4. pc'[w] \in {"loop", "read", "teardown", "close", "push"} /\ pc'[w] # "send"
  BY <1>1 DEF Targets
<1>5. WorkerInv(w)'
  BY <1>1, <1>3, <1>4 DEF WorkerInv, Targets
<1> QED BY <1>1, <1>2, <1>3, <1>5 DEF Keeps, Others, LocalTypes

LEMMA PushingSteps ==
    ASSUME LocalTypes, RegistryInv, NEW w \in Workers, WorkerInv(w),
           \/ SendFails(w)
           \/ \E n \in Nodes : \E k \in 0 .. MaxLines : ReadBinds(w, n, k)
           \/ \E k \in 0 .. MaxLines : ReadUploads(w, k)
           \/ PushOne(w) \/ Teardown(w)
    PROVE  Keeps(w)
<1>1. CASE SendFails(w)
  <2>1. cmd[w] \in Commands
    BY <1>1 DEF SendFails, WorkerInv, LocalTypes
  <2>2. <<cmd[w]>> \in Seq(Msgs)
    BY <2>1 DEF Msgs
  <2>3. PICK l \in Targets : PushThen(w, <<cmd[w]>>, l)
    BY <1>1 DEF SendFails, Targets
  <2> QED BY <1>1, <2>2, <2>3, PushingKeeps DEF SendFails
<1>2. ASSUME NEW n \in Nodes, NEW k \in 0 .. MaxLines, ReadBinds(w, n, k)
      PROVE  Keeps(w)
  <2>1. Uploads(k) \in Seq(Msgs)
    BY UploadsAreMsgs, SizesAssumption
  <2>2. PICK ms \in Seq(Msgs), l \in Targets : PushThen(w, ms, l)
    <3>1. CASE DM!BindNew(n, Transport(w), Self(w))
                  /\ \E l \in AfterData(w) : PushThen(w, Uploads(k), l)
      BY <2>1, <3>1 DEF AfterData, Targets
    <3>2. CASE /\ DM!BindTakeover(n, Transport(w), Self(w), "returned")
               /\ \E l \in AfterData(w) :
                     PushThen(w, DM!Pending(DM!Find(n)) \o Uploads(k), l)
      <4>1. DM!Pending(DM!Find(n)) \in Seq(Msgs)
        BY <3>2, PendingAreMsgs DEF DM!BindTakeover
      <4>2. DM!Pending(DM!Find(n)) \o Uploads(k) \in Seq(Msgs)
        BY <2>1, <4>1
      <4> QED BY <3>2, <4>2 DEF AfterData, Targets
    <3> QED BY <1>2, <3>1, <3>2 DEF ReadBinds
  <2> QED BY <1>2, <2>2, PushingKeeps DEF ReadBinds
<1>3. ASSUME NEW k \in 0 .. MaxLines, ReadUploads(w, k)
      PROVE  Keeps(w)
  <2>1. Uploads(k) \in Seq(Msgs)
    BY UploadsAreMsgs, SizesAssumption
  <2>2. PICK l \in Targets : PushThen(w, Uploads(k), l)
    BY <1>3 DEF ReadUploads, AfterData, Targets
  <2> QED BY <1>3, <2>1, <2>2, PushingKeeps DEF ReadUploads
<1>4. CASE PushOne(w)
  <2>1. todo[w] \in Seq(Msgs) /\ todo[w] # <<>> /\ after[w] \in Targets
    BY <1>4 DEF PushOne, LocalTypes, WorkerInv
  <2>2. Tail(todo[w]) \in Seq(Msgs)
    BY <2>1
  <2> QED BY <1>4, <2>1, <2>2, PushingKeeps DEF PushOne
<1>5. CASE Teardown(w)
  <2>1. PICK ms \in Seq(Msgs) : PushThen(w, ms, "close")
    <3>1. <<>> \in Seq(Msgs)
      OBVIOUS
    <3>2. ASSUME bound[w] # NoNode, DM!Disconnect(bound[w], Self(w), "returned")
          PROVE  DM!Pending(DM!Find(bound[w])) \in Seq(Msgs)
      BY <3>2, PendingAreMsgs DEF DM!Disconnect, LocalTypes
    <3> QED BY <1>5, <3>1, <3>2 DEF Teardown
  <2> QED BY <1>5, <2>1, PushingKeeps DEF Teardown, Targets
<1> QED BY <1>1, <1>2, <1>3, <1>4, <1>5

LEMMA DequeueKeeps ==
    ASSUME LocalTypes, RegistryInv, NEW w \in Workers, WorkerInv(w), LoopDequeue(w)
    PROVE  /\ Keeps(w)
           /\ bound[w] \in Nodes /\ Self(w) \in Conns
           /\ Reg!TryDequeue(bound[w], Self(w))
           /\ cmd' = [cmd EXCEPT ![w] = Reg!Head1(Reg!Find(bound[w]))]
           /\ Reg!Head1(Reg!Find(bound[w])) \in Commands
<1>1. bound[w] \in Nodes /\ Self(w) \in Conns
  BY ConnsAre DEF LoopDequeue, LocalTypes, WorkerInv
<1>2. Reg!TryDequeue(bound[w], Self(w))
  BY SameRegistry DEF LoopDequeue
<1>3. cmd' = [cmd EXCEPT ![w] = Reg!Head1(Reg!Find(bound[w]))]
  BY SameRegistry DEF LoopDequeue
<1>4. Reg!Head1(Reg!Find(bound[w])) \in Commands
  BY <1>1, <1>2, RegistryConstants, Reg!TakenWasAccepted DEF RegistryInv
<1> DEFINE h == Reg!Head1(Reg!Find(bound[w]))
<1>5. h \in Commands /\ cmd' = [cmd EXCEPT ![w] = h] /\ h # NoCommand
  BY <1>3, <1>4, ValuesAssumption
<1> HIDE DEF h
<1>6. Keeps(w)
  BY <1>5
     DEF LoopDequeue, Goto, LocalTypes, Locations, Keeps, Others, WorkerInv
<1> QED BY <1>1, <1>2, <1>3, <1>4, <1>6

LEMMA WorkerKeeps ==
    ASSUME LocalTypes, RegistryInv, NEW w \in Workers, WorkerInv(w), Worker(w)
    PROVE  Keeps(w)
  BY SimpleSteps, PushingSteps, DequeueKeeps DEF Worker

-----------------------------------------------------------------------------
(* Every step makes calls of the registry that its specification allows *)

\* The steps that call the registry, and what they call.
Takes(w)    == /\ LoopDequeue(w) /\ bound[w] \in Nodes /\ Self(w) \in Conns
               /\ Reg!TryDequeue(bound[w], Self(w))
Binds(w, n) == /\ \E k \in 0 .. MaxLines : ReadBinds(w, n, k)
               /\ Self(w) \in Conns /\ Transport(w) \in Reg!Transports
               /\ \/ Reg!BindNew(n, Transport(w), Self(w))
                  \/ Reg!BindTakeover(n, Transport(w), Self(w), "returned")
Ends(w)     == /\ Teardown(w) /\ bound[w] \in Nodes /\ Self(w) \in Conns
               /\ Reg!Disconnect(bound[w], Self(w), "returned")
Routes(c)   == LinkRoutes(c) /\ Reg!Enqueue(Target[c], c) /\ Target[c] \in Nodes

LEMMA WorkerCalls ==
    ASSUME LocalTypes, RegistryInv, NEW w \in Workers, WorkerInv(w), Worker(w)
    PROVE  /\ LoopDequeue(w) => Takes(w)
           /\ \A n \in Nodes : \A k \in 0 .. MaxLines : ReadBinds(w, n, k) => Binds(w, n)
           /\ Teardown(w) =>
                 \/ Ends(w)
                 \/ /\ UNCHANGED dm
                    /\ bound[w] \in Nodes =>
                          ~(Reg!Known(bound[w]) /\ Reg!OwnedBy(Reg!Find(bound[w]), Self(w)))
           /\ \/ LoopDequeue(w) \/ Teardown(w)
              \/ \E n \in Nodes : \E k \in 0 .. MaxLines : ReadBinds(w, n, k)
              \/ UNCHANGED dm
<1>1. ASSUME LoopDequeue(w)
      PROVE  Takes(w)
  BY <1>1, DequeueKeeps DEF Takes
<1>2. ASSUME NEW n \in Nodes, NEW k \in 0 .. MaxLines, ReadBinds(w, n, k)
      PROVE  Binds(w, n)
  <2>1. Self(w) \in Conns /\ Transport(w) \in Reg!Transports
    BY <1>2, ConnsAre
       DEF ReadBinds, LocalTypes, WorkerInv, Transport, Reg!Transports
  <2>2. \/ Reg!BindNew(n, Transport(w), Self(w))
        \/ Reg!BindTakeover(n, Transport(w), Self(w), "returned")
    BY <1>2, SameRegistry DEF ReadBinds
  <2> QED BY <1>2, <2>1, <2>2 DEF Binds
<1>3. ASSUME Teardown(w)
      PROVE  \/ Ends(w)
             \/ /\ UNCHANGED dm
                /\ bound[w] \in Nodes =>
                      ~(Reg!Known(bound[w]) /\ Reg!OwnedBy(Reg!Find(bound[w]), Self(w)))
  <2>1. CASE bound[w] # NoNode /\ DM!Disconnect(bound[w], Self(w), "returned")
    <3>1. bound[w] \in Nodes /\ Self(w) \in Conns
      BY <1>3, <2>1, ConnsAre DEF Teardown, LocalTypes, WorkerInv
    <3> QED BY <1>3, <2>1, <3>1, SameRegistry DEF Ends
  <2>2. CASE bound[w] # NoNode /\ DM!DisconnectRefused(bound[w], Self(w))
    BY <2>2, SameRegistry DEF DM!DisconnectRefused, DM!dmVars, dm
  <2>3. CASE bound[w] = NoNode /\ UNCHANGED dm
    BY <2>3, ValuesAssumption
  <2> QED BY <1>3, <2>1, <2>2, <2>3 DEF Teardown
<1>4. (\/ w = BtWorker /\ BtOpen
       \/ WifiStart(w) \/ LoopUnbound(w) \/ LoopNoCommand(w) \/ LoopStopped(w)
       \/ SendOK(w) \/ SendFails(w) \/ ReadNothing(w) \/ ReadEnds(w)
       \/ \E n \in Nodes : ReadNotBound(w, n)
       \/ \E k \in 0 .. MaxLines : ReadUploads(w, k)
       \/ PushOne(w) \/ Close(w) \/ Remove(w)) => UNCHANGED dm
  BY DEF BtOpen, WifiStart, LoopUnbound, LoopNoCommand, LoopStopped, SendOK,
         SendFails, ReadNothing, ReadEnds, ReadNotBound, ReadUploads, PushOne,
         Close, Remove, dm, DM!dmVars, DM!DequeueEmpty, DM!DequeueRefused,
         DM!BindFull, DM!BindConflict
<1> QED BY <1>1, <1>2, <1>3, <1>4 DEF Worker

LEMMA RegistryCalls ==
    ASSUME LocalTypes, WorkersInv, RegistryInv, [Next]_vars, ~UNCHANGED dm
    PROVE  \/ \E w \in Workers : Takes(w)
           \/ \E w \in Workers, n \in Nodes : Binds(w, n)
           \/ \E w \in Workers : Ends(w)
           \/ \E c \in Commands : Routes(c)
<1>1. ASSUME NEW w \in Workers, Worker(w)
      PROVE  Takes(w) \/ (\E n \in Nodes : Binds(w, n)) \/ Ends(w)
  BY <1>1, WorkerCalls DEF WorkersInv
<1>2. ASSUME NEW c \in Commands, LinkRoutes(c)
      PROVE  Routes(c)
  BY <1>2, SameRegistry, TargetAssumption DEF LinkRoutes, Routes
<1>3. ~(LinkRuns \/ \E c \in Commands : LinkRefuses(c))
  BY DEF LinkRuns, LinkTop, LinkConnectFails, LinkIdle, LinkSendOK, LinkSendFails,
         LinkPollEnds, LinkRefuses, DM!EnqueueRefused, DM!dmVars, dm
<1>4. ~(MainRuns \/ MainAccept \/ Signal \/ Finished)
  BY DEF MainRuns, MainCreate, MainSpawn, MainSpawnFails, MainStops, MainShutdown,
         MainJoins, MainAccept, Signal, Finished, dm, vars
<1>5. ~UNCHANGED vars
  BY DEF vars, dm
<1> QED BY <1>1, <1>2, <1>3, <1>4, <1>5 DEF Next, Link

LEMMA RegistryStep ==
    ASSUME LocalTypes, WorkersInv, RegistryInv, [Next]_vars
    PROVE  [Reg!GatewayNext \/ Reg!RefusedNext]_(Reg!dmVars)
<1>1. ~UNCHANGED dm => Reg!GatewayNext
  BY RegistryCalls DEF Takes, Binds, Ends, Routes, Reg!GatewayNext
<1> QED BY <1>1 DEF Reg!dmVars, dm

LEMMA RegistryKeeps ==
    ASSUME LocalTypes, WorkersInv, RegistryInv, [Next]_vars
    PROVE  RegistryInv'
<1>1. [Reg!GatewayNext \/ Reg!RefusedNext]_(Reg!dmVars)
  BY RegistryStep
<1>2. [Reg!Next]_(Reg!dmVars)
  BY <1>1 DEF Reg!Next
<1> QED
  BY <1>1, <1>2, RegistryConstants, Reg!StepKeepsRegistry, Reg!StepKeepsRings,
     Reg!StepKeepsOwners
  DEF RegistryInv

-----------------------------------------------------------------------------
(* The main thread, the link and the types of the rest *)

\* The WiFi threads that run, counted by active_workers.
Busy == {w \in WifiWorkers : pc[w] # "idle"}

\* What the main thread has counted, created and joined by the place it is at.
MainInv == /\ main = "spawn" => newFd \in Fds
           /\ main \in {"create", "abort"} => \A w \in Workers : pc[w] = "idle"
           /\ main \in {"wait_wifi", "join_link"} => pc[BtWorker] = "exited"
           /\ main \in {"join_link", "done"} => active = 0
           /\ main = "done" => link = "exited" /\ pc[BtWorker] \in {"idle", "exited"}
           /\ active = Cardinality(Busy) + (IF main = "spawn" THEN 1 ELSE 0)
           /\ active <= Cardinality(WifiWorkers)

OtherTypes == /\ running \in BOOLEAN /\ shut \in BOOLEAN /\ up \in BOOLEAN
              /\ main \in Mains
              /\ newFd \in Fds \cup {-1}
              /\ queue \in Seq(Msgs) /\ Len(queue) <= UpstreamCap
              /\ link \in {"top", "serve", "poll", "exited"}
              /\ pending \in Msgs \cup {NoMsg}
              /\ sent \subseteq Commands /\ told \subseteq Commands
              /\ binder \in [Nodes -> Conns \cup {NoConn}]
              /\ active \in Nat

LEMMA WorkerTypes ==
    ASSUME LocalTypes, OtherTypes, NEW w \in Workers, WorkerInv(w), Worker(w)
    PROVE  OtherTypes'
<1> USE DEF OtherTypes, mainV, linkV, history
<1>1. CASE PushOne(w)
  <2>1. Head(todo[w]) \in Msgs
    BY <1>1 DEF PushOne, LocalTypes, WorkerInv
  <2>2. queue' \in Seq(Msgs) /\ Len(queue') <= UpstreamCap
    BY <1>1, <2>1, SizesAssumption DEF PushOne
  <2> QED BY <1>1, <2>2 DEF PushOne
<1>2. ASSUME NEW n \in Nodes, NEW k \in 0 .. MaxLines, ReadBinds(w, n, k)
      PROVE  OtherTypes'
  <2>1. Self(w) \in Conns
    BY <1>2, ConnsAre DEF ReadBinds, LocalTypes, WorkerInv
  <2> QED BY <1>2, <2>1 DEF ReadBinds
<1>3. CASE SendOK(w)
  <2>1. cmd[w] \in Commands
    BY <1>3 DEF SendOK, LocalTypes, WorkerInv
  <2> QED BY <1>3, <2>1 DEF SendOK
<1>4. CASE Remove(w)
  BY <1>4 DEF Remove
<1>5. CASE \/ w = BtWorker /\ BtOpen
           \/ WifiStart(w) \/ LoopUnbound(w) \/ LoopNoCommand(w) \/ LoopStopped(w)
           \/ LoopDequeue(w) \/ SendFails(w) \/ ReadNothing(w) \/ ReadEnds(w)
           \/ \E n \in Nodes : ReadNotBound(w, n)
           \/ \E k \in 0 .. MaxLines : ReadUploads(w, k)
           \/ Teardown(w) \/ Close(w)
  BY <1>5 DEF BtOpen, WifiStart, LoopUnbound, LoopNoCommand, LoopStopped,
              LoopDequeue, SendFails, ReadNothing, ReadEnds, ReadNotBound,
              ReadUploads, Teardown, Close
<1> QED BY <1>1, <1>2, <1>3, <1>4, <1>5 DEF Worker

LEMMA LinkKeeps ==
    ASSUME OtherTypes, Link
    PROVE  /\ OtherTypes' /\ UNCHANGED <<workV, mainV, running, shut>>
           /\ link = "exited" => link' = "exited"
<1> USE DEF OtherTypes, mainV, workV, linkV, history
<1>1. CASE LinkTop
  <2>1. queue # <<>> => /\ Head(queue) \in Msgs /\ Tail(queue) \in Seq(Msgs)
                        /\ Len(Tail(queue)) <= UpstreamCap
    BY SizesAssumption
  <2> QED BY <1>1, <2>1 DEF LinkTop, LinkExit
<1>2. CASE LinkConnectFails \/ LinkIdle \/ LinkSendFails \/ LinkPollEnds
  BY <1>2 DEF LinkConnectFails, LinkIdle, LinkSendFails, LinkPollEnds
<1>3. CASE LinkSendOK
  BY <1>3 DEF LinkSendOK
<1>4. ASSUME NEW c \in Commands, LinkRoutes(c) \/ LinkRefuses(c)
      PROVE  /\ OtherTypes' /\ UNCHANGED <<workV, mainV, running, shut>>
             /\ link = "exited" => link' = "exited"
  BY <1>4 DEF LinkRoutes, LinkRefuses
<1> QED BY <1>1, <1>2, <1>3, <1>4 DEF Link, LinkRuns

LEMMA BusyIsFinite ==
    /\ IsFiniteSet(Busy) /\ Cardinality(Busy) \in Nat
    /\ IsFiniteSet(WifiWorkers) /\ Cardinality(WifiWorkers) \in Nat
    /\ Cardinality(Busy) <= Cardinality(WifiWorkers)
    /\ Busy = {} <=> Cardinality(Busy) = 0
<1>1. IsFiniteSet(WifiWorkers) /\ Busy \subseteq WifiWorkers
  BY WorkersAssumption DEF Busy
<1> QED BY <1>1, FS_Subset, FS_CardinalityType, FS_EmptySet

\* A worker that steps is not idle, and gets idle only by Remove.
LEMMA WorkersStayBusy ==
    ASSUME LocalTypes, NEW w \in Workers, WorkerInv(w), Keeps(w), Worker(w)
    PROVE  /\ pc[w] # "idle" /\ pc[w] # "exited"
           /\ pc'[w] = "idle" => Remove(w) /\ w \in WifiWorkers
           /\ ~Remove(w) => UNCHANGED <<main, newFd, active, shut>>
           /\ UNCHANGED <<main, newFd, link, shut>>
<1> USE DEF Goto, PushThen, LocalTypes, mainV, linkV
<1>1. CASE PushOne(w)
  <2>1. after[w] # "idle"
    BY DEF Targets
  <2> QED BY <1>1, <2>1 DEF PushOne
<1>2. CASE Remove(w) /\ w # BtWorker
  BY <1>2 DEF Remove, Workers
<1>3. CASE \/ w = BtWorker /\ BtOpen
           \/ WifiStart(w) \/ LoopUnbound(w) \/ LoopNoCommand(w) \/ LoopStopped(w)
           \/ LoopDequeue(w) \/ SendOK(w) \/ SendFails(w) \/ ReadNothing(w)
           \/ ReadEnds(w) \/ \E n \in Nodes : ReadNotBound(w, n)
           \/ \E k \in 0 .. MaxLines : ReadUploads(w, k)
           \/ \E n \in Nodes : \E k \in 0 .. MaxLines : ReadBinds(w, n, k)
           \/ Teardown(w) \/ Close(w)
  BY <1>3 DEF BtOpen, WifiStart, LoopUnbound, LoopNoCommand, LoopStopped, SendOK,
              LoopDequeue, SendFails, ReadNothing, ReadEnds, ReadNotBound,
              ReadUploads, ReadBinds, Teardown, Close, AfterData
<1> QED BY <1>1, <1>2, <1>3 DEF Worker

LEMMA WorkerKeepsMain ==
    ASSUME LocalTypes, OtherTypes, NEW w \in Workers, WorkerInv(w), Keeps(w),
           Worker(w), MainInv
    PROVE  MainInv'
<1>1. /\ pc[w] # "idle" /\ pc[w] # "exited"
      /\ pc'[w] = "idle" => Remove(w) /\ w \in WifiWorkers
      /\ ~Remove(w) => UNCHANGED <<main, newFd, active, shut>>
      /\ UNCHANGED <<main, newFd, link, shut>>
  BY WorkersStayBusy
<1>2. \A v \in Workers \ {w} : pc'[v] = pc[v]
  BY DEF Keeps, Others
<1>3. BtWorker \in Workers /\ WifiWorkers \subseteq Workers /\ BtWorker \notin WifiWorkers
  BY WorkersAssumption DEF Workers
<1>4. CASE Remove(w) /\ pc'[w] = "idle"
  <2>1. Busy' = Busy \ {w} /\ w \in Busy /\ w \in WifiWorkers
    BY <1>1, <1>2, <1>3, <1>4 DEF Busy
  <2>2. Cardinality(Busy') = Cardinality(Busy) - 1 /\ Cardinality(Busy') \in Nat
    BY <2>1, BusyIsFinite, FS_RemoveElement, FS_CardinalityType
  <2>3. active > 0 /\ active' = active - 1
    BY <1>4, <2>2, BusyIsFinite DEF Remove, MainInv, OtherTypes
  <2>4. active' = Cardinality(Busy') + (IF main' = "spawn" THEN 1 ELSE 0)
        /\ active' <= Cardinality(WifiWorkers)
    BY <1>1, <2>2, <2>3, BusyIsFinite DEF MainInv, OtherTypes
  <2> QED BY <1>1, <1>2, <1>3, <2>1, <2>3, <2>4, BusyIsFinite DEF MainInv, OtherTypes
<1>5. CASE ~(Remove(w) /\ pc'[w] = "idle")
  <2>1. pc'[w] # "idle" /\ ~Remove(w)
    BY <1>1, <1>5 DEF Remove, Goto, LocalTypes
  <2>2. Busy' = Busy
    BY <1>1, <1>2, <1>3, <2>1 DEF Busy
  <2> QED BY <1>1, <1>2, <1>3, <2>1, <2>2 DEF MainInv
<1> QED BY <1>4, <1>5

LEMMA MainKeeps ==
    ASSUME LocalTypes, OtherTypes, WorkersInv, MainInv, MainRuns \/ MainAccept
    PROVE  /\ LocalTypes' /\ OtherTypes' /\ WorkersInv' /\ MainInv'
           /\ UNCHANGED <<dm, running, queue, bound, cmd, todo, after, linkV, history>>
<1> USE DEF Goto, LocalTypes, OtherTypes, linkV, history, workV, Mains
<1>1. BtWorker \in Workers /\ WifiWorkers \subseteq Workers /\ BtWorker \notin WifiWorkers
  BY WorkersAssumption DEF Workers
<1>2. CASE MainCreate
  <2>1. Busy' = Busy
    BY <1>1, <1>2 DEF MainCreate, Busy
  <2> QED BY <1>1, <1>2, <2>1, ZenonT(60)
          DEF MainCreate, MainInv, WorkersInv, WorkerInv, Locations
<1>3. CASE MainAccept
  <2>1. Busy' = Busy /\ Cardinality(Busy) < Cardinality(WifiWorkers)
    <3>1. Busy' = Busy /\ Busy \subseteq WifiWorkers /\ Busy # WifiWorkers
      BY <1>3 DEF MainAccept, Busy
    <3> QED BY <3>1, BusyIsFinite, FS_Subset
  <2>2. active' = active + 1 /\ main = "accept" /\ main' = "spawn" /\ newFd' \in Fds
    BY <1>3 DEF MainAccept
  <2> QED BY <1>3, <2>1, <2>2, BusyIsFinite DEF MainAccept, MainInv, WorkersInv, WorkerInv
<1>4. CASE MainSpawn
  <2>1. PICK w \in WifiWorkers : /\ pc[w] = "idle" /\ pc' = [pc EXCEPT ![w] = "start"]
                                 /\ fd' = [fd EXCEPT ![w] = newFd]
    BY <1>4 DEF MainSpawn
  <2>2. Busy' = Busy \cup {w} /\ w \notin Busy
    BY <1>1, <2>1 DEF Busy
  <2>3. Cardinality(Busy') = Cardinality(Busy) + 1
    BY <2>2, BusyIsFinite, FS_AddElement
  <2>4. newFd \in Fds /\ main = "spawn" /\ main' = "accept" /\ active' = active
    BY <1>4 DEF MainSpawn, MainInv
  <2>5. WorkersInv' /\ LocalTypes' /\ OtherTypes'
    BY <1>1, <1>4, <2>1, <2>4 DEF MainSpawn, WorkersInv, WorkerInv, Locations
  <2> QED BY <1>4, <2>3, <2>4, <2>5, BusyIsFinite DEF MainSpawn, MainInv
<1>5. CASE MainSpawnFails
  <2>1. Busy' = Busy /\ active' = active - 1 /\ active = Cardinality(Busy) + 1
    BY <1>5 DEF MainSpawnFails, Busy, MainInv
  <2> QED BY <1>5, <2>1, BusyIsFinite DEF MainSpawnFails, MainInv, WorkersInv, WorkerInv
<1>6. CASE MainStops \/ MainShutdown
  <2>1. Busy' = Busy
    BY <1>6 DEF MainStops, MainShutdown, Busy
  <2> QED BY <1>6, <2>1 DEF MainStops, MainShutdown, MainInv, WorkersInv, WorkerInv
<1>7. CASE MainJoins
  <2>1. Busy' = Busy
    BY <1>7 DEF MainJoins, Busy
  <2>2. main = "abort" => active = 0
    <3>1. main = "abort" => Busy = {}
      BY <1>1 DEF MainInv, Busy
    <3> QED BY <3>1, BusyIsFinite DEF MainInv
  <2> QED BY <1>1, <1>7, <2>1, <2>2 DEF MainJoins, MainInv, WorkersInv, WorkerInv
<1> QED BY <1>2, <1>3, <1>4, <1>5, <1>6, <1>7 DEF MainRuns

\* The inductive invariant for types, locations and registry.
BaseInv == LocalTypes /\ OtherTypes /\ WorkersInv /\ MainInv /\ RegistryInv

LEMMA InitBase == Init => BaseInv
<1> SUFFICES ASSUME Init PROVE BaseInv
  OBVIOUS
<1>1. DM!Init <=> Reg!Init
  BY DEF DM!Init, Reg!Init
<1>2. RegistryInv
  BY <1>1, RegistryConstants, Reg!InitRegistry, Reg!InitRings, Reg!InitOwners
     DEF Init, RegistryInv
<1>3. LocalTypes /\ WorkersInv
  <2>1. <<>> \in Seq(Msgs)
    OBVIOUS
  <2>2. LocalTypes
    BY <2>1 DEF Init, LocalTypes, Locations, Targets
  <2>3. WorkersInv
    BY DEF Init, WorkersInv, WorkerInv
  <2> QED BY <2>2, <2>3
<1>5. OtherTypes
  <2>1. queue \in Seq(Msgs) /\ Len(queue) <= UpstreamCap
    BY SizesAssumption DEF Init
  <2>2. binder \in [Nodes -> Conns \cup {NoConn}]
    BY DEF Init
  <2> QED BY <2>1, <2>2 DEF Init, OtherTypes, Mains
<1>4. MainInv
  <2>1. Busy = {}
    BY DEF Init, Busy, Workers
  <2> QED BY <2>1, BusyIsFinite DEF Init, MainInv
<1> QED BY <1>2, <1>3, <1>4, <1>5 DEF BaseInv

LEMMA StepKeepsBase == BaseInv /\ [Next]_vars => BaseInv'
<1> SUFFICES ASSUME BaseInv, [Next]_vars PROVE BaseInv'
  OBVIOUS
<1>1. RegistryInv'
  BY RegistryKeeps DEF BaseInv
<1>2. ASSUME NEW w \in Workers, Worker(w)
      PROVE  LocalTypes' /\ OtherTypes' /\ WorkersInv' /\ MainInv'
  <2>1. WorkerInv(w) /\ Keeps(w)
    BY <1>2, WorkerKeeps DEF BaseInv, WorkersInv
  <2>2. WorkersInv'
    BY <2>1 DEF BaseInv, WorkersInv, WorkerInv, Keeps, Others
  <2> QED BY <1>2, <2>1, <2>2, WorkerTypes, WorkerKeepsMain DEF BaseInv, Keeps
<1>3. CASE Link
  <2>1. /\ OtherTypes' /\ UNCHANGED <<workV, mainV, running, shut>>
        /\ link = "exited" => link' = "exited"
    BY <1>3, LinkKeeps DEF BaseInv
  <2>2. Busy' = Busy
    BY <2>1 DEF Busy, workV
  <2> QED BY <1>1, <2>1, <2>2
          DEF BaseInv, LocalTypes, WorkersInv, WorkerInv, MainInv, workV, mainV
<1>4. CASE MainRuns \/ MainAccept
  BY <1>1, <1>4, MainKeeps DEF BaseInv
<1>5. CASE Signal \/ UNCHANGED vars
  <2>1. UNCHANGED <<workV, mainV, linkV, queue, shut, history>> /\ running' \in BOOLEAN
    BY <1>5 DEF Signal, vars, BaseInv, OtherTypes
  <2>2. Busy' = Busy
    BY <2>1 DEF Busy, workV
  <2> QED BY <1>1, <2>1, <2>2
          DEF BaseInv, LocalTypes, OtherTypes, WorkersInv, WorkerInv, MainInv, workV,
              mainV, linkV, history
<1> QED BY <1>1, <1>2, <1>3, <1>4, <1>5 DEF Next, Finished, BaseInv

LEMMA BaseCorrect == Spec => []BaseInv
  BY InitBase, StepKeepsBase, PTL DEF Spec

\* Nothing is destroyed while a thread may still use it: the joins, and the count
\* of the WiFi threads, cover every thread, on the way through a failed start too.
THEOREM DestroyedLast == Spec => []NoUseAfterDestroy
<1>1. ASSUME BaseInv, main = "done"
      PROVE  link = "exited" /\ \A w \in Workers : pc[w] \in {"idle", "exited"}
  <2>1. Cardinality(Busy) = 0
    BY <1>1, BusyIsFinite DEF BaseInv, MainInv
  <2>2. Busy = {}
    BY <2>1, BusyIsFinite
  <2> QED BY <1>1, <2>2 DEF BaseInv, MainInv, Busy, Workers
<1>2. BaseInv => NoUseAfterDestroy
  BY <1>1 DEF NoUseAfterDestroy
<1> QED BY <1>2, BaseCorrect, PTL

-----------------------------------------------------------------------------
(* Ownership: the registry and the workers agree on who serves a node *)

\* What is online is owned by a worker that serves it, and a worker that bound a
\* node last owns it while it serves it.
OwnersServe == \A n \in Nodes : Reg!Owners[n] # NoConn =>
    \E w \in Workers : Reg!Owners[n] = Self(w) /\ Serving(w, n)
BindersOwn  == \A n \in Nodes, w \in Workers :
    binder[n] = Self(w) /\ Serving(w, n) => Reg!Owners[n] = Self(w)

OwnershipInv == OwnersServe /\ BindersOwn

\* Workers are different connections, whatever their descriptors are.
LEMMA SelfIs ==
    ASSUME LocalTypes, WorkersInv
    PROVE  /\ \A v, w \in Workers : Self(v) = Self(w) => v = w
           /\ \A w \in Workers, n \in Nodes : Serving(w, n) =>
                 Self(w) \in Conns /\ Self(w) # NoConn /\ fd[w] \in Fds
<1>1. \A v, w \in Workers : Self(v) = Self(w) => v = w
  BY DEF Self
<1>2. \A w \in Workers, n \in Nodes : Serving(w, n) => fd[w] \in Fds
  BY DEF Serving, WorkersInv, WorkerInv
<1> QED BY <1>1, <1>2, ConnsAre

\* The steps that neither bind a node nor disconnect leave the serving as it is.
LEMMA ServingStays ==
    ASSUME LocalTypes, NEW w \in Workers, WorkerInv(w), Keeps(w), Worker(w),
           ~Teardown(w),
           \A n \in Nodes : \A k \in 0 .. MaxLines : ~ReadBinds(w, n, k)
    PROVE  \A v \in Workers, n \in Nodes :
              /\ Serving(v, n)' <=> Serving(v, n)
              /\ Serving(v, n) => fd'[v] = fd[v]
              /\ binder' = binder
<1>1. \A v \in Workers \ {w} : /\ pc'[v] = pc[v] /\ fd'[v] = fd[v]
                               /\ bound'[v] = bound[v] /\ after'[v] = after[v]
  BY DEF Keeps, Others
<1>2. ASSUME NEW n \in Nodes
      PROVE  /\ Serving(w, n)' <=> Serving(w, n)
             /\ Serving(w, n) => fd'[w] = fd[w]
             /\ binder' = binder
  <2> USE DEF Serving, LocalTypes, WorkerInv, Goto, PushThen, AfterData, history
  <2>0. n # NoNode
    BY ValuesAssumption
  <2>1. CASE w = BtWorker /\ BtOpen
    BY <2>0, <2>1 DEF BtOpen
  <2>2. CASE WifiStart(w) \/ Close(w) \/ Remove(w)
    BY <2>0, <2>2 DEF WifiStart, Close, Remove
  <2>3. CASE LoopUnbound(w) \/ LoopStopped(w) \/ ReadNothing(w) \/ ReadEnds(w)
    BY <2>3 DEF LoopUnbound, LoopStopped, ReadNothing, ReadEnds
  <2>4. CASE LoopDequeue(w) \/ LoopNoCommand(w) \/ SendOK(w)
    BY <2>4 DEF LoopDequeue, LoopNoCommand, SendOK
  <2>5. CASE SendFails(w)
    BY <2>5 DEF SendFails
  <2>6. CASE \E m \in Nodes : ReadNotBound(w, m)
    BY <2>6 DEF ReadNotBound
  <2>7. CASE \E k \in 0 .. MaxLines : ReadUploads(w, k)
    BY <2>7 DEF ReadUploads
  <2>8. CASE PushOne(w)
    BY <2>8 DEF PushOne, Targets
  <2> QED BY <2>1, <2>2, <2>3, <2>4, <2>5, <2>6, <2>7, <2>8 DEF Worker
<1>3. ASSUME NEW v \in Workers \ {w}, NEW n \in Nodes
      PROVE  Serving(v, n)' <=> Serving(v, n)
  BY <1>1 DEF Serving
<1> QED BY <1>1, <1>2, <1>3

\* What a connection takes was accepted for it: the owner's thread is the one that
\* asks, and its descriptor is the owner's.
LEMMA TakesAsOwner ==
    ASSUME LocalTypes, WorkersInv, RegistryInv, OwnersServe,
           NEW w \in Workers, Takes(w)
    PROVE  Reg!Holder(Reg!Find(bound[w])) = Self(w)
<1> DEFINE n == bound[w]
           k == Self(w)
<1>1. n \in Nodes /\ k \in Conns /\ Reg!TryDequeue(n, k)
  BY DEF Takes
<1>2. k.thread = w
  BY DEF Self
<1> HIDE DEF n, k
<1>3. /\ Reg!Reachable(Reg!Find(n)) /\ Reg!Holder(Reg!Find(n)) \in Conns
      /\ Reg!Holder(Reg!Find(n)).thread = w
  BY <1>1, <1>2, RegistryConstants, Reg!TakenWasAccepted DEF RegistryInv
<1>4. Reg!Known(n)
  BY <1>1 DEF Reg!TryDequeue
<1>5. Reg!Owners[n] = Reg!Holder(Reg!Find(n))
  BY <1>1, <1>3, <1>4 DEF Reg!Owners, Reg!OwnerOf, Reg!Holder
<1>6. PICK v \in Workers : Reg!Owners[n] = Self(v)
  BY <1>1, <1>3, <1>5, ConnsAre DEF OwnersServe
<1>7. Self(v).thread = v
  BY DEF Self
<1> QED BY <1>3, <1>5, <1>6, <1>7 DEF k, n

\* So that every step calls the registry as an owner does.
LEMMA OwnedStep ==
    ASSUME LocalTypes, WorkersInv, RegistryInv, OwnersServe, [Next]_vars
    PROVE  [Reg!OwnedNext \/ Reg!RefusedNext]_(Reg!dmVars)
<1>1. ~UNCHANGED dm => Reg!OwnedNext
  BY RegistryCalls, TakesAsOwner DEF Takes, Binds, Ends, Routes, Reg!OwnedNext
<1> QED BY <1>1 DEF Reg!dmVars, dm

\* The owners change when a worker binds, or ends as the owner.
LEMMA OwnersChange ==
    ASSUME LocalTypes, WorkersInv, RegistryInv, RegistryInv', OwnersServe
    PROVE  /\ UNCHANGED dm => Reg!Owners' = Reg!Owners
           /\ \A w \in Workers : Takes(w) => Reg!Owners' = Reg!Owners
           /\ \A w \in Workers, n \in Nodes :
                 Binds(w, n) => Reg!Owners' = [Reg!Owners EXCEPT ![n] = Self(w)]
           /\ \A w \in Workers :
                 Ends(w) => Reg!Owners' = [Reg!Owners EXCEPT ![bound[w]] = NoConn]
           /\ \A c \in Commands : Routes(c) => Reg!Owners' = Reg!Owners
<1>1. ASSUME UNCHANGED dm
      PROVE  Reg!Owners' = Reg!Owners
  BY <1>1 DEF dm, Reg!Owners, Reg!OwnerOf, Reg!Known, Reg!Find, Reg!FindIndex,
              Reg!Reachable
<1>2. ASSUME NEW w \in Workers, Takes(w)
      PROVE  Reg!Owners' = Reg!Owners
  <2>1. Reg!Holder(Reg!Find(bound[w])) = Self(w)
    BY <1>2, TakesAsOwner
  <2>2. Reg!Channels!Take(bound[w])
    BY <1>2, <2>1, RegistryConstants, Reg!TryDequeueTakes DEF Takes, RegistryInv
  <2> QED BY <2>2 DEF Reg!Channels!Take, Reg!Owners
<1>3. ASSUME NEW w \in Workers, NEW n \in Nodes, Binds(w, n)
      PROVE  Reg!Owners' = [Reg!Owners EXCEPT ![n] = Self(w)]
  <2>1. Reg!Channels!Connect(n, Self(w))
    BY <1>3, RegistryConstants, Reg!BindConnects DEF Binds, RegistryInv
  <2> QED BY <2>1 DEF Reg!Channels!Connect, Reg!Channels!Switch, Reg!Owners
<1>4. ASSUME NEW w \in Workers, Ends(w)
      PROVE  Reg!Owners' = [Reg!Owners EXCEPT ![bound[w]] = NoConn]
  BY <1>4, RegistryConstants, Reg!DisconnectEnds DEF Ends, RegistryInv
<1>5. ASSUME NEW c \in Commands, Routes(c)
      PROVE  Reg!Owners' = Reg!Owners
  <2>1. Reg!Channels!Accept(Target[c], c)
    BY <1>5, RegistryConstants, Reg!EnqueueAccepts DEF Routes, RegistryInv
  <2> QED BY <2>1 DEF Reg!Channels!Accept, Reg!Owners
<1> QED BY <1>1, <1>2, <1>3, <1>4, <1>5

LEMMA SameOwnership ==
    ASSUME LocalTypes, WorkersInv, OwnershipInv, Reg!Owners' = Reg!Owners,
           binder' = binder,
           \A v \in Workers, n \in Nodes : /\ Serving(v, n)' <=> Serving(v, n)
                                           /\ Serving(v, n) => fd'[v] = fd[v]
    PROVE  OwnershipInv'
<1>1. \A v \in Workers, n \in Nodes : Serving(v, n) => Self(v)' = Self(v)
  BY DEF Self
<1> QED BY <1>1 DEF OwnershipInv, OwnersServe, BindersOwn

LEMMA BindKeepsOwnership ==
    ASSUME LocalTypes, OtherTypes, WorkersInv, OwnershipInv, NEW w \in Workers, NEW n \in Nodes,
           NEW k \in 0 .. MaxLines, ReadBinds(w, n, k), Keeps(w),
           Reg!Owners' = [Reg!Owners EXCEPT ![n] = Self(w)]
    PROVE  OwnershipInv'
<1>1. n # NoNode /\ bound[w] = NoNode /\ bound'[w] = n /\ fd' = fd
      /\ binder' = [binder EXCEPT ![n] = Self(w)]
  BY ValuesAssumption DEF ReadBinds, LocalTypes
<1>2. \A v \in Workers : Self(v)' = Self(v)
  BY <1>1 DEF Self
<1>3. Serving(w, n)'
  BY <1>1 DEF ReadBinds, Serving, PushThen, Goto, AfterData, LocalTypes
<1>4. \A m \in Nodes : ~Serving(w, m) /\ (Serving(w, m)' => m = n)
  BY <1>1, ValuesAssumption DEF Serving
<1>5. \A v \in Workers \ {w}, m \in Nodes : Serving(v, m)' <=> Serving(v, m)
  BY DEF Keeps, Others, Serving
<1>6. Reg!Owners'[n] = Self(w) /\ \A m \in Nodes \ {n} : Reg!Owners'[m] = Reg!Owners[m]
  BY DEF Reg!Owners
<1>7. OwnersServe'
  BY <1>2, <1>3, <1>4, <1>5, <1>6 DEF OwnershipInv, OwnersServe
<1>8. BindersOwn'
  <2> SUFFICES ASSUME NEW m \in Nodes, NEW v \in Workers,
                      binder'[m] = Self(v), Serving(v, m)'
               PROVE  Reg!Owners'[m] = Self(v)
    BY <1>2 DEF BindersOwn
  <2>1. CASE v = w
    BY <1>4, <1>6, <2>1
  <2>2. CASE v # w
    <3>1. Self(v) # Self(w)
      BY <2>2, SelfIs
    <3>2. Reg!Owners[m] = Self(v) /\ m # n
      BY <1>1, <1>5, <2>2, <3>1 DEF OwnershipInv, BindersOwn, OtherTypes
    <3> QED BY <1>6, <3>2
  <2> QED BY <2>1, <2>2
<1> QED BY <1>7, <1>8 DEF OwnershipInv

LEMMA TeardownKeepsOwnership ==
    ASSUME LocalTypes, WorkersInv, RegistryInv, OwnershipInv, NEW w \in Workers,
           Teardown(w), Keeps(w),
           \/ Ends(w) /\ Reg!Owners' = [Reg!Owners EXCEPT ![bound[w]] = NoConn]
           \/ /\ Reg!Owners' = Reg!Owners
              /\ bound[w] \in Nodes =>
                    ~(Reg!Known(bound[w]) /\ Reg!OwnedBy(Reg!Find(bound[w]), Self(w)))
    PROVE  OwnershipInv'
<1>1. fd' = fd /\ bound' = bound /\ binder' = binder /\ pc[w] = "teardown"
  BY DEF Teardown, history
<1>2. \A v \in Workers : Self(v)' = Self(v)
  BY <1>1 DEF Self
<1>3. \A m \in Nodes : ~Serving(w, m)'
  BY <1>1 DEF Teardown, Serving, PushThen, Goto, LocalTypes
<1>4. \A v \in Workers \ {w}, m \in Nodes : Serving(v, m)' <=> Serving(v, m)
  BY DEF Keeps, Others, Serving
<1>5. \A m \in Nodes : Reg!Owners[m] = Self(w) => Reg!Owners'[m] = NoConn
  <2> SUFFICES ASSUME NEW m \in Nodes, Reg!Owners[m] = Self(w)
               PROVE  Reg!Owners'[m] = NoConn
    OBVIOUS
  <2>1. CASE Reg!Owners[m] = NoConn
    BY <2>1 DEF Ends, Reg!Owners
  <2>2. CASE Reg!Owners[m] # NoConn
    <3>1. Serving(w, m)
      BY <2>2, SelfIs DEF OwnershipInv, OwnersServe
    <3>2. bound[w] = m
      BY <3>1 DEF Serving
    <3>3. Reg!Known(m) /\ Reg!OwnedBy(Reg!Find(m), Self(w))
      BY <2>2 DEF Reg!Owners, Reg!OwnerOf, Reg!OwnedBy, Self
    <3> QED BY <3>2, <3>3 DEF Ends, Reg!Owners
  <2> QED BY <2>1, <2>2
<1>6. \A m \in Nodes, v \in Workers \ {w} :
         Serving(v, m) /\ Reg!Owners[m] = Self(v) => Reg!Owners'[m] = Self(v)
  <2> SUFFICES ASSUME NEW m \in Nodes, NEW v \in Workers \ {w},
                      Serving(v, m), Reg!Owners[m] = Self(v), Ends(w), bound[w] = m
               PROVE  FALSE
    BY DEF Ends, Reg!Owners
  <2>1. Self(v) # NoConn
    BY SelfIs
  <2>2. Reg!Owners[m].thread = v
    BY DEF Self
  <2>3. Reg!Find(m).thread = w
    BY DEF Ends, Reg!Disconnect, Reg!OwnedBy, Self
  <2> QED BY <2>1, <2>2, <2>3 DEF Reg!Owners, Reg!OwnerOf
<1>7. \A m \in Nodes : Reg!Owners'[m] # NoConn => Reg!Owners'[m] = Reg!Owners[m]
  BY DEF Ends, Reg!Owners
<1>8. OwnersServe'
  BY <1>2, <1>4, <1>5, <1>6, <1>7 DEF OwnershipInv, OwnersServe
<1>9. BindersOwn'
  BY <1>1, <1>2, <1>3, <1>4, <1>6 DEF OwnershipInv, BindersOwn
<1> QED BY <1>8, <1>9 DEF OwnershipInv

LEMMA WorkerKeepsOwnership ==
    ASSUME BaseInv, BaseInv', OwnershipInv, NEW w \in Workers, Worker(w)
    PROVE  OwnershipInv'
<1>1. LocalTypes /\ OtherTypes /\ WorkersInv /\ RegistryInv /\ RegistryInv' /\ WorkerInv(w)
  BY DEF BaseInv, WorkersInv
<1>2. Keeps(w)
  BY <1>1, WorkerKeeps
<1>3. CASE \E n \in Nodes : \E k \in 0 .. MaxLines : ReadBinds(w, n, k)
  <2>1. PICK n \in Nodes, k \in 0 .. MaxLines : ReadBinds(w, n, k)
    BY <1>3
  <2>2. Reg!Owners' = [Reg!Owners EXCEPT ![n] = Self(w)]
    BY <1>1, <2>1, WorkerCalls, OwnersChange DEF OwnershipInv
  <2> QED BY <1>1, <1>2, <2>1, <2>2, BindKeepsOwnership
<1>4. CASE Teardown(w)
  <2>1. \/ Ends(w) /\ Reg!Owners' = [Reg!Owners EXCEPT ![bound[w]] = NoConn]
        \/ /\ Reg!Owners' = Reg!Owners
           /\ bound[w] \in Nodes =>
                 ~(Reg!Known(bound[w]) /\ Reg!OwnedBy(Reg!Find(bound[w]), Self(w)))
    BY <1>1, <1>4, WorkerCalls, OwnersChange DEF OwnershipInv
  <2> QED BY <1>1, <1>2, <1>4, <2>1, TeardownKeepsOwnership
<1>5. CASE /\ ~Teardown(w)
           /\ \A n \in Nodes : \A k \in 0 .. MaxLines : ~ReadBinds(w, n, k)
  <2>1. Reg!Owners' = Reg!Owners
    <3>1. LoopDequeue(w) => Takes(w)
      BY <1>1, WorkerCalls
    <3>2. LoopDequeue(w) \/ UNCHANGED dm
      BY <1>1, <1>5, WorkerCalls
    <3> QED BY <1>1, <3>1, <3>2, OwnersChange DEF OwnershipInv
  <2>2. \A v \in Workers, n \in Nodes : /\ Serving(v, n)' <=> Serving(v, n)
                                        /\ Serving(v, n) => fd'[v] = fd[v]
                                        /\ binder' = binder
    BY <1>1, <1>2, <1>5, ServingStays
  <2>3. Nodes = {} => OwnershipInv'
    BY DEF OwnershipInv, OwnersServe, BindersOwn
  <2>4. Nodes # {} => binder' = binder
    BY <2>2
  <2> QED BY <1>1, <2>1, <2>2, <2>3, <2>4, SameOwnership
<1> QED BY <1>3, <1>4, <1>5

LEMMA StepKeepsOwnership ==
    ASSUME BaseInv, BaseInv', OwnershipInv, [Next]_vars
    PROVE  OwnershipInv'
<1>1. LocalTypes /\ OtherTypes /\ WorkersInv /\ RegistryInv /\ RegistryInv' /\ MainInv
  BY DEF BaseInv
<1>2. CASE \E w \in Workers : Worker(w)
  BY <1>2, WorkerKeepsOwnership
<1>3. CASE Link
  <2>1. UNCHANGED <<workV, binder>>
    BY <1>1, <1>3, LinkKeeps DEF Link, LinkRuns, LinkTop, LinkConnectFails, LinkIdle,
          LinkSendOK, LinkSendFails, LinkPollEnds, LinkRoutes, LinkRefuses, history
  <2>2. Reg!Owners' = Reg!Owners
    <3>1. CASE UNCHANGED dm
      BY <1>1, <3>1, OwnersChange DEF OwnershipInv
    <3>2. CASE \E c \in Commands : LinkRoutes(c)
      BY <1>1, <3>2, SameRegistry, TargetAssumption, OwnersChange
         DEF OwnershipInv, Routes, LinkRoutes
    <3> QED BY <1>3, <3>1, <3>2
            DEF Link, LinkRuns, LinkTop, LinkConnectFails, LinkIdle, LinkSendOK,
                LinkSendFails, LinkPollEnds, LinkRefuses, DM!EnqueueRefused,
                DM!dmVars, dm
  <2> QED BY <1>1, <2>1, <2>2, SameOwnership DEF Serving, workV
<1>4. CASE MainRuns \/ MainAccept
  <2>1. UNCHANGED <<dm, bound, after, binder>>
    BY <1>1, <1>4, MainKeeps DEF history
  <2>2. ASSUME NEW v \in Workers, NEW n \in Nodes
        PROVE  /\ Serving(v, n)' <=> Serving(v, n)
               /\ Serving(v, n) => fd'[v] = fd[v]
    <3>1. CASE pc'[v] = pc[v] /\ fd'[v] = fd[v]
      BY <2>1, <3>1 DEF Serving
    <3>2. CASE pc[v] = "idle"
      BY <1>1, <2>1, <3>2, ValuesAssumption DEF Serving, WorkersInv, WorkerInv
    <3>3. BtWorker \in Workers /\ WifiWorkers \subseteq Workers
      BY DEF Workers
    <3> QED BY <1>1, <1>4, <3>1, <3>2, <3>3
            DEF MainRuns, MainCreate, MainSpawn, MainSpawnFails, MainStops, MainShutdown,
                MainJoins, MainAccept, MainInv, LocalTypes, Goto, workV
  <2>3. Reg!Owners' = Reg!Owners
    BY <1>1, <2>1, OwnersChange DEF OwnershipInv
  <2> QED BY <1>1, <2>1, <2>2, <2>3, SameOwnership
<1>5. CASE Signal \/ UNCHANGED vars
  <2>1. UNCHANGED <<dm, workV, binder>>
    BY <1>5 DEF Signal, vars, history
  <2>2. Reg!Owners' = Reg!Owners
    BY <1>1, <2>1, OwnersChange DEF OwnershipInv
  <2> QED BY <1>1, <2>1, <2>2, SameOwnership DEF Serving, workV
<1> QED BY <1>2, <1>3, <1>4, <1>5 DEF Next, Finished

LEMMA InitOwnership == Init => OwnershipInv
<1> SUFFICES ASSUME Init PROVE OwnershipInv
  OBVIOUS
<1>1. \A n \in Nodes : Reg!Owners[n] = NoConn
  BY DEF Init, DM!Init, Reg!Owners, Reg!OwnerOf, Reg!Known
<1>2. \A n \in Nodes, w \in Workers : ~Serving(w, n)
  BY DEF Init, Serving
<1> QED BY <1>1, <1>2 DEF OwnershipInv, OwnersServe, BindersOwn

LEMMA OwnershipCorrect == Spec => [](BaseInv /\ OwnershipInv)
<1>1. BaseInv /\ OwnershipInv /\ [Next]_vars => BaseInv' /\ OwnershipInv'
  BY StepKeepsBase, StepKeepsOwnership
<1> QED BY <1>1, InitBase, InitOwnership, PTL DEF Spec

LEMMA EntryOwner ==
    ASSUME BaseInv, NEW i \in DOMAIN devices, Reg!Reachable(devices[i])
    PROVE  /\ devices[i].node \in Nodes
           /\ Reg!Owners[devices[i].node] = Reg!Holder(devices[i])
           /\ Reg!Holder(devices[i]) # NoConn
<1>1. devices \in Seq(Reg!Device) /\ Reg!UniqueNodeIds
  BY DEF BaseInv, RegistryInv, Reg!RegistryInv, Reg!Entries
<1>2. devices[i] \in Reg!Device
  BY <1>1, ElementOfSeq, LenProperties
<1>3. Reg!Known(devices[i].node) /\ Reg!Find(devices[i].node) = devices[i]
  BY <1>1, RegistryConstants, Reg!FindIs
<1>4. devices[i].node \in Nodes
  BY <1>2 DEF Reg!Device
<1>5. Reg!Holder(devices[i]) \in Conns
  BY DEF BaseInv, RegistryInv, Reg!OwnersInv, Reg!OwnersAreCallers
<1> QED BY <1>3, <1>4, <1>5, ConnsAre DEF Reg!Owners, Reg!OwnerOf, Reg!Holder

\* A node that is online is served: its owner is a worker that still runs its loop
\* for it, on whatever path its predecessors left, and although descriptors and
\* WiFi threads are used again.
THEOREM OnlineIsServed == Spec => []OnlineHasLiveWorker
<1>1. ASSUME BaseInv, OwnershipInv, NEW i \in DOMAIN devices, DM!Reachable(devices[i])
      PROVE  \E w \in Workers :
                /\ Self(w) = [fd |-> devices[i].fd, thread |-> devices[i].thread]
                /\ Serving(w, devices[i].node)
  <2>1. Reg!Reachable(devices[i])
    BY <1>1, SameRegistry
  <2> QED BY <1>1, <2>1, EntryOwner DEF OwnershipInv, OwnersServe, Reg!Holder
<1>2. BaseInv /\ OwnershipInv => OnlineHasLiveWorker
  BY <1>1 DEF OnlineHasLiveWorker
<1> QED BY <1>2, OwnershipCorrect, PTL

\* A late exit of an older connection never takes a node from the worker that bound
\* it last, nor does any other step before that worker disconnects.
THEOREM LastBinderOwns == Spec => []LastBinderStaysOwner
<1>1. ASSUME BaseInv, OwnershipInv, NEW n \in Nodes, NEW w \in Workers,
             binder[n] = Self(w), Serving(w, n)
      PROVE  DM!Known(n) /\ DM!Reachable(DM!Find(n)) /\ DM!OwnedBy(DM!Find(n), Self(w))
  <2>1. Reg!Owners[n] = Self(w) /\ Self(w) # NoConn
    BY <1>1, SelfIs DEF OwnershipInv, BindersOwn, BaseInv
  <2>2. Reg!Known(n) /\ Reg!Reachable(Reg!Find(n)) /\ Reg!OwnedBy(Reg!Find(n), Self(w))
    BY <2>1 DEF Reg!Owners, Reg!OwnerOf, Reg!OwnedBy
  <2> QED BY <2>2, SameRegistry
<1>2. BaseInv /\ OwnershipInv => LastBinderStaysOwner
  BY <1>1 DEF LastBinderStaysOwner
<1> QED BY <1>2, OwnershipCorrect, PTL

\* The threads of the gateway take only commands that were accepted for their own
\* connection: what OwnerTakes needs of the callers, one descriptor per thread,
\* follows from what the workers do.
THEOREM OwnCommandsOnly == Spec => []TakenByItsOwner
<1>1. Init => Reg!TakenByItsOwner
  BY DEF Init, DM!Init, Reg!TakenByItsOwner
<1>2. BaseInv /\ OwnershipInv /\ Reg!TakenByItsOwner /\ [Next]_vars
         => Reg!TakenByItsOwner'
  BY OwnedStep, RegistryConstants, Reg!StepKeepsTaken
     DEF BaseInv, RegistryInv, OwnershipInv
<1>3. Reg!TakenByItsOwner <=> TakenByItsOwner
  BY DEF Reg!TakenByItsOwner, TakenByItsOwner, DM!TakenByItsOwner
<1> QED BY <1>1, <1>2, <1>3, OwnershipCorrect, PTL DEF Spec

\* With the workers around it the registry is what NodeChannels says: a connection
\* per node, a FIFO per connection.
THEOREM GatewayIsChannels == Spec => Reg!ImplementsChannels
<1>1. Init => Reg!Channels!Init
  <2>1. DM!Init => Reg!Init
    BY DEF DM!Init, Reg!Init
  <2> QED BY <2>1, RegistryConstants, Reg!InitIsChannels DEF Init
<1>2. BaseInv /\ BaseInv' /\ OwnershipInv /\ [Next]_vars
         => [Reg!Channels!Next]_(Reg!Channels!vars)
  BY OwnedStep, RegistryConstants, Reg!StepIsChannels
     DEF BaseInv, RegistryInv, OwnershipInv
<1> QED BY <1>1, <1>2, OwnershipCorrect, PTL
        DEF Spec, Reg!ImplementsChannels, Reg!Channels!Spec

-----------------------------------------------------------------------------
(* Nothing is lost: where the commands and their NACKs are *)

\* Worker w is about to send c, or to push the NACK for it.
Has(w, c) == cmd[w] = c \/ \E i \in DOMAIN todo[w] : todo[w][i] = c

NoRepeats(ms) == \A i, j \in DOMAIN ms : ms[i] \in Commands /\ ms[i] = ms[j] => i = j

Out(c) == fate[c] \in {"taken", "returned"}

InOnePlace(c) ==
    /\ \A v, w \in Workers : Has(v, c) /\ Has(w, c) => v = w
    /\ \A w \in Workers : Has(w, c) => Out(c) /\ c \notin sent /\ nacks[c] = 0
    /\ c \in sent => Out(c) /\ nacks[c] = 0
    /\ Out(c) => (\E w \in Workers : Has(w, c)) \/ c \in sent \/ nacks[c] = 1
    /\ fate[c] = "queued" => nacks[c] = 0

\* The places of every command, and of a NACK that a worker pushed.
CommandsInv == /\ nacks \in [Commands -> 0 .. 1]
               /\ \A w \in Workers : NoRepeats(todo[w])
               /\ \A c \in Commands : InOnePlace(c)

LEMMA HasIs ==
    ASSUME LocalTypes, NEW w \in Workers, WorkerInv(w), NEW c \in Commands
    PROVE  /\ pc[w] = "send" => (Has(w, c) <=> c = cmd[w])
           /\ pc[w] \notin {"send", "push"} => ~Has(w, c)
           /\ pc[w] = "push" => (Has(w, c) <=> \E i \in DOMAIN todo[w] : todo[w][i] = c)
<1>1. pc[w] # "push" => todo[w] = <<>> /\ DOMAIN todo[w] = {}
  BY DEF WorkerInv
<1>2. pc[w] # "send" => cmd[w] # c
  BY ValuesAssumption DEF WorkerInv
<1> QED BY <1>1, <1>2 DEF Has

LEMMA PushThenHas ==
    ASSUME LocalTypes, NEW w \in Workers, NEW ms \in Seq(Msgs), NEW l \in Targets,
           PushThen(w, ms, l), WorkerInv(w)', NEW c \in Commands
    PROVE  Has(w, c)' <=> \E i \in DOMAIN ms : ms[i] = c
<1>1. todo'[w] = ms /\ pc'[w] # "send"
  BY PushThenIs DEF Targets
<1>2. cmd'[w] # c
  BY <1>1, ValuesAssumption DEF WorkerInv
<1> QED BY <1>1, <1>2 DEF Has

\* Uploads are no commands.
LEMMA UploadsAdded ==
    ASSUME NEW ms \in Seq(Msgs), NoRepeats(ms), NEW k \in Nat
    PROVE  /\ ms \o Uploads(k) \in Seq(Msgs) /\ NoRepeats(ms \o Uploads(k))
           /\ \A c \in Commands : (\E i \in DOMAIN (ms \o Uploads(k)) :
                                       (ms \o Uploads(k))[i] = c)
                                  <=> \E i \in DOMAIN ms : ms[i] = c
<1>1. Uploads(k) \in Seq(Msgs) /\ Len(Uploads(k)) = k /\ Len(ms) \in Nat
  BY UploadsAreMsgs
<1> DEFINE q == ms \o Uploads(k)
<1>2. q \in Seq(Msgs) /\ Len(q) = Len(ms) + k
  BY <1>1
<1>3. DOMAIN q = 1 .. Len(ms) + k /\ DOMAIN ms = 1 .. Len(ms)
  BY <1>1, <1>2, LenProperties
<1>4. \A i \in 1 .. Len(ms) : q[i] = ms[i]
  BY <1>1
<1>5. \A i \in Len(ms) + 1 .. Len(ms) + k : q[i] = Upload
  <2> SUFFICES ASSUME NEW i \in Len(ms) + 1 .. Len(ms) + k PROVE q[i] = Upload
    OBVIOUS
  <2>1. q[i] = Uploads(k)[i - Len(ms)]
    BY <1>1
  <2>2. i - Len(ms) \in 1 .. k
    BY <1>1
  <2> QED BY <2>1, <2>2 DEF Uploads
<1> HIDE DEF q
<1>6. \A i \in DOMAIN q : q[i] \in Commands => i \in DOMAIN ms /\ q[i] = ms[i]
  BY <1>1, <1>3, <1>4, <1>5, ValuesAssumption
<1>7. \A i \in DOMAIN ms : i \in DOMAIN q /\ q[i] = ms[i]
  BY <1>1, <1>3, <1>4
<1>8. NoRepeats(q)
  BY <1>6 DEF NoRepeats
<1>9. \A c \in Commands : (\E i \in DOMAIN q : q[i] = c) <=> \E i \in DOMAIN ms : ms[i] = c
  BY <1>6, <1>7
<1> QED BY <1>2, <1>8, <1>9 DEF q

\* What comes back from a ring was queued there, each command once.
LEMMA ReturnedAre ==
    ASSUME RegistryInv, NEW n \in Nodes, Reg!Known(n)
    PROVE  LET ms == DM!Pending(DM!Find(n)) IN
           /\ ms \in Seq(Msgs) /\ NoRepeats(ms)
           /\ \A i \in DOMAIN ms : ms[i] \in Commands /\ fate[ms[i]] = "queued"
           /\ Reg!PendingSet(Reg!Find(n)) = {ms[i] : i \in DOMAIN ms}
<1>1. PICK ms : ms = DM!Pending(DM!Find(n))
  OBVIOUS
<1>2. DM!Known(n)
  BY SameRegistry
<1>3. ms \in Seq(Msgs) /\ \A p \in DOMAIN ms : Reg!Waits(Reg!FindIndex(n), p, ms[p])
  BY <1>1, <1>2, PendingAreMsgs
<1>4. NoRepeats(ms)
  BY <1>3 DEF RegistryInv, Reg!RingsInv, Reg!Once, NoRepeats
<1>5. \A i \in DOMAIN ms : ms[i] \in Commands /\ fate[ms[i]] = "queued"
  BY <1>3 DEF RegistryInv, Reg!RingsInv, Reg!Held
<1>6. Reg!Find(n) \in Reg!Device
  BY RegistryConstants, Reg!FindFinds DEF RegistryInv
<1>7. ms = Reg!Pending(Reg!Find(n)) /\ DOMAIN ms = 1 .. Reg!Find(n).count
  BY <1>1, <1>6, SameRegistry, RegistryConstants, Reg!PendingIs
<1>8. Reg!PendingSet(Reg!Find(n)) = {ms[i] : i \in DOMAIN ms}
  BY <1>7 DEF Reg!PendingSet
<1> QED BY <1>1, <1>3, <1>4, <1>5, <1>8

LEMMA OthersHave ==
    ASSUME NEW w \in Workers, Keeps(w), NEW v \in Workers, v # w
    PROVE  /\ \A c : Has(v, c)' <=> Has(v, c)
           /\ todo'[v] = todo[v]
  BY DEF Keeps, Others, Has

\* Commands that were queued get into the hands of w, which had none.
LEMMA Getting ==
    ASSUME CommandsInv, NEW w \in Workers, Keeps(w), NEW G \in SUBSET Commands,
           \A c \in Commands : ~Has(w, c) /\ (Has(w, c)' <=> c \in G),
           \A c \in G : fate[c] = "queued" /\ Out(c)',
           \A c \in Commands \ G : fate'[c] = fate[c],
           UNCHANGED <<sent, nacks>>, NoRepeats(todo'[w])
    PROVE  CommandsInv'
<1>1. ASSUME NEW c \in Commands
      PROVE  InOnePlace(c)'
  <2>1. \A v \in Workers \ {w} : Has(v, c)' <=> Has(v, c)
    BY OthersHave
  <2>2. InOnePlace(c)
    BY DEF CommandsInv
  <2>3. CASE c \in G
    BY <2>1, <2>2, <2>3 DEF InOnePlace, Out
  <2>4. CASE c \notin G
    BY <2>1, <2>2, <2>4 DEF InOnePlace, Out
  <2> QED BY <2>3, <2>4
<1> QED BY <1>1, OthersHave DEF CommandsInv

\* w keeps what it has.
LEMMA Keeping ==
    ASSUME CommandsInv, NEW w \in Workers, Keeps(w),
           \A c \in Commands : Has(w, c)' <=> Has(w, c),
           UNCHANGED <<fate, sent, nacks>>, NoRepeats(todo'[w])
    PROVE  CommandsInv'
<1>1. ASSUME NEW c \in Commands
      PROVE  InOnePlace(c)'
  <2>1. \A v \in Workers : Has(v, c)' <=> Has(v, c)
    BY OthersHave
  <2>2. InOnePlace(c)
    BY DEF CommandsInv
  <2> QED BY <2>1, <2>2 DEF InOnePlace, Out
<1> QED BY <1>1, OthersHave DEF CommandsInv

\* A command leaves the hands of w: it is sent, or its NACK is pushed.
LEMMA Leaving ==
    ASSUME CommandsInv, NEW w \in Workers, Keeps(w), NEW h \in Commands, Has(w, h),
           \A c \in Commands : Has(w, c)' <=> Has(w, c) /\ c # h,
           fate' = fate,
           \/ sent' = sent \cup {h} /\ nacks' = nacks
           \/ sent' = sent /\ nacks' = [nacks EXCEPT ![h] = @ + 1],
           NoRepeats(todo'[w])
    PROVE  CommandsInv'
<1>1. nacks \in [Commands -> 0 .. 1] /\ nacks[h] = 0 /\ Out(h) /\ h \notin sent
  BY DEF CommandsInv, InOnePlace
<1>2. /\ nacks' \in [Commands -> 0 .. 1]
      /\ \A c \in Commands : c # h => nacks'[c] = nacks[c] /\ (c \in sent' <=> c \in sent)
      /\ \/ h \in sent' /\ nacks'[h] = 0
         \/ h \notin sent' /\ nacks'[h] = 1
  BY <1>1
<1>3. ASSUME NEW c \in Commands
      PROVE  InOnePlace(c)'
  <2>1. \A v \in Workers \ {w} : Has(v, c)' <=> Has(v, c)
    BY OthersHave
  <2>2. InOnePlace(c)
    BY DEF CommandsInv
  <2>3. CASE c = h
    <3>1. \A v \in Workers : ~Has(v, c)'
      BY <2>1, <2>2, <2>3 DEF InOnePlace
    <3> QED BY <1>1, <1>2, <2>3, <3>1 DEF InOnePlace, Out
  <2>4. CASE c # h
    <3>1. \A v \in Workers : Has(v, c)' <=> Has(v, c)
      BY <2>1, <2>4
    <3> QED BY <1>2, <2>2, <2>4, <3>1 DEF InOnePlace, Out
  <2> QED BY <2>3, <2>4
<1> QED BY <1>2, <1>3, OthersHave DEF CommandsInv

LEMMA NoRepeatsIs ==
    /\ NoRepeats(<<>>)
    /\ \A c : NoRepeats(<<c>>)
    /\ \A k \in Nat : NoRepeats(Uploads(k))
    /\ \A k \in Nat : \A c \in Commands : ~\E i \in DOMAIN Uploads(k) : Uploads(k)[i] = c
<1>1. \A c : DOMAIN <<c>> = {1}
  OBVIOUS
<1>2. \A k \in Nat : \A i \in DOMAIN Uploads(k) : Uploads(k)[i] = Upload
  BY DEF Uploads
<1> QED BY <1>1, <1>2, ValuesAssumption DEF NoRepeats

LEMMA TakeCommands ==
    ASSUME LocalTypes, RegistryInv, CommandsInv, NEW w \in Workers, WorkerInv(w),
           Keeps(w), LoopDequeue(w)
    PROVE  CommandsInv'
<1>1. /\ bound[w] \in Nodes /\ Self(w) \in Conns
      /\ Reg!TryDequeue(bound[w], Self(w))
      /\ cmd' = [cmd EXCEPT ![w] = Reg!Head1(Reg!Find(bound[w]))]
  BY DequeueKeeps
<1>2. PICK h : h = Reg!Head1(Reg!Find(bound[w]))
  OBVIOUS
<1>3. h \in Commands /\ fate[h] = "queued"
  <2>1. Reg!Waits(Reg!FindIndex(bound[w]), 1, h)
    BY <1>1, <1>2, RegistryConstants, Reg!TryDequeueRings DEF RegistryInv
  <2> QED BY <2>1 DEF RegistryInv, Reg!RingsInv, Reg!Held
<1>4. fate' = [fate EXCEPT ![h] = "taken"] /\ fate \in [Commands -> Reg!Fates]
  BY <1>1, <1>2 DEF Reg!TryDequeue, RegistryInv, Reg!RegistryInv, Reg!History
<1>5. todo' = todo /\ UNCHANGED <<sent, nacks>> /\ pc[w] = "loop"
  BY DEF LoopDequeue, history
<1>6. /\ \A c \in Commands : ~Has(w, c)
      /\ \A c \in Commands : Has(w, c)' <=> c = h
  <2>1. todo[w] = <<>> /\ cmd[w] = NoCommand /\ cmd'[w] = h
    BY <1>1, <1>2, <1>5 DEF WorkerInv, LocalTypes
  <2> QED BY <1>5, <2>1, ValuesAssumption DEF Has
<1>7. Out(h)' /\ \A c \in Commands \ {h} : fate'[c] = fate[c]
  BY <1>3, <1>4 DEF Out
<1>8. NoRepeats(todo'[w])
  BY <1>5 DEF CommandsInv
<1>9. PICK G \in SUBSET Commands : G = {h}
  BY <1>3
<1>10. /\ \A c \in Commands : ~Has(w, c) /\ (Has(w, c)' <=> c \in G)
       /\ \A c \in G : fate[c] = "queued" /\ Out(c)'
       /\ \A c \in Commands \ G : fate'[c] = fate[c]
  BY <1>3, <1>6, <1>7, <1>9
<1> QED BY <1>5, <1>8, <1>10, Getting

\* The commands of a connection that was replaced, or that ends, are to be NACKed.
LEMMA ReturnCommands ==
    ASSUME LocalTypes, RegistryInv, CommandsInv, NEW w \in Workers, WorkerInv(w),
           Keeps(w), pc[w] \in {"read", "teardown"},
           NEW n \in Nodes, Reg!Known(n), Reg!Settle(Reg!Find(n), "returned"),
           NEW k \in Nat, NEW ms \in Seq(Msgs),
           ms = DM!Pending(DM!Find(n)) \/ ms = DM!Pending(DM!Find(n)) \o Uploads(k),
           NEW l \in Targets, PushThen(w, ms, l), UNCHANGED <<sent, nacks>>
    PROVE  CommandsInv'
<1>1. PICK ps : ps = DM!Pending(DM!Find(n))
  OBVIOUS
<1>2. /\ ps \in Seq(Msgs) /\ NoRepeats(ps)
      /\ \A i \in DOMAIN ps : ps[i] \in Commands /\ fate[ps[i]] = "queued"
      /\ Reg!PendingSet(Reg!Find(n)) = {ps[i] : i \in DOMAIN ps}
  BY <1>1, ReturnedAre
<1>3. /\ NoRepeats(ms)
      /\ \A c \in Commands : (\E i \in DOMAIN ms : ms[i] = c) <=> \E i \in DOMAIN ps : ps[i] = c
  <2>1. CASE ms = ps
    BY <1>2, <2>1
  <2>2. CASE ms = ps \o Uploads(k)
    BY <1>2, <2>2, UploadsAdded, ZenonT(60)
  <2> QED BY <1>1, <2>1, <2>2
<1>4. PICK G \in SUBSET Commands : G = {ps[i] : i \in DOMAIN ps}
  BY <1>2
<1>5. \A c \in Commands : ~Has(w, c) /\ (Has(w, c)' <=> c \in G)
  <2>1. WorkerInv(w)'
    BY DEF Keeps
  <2> QED BY <1>3, <1>4, <2>1, HasIs, PushThenHas
<1>6. fate' = [c \in Commands |-> IF c \in G THEN "returned" ELSE fate[c]]
  BY <1>2, <1>4 DEF Reg!Settle
<1>7. /\ \A c \in G : fate[c] = "queued" /\ Out(c)'
      /\ \A c \in Commands \ G : fate'[c] = fate[c]
  BY <1>2, <1>4, <1>6 DEF Out
<1>8. todo'[w] = ms
  BY PushThenIs
<1> QED BY <1>3, <1>5, <1>7, <1>8, Getting

LEMMA BindCommands ==
    ASSUME LocalTypes, RegistryInv, CommandsInv, NEW w \in Workers, WorkerInv(w),
           Keeps(w), NEW n \in Nodes, NEW k \in 0 .. MaxLines, ReadBinds(w, n, k)
    PROVE  CommandsInv'
<1>1. k \in Nat /\ Uploads(k) \in Seq(Msgs) /\ WorkerInv(w)'
  BY UploadsAreMsgs, SizesAssumption DEF Keeps
<1>2. pc[w] = "read" /\ UNCHANGED <<sent, nacks>>
  BY DEF ReadBinds
<1>3. CASE DM!BindNew(n, Transport(w), Self(w))
              /\ \E l \in AfterData(w) : PushThen(w, Uploads(k), l)
  <2>1. PICK l \in Targets : PushThen(w, Uploads(k), l)
    BY <1>3 DEF AfterData, Targets
  <2>2. \A c \in Commands : ~Has(w, c) /\ ~Has(w, c)'
    BY <1>1, <1>2, <2>1, HasIs, PushThenHas, NoRepeatsIs
  <2>3. NoRepeats(todo'[w])
    BY <1>1, <2>1, PushThenIs, NoRepeatsIs
  <2>4. fate' = fate
    BY <1>3 DEF DM!BindNew
  <2> QED BY <1>2, <2>2, <2>3, <2>4, Keeping
<1>4. CASE /\ DM!BindTakeover(n, Transport(w), Self(w), "returned")
           /\ \E l \in AfterData(w) :
                 PushThen(w, DM!Pending(DM!Find(n)) \o Uploads(k), l)
  <2>1. Reg!BindTakeover(n, Transport(w), Self(w), "returned")
    BY <1>4, SameRegistry
  <2>2. Reg!Known(n) /\ Reg!Settle(Reg!Find(n), "returned")
    BY <2>1 DEF Reg!BindTakeover
  <2>3. DM!Pending(DM!Find(n)) \o Uploads(k) \in Seq(Msgs)
    BY <1>1, <2>2, ReturnedAre, UploadsAdded
  <2>4. PICK l \in Targets : PushThen(w, DM!Pending(DM!Find(n)) \o Uploads(k), l)
    BY <1>4 DEF AfterData, Targets
  <2> QED BY <1>1, <1>2, <2>2, <2>3, <2>4, ReturnCommands
<1> QED BY <1>3, <1>4 DEF ReadBinds

LEMMA TeardownCommands ==
    ASSUME LocalTypes, RegistryInv, CommandsInv, NEW w \in Workers, WorkerInv(w),
           Keeps(w), Teardown(w)
    PROVE  CommandsInv'
<1>1. pc[w] = "teardown" /\ UNCHANGED <<sent, nacks>> /\ WorkerInv(w)' /\ "close" \in Targets
  BY DEF Teardown, history, Keeps, Targets
<1>2. CASE /\ bound[w] # NoNode
           /\ DM!Disconnect(bound[w], Self(w), "returned")
           /\ PushThen(w, DM!Pending(DM!Find(bound[w])), "close")
  <2>1. bound[w] \in Nodes
    BY <1>2 DEF LocalTypes
  <2>2. Reg!Known(bound[w]) /\ Reg!Settle(Reg!Find(bound[w]), "returned")
    BY <1>2, SameRegistry DEF Reg!Disconnect
  <2>3. DM!Pending(DM!Find(bound[w])) \in Seq(Msgs)
    BY <2>1, <2>2, ReturnedAre
  <2> QED BY <1>1, <1>2, <2>1, <2>2, <2>3, ReturnCommands
<1>3. CASE PushThen(w, <<>>, "close") /\ fate' = fate
  <2>1. <<>> \in Seq(Msgs) /\ DOMAIN <<>> = {}
    OBVIOUS
  <2>2. \A c \in Commands : ~Has(w, c) /\ ~Has(w, c)'
    BY <1>1, <1>3, <2>1, HasIs, PushThenHas
  <2>3. NoRepeats(todo'[w])
    BY <1>1, <1>3, <2>1, PushThenIs, NoRepeatsIs, ZenonT(60)
  <2> QED BY <1>1, <1>3, <2>2, <2>3, Keeping
<1> QED BY <1>2, <1>3 DEF Teardown, DM!DisconnectRefused, DM!dmVars, dm

LEMMA PushCommands ==
    ASSUME LocalTypes, CommandsInv, NEW w \in Workers, WorkerInv(w), Keeps(w), PushOne(w)
    PROVE  CommandsInv'
<1>1. /\ todo[w] \in Seq(Msgs) /\ todo[w] # <<>> /\ after[w] \in Targets
      /\ pc[w] = "push" /\ WorkerInv(w)'
  BY DEF PushOne, LocalTypes, WorkerInv, Keeps
<1>2. PICK ms : ms = todo[w]
  OBVIOUS
<1>3. /\ Tail(ms) \in Seq(Msgs) /\ Head(ms) \in Msgs /\ Head(ms) = ms[1] /\ Len(ms) \in Nat \ {0}
      /\ DOMAIN ms = 1 .. Len(ms) /\ DOMAIN Tail(ms) = 1 .. Len(ms) - 1
      /\ \A i \in 1 .. Len(ms) - 1 : Tail(ms)[i] = ms[i + 1]
  BY <1>1, <1>2
<1>4. NoRepeats(ms)
  BY <1>2 DEF CommandsInv
<1>5. PushThen(w, Tail(ms), after[w]) /\ fate' = fate /\ sent' = sent
  BY <1>2 DEF PushOne, dm
<1>6. todo'[w] = Tail(ms)
  BY <1>1, <1>3, <1>5, PushThenIs
<1>7. NoRepeats(Tail(ms))
  BY <1>3, <1>4 DEF NoRepeats
<1>8. ASSUME NEW c \in Commands
      PROVE  Has(w, c)' <=> Has(w, c) /\ c # Head(ms)
  <2>1. Has(w, c) <=> \E i \in DOMAIN ms : ms[i] = c
    BY <1>1, <1>2, HasIs
  <2>2. Has(w, c)' <=> \E i \in DOMAIN Tail(ms) : Tail(ms)[i] = c
    BY <1>1, <1>3, <1>5, PushThenHas
  <2>3. ASSUME NEW i \in DOMAIN Tail(ms), Tail(ms)[i] = c
        PROVE  (\E j \in DOMAIN ms : ms[j] = c) /\ c # Head(ms)
    <3>1. i + 1 \in DOMAIN ms /\ ms[i + 1] = c /\ 1 \in DOMAIN ms /\ i + 1 # 1
      BY <1>3, <2>3
    <3> QED BY <1>3, <1>4, <3>1 DEF NoRepeats
  <2>4. ASSUME NEW i \in DOMAIN ms, ms[i] = c, c # Head(ms)
        PROVE  \E j \in DOMAIN Tail(ms) : Tail(ms)[j] = c
    <3>1. i - 1 \in 1 .. Len(ms) - 1 /\ (i - 1) + 1 = i
      BY <1>3, <2>4
    <3>2. Tail(ms)[i - 1] = c
      BY <1>3, <2>4, <3>1
    <3> QED BY <1>3, <3>1, <3>2
  <2> QED BY <2>1, <2>2, <2>3, <2>4
<1>9. CASE Head(ms) = Upload
  <2>1. nacks' = nacks
    BY <1>2, <1>9 DEF PushOne
  <2>2. \A c \in Commands : Has(w, c)' <=> Has(w, c)
    BY <1>8, <1>9, ValuesAssumption
  <2> QED BY <1>5, <1>6, <1>7, <2>1, <2>2, Keeping
<1>10. CASE Head(ms) # Upload
  <2>1. PICK h : h = Head(ms)
    OBVIOUS
  <2>2. h \in Commands /\ nacks' = [nacks EXCEPT ![h] = @ + 1]
    BY <1>2, <1>3, <1>10, <2>1 DEF PushOne, Msgs
  <2>3. Has(w, h)
    <3>1. 1 \in DOMAIN ms /\ ms[1] = h
      BY <1>3, <2>1
    <3> QED BY <1>1, <1>2, <2>2, <3>1, HasIs
  <2>4. \A c \in Commands : Has(w, c)' <=> Has(w, c) /\ c # h
    BY <1>8, <2>1
  <2> QED BY <1>5, <1>6, <1>7, <2>2, <2>3, <2>4, Leaving
<1> QED BY <1>9, <1>10

LEMMA SendCommands ==
    ASSUME LocalTypes, CommandsInv, NEW w \in Workers, WorkerInv(w), Keeps(w),
           SendOK(w) \/ SendFails(w)
    PROVE  CommandsInv'
<1>1. pc[w] = "send" /\ WorkerInv(w)' /\ cmd[w] \in Commands /\ fate' = fate /\ nacks' = nacks
  BY DEF SendOK, SendFails, WorkerInv, LocalTypes, Keeps, dm, history
<1>2. PICK h \in Commands : h = cmd[w]
  BY <1>1
<1>3. Has(w, h) /\ \A c \in Commands : Has(w, c) <=> c = h
  BY <1>1, <1>2, HasIs
<1>4. CASE SendOK(w)
  <2>1. sent' = sent \cup {h} /\ pc'[w] = "read" /\ todo' = todo
    BY <1>2, <1>4 DEF SendOK, Goto, LocalTypes
  <2>2. LocalTypes'
    BY DEF Keeps
  <2>3. \A c \in Commands : ~Has(w, c)'
    BY <1>1, <2>1, <2>2, ValuesAssumption DEF Has, WorkerInv
  <2>4. NoRepeats(todo'[w])
    BY <2>1 DEF CommandsInv
  <2> QED BY <1>1, <1>3, <2>1, <2>3, <2>4, Leaving
<1>5. CASE SendFails(w)
  <2>0. PICK ms : ms = <<h>>
    OBVIOUS
  <2>1. PICK l \in Targets : PushThen(w, ms, l)
    BY <1>2, <1>5, <2>0 DEF SendFails, Targets
  <2>2. ms \in Seq(Msgs) /\ DOMAIN ms = {1} /\ ms[1] = h /\ NoRepeats(ms)
    BY <2>0, NoRepeatsIs DEF Msgs
  <2>3. \A c \in Commands : Has(w, c)' <=> c = h
    BY <1>1, <2>1, <2>2, PushThenHas
  <2>4. NoRepeats(todo'[w])
    BY <2>1, <2>2, PushThenIs
  <2>5. sent' = sent
    BY <1>5 DEF SendFails, history
  <2> QED BY <1>1, <1>3, <2>3, <2>4, <2>5, Keeping
<1> QED BY <1>4, <1>5

LEMMA UploadCommands ==
    ASSUME LocalTypes, CommandsInv, NEW w \in Workers, WorkerInv(w), Keeps(w),
           NEW k \in 0 .. MaxLines, ReadUploads(w, k)
    PROVE  CommandsInv'
<1>1. k \in Nat /\ Uploads(k) \in Seq(Msgs) /\ WorkerInv(w)'
  BY UploadsAreMsgs, SizesAssumption DEF Keeps
<1>2. pc[w] = "read" /\ UNCHANGED <<fate, sent, nacks>>
  BY DEF ReadUploads, dm, history
<1>3. PICK l \in Targets : PushThen(w, Uploads(k), l)
  BY DEF ReadUploads, AfterData, Targets
<1>4. \A c \in Commands : ~Has(w, c) /\ ~Has(w, c)'
  BY <1>1, <1>2, <1>3, HasIs, PushThenHas, NoRepeatsIs
<1>5. NoRepeats(todo'[w])
  BY <1>1, <1>3, PushThenIs, NoRepeatsIs
<1> QED BY <1>2, <1>4, <1>5, Keeping

LEMMA WorkerKeepsCommands ==
    ASSUME BaseInv, CommandsInv, NEW w \in Workers, Worker(w)
    PROVE  CommandsInv'
<1>1. LocalTypes /\ RegistryInv /\ WorkerInv(w) /\ Keeps(w)
  BY WorkerKeeps DEF BaseInv, WorkersInv
<1>2. CASE \/ w = BtWorker /\ BtOpen
           \/ WifiStart(w) \/ LoopUnbound(w) \/ LoopNoCommand(w) \/ LoopStopped(w)
           \/ ReadNothing(w) \/ ReadEnds(w) \/ Close(w) \/ Remove(w)
           \/ \E n \in Nodes : ReadNotBound(w, n)
  <2>1. UNCHANGED <<fate, sent, nacks, todo, cmd>>
    BY <1>2 DEF BtOpen, WifiStart, LoopUnbound, LoopNoCommand, LoopStopped,
           ReadNothing, ReadEnds, ReadNotBound, Close, Remove, dm, history, DM!dmVars,
           DM!DequeueEmpty, DM!DequeueRefused, DM!BindFull, DM!BindConflict
  <2> QED BY <1>1, <2>1, Keeping DEF Has, CommandsInv
<1> QED BY <1>1, <1>2, TakeCommands, BindCommands, TeardownCommands, PushCommands,
           SendCommands, UploadCommands DEF Worker

LEMMA StepKeepsCommands ==
    ASSUME BaseInv, CommandsInv, [Next]_vars
    PROVE  CommandsInv'
<1>1. CASE \E w \in Workers : Worker(w)
  BY <1>1, WorkerKeepsCommands
<1>2. CASE UNCHANGED <<fate, cmd, todo, sent, nacks>>
  BY <1>2 DEF CommandsInv, InOnePlace, Out, Has
<1>3. ASSUME NEW h \in Commands, LinkRoutes(h)
      PROVE  CommandsInv'
  <2>1. fate[h] = "new" /\ nacks[h] = 0 /\ fate' = [fate EXCEPT ![h] = "queued"]
        /\ UNCHANGED <<cmd, todo, sent, nacks>>
    BY <1>3 DEF LinkRoutes, DM!Enqueue, workV, history
  <2>2. \A c \in Commands : c # h => fate'[c] = fate[c]
    BY <2>1
  <2>3. fate'[h] = "queued"
    BY <2>1 DEF BaseInv, RegistryInv, Reg!RegistryInv, Reg!History
  <2>4. ASSUME NEW c \in Commands
        PROVE  InOnePlace(c)'
    <3>1. InOnePlace(c) /\ \A v : Has(v, c)' <=> Has(v, c)
      BY <2>1 DEF CommandsInv, Has
    <3>2. CASE c = h
      BY <2>1, <2>3, <3>1, <3>2 DEF InOnePlace, Out
    <3>3. CASE c # h
      BY <2>1, <2>2, <3>1, <3>3 DEF InOnePlace, Out
    <3> QED BY <3>2, <3>3
  <2> QED BY <2>1, <2>4 DEF CommandsInv
<1>4. ASSUME NEW h \in Commands, LinkRefuses(h)
      PROVE  CommandsInv'
  <2>1. fate[h] = "new" /\ nacks[h] = 0 /\ nacks' = [nacks EXCEPT ![h] = 1]
        /\ UNCHANGED <<fate, cmd, todo, sent>>
    BY <1>4 DEF LinkRefuses, workV, DM!EnqueueRefused, DM!dmVars
  <2>2. nacks' \in [Commands -> 0 .. 1] /\ \A c \in Commands : c # h => nacks'[c] = nacks[c]
    BY <2>1 DEF CommandsInv
  <2>3. ASSUME NEW c \in Commands
        PROVE  InOnePlace(c)'
    <3>1. InOnePlace(c) /\ \A v : Has(v, c)' <=> Has(v, c)
      BY <2>1 DEF CommandsInv, Has
    <3>2. CASE c = h
      BY <2>1, <3>1, <3>2 DEF InOnePlace, Out
    <3>3. CASE c # h
      BY <2>1, <2>2, <3>1, <3>3 DEF InOnePlace, Out
    <3> QED BY <3>2, <3>3
  <2> QED BY <2>1, <2>2, <2>3 DEF CommandsInv
<1>5. CASE LinkRuns \/ MainRuns \/ MainAccept \/ Signal \/ UNCHANGED vars
  BY <1>2, <1>5
     DEF LinkRuns, LinkTop, LinkConnectFails, LinkIdle, LinkSendOK, LinkSendFails,
         LinkPollEnds, MainRuns, MainCreate, MainSpawn, MainSpawnFails, MainStops,
         MainShutdown, MainJoins, MainAccept, Signal, vars, dm, workV, history
<1> QED BY <1>1, <1>3, <1>4, <1>5 DEF Next, Link, Finished

LEMMA InitCommands == Init => CommandsInv
<1> SUFFICES ASSUME Init PROVE CommandsInv
  OBVIOUS
<1>1. nacks \in [Commands -> 0 .. 1]
  BY DEF Init
<1>2. \A w \in Workers : NoRepeats(todo[w])
  BY DEF Init, NoRepeats
<1>3. ASSUME NEW c \in Commands
      PROVE  InOnePlace(c)
  <2>1. \A w \in Workers : ~Has(w, c)
    BY ValuesAssumption DEF Init, Has
  <2>2. fate[c] = "new" /\ c \notin sent
    BY DEF Init, DM!Init
  <2> QED BY <2>1, <2>2 DEF InOnePlace, Out
<1> QED BY <1>1, <1>2, <1>3 DEF CommandsInv

-----------------------------------------------------------------------------
(* The NACKs that entered the queue *)

Queued(i, c) == i \in DOMAIN queue /\ queue[i] = c

NackInOnePlace(c) ==
    /\ \A i, j : Queued(i, c) /\ Queued(j, c) => i = j
    /\ \A i : Queued(i, c) => pending # c /\ c \notin told
    /\ pending = c => c \notin told
    /\ (\E i : Queued(i, c)) \/ pending = c \/ c \in told => nacks[c] = 1
    /\ nacks[c] = 1 /\ fate[c] # "new" /\ ~shut
          => (\E i : Queued(i, c)) \/ pending = c \/ c \in told

NacksInv == \A c \in Commands : NackInOnePlace(c)

\* A step that changes no place of a NACK.
LEMMA NacksStay ==
    ASSUME CommandsInv, NacksInv, UNCHANGED <<queue, pending, told, nacks>>,
           shut => shut',
           \A c \in Commands : fate[c] = "new" /\ fate'[c] # "new" => nacks[c] = 0
    PROVE  NacksInv'
  BY DEF NacksInv, NackInOnePlace, Queued

LEMMA PushNacks ==
    ASSUME BaseInv, CommandsInv, NacksInv, NEW w \in Workers, PushOne(w)
    PROVE  NacksInv'
<1>1. /\ todo[w] \in Seq(Msgs) /\ todo[w] # <<>> /\ pc[w] = "push"
      /\ queue \in Seq(Msgs)
  BY DEF BaseInv, LocalTypes, OtherTypes, WorkersInv, WorkerInv, PushOne
<1>2. PICK m : m = Head(todo[w])
  OBVIOUS
<1>3. m \in Msgs /\ m = todo[w][1] /\ 1 \in DOMAIN todo[w]
  BY <1>1, <1>2
<1>4. /\ queue' = IF shut THEN queue ELSE Append(queue, m)
      /\ nacks' = IF m = Upload THEN nacks ELSE [nacks EXCEPT ![m] = @ + 1]
      /\ UNCHANGED <<fate, shut, pending, told>>
  BY <1>2 DEF PushOne, dm, linkV
<1>5. m # Upload => m \in Commands /\ nacks[m] = 0
  BY <1>1, <1>3 DEF Msgs, CommandsInv, InOnePlace, Has
<1>6. ASSUME NEW c \in Commands, c # m
      PROVE  NackInOnePlace(c)'
  <2>1. nacks'[c] = nacks[c]
    BY <1>4, <1>6
  <2>2. \A i : Queued(i, c)' <=> Queued(i, c)
    BY <1>1, <1>4, <1>6 DEF Queued
  <2> QED BY <1>4, <2>1, <2>2 DEF NacksInv, NackInOnePlace
<1>7. ASSUME m \in Commands
      PROVE  NackInOnePlace(m)'
  <2>1. m # Upload /\ nacks[m] = 0
    BY <1>5, <1>7, ValuesAssumption
  <2>2. nacks'[m] = 1
    BY <1>4, <1>7, <2>1 DEF CommandsInv
  <2>3. (\A i : ~Queued(i, m)) /\ pending # m /\ m \notin told
    BY <1>7, <2>1 DEF NacksInv, NackInOnePlace
  <2>4. CASE shut
    <3>1. \A i : ~Queued(i, m)'
      BY <1>4, <2>3, <2>4 DEF Queued
    <3> QED BY <1>4, <2>2, <2>3, <2>4, <3>1 DEF NackInOnePlace
  <2>5. CASE ~shut
    <3>1. queue' = Append(queue, m) /\ Len(queue) \in Nat
      BY <1>1, <1>4, <2>5
    <3>2. \A i : Queued(i, m)' <=> i = Len(queue) + 1
      <4>1. DOMAIN queue' = 1 .. Len(queue) + 1 /\ queue'[Len(queue) + 1] = m
        BY <1>1, <1>3, <3>1
      <4>2. \A i \in 1 .. Len(queue) : queue'[i] = queue[i] /\ i \in DOMAIN queue
        BY <1>1, <1>3, <3>1
      <4> QED BY <2>3, <3>1, <4>1, <4>2 DEF Queued
    <3> QED BY <1>4, <2>2, <2>3, <3>2 DEF NackInOnePlace
  <2> QED BY <2>4, <2>5
<1> QED BY <1>6, <1>7 DEF NacksInv

\* A command leaves "new" by being routed, and no NACK was made for it before.
LEMMA OnlyRoutingStarts ==
    ASSUME BaseInv, [Next]_vars, NEW c \in Commands, fate[c] = "new", fate'[c] # "new"
    PROVE  nacks[c] = 0
<1>1. LocalTypes /\ WorkersInv /\ RegistryInv /\ fate \in [Commands -> Reg!Fates]
  BY DEF BaseInv, RegistryInv, Reg!RegistryInv, Reg!History
<1>2. ~UNCHANGED dm
  BY DEF dm
<1>3. ASSUME NEW w \in Workers, Takes(w)
      PROVE  FALSE
  <2>1. PICK h : h = Reg!Head1(Reg!Find(bound[w]))
    OBVIOUS
  <2>2. Reg!Waits(Reg!FindIndex(bound[w]), 1, h)
    BY <1>1, <1>3, <2>1, RegistryConstants, Reg!TryDequeueRings DEF Takes, RegistryInv
  <2>3. fate[h] = "queued" /\ fate' = [fate EXCEPT ![h] = "taken"]
    BY <1>1, <1>3, <2>1, <2>2
       DEF RegistryInv, Reg!RingsInv, Reg!Held, Takes, Reg!TryDequeue
  <2> QED BY <1>1, <2>3
<1>4. ASSUME NEW n \in Nodes, Reg!Known(n), Reg!Settle(Reg!Find(n), "returned")
      PROVE  FALSE
  <2>1. PICK ms : ms = DM!Pending(DM!Find(n))
    OBVIOUS
  <2>2. /\ \A i \in DOMAIN ms : ms[i] \in Commands /\ fate[ms[i]] = "queued"
        /\ Reg!PendingSet(Reg!Find(n)) = {ms[i] : i \in DOMAIN ms}
    BY <1>1, <1>4, <2>1, ReturnedAre
  <2>3. c \in Reg!PendingSet(Reg!Find(n))
    BY <1>4 DEF Reg!Settle
  <2> QED BY <2>2, <2>3
<1>5. ASSUME NEW w \in Workers, NEW n \in Nodes, Binds(w, n)
      PROVE  FALSE
  BY <1>4, <1>5 DEF Binds, Reg!BindNew, Reg!BindTakeover
<1>6. ASSUME NEW w \in Workers, Ends(w)
      PROVE  FALSE
  BY <1>4, <1>6 DEF Ends, Reg!Disconnect
<1>7. ASSUME NEW b \in Commands, Routes(b)
      PROVE  nacks[c] = 0
  BY <1>1, <1>7 DEF Routes, LinkRoutes, Reg!Enqueue
<1> QED BY <1>1, <1>2, <1>3, <1>5, <1>6, <1>7, RegistryCalls

LEMMA LinkKeepsNacks ==
    ASSUME BaseInv, CommandsInv, NacksInv, Link
    PROVE  NacksInv'
<1>1. queue \in Seq(Msgs) /\ pending \in Msgs \cup {NoMsg}
  BY DEF BaseInv, OtherTypes
<1>2. CASE LinkTop
  <2>1. CASE UNCHANGED <<queue, pending>>
    BY <1>2, <2>1, NacksStay DEF LinkTop, dm, history
  <2>2. CASE pending = NoMsg /\ queue # <<>> /\ pending' = Head(queue) /\ queue' = Tail(queue)
    <3>1. /\ Head(queue) = queue[1] /\ DOMAIN queue = 1 .. Len(queue)
          /\ Len(queue) \in Nat \ {0} /\ DOMAIN queue' = 1 .. Len(queue) - 1
          /\ \A i \in 1 .. Len(queue) - 1 : queue'[i] = queue[i + 1]
      BY <1>1, <2>2
    <3>2. UNCHANGED <<fate, shut, told, nacks>>
      BY <1>2 DEF LinkTop, dm, history
    <3>3. ASSUME NEW c \in Commands
          PROVE  NackInOnePlace(c)'
      <4>1. NackInOnePlace(c) /\ pending # c
        BY <2>2, ValuesAssumption DEF NacksInv
      <4>2. \A i : Queued(i, c)' => i + 1 \in Int /\ i \in Int /\ Queued(i + 1, c) /\ i + 1 # 1
        BY <3>1 DEF Queued
      <4>3. \A i : Queued(i, c) => (i = 1 /\ pending' = c) \/ Queued(i - 1, c)'
        <5> SUFFICES ASSUME NEW i, Queued(i, c), i # 1 PROVE Queued(i - 1, c)'
          BY <2>2, <3>1 DEF Queued
        <5>1. i - 1 \in 1 .. Len(queue) - 1 /\ (i - 1) + 1 = i /\ queue[i] = c
          BY <3>1 DEF Queued
        <5>2. queue'[i - 1] = c
          BY <3>1, <5>1
        <5> QED BY <3>1, <5>1, <5>2 DEF Queued
      <4>4. pending' = c <=> Queued(1, c)
        BY <2>2, <3>1 DEF Queued
      <4> QED BY <3>2, <4>1, <4>2, <4>3, <4>4 DEF NackInOnePlace
    <3> QED BY <3>3 DEF NacksInv
  <2> QED BY <1>2, <2>1, <2>2 DEF LinkTop
<1>3. CASE LinkSendOK
  <2>1. /\ pending' = NoMsg /\ told' = told \cup ({pending} \cap Commands)
        /\ UNCHANGED <<fate, shut, queue, nacks>>
    BY <1>3 DEF LinkSendOK, dm
  <2>2. ASSUME NEW c \in Commands
        PROVE  NackInOnePlace(c)'
    <3>1. \A i : Queued(i, c)' <=> Queued(i, c)
      BY <2>1 DEF Queued
    <3>2. pending' # c /\ (c \in told' <=> c \in told \/ pending = c)
      BY <2>1, ValuesAssumption
    <3> QED BY <2>1, <3>1, <3>2 DEF NacksInv, NackInOnePlace
  <2> QED BY <2>2 DEF NacksInv
<1>4. ASSUME NEW h \in Commands, LinkRefuses(h)
      PROVE  NacksInv'
  <2>1. /\ fate[h] = "new" /\ nacks[h] = 0 /\ nacks' = [nacks EXCEPT ![h] = 1]
        /\ told' \in {told, told \cup {h}} /\ UNCHANGED <<fate, shut, queue, pending>>
    BY <1>4 DEF LinkRefuses, DM!EnqueueRefused, DM!dmVars, linkV
  <2>2. ASSUME NEW c \in Commands
        PROVE  NackInOnePlace(c)'
    <3>1. \A i : Queued(i, c)' <=> Queued(i, c)
      BY <2>1 DEF Queued
    <3>2. c # h => nacks'[c] = nacks[c] /\ (c \in told' <=> c \in told)
      BY <2>1
    <3>3. nacks'[h] = 1
      BY <2>1 DEF CommandsInv
    <3> QED BY <2>1, <3>1, <3>2, <3>3 DEF NacksInv, NackInOnePlace
  <2> QED BY <2>2 DEF NacksInv
<1>5. CASE \E c \in Commands : LinkRoutes(c)
  <2>1. UNCHANGED <<queue, pending, told, nacks, shut>>
    BY <1>5 DEF LinkRoutes, linkV, history
  <2>2. \A c \in Commands : fate[c] = "new" /\ fate'[c] # "new" => nacks[c] = 0
    BY OnlyRoutingStarts DEF Next
  <2> QED BY <2>1, <2>2, NacksStay
<1>6. CASE LinkConnectFails \/ LinkIdle \/ LinkSendFails \/ LinkPollEnds
  BY <1>6, NacksStay
     DEF LinkConnectFails, LinkIdle, LinkSendFails, LinkPollEnds, dm, history
<1> QED BY <1>2, <1>3, <1>4, <1>5, <1>6 DEF Link, LinkRuns

LEMMA StepKeepsNacks ==
    ASSUME BaseInv, CommandsInv, NacksInv, [Next]_vars
    PROVE  NacksInv'
<1>1. \A c \in Commands : fate[c] = "new" /\ fate'[c] # "new" => nacks[c] = 0
  BY OnlyRoutingStarts
<1>2. ASSUME NEW w \in Workers, Worker(w)
      PROVE  NacksInv'
  <2>1. CASE PushOne(w)
    BY <2>1, PushNacks
  <2>2. CASE ~PushOne(w)
    <3>1. UNCHANGED <<queue, pending, told, nacks, shut>>
      BY <1>2, <2>2
         DEF Worker, BtOpen, WifiStart, LoopUnbound, LoopNoCommand, LoopStopped, SendOK,
             LoopDequeue, SendFails, ReadNothing, ReadEnds, ReadNotBound, ReadUploads,
             ReadBinds, Teardown, Close, Remove, linkV, history
    <3> QED BY <1>1, <3>1, NacksStay
  <2> QED BY <2>1, <2>2
<1>3. CASE Link
  BY <1>3, LinkKeepsNacks
<1>4. CASE MainRuns \/ MainAccept \/ Signal \/ UNCHANGED vars
  <2>1. UNCHANGED <<queue, pending, told, nacks>> /\ (shut => shut')
    BY <1>4 DEF MainRuns, MainCreate, MainSpawn, MainSpawnFails, MainStops, MainShutdown,
           MainJoins, MainAccept, Signal, vars, linkV, history
  <2> QED BY <1>1, <2>1, NacksStay
<1> QED BY <1>2, <1>3, <1>4 DEF Next, Finished

LEMMA InitNacks == Init => NacksInv
  BY ValuesAssumption DEF Init, NacksInv, NackInOnePlace, Queued

-----------------------------------------------------------------------------
(* Counting the places *)

LEMMA NoneOrOne ==
    /\ Cardinality({}) = 0
    /\ \A x : Cardinality({x}) = 1
  BY FS_EmptySet, FS_Singleton

\* c is at most once in the hands of the workers.
LEMMA HandsAre ==
    ASSUME LocalTypes, WorkersInv, CommandsInv, NEW c \in Commands
    PROVE  InHand(c) = IF \E w \in Workers : Has(w, c) THEN 1 ELSE 0
<1>1. \A r : r \in Returning(c) <=> \E w \in Workers : \E i \in DOMAIN todo[w] :
                                       todo[w][i] = c /\ r = <<w, i>>
  BY DEF Returning
<1>2. CASE \A w \in Workers : ~Has(w, c)
  <2>1. Sending(c) = {} /\ Returning(c) = {}
    BY <1>1, <1>2 DEF Sending, Has
  <2> QED BY <1>2, <2>1, NoneOrOne DEF InHand
<1>3. ASSUME NEW w \in Workers, Has(w, c)
      PROVE  InHand(c) = 1
  <2>1. \A v \in Workers : Has(v, c) => v = w
    BY <1>3 DEF CommandsInv, InOnePlace
  <2>2. CASE cmd[w] = c
    <3>1. todo[w] = <<>>
      BY <2>2, ValuesAssumption DEF WorkersInv, WorkerInv
    <3>2. Sending(c) = {w}
      BY <2>1, <2>2 DEF Sending, Has
    <3>3. Returning(c) = {}
      <4>1. \A v \in Workers : \A i \in DOMAIN todo[v] : todo[v][i] # c
        BY <2>1, <3>1 DEF Has
      <4> QED BY <1>1, <4>1
    <3> QED BY <3>2, <3>3, NoneOrOne DEF InHand
  <2>3. CASE cmd[w] # c
    <3>1. PICK i \in DOMAIN todo[w] : todo[w][i] = c
      BY <1>3, <2>3 DEF Has
    <3>2. Sending(c) = {}
      BY <2>1, <2>3 DEF Sending, Has
    <3>3. \A v \in Workers : \A j \in DOMAIN todo[v] : todo[v][j] = c => v = w /\ j = i
      BY <2>1, <3>1 DEF Has, CommandsInv, NoRepeats
    <3>4. PICK r : r = <<w, i>>
      OBVIOUS
    <3>5. Returning(c) = {r}
      BY <1>1, <3>1, <3>3, <3>4
    <3>6. Cardinality(Sending(c)) = 0 /\ Cardinality(Returning(c)) = 1
      BY <3>2, <3>5, NoneOrOne
    <3> QED BY <3>6 DEF InHand
  <2> QED BY <2>2, <2>3
<1> QED BY <1>2, <1>3

LEMMA CommandsAreCounted ==
    ASSUME BaseInv, CommandsInv
    PROVE  CommandAccounting
<1> SUFFICES ASSUME NEW c \in Commands
             PROVE  LET once == IF c \in sent THEN 1 ELSE 0
                    IN  IF fate[c] \in {"taken", "returned"}
                        THEN InHand(c) + once + nacks[c] = 1
                        ELSE InHand(c) + once = 0 /\ (fate[c] = "queued" => nacks[c] = 0)
  BY DEF CommandAccounting
<1>1. InOnePlace(c) /\ nacks[c] \in 0 .. 1
  BY DEF CommandsInv
<1>2. InHand(c) = IF \E w \in Workers : Has(w, c) THEN 1 ELSE 0
  BY HandsAre DEF BaseInv
<1> QED BY <1>1, <1>2 DEF InOnePlace, Out

LEMMA NacksAreCounted ==
    ASSUME CommandsInv, NacksInv
    PROVE  NackAccounting
<1>1. ASSUME NEW c \in Commands
      PROVE  Cardinality({i \in DOMAIN queue : queue[i] = c})
                = IF \E i : Queued(i, c) THEN 1 ELSE 0
  <2>1. CASE \A i : ~Queued(i, c)
    <3>1. {i \in DOMAIN queue : queue[i] = c} = {}
      BY <2>1 DEF Queued
    <3> QED BY <2>1, <3>1, NoneOrOne
  <2>2. ASSUME NEW i, Queued(i, c)
        PROVE  Cardinality({j \in DOMAIN queue : queue[j] = c}) = 1
    <3>1. \A j \in DOMAIN queue : queue[j] = c <=> j = i
      BY <2>2 DEF NacksInv, NackInOnePlace, Queued
    <3>2. {j \in DOMAIN queue : queue[j] = c} = {i}
      BY <2>2, <3>1 DEF Queued
    <3> QED BY <3>2, NoneOrOne
  <2> QED BY <2>1, <2>2
<1>2. ASSUME NEW c \in Commands
      PROVE  LET waiting == Cardinality({i \in DOMAIN queue : queue[i] = c})
                            + (IF pending = c THEN 1 ELSE 0)
                            + (IF c \in told THEN 1 ELSE 0)
             IN  /\ waiting <= nacks[c]
                 /\ (nacks[c] = 1 /\ fate[c] # "new" /\ ~shut) => waiting = 1
  <2>1. NackInOnePlace(c) /\ nacks[c] \in 0 .. 1
    BY DEF CommandsInv, NacksInv
  <2> QED BY <1>1, <2>1 DEF NackInOnePlace
<1> QED BY <1>2 DEF NackAccounting

LEMMA PlacesCorrect == Spec => [](BaseInv /\ CommandsInv /\ NacksInv)
<1>1. BaseInv /\ CommandsInv /\ NacksInv /\ [Next]_vars
         => BaseInv' /\ CommandsInv' /\ NacksInv'
  BY StepKeepsBase, StepKeepsCommands, StepKeepsNacks
<1> QED BY <1>1, InitBase, InitCommands, InitNacks, PTL DEF Spec

\* Every command that left its ring is in one place, to be sent or NACKed, sent, or
\* NACKed once, and every NACK that entered the queue is in one place until the
\* gateway stops: through takeovers, failed sends, full queues and lost connections.
THEOREM NothingGetsLost == Spec => []NothingIsLost
<1>1. BaseInv /\ CommandsInv /\ NacksInv => NothingIsLost
  BY CommandsAreCounted, NacksAreCounted DEF NothingIsLost
<1> QED BY <1>1, PlacesCorrect, PTL

\* The types of the gateway's state: the WiFi threads are never more than those
\* there can be, the queue never longer than its array, no command is NACKed twice.
THEOREM TypeCorrect == Spec => []TypeOK
<1>1. BaseInv /\ CommandsInv => TypeOK
  <2> SUFFICES ASSUME BaseInv, CommandsInv PROVE TypeOK
    OBVIOUS
  <2>1. DM!TypeOK
    <3>1. Reg!TypeOK
      BY DEF BaseInv, RegistryInv, Reg!RegistryInv, Reg!Entries, Reg!History, Reg!TypeOK
    <3> QED BY <3>1
        DEF DM!TypeOK, Reg!TypeOK, DM!Device, Reg!Device, DM!Transports, Reg!Transports,
            DM!Fds, Reg!Fds, DM!Threads, Reg!Threads, DM!Slots, Reg!Slots, DM!Fates, Reg!Fates
  <2>2. active \in 0 .. Cardinality(WifiWorkers)
    BY BusyIsFinite DEF BaseInv, OtherTypes, MainInv
  <2> QED BY <2>1, <2>2
          DEF TypeOK, BaseInv, LocalTypes, OtherTypes, CommandsInv, Mains, Targets, Msgs
<1> QED BY <1>1, PlacesCorrect, PTL
=============================================================================
