------------------------ MODULE DeviceManagerProofs ------------------------
(***************************************************************************)
(* Proofs about DeviceManager for registries and rings of any size.        *)
(*                                                                         *)
(* Part 1, for every operation of the interface: types, one entry per node *)
(* and rings whose head, tail and count agree.                             *)
(* Part 2, for every operation of the interface: no command is lost,       *)
(* copied or misrouted.                                                    *)
(* Part 3, for the calls that the gateway makes: what is pending is for    *)
(* the connection that owns the node now, a node that is offline has       *)
(* nothing pending, and, where every thread serves one descriptor, a       *)
(* command is taken by the connection it was accepted for and the registry *)
(* implements NodeChannels.                                                *)
(***************************************************************************)
EXTENDS DeviceManager, SequenceTheorems, TLAPS

(* Part 1: the entries and the indices of their rings *)

Consistent(d) == d.tail = (d.head + d.count) % QueueCap

Entries == devices \in Seq(Device) /\ Len(devices) <= MaxDevices

History == /\ fate \in [Commands -> Fates]
           /\ acceptedFor \in [Commands -> [fd : Fds, thread : Threads] \cup {NoConn}]
           /\ takenBy \in [Commands -> Conns \cup {NoConn}]

\* The inductive invariant.
RegistryInv == Entries /\ History /\ UniqueNodeIds /\ RingConsistent

\* What a step must leave of the registry.
RegistryOK == Entries /\ UniqueNodeIds /\ RingConsistent

-----------------------------------------------------------------------------
(* Arithmetic of the rings *)

LEMMA NextSlot ==
    ASSUME NEW c \in Nat \ {0}, NEW h \in 0 .. c - 1
    PROVE  (h + 1) % c \in 0 .. c - 1
  OBVIOUS

LEMMA Wrapped ==
    ASSUME NEW c \in Nat \ {0}, NEW x \in 0 .. 2 * c
    PROVE  x % c = IF x < c THEN x ELSE IF x < 2 * c THEN x - c ELSE 0
  OBVIOUS

\* Wrapping at every step or once at the end gives the same index.
LEMMA NextIndex ==
    ASSUME NEW c \in Nat \ {0}, NEW h \in 0 .. c - 1, NEW k \in 0 .. c
    PROVE  /\ (((h + k) % c) + 1) % c = (h + k + 1) % c
           /\ (((h + 1) % c) + k) % c = (h + 1 + k) % c
  OBVIOUS

-----------------------------------------------------------------------------
(* Entries *)

LEMMA FunctionIsSeq ==
    ASSUME NEW S, NEW m \in Nat, NEW f \in [1 .. m -> S]
    PROVE  f \in Seq(S) /\ Len(f) = m /\ DOMAIN f = 1 .. m
<1>1. f \in Seq(S)
  BY SeqDef
<1> QED
  BY <1>1, LenProperties

\* The search finds the entry of a node that is known.
LEMMA FindFinds ==
    ASSUME RegistryInv, NEW n \in Nodes, Known(n)
    PROVE  /\ FindIndex(n) \in 1 .. Len(devices)
           /\ devices[FindIndex(n)].node = n
           /\ Find(n) \in Device
           /\ Find(n).node = n
           /\ Consistent(Find(n))
<1>1. devices \in Seq(Device) /\ DOMAIN devices = 1 .. Len(devices) /\ Len(devices) \in Nat
  BY LenProperties DEF RegistryInv, Entries
<1>2. PICK i \in DOMAIN devices : devices[i].node = n
  BY DEF Known
<1>3. \A j \in 1 .. i - 1 : devices[j].node # n
  BY <1>1, <1>2 DEF RegistryInv, UniqueNodeIds
<1>4. FindIndex(n) \in DOMAIN devices /\ devices[FindIndex(n)].node = n
  BY <1>2, <1>3 DEF FindIndex
<1>5. Find(n) \in Device
  BY <1>1, <1>4, ElementOfSeq DEF Find
<1> QED
  BY <1>1, <1>4, <1>5 DEF Find, Consistent, RegistryInv, RingConsistent

\* Replacing an entry by a consistent one of the same node.
LEMMA StoreKeeps ==
    ASSUME RegistryInv, NEW n \in Nodes, Known(n),
           NEW d \in Device, d.node = n, Consistent(d), Store(n, d)
    PROVE  RegistryOK'
<1>1. FindIndex(n) \in 1 .. Len(devices) /\ devices[FindIndex(n)].node = n
  BY FindFinds
<1>2. /\ devices' = [devices EXCEPT ![FindIndex(n)] = d]
      /\ devices \in Seq(Device)
  BY DEF Store, RegistryInv, Entries
<1>3. /\ devices' \in Seq(Device) /\ Len(devices') = Len(devices)
      /\ \A j \in 1 .. Len(devices) :
            devices'[j] = IF j = FindIndex(n) THEN d ELSE devices[j]
  BY <1>1, <1>2, ExceptSeq
<1>4. DOMAIN devices = 1 .. Len(devices) /\ DOMAIN devices' = 1 .. Len(devices)
  BY <1>2, <1>3, LenProperties
<1>5. \A j \in 1 .. Len(devices) : devices'[j].node = devices[j].node
  BY <1>1, <1>3
<1>6. UniqueNodeIds'
  BY <1>4, <1>5 DEF UniqueNodeIds, RegistryInv
<1>7. RingConsistent'
  BY <1>3, <1>4 DEF RingConsistent, RegistryInv, Consistent
<1>8. Entries'
  BY <1>3 DEF Entries, RegistryInv
<1> QED
  BY <1>6, <1>7, <1>8 DEF RegistryOK

\* Appending the entry of a node that is not known.
LEMMA AppendKeeps ==
    ASSUME RegistryInv, NEW n \in Nodes, ~Known(n), Len(devices) < MaxDevices,
           NEW d \in Device, d.node = n, Consistent(d), devices' = Append(devices, d)
    PROVE  RegistryOK'
<1>1. devices \in Seq(Device) /\ Len(devices) \in Nat
  BY LenProperties DEF RegistryInv, Entries
<1>2. /\ devices' \in Seq(Device) /\ Len(devices') = Len(devices) + 1
      /\ \A i \in 1 .. Len(devices) : devices'[i] = devices[i]
      /\ devices'[Len(devices) + 1] = d
  BY <1>1, AppendProperties
<1>3. DOMAIN devices = 1 .. Len(devices) /\ DOMAIN devices' = 1 .. Len(devices) + 1
  BY <1>1, <1>2, LenProperties
<1>4. \A i \in 1 .. Len(devices) : devices[i].node # n
  BY <1>3 DEF Known
<1>5. UniqueNodeIds'
  <2> SUFFICES ASSUME NEW i \in 1 .. Len(devices) + 1, NEW j \in 1 .. Len(devices) + 1,
                      devices'[i].node = devices'[j].node
               PROVE  i = j
    BY <1>3 DEF UniqueNodeIds
  <2>1. /\ i \in 1 .. Len(devices) \/ i = Len(devices) + 1
        /\ j \in 1 .. Len(devices) \/ j = Len(devices) + 1
    BY <1>1
  <2> QED
    BY <1>2, <1>3, <1>4, <2>1 DEF UniqueNodeIds, RegistryInv
<1>6. RingConsistent'
  <2> SUFFICES ASSUME NEW i \in 1 .. Len(devices) + 1
               PROVE  Consistent(devices'[i])
    BY <1>3 DEF RingConsistent, Consistent
  <2>1. i \in 1 .. Len(devices) \/ i = Len(devices) + 1
    BY <1>1
  <2> QED
    BY <1>2, <1>3, <2>1 DEF RingConsistent, RegistryInv, Consistent
<1>7. Entries'
  BY <1>1, <1>2, SizesAssumption DEF Entries
<1> QED
  BY <1>5, <1>6, <1>7 DEF RegistryOK

\* A new entry is well formed, its ring empty.
LEMMA NewDeviceIs ==
    ASSUME NEW n \in Nodes, NEW tr \in Transports, NEW fd \in Fds \cup {-1},
           NEW th \in Threads, NEW on \in BOOLEAN
    PROVE  /\ NewDevice(n, tr, fd, th, on) \in Device
           /\ NewDevice(n, tr, fd, th, on).node = n
           /\ Consistent(NewDevice(n, tr, fd, th, on))
<1>1. 0 \in Slots /\ 0 \in 0 .. QueueCap /\ 0 % QueueCap = 0 /\ 0 + 0 = 0
  BY SizesAssumption, Wrapped DEF Slots
<1> QED
  BY <1>1 DEF NewDevice, Device, Consistent

\* The entry a disconnect leaves is well formed, its ring empty.
LEMMA OfflineDeviceIs ==
    ASSUME NEW d \in Device
    PROVE  \A e : e = [ResetQueue(d) EXCEPT !.online = FALSE, !.fd = -1]
                 => e \in Device /\ e.node = d.node /\ Consistent(e)
<1>1. 0 \in Slots /\ 0 \in 0 .. QueueCap /\ 0 % QueueCap = 0 /\ 0 + 0 = 0
  BY SizesAssumption, Wrapped DEF Slots
<1> QED
  BY <1>1 DEF ResetQueue, Device, Consistent

-----------------------------------------------------------------------------
(* The operations *)

\* The commands of a ring leave it with a legal fate.
LEMMA SettleIs ==
    ASSUME History, NEW d, NEW f \in Fates, Settle(d, f)
    PROVE  fate' \in [Commands -> Fates]
  BY DEF History, Settle

LEMMA ConnFields ==
    ASSUME NEW k \in Conns
    PROVE  k.fd \in Fds /\ k.thread \in Threads
  BY DEF Fds, Threads

LEMMA BindKeeps ==
    ASSUME RegistryInv, NEW n \in Nodes, NEW tr \in Transports, NEW k \in Conns,
           \/ BindNew(n, tr, k)
           \/ \E f \in {"returned", "dropped"} : BindTakeover(n, tr, k, f)
    PROVE  RegistryInv'
<1>1. k.fd \in Fds /\ k.thread \in Threads /\ TRUE \in BOOLEAN
  BY ConnFields
<1>2. CASE BindNew(n, tr, k)
  <2>1. RegistryOK'
    BY <1>1, <1>2, NewDeviceIs, AppendKeeps DEF BindNew
  <2> QED
    BY <1>2, <2>1 DEF BindNew, RegistryInv, RegistryOK, History
<1>3. ASSUME NEW f \in {"returned", "dropped"}, BindTakeover(n, tr, k, f)
      PROVE  RegistryInv'
  <2> DEFINE d == [ResetQueue(Find(n)) EXCEPT !.fd = k.fd, !.thread = k.thread,
                                              !.online = TRUE]
  <2>1. Known(n) /\ Find(n) \in Device /\ Find(n).node = n
    BY <1>3, FindFinds DEF BindTakeover
  <2>2. d \in Device /\ d.node = n /\ Consistent(d)
    <3>1. 0 \in Slots /\ 0 \in 0 .. QueueCap /\ 0 % QueueCap = 0 /\ 0 + 0 = 0
      BY SizesAssumption, Wrapped DEF Slots
    <3> QED
      BY <1>1, <2>1, <3>1 DEF ResetQueue, Device, Consistent
  <2>3. Store(n, d)
    BY <1>3 DEF BindTakeover
  <2> HIDE DEF d
  <2>4. RegistryOK'
    BY <2>1, <2>2, <2>3, StoreKeeps
  <2>5. fate' \in [Commands -> Fates]
    BY <1>3, SettleIs DEF BindTakeover, RegistryInv, Fates
  <2> QED
    BY <1>3, <2>4, <2>5 DEF BindTakeover, RegistryInv, RegistryOK, History
<1> QED
  BY <1>2, <1>3

LEMMA DisconnectKeeps ==
    ASSUME RegistryInv, NEW n \in Nodes, NEW k \in Conns,
           NEW f \in {"returned", "dropped"}, Disconnect(n, k, f)
    PROVE  RegistryInv'
<1> DEFINE d == [ResetQueue(Find(n)) EXCEPT !.online = FALSE, !.fd = -1]
<1>1. Known(n) /\ Find(n) \in Device /\ Find(n).node = n
  BY FindFinds DEF Disconnect
<1>2. d \in Device /\ d.node = n /\ Consistent(d)
  BY <1>1, OfflineDeviceIs
<1>3. Store(n, d)
  BY DEF Disconnect
<1> HIDE DEF d
<1>4. RegistryOK'
  BY <1>1, <1>2, <1>3, StoreKeeps
<1>5. fate' \in [Commands -> Fates]
  BY SettleIs DEF Disconnect, RegistryInv, Fates
<1> QED
  BY <1>4, <1>5 DEF Disconnect, RegistryInv, RegistryOK, History

\* A command goes into the first free slot, and the ring stays within its size.
LEMMA EnqueueKeeps ==
    ASSUME RegistryInv, NEW n \in Nodes, NEW c \in Commands, Enqueue(n, c)
    PROVE  RegistryInv'
<1> DEFINE d == [Find(n) EXCEPT !.queue[Find(n).tail] = c,
                                !.tail = (Find(n).tail + 1) % QueueCap,
                                !.count = @ + 1]
<1>1. /\ Known(n) /\ Find(n) \in Device /\ Find(n).node = n /\ Consistent(Find(n))
      /\ Find(n).count < QueueCap /\ Reachable(Find(n))
  BY FindFinds DEF Enqueue, Accepts
<1>2. /\ Find(n).tail \in 0 .. QueueCap - 1 /\ Find(n).head \in 0 .. QueueCap - 1
      /\ Find(n).count \in 0 .. QueueCap - 1 /\ QueueCap \in Nat \ {0}
      /\ Find(n).count \in 0 .. QueueCap
  BY <1>1, SizesAssumption DEF Device, Slots
<1>3. (Find(n).tail + 1) % QueueCap \in Slots /\ Find(n).count + 1 \in 0 .. QueueCap
  BY <1>2, NextSlot DEF Slots
<1>4. d \in Device /\ d.node = n
  BY <1>1, <1>3 DEF Device
<1>5. Consistent(d)
  <2>1. (Find(n).tail + 1) % QueueCap = (Find(n).head + Find(n).count + 1) % QueueCap
    BY <1>1, <1>2, NextIndex DEF Consistent
  <2>2. /\ d.tail = (Find(n).tail + 1) % QueueCap
        /\ d.head = Find(n).head /\ d.count = Find(n).count + 1
    BY <1>1 DEF Device
  <2>3. Find(n).head + (Find(n).count + 1) = Find(n).head + Find(n).count + 1
    BY <1>2
  <2> QED
    BY <2>1, <2>2, <2>3 DEF Consistent
<1>6. Store(n, d)
  BY DEF Enqueue
<1> HIDE DEF d
<1>7. RegistryOK'
  BY <1>1, <1>4, <1>5, <1>6, StoreKeeps
<1>8. History'
  <2>1. [fd |-> Find(n).fd, thread |-> Find(n).thread] \in [fd : Fds, thread : Threads]
    <3>1. Find(n).fd \in Fds \cup {-1} /\ Find(n).thread \in Threads /\ Find(n).fd >= 0
      BY <1>1 DEF Device, Reachable
    <3> QED
      BY <3>1
  <2> QED
    BY <2>1 DEF Enqueue, RegistryInv, History, Fates
<1> QED
  BY <1>7, <1>8 DEF RegistryInv, RegistryOK

LEMMA TryDequeueKeeps ==
    ASSUME RegistryInv, NEW n \in Nodes, NEW k \in Conns, TryDequeue(n, k)
    PROVE  RegistryInv'
<1> DEFINE d == [Find(n) EXCEPT !.head = (Find(n).head + 1) % QueueCap, !.count = @ - 1]
<1>1. /\ Known(n) /\ Find(n) \in Device /\ Find(n).node = n /\ Consistent(Find(n))
      /\ Find(n).count > 0
  BY FindFinds DEF TryDequeue
<1>2. /\ Find(n).head \in 0 .. QueueCap - 1 /\ QueueCap \in Nat \ {0}
      /\ Find(n).count \in 1 .. QueueCap
  BY <1>1, SizesAssumption DEF Device, Slots
<1>3. (Find(n).head + 1) % QueueCap \in Slots /\ Find(n).count - 1 \in 0 .. QueueCap
  BY <1>2, NextSlot DEF Slots
<1>4. d \in Device /\ d.node = n
  BY <1>1, <1>3 DEF Device
<1>5. Consistent(d)
  <2>1. (((Find(n).head + 1) % QueueCap) + (Find(n).count - 1)) % QueueCap
           = (Find(n).head + 1 + (Find(n).count - 1)) % QueueCap
    BY <1>2, <1>3, NextIndex
  <2>2. /\ d.tail = Find(n).tail /\ d.head = (Find(n).head + 1) % QueueCap
        /\ d.count = Find(n).count - 1
    BY <1>1 DEF Device
  <2>3. Find(n).head + 1 + (Find(n).count - 1) = Find(n).head + Find(n).count
    BY <1>2
  <2> QED
    BY <1>1, <2>1, <2>2, <2>3 DEF Consistent
<1>6. Store(n, d)
  BY DEF TryDequeue
<1> HIDE DEF d
<1>7. RegistryOK'
  BY <1>1, <1>4, <1>5, <1>6, StoreKeeps
<1>8. History'
  BY DEF TryDequeue, RegistryInv, History, Fates
<1> QED
  BY <1>7, <1>8 DEF RegistryInv, RegistryOK

LEMMA RegisterKeeps ==
    ASSUME RegistryInv, NEW n \in Nodes, NEW tr \in Transports,
           NEW fd \in Fds \cup {-1}, NEW th \in Threads, Register(n, tr, fd, th)
    PROVE  RegistryInv'
<1>1. (fd > 0) \in BOOLEAN
  OBVIOUS
<1>2. RegistryOK'
  BY <1>1, NewDeviceIs, AppendKeeps DEF Register
<1> QED
  BY <1>2 DEF Register, RegistryInv, RegistryOK, History

\* The entries behind the removed one move up; none is doubled or lost.
LEMMA UnregisterKeeps ==
    ASSUME RegistryInv, NEW n \in Nodes, Unregister(n)
    PROVE  RegistryInv'
<1> DEFINE x == FindIndex(n)
           move(i) == IF i < x THEN i ELSE i + 1
<1>1. x \in 1 .. Len(devices) /\ Len(devices) \in Nat /\ devices \in Seq(Device)
  BY FindFinds, LenProperties DEF Unregister, RegistryInv, Entries
<1>2. devices' = [i \in 1 .. Len(devices) - 1 |->
                    IF i < x THEN devices[i] ELSE devices[i + 1]]
  BY DEF Unregister
<1> HIDE DEF x
<1>3. ASSUME NEW i \in 1 .. Len(devices) - 1
      PROVE  /\ move(i) \in 1 .. Len(devices)
             /\ devices'[i] = devices[move(i)]
             /\ devices'[i] \in Device
  <2>1. move(i) \in 1 .. Len(devices)
    BY <1>1
  <2>2. devices'[i] = devices[move(i)]
    BY <1>2
  <2> QED
    BY <1>1, <2>1, <2>2, ElementOfSeq
<1>4. ASSUME NEW i \in 1 .. Len(devices) - 1, NEW j \in 1 .. Len(devices) - 1,
             move(i) = move(j)
      PROVE  i = j
  BY <1>1, <1>4
<1> HIDE DEF move
<1>5. Len(devices) - 1 \in Nat /\ DOMAIN devices = 1 .. Len(devices)
  BY <1>1, LenProperties
<1>6. /\ devices' \in Seq(Device) /\ Len(devices') = Len(devices) - 1
      /\ DOMAIN devices' = 1 .. Len(devices) - 1
  <2> DEFINE m == Len(devices) - 1
  <2>1. devices' \in [1 .. m -> Device] /\ m \in Nat
    BY <1>2, <1>3, <1>5
  <2> HIDE DEF m
  <2>2. devices' \in Seq(Device) /\ Len(devices') = m /\ DOMAIN devices' = 1 .. m
    BY <2>1, FunctionIsSeq
  <2> QED
    BY <2>2 DEF m
<1>7. Entries'
  BY <1>1, <1>6, SizesAssumption DEF Entries, RegistryInv
<1>8. UniqueNodeIds'
  BY <1>3, <1>4, <1>5, <1>6, SMTT(30) DEF UniqueNodeIds, RegistryInv
<1>9. RingConsistent'
  BY <1>3, <1>5, <1>6 DEF RingConsistent, RegistryInv
<1>10. fate' \in [Commands -> Fates]
  BY SettleIs DEF Unregister, RegistryInv, Fates
<1> QED
  BY <1>7, <1>8, <1>9, <1>10 DEF Unregister, RegistryInv, History

LEMMA SetOnlineKeeps ==
    ASSUME RegistryInv, NEW n \in Nodes, NEW on \in BOOLEAN,
           NEW fd \in Fds \cup {-1}, SetOnline(n, on, fd)
    PROVE  RegistryInv'
<1> DEFINE d == [Find(n) EXCEPT !.online = on, !.fd = IF on THEN fd ELSE -1]
<1>1. Known(n) /\ Find(n) \in Device /\ Find(n).node = n /\ Consistent(Find(n))
  BY FindFinds DEF SetOnline
<1>2. d \in Device /\ d.node = n /\ Consistent(d)
  BY <1>1 DEF Device, Consistent
<1>3. Store(n, d)
  BY DEF SetOnline
<1> HIDE DEF d
<1>4. RegistryOK'
  BY <1>1, <1>2, <1>3, StoreKeeps
<1> QED
  BY <1>4 DEF SetOnline, RegistryInv, RegistryOK, History

-----------------------------------------------------------------------------
(* Results *)

LEMMA InitRegistry == Init => RegistryInv
<1> SUFFICES ASSUME Init PROVE RegistryInv
  OBVIOUS
<1>1. devices = <<>> /\ <<>> \in Seq(Device) /\ Len(<<>>) = 0 /\ DOMAIN <<>> = {}
  BY EmptySeq DEF Init
<1>2. Entries
  BY <1>1, SizesAssumption DEF Entries
<1>3. History
  BY DEF Init, History, Fates
<1> QED
  BY <1>1, <1>2, <1>3 DEF RegistryInv, UniqueNodeIds, RingConsistent

LEMMA StepKeepsRegistry == RegistryInv /\ [Next]_dmVars => RegistryInv'
<1> SUFFICES ASSUME RegistryInv, [Next]_dmVars PROVE RegistryInv'
  OBVIOUS
<1>1. CASE UNCHANGED dmVars
  BY <1>1 DEF dmVars, RegistryInv, Entries, History, UniqueNodeIds, RingConsistent
<1>2. CASE GatewayNext
  BY <1>2, BindKeeps, DisconnectKeeps, TryDequeueKeeps, EnqueueKeeps DEF GatewayNext
<1>3. CASE OtherNext
  BY <1>3, BindKeeps, DisconnectKeeps, RegisterKeeps, UnregisterKeeps, SetOnlineKeeps
     DEF OtherNext
<1>4. CASE RefusedNext
  BY <1>1, <1>4
     DEF RefusedNext, BindFull, BindConflict, BindAgain, BindTooSmall,
         DisconnectRefused, DisconnectTooSmall, DequeueRefused, DequeueEmpty,
         EnqueueRefused
<1> QED
  BY <1>1, <1>2, <1>3, <1>4 DEF Next

LEMMA RegistryCorrect == Spec => []RegistryInv
  BY InitRegistry, StepKeepsRegistry, PTL DEF Spec

\* The registry is well typed under its whole interface: no ring index leaves
\* the ring, no ring holds more than its capacity, no table more than its size.
THEOREM TypeCorrect == Spec => []TypeOK
<1>1. RegistryInv => TypeOK
  BY DEF RegistryInv, Entries, History, TypeOK
<1> QED
  BY <1>1, RegistryCorrect, PTL

\* No node ever has two entries, so that the linear search finds the only one.
THEOREM OneEntryPerNode == Spec => []UniqueNodeIds
<1>1. RegistryInv => UniqueNodeIds
  BY DEF RegistryInv
<1> QED
  BY <1>1, RegistryCorrect, PTL

\* head, tail and count of every ring describe the same queue after any sequence
\* of wraps, takeovers, disconnects and moves of entries.
THEOREM RingsAreConsistent == Spec => []RingConsistent
<1>1. RegistryInv => RingConsistent
  BY DEF RegistryInv
<1> QED
  BY <1>1, RegistryCorrect, PTL

-----------------------------------------------------------------------------
(* Part 2: the contents of the rings *)

\* Command c waits at place p of the ring of entry i.
Waits(i, p, c) == /\ i \in DOMAIN devices
                  /\ p \in 1 .. devices[i].count
                  /\ Pending(devices[i])[p] = c

\* RingsHoldTheQueued, in terms of places.
Once == \A c, i, j, p, q : Waits(i, p, c) /\ Waits(j, q, c) => i = j /\ p = q
Held == \A i, p, c : Waits(i, p, c) => c \in Commands /\ fate[c] = "queued"
Kept == \A c \in Commands : fate[c] = "queued" => \E i, p : Waits(i, p, c)
Own  == \A i, p, c : Waits(i, p, c) => Target[c] = devices[i].node

RingsInv == Once /\ Held /\ Kept /\ Own

-----------------------------------------------------------------------------
(* The contents of one ring *)

LEMMA PendingIs ==
    ASSUME NEW d \in Device
    PROVE  /\ d.count \in 0 .. QueueCap /\ d.head \in 0 .. QueueCap - 1
           /\ d.tail \in 0 .. QueueCap - 1 /\ QueueCap \in Nat \ {0}
           /\ DOMAIN d.queue = Slots
           /\ Pending(d) = [p \in 1 .. d.count |-> d.queue[(d.head + p - 1) % QueueCap]]
           /\ DOMAIN Pending(d) = 1 .. d.count
           /\ PendingSet(d) = {Pending(d)[p] : p \in 1 .. d.count}
  BY SizesAssumption DEF Device, Slots, Pending, PendingSet

\* A place of the ring is not the free slot behind its last one.
LEMMA OtherSlot ==
    ASSUME NEW c \in Nat \ {0}, NEW h \in 0 .. c - 1, NEW n \in 0 .. c - 1,
           NEW p \in 1 .. n
    PROVE  /\ (h + p - 1) % c \in 0 .. c - 1
           /\ (h + p - 1) % c # (h + n) % c
<1> DEFINE x == h + p - 1
           y == h + n
<1>1. x \in 0 .. 2 * c /\ x < 2 * c /\ y \in 0 .. 2 * c /\ y < 2 * c /\ x < y /\ y < x + c
  OBVIOUS
<1> HIDE DEF x, y
<1>2. x % c = (IF x < c THEN x ELSE x - c) /\ y % c = (IF y < c THEN y ELSE y - c)
  BY <1>1, Wrapped
<1>3. x % c \in 0 .. c - 1 /\ x % c # y % c
  BY <1>1, <1>2
<1> QED BY <1>3 DEF x, y

\* Entering a command adds it behind the others.
LEMMA EnteredBehind ==
    ASSUME NEW d \in Device, Consistent(d), d.count < QueueCap, NEW c \in Commands,
           NEW e, e = [d EXCEPT !.queue[d.tail] = c, !.tail = (d.tail + 1) % QueueCap,
                                !.count = @ + 1]
    PROVE  /\ e.count = d.count + 1
           /\ \A p \in 1 .. d.count : Pending(e)[p] = Pending(d)[p]
           /\ Pending(e)[d.count + 1] = c
<1>1. /\ d.count \in 0 .. QueueCap - 1 /\ d.head \in 0 .. QueueCap - 1
      /\ QueueCap \in Nat \ {0} /\ d.tail \in Slots
      /\ Pending(d) = [p \in 1 .. d.count |-> d.queue[(d.head + p - 1) % QueueCap]]
  BY PendingIs DEF Slots
<1>2. d.queue \in [Slots -> Commands \cup {NoCommand}]
  BY DEF Device
<1>3. /\ e.count = d.count + 1 /\ e.head = d.head
      /\ e.queue = [d.queue EXCEPT ![d.tail] = c]
  BY DEF Device
<1>4. Pending(e) = [p \in 1 .. d.count + 1 |-> e.queue[(d.head + p - 1) % QueueCap]]
  BY <1>3 DEF Pending
<1>5. ASSUME NEW p \in 1 .. d.count
      PROVE  Pending(e)[p] = Pending(d)[p]
  <2>1. /\ (d.head + p - 1) % QueueCap \in 0 .. QueueCap - 1
        /\ (d.head + p - 1) % QueueCap # d.tail
    <3>1. /\ d.count \in 0 .. QueueCap - 1 /\ d.head \in 0 .. QueueCap - 1
          /\ QueueCap \in Nat \ {0} /\ p \in 1 .. d.count
      BY <1>1
    <3>2. /\ (d.head + p - 1) % QueueCap \in 0 .. QueueCap - 1
          /\ (d.head + p - 1) % QueueCap # (d.head + d.count) % QueueCap
      BY <3>1, OtherSlot, Zenon
    <3> QED BY <3>2, Zenon DEF Consistent
  <2>2. e.queue[(d.head + p - 1) % QueueCap] = d.queue[(d.head + p - 1) % QueueCap]
    BY <1>2, <1>3, <2>1 DEF Slots
  <2>3. p \in 1 .. d.count + 1
    BY <1>1
  <2> QED BY <1>1, <1>4, <2>2, <2>3
<1>6. Pending(e)[d.count + 1] = c
  <2>1. d.head + (d.count + 1) - 1 = d.head + d.count /\ d.count + 1 \in 1 .. d.count + 1
    BY <1>1
  <2>2. e.queue[d.tail] = c
    BY <1>1, <1>2, <1>3
  <2>3. Pending(e)[d.count + 1] = e.queue[(d.head + (d.count + 1) - 1) % QueueCap]
    BY <1>4, <2>1
  <2> QED BY <2>1, <2>2, <2>3 DEF Consistent
<1> QED BY <1>3, <1>5, <1>6

\* Taking the command at the head moves the others one place forward.
LEMMA TakenInFront ==
    ASSUME NEW d \in Device, d.count > 0,
           NEW e, e = [d EXCEPT !.head = (d.head + 1) % QueueCap, !.count = @ - 1]
    PROVE  /\ e.count = d.count - 1
           /\ \A p \in 1 .. d.count - 1 : Pending(e)[p] = Pending(d)[p + 1]
           /\ Pending(d)[1] = Head1(d)
<1>1. /\ d.count \in 1 .. QueueCap /\ d.head \in 0 .. QueueCap - 1
      /\ QueueCap \in Nat \ {0}
      /\ Pending(d) = [p \in 1 .. d.count |-> d.queue[(d.head + p - 1) % QueueCap]]
  BY PendingIs
<1>2. /\ e.count = d.count - 1 /\ e.head = (d.head + 1) % QueueCap /\ e.queue = d.queue
  BY DEF Device
<1>3. Pending(e) = [p \in 1 .. d.count - 1 |->
                      d.queue[(((d.head + 1) % QueueCap) + p - 1) % QueueCap]]
  BY <1>2 DEF Pending
<1>4. ASSUME NEW p \in 1 .. d.count - 1
      PROVE  Pending(e)[p] = Pending(d)[p + 1]
  <2>1. p - 1 \in 0 .. QueueCap
    BY <1>1
  <2>2. (((d.head + 1) % QueueCap) + (p - 1)) % QueueCap = (d.head + 1 + (p - 1)) % QueueCap
    BY <1>1, <2>1, NextIndex
  <2>3. /\ d.head + 1 + (p - 1) = d.head + (p + 1) - 1
        /\ p + 1 \in 1 .. d.count
    BY <1>1
  <2>4. (d.head + 1) % QueueCap \in 0 .. QueueCap - 1
    BY <1>1, NextSlot
  <2>5. ((d.head + 1) % QueueCap) + (p - 1) = ((d.head + 1) % QueueCap) + p - 1
    BY <2>4
  <2>6. Pending(e)[p] = d.queue[(((d.head + 1) % QueueCap) + p - 1) % QueueCap]
    BY <1>3
  <2>7. Pending(d)[p + 1] = d.queue[(d.head + (p + 1) - 1) % QueueCap]
    BY <1>1, <2>3
  <2> QED BY <2>2, <2>3, <2>5, <2>6, <2>7
<1>5. Pending(d)[1] = Head1(d)
  <2>1. d.head + 1 - 1 = d.head /\ 1 \in 1 .. d.count
    BY <1>1
  <2>2. d.head % QueueCap = d.head
    <3> DEFINE h == d.head
    <3>1. h \in 0 .. 2 * QueueCap /\ h < QueueCap /\ QueueCap \in Nat \ {0}
      BY <1>1
    <3> HIDE DEF h
    <3>2. h % QueueCap = h
      BY <3>1, Wrapped
    <3> QED BY <3>2 DEF h
  <2> QED BY <1>1, <2>1, <2>2 DEF Head1
<1> QED BY <1>2, <1>4, <1>5

-----------------------------------------------------------------------------
(* The contents of all rings *)

\* Replacing the entry of a node changes its ring only.
LEMMA StoredRings ==
    ASSUME RegistryInv, NEW n \in Nodes, Known(n), NEW d \in Device, Store(n, d)
    PROVE  /\ DOMAIN devices' = DOMAIN devices
           /\ FindIndex(n) \in DOMAIN devices
           /\ devices[FindIndex(n)] = Find(n) /\ devices'[FindIndex(n)] = d
           /\ \A j \in DOMAIN devices : j # FindIndex(n) => devices'[j] = devices[j]
<1>1. FindIndex(n) \in 1 .. Len(devices)
  BY FindFinds
<1>2. devices' = [devices EXCEPT ![FindIndex(n)] = d] /\ devices \in Seq(Device)
  BY DEF Store, RegistryInv, Entries
<1>3. DOMAIN devices = 1 .. Len(devices)
  BY <1>2, LenProperties
<1> QED BY <1>1, <1>2, <1>3 DEF Find

\* The ring of a node leaves as a whole.
LEMMA EmptiedRing ==
    ASSUME RegistryInv, RingsInv, NEW n \in Nodes, Known(n),
           NEW d \in Device, d.node = n, d.count = 0, Store(n, d),
           NEW f \in {"returned", "dropped"}, Settle(Find(n), f)
    PROVE  /\ RingsInv'
           /\ \A i, p, c : Waits(i, p, c)' => i # FindIndex(n) /\ Waits(i, p, c)
<1> DEFINE x == FindIndex(n)
<1>1. /\ DOMAIN devices' = DOMAIN devices /\ x \in DOMAIN devices
      /\ devices[x] = Find(n) /\ devices'[x] = d
      /\ \A j \in DOMAIN devices : j # x => devices'[j] = devices[j]
  BY StoredRings
<1>2. Find(n) \in Device
  BY FindFinds
<1> HIDE DEF x
<1>3. \A i, p, c : Waits(i, p, c)' <=> i # x /\ Waits(i, p, c)
  BY <1>1 DEF Waits
<1>4. \A c : c \in PendingSet(Find(n)) <=> \E p : Waits(x, p, c)
  <2>1. PendingSet(Find(n)) = {Pending(Find(n))[p] : p \in 1 .. Find(n).count}
    BY <1>2, PendingIs
  <2>2. \A p, c : Waits(x, p, c) <=> p \in 1 .. Find(n).count /\ Pending(Find(n))[p] = c
    BY <1>1 DEF Waits
  <2> QED BY <2>1, <2>2
<1>5. \A c \in Commands : fate'[c] = IF \E p : Waits(x, p, c) THEN f ELSE fate[c]
  BY <1>4 DEF Settle
<1>6. Once' /\ Own'
  BY <1>1, <1>3 DEF RingsInv, Once, Own, Waits
<1>7. Held'
  BY <1>3, <1>5 DEF RingsInv, Once, Held
<1>8. Kept'
  BY <1>3, <1>5 DEF RingsInv, Kept
<1> QED BY <1>3, <1>6, <1>7, <1>8 DEF RingsInv, x

\* An entry changes that is not its ring.
LEMMA SameRing ==
    ASSUME RegistryInv, RingsInv, NEW n \in Nodes, Known(n),
           NEW d \in Device, d.node = n, d.count = Find(n).count,
           d.head = Find(n).head, d.queue = Find(n).queue,
           Store(n, d), UNCHANGED fate
    PROVE  RingsInv'
<1> DEFINE x == FindIndex(n)
<1>1. /\ DOMAIN devices' = DOMAIN devices /\ x \in DOMAIN devices
      /\ devices[x] = Find(n) /\ devices'[x] = d
      /\ \A j \in DOMAIN devices : j # x => devices'[j] = devices[j]
  BY StoredRings
<1>2. Find(n).node = n
  BY FindFinds
<1> HIDE DEF x
<1>3. Pending(d) = Pending(Find(n))
  BY DEF Pending
<1>4. \A i, p, c : Waits(i, p, c)' <=> Waits(i, p, c)
  BY <1>1, <1>3 DEF Waits
<1>5. \A i \in DOMAIN devices : devices'[i].node = devices[i].node
  BY <1>1, <1>2
<1>6. Own'
  BY <1>4, <1>5 DEF RingsInv, Own, Waits
<1>7. Once' /\ Held' /\ Kept'
  BY <1>4 DEF RingsInv, Once, Held, Kept
<1> QED BY <1>6, <1>7 DEF RingsInv

\* A new entry comes with an empty ring.
LEMMA NewRing ==
    ASSUME RegistryInv, RingsInv, NEW d \in Device, d.count = 0,
           devices' = Append(devices, d), UNCHANGED fate
    PROVE  /\ RingsInv'
           /\ \A i, p, c : Waits(i, p, c)' => Waits(i, p, c)
<1>1. devices \in Seq(Device) /\ Len(devices) \in Nat /\ DOMAIN devices = 1 .. Len(devices)
  BY LenProperties DEF RegistryInv, Entries
<1>2. /\ devices' \in Seq(Device) /\ Len(devices') = Len(devices) + 1
      /\ \A i \in 1 .. Len(devices) : devices'[i] = devices[i]
      /\ devices'[Len(devices) + 1] = d
  BY <1>1, AppendProperties
<1>3. DOMAIN devices' = 1 .. Len(devices) + 1
  BY <1>1, <1>2, LenProperties
<1>4. \A i : i \in DOMAIN devices' <=> i \in DOMAIN devices \/ i = Len(devices) + 1
  BY <1>1, <1>3
<1>5. \A i, p, c : Waits(i, p, c)' <=> Waits(i, p, c)
  BY <1>1, <1>2, <1>4 DEF Waits
<1>6. Own'
  BY <1>1, <1>2, <1>5 DEF RingsInv, Own, Waits
<1>7. Once' /\ Held' /\ Kept'
  BY <1>5 DEF RingsInv, Once, Held, Kept
<1> QED BY <1>5, <1>6, <1>7 DEF RingsInv

LEMMA EnqueueRings ==
    ASSUME RegistryInv, RingsInv, NEW n \in Nodes, NEW c \in Commands, Enqueue(n, c)
    PROVE  /\ RingsInv'
           /\ \A i, p, b : Waits(i, p, b)' => \/ Waits(i, p, b) /\ b # c
                                              \/ i = FindIndex(n) /\ b = c
<1> DEFINE d == Find(n)
           e == [d EXCEPT !.queue[d.tail] = c, !.tail = (d.tail + 1) % QueueCap,
                          !.count = @ + 1]
           x == FindIndex(n)
<1>1. /\ Known(n) /\ d \in Device /\ d.node = n /\ Consistent(d)
      /\ d.count < QueueCap /\ Target[c] = n /\ fate[c] = "new"
  BY FindFinds DEF Enqueue, Accepts
<1>2. /\ e.count = d.count + 1
      /\ \A p \in 1 .. d.count : Pending(e)[p] = Pending(d)[p]
      /\ Pending(e)[d.count + 1] = c
  BY <1>1, EnteredBehind
<1>3. e \in Device /\ e.node = n
  <2>1. /\ d.tail \in 0 .. QueueCap - 1 /\ QueueCap \in Nat \ {0} /\ d.count \in 0 .. QueueCap
    BY <1>1, PendingIs
  <2>2. (d.tail + 1) % QueueCap \in Slots /\ d.count + 1 \in 0 .. QueueCap
    BY <1>1, <2>1, NextSlot DEF Slots
  <2> QED BY <1>1, <2>2 DEF Device
<1>4. Store(n, e) /\ fate' = [fate EXCEPT ![c] = "queued"]
  BY DEF Enqueue
<1> HIDE DEF e
<1>5. /\ DOMAIN devices' = DOMAIN devices /\ x \in DOMAIN devices
      /\ devices[x] = d /\ devices'[x] = e
      /\ \A j \in DOMAIN devices : j # x => devices'[j] = devices[j]
  BY <1>1, <1>3, <1>4, StoredRings
<1>6. d.count \in Nat
  BY <1>1, PendingIs
<1> HIDE DEF d, x
<1>7. \A p : p \in 1 .. e.count <=> p \in 1 .. d.count \/ p = d.count + 1
  BY <1>2, <1>6
<1>8. \A i, p, b : Waits(i, p, b)' <=> \/ Waits(i, p, b)
                                       \/ i = x /\ p = d.count + 1 /\ b = c
  <2> SUFFICES ASSUME NEW i, NEW p, NEW b
               PROVE  Waits(i, p, b)' <=> \/ Waits(i, p, b)
                                          \/ i = x /\ p = d.count + 1 /\ b = c
    OBVIOUS
  <2>1. CASE i = x
    <3>1. Waits(i, p, b)' <=> p \in 1 .. e.count /\ Pending(e)[p] = b
      BY <1>5, <2>1 DEF Waits
    <3>2. Waits(i, p, b) <=> p \in 1 .. d.count /\ Pending(d)[p] = b
      BY <1>5, <2>1 DEF Waits
    <3> QED BY <1>2, <1>7, <2>1, <3>1, <3>2
  <2>2. CASE i # x
    BY <1>5, <2>2 DEF Waits
  <2> QED BY <2>1, <2>2
<1>9. \A i, p : ~Waits(i, p, c)
  BY <1>1 DEF RingsInv, Held
<1>10. \A i \in DOMAIN devices : devices'[i].node = devices[i].node
  BY <1>1, <1>3, <1>5 DEF d
<1>11. fate \in [Commands -> Fates]
  BY DEF RegistryInv, History
<1>12. Once'
  BY <1>8, <1>9 DEF RingsInv, Once
<1>13. Held' /\ Kept'
  <2>1. fate'[c] = "queued" /\ \A b \in Commands : b # c => fate'[b] = fate[b]
    BY <1>4, <1>11
  <2> QED BY <1>8, <2>1 DEF RingsInv, Held, Kept
<1>14. Own'
  <2>1. \A i, p, b : Waits(i, p, b) => i \in DOMAIN devices
    BY DEF Waits
  <2>2. devices[x].node = n
    BY <1>1, <1>5
  <2> QED BY <1>1, <1>5, <1>8, <1>10, <2>1, <2>2 DEF RingsInv, Own
<1> QED BY <1>8, <1>9, <1>12, <1>13, <1>14 DEF RingsInv, x

LEMMA TryDequeueRings ==
    ASSUME RegistryInv, RingsInv, NEW n \in Nodes, NEW k \in Conns, TryDequeue(n, k)
    PROVE  /\ RingsInv' /\ Waits(FindIndex(n), 1, Head1(Find(n)))
           /\ \A i, p, b : Waits(i, p, b)' => \E q : Waits(i, q, b)
<1> DEFINE d == Find(n)
           e == [d EXCEPT !.head = (d.head + 1) % QueueCap, !.count = @ - 1]
           h == Head1(d)
<1>0. PICK x : x = FindIndex(n)
  OBVIOUS
<1>1. Known(n) /\ d \in Device /\ d.node = n /\ d.count > 0
  BY FindFinds DEF TryDequeue
<1>2. /\ e.count = d.count - 1
      /\ \A p \in 1 .. d.count - 1 : Pending(e)[p] = Pending(d)[p + 1]
      /\ Pending(d)[1] = h
  BY <1>1, TakenInFront
<1>3. e \in Device /\ e.node = n
  <2>1. /\ d.head \in 0 .. QueueCap - 1 /\ QueueCap \in Nat \ {0} /\ d.count \in 1 .. QueueCap
    BY <1>1, PendingIs
  <2>2. (d.head + 1) % QueueCap \in Slots /\ d.count - 1 \in 0 .. QueueCap
    BY <1>1, <2>1, NextSlot DEF Slots
  <2> QED BY <1>1, <2>2 DEF Device
<1>4. Store(n, e) /\ fate' = [fate EXCEPT ![h] = "taken"]
  BY DEF TryDequeue
<1> HIDE DEF e
<1>5. /\ DOMAIN devices' = DOMAIN devices /\ x \in DOMAIN devices
      /\ devices[x] = d /\ devices'[x] = e
      /\ \A j \in DOMAIN devices : j # x => devices'[j] = devices[j]
  BY <1>0, <1>1, <1>3, <1>4, StoredRings
<1>6. d.count \in Nat /\ d.count >= 1
  BY <1>1, PendingIs
<1> HIDE DEF d, h
<1>7. Waits(x, 1, h)
  BY <1>2, <1>5, <1>6 DEF Waits
<1>8. \A p : p \in 1 .. e.count => p \in Int /\ p + 1 \in 1 .. d.count /\ p + 1 # 1
  BY <1>2, <1>6
<1>9. \A q \in 1 .. d.count : q = 1 \/ (q - 1 \in 1 .. e.count /\ (q - 1) + 1 = q)
  BY <1>2, <1>6
<1>10. \A p, b : Waits(x, p, b)' => p \in Int /\ Waits(x, p + 1, b) /\ p + 1 # 1
  <2> SUFFICES ASSUME NEW p, NEW b, Waits(x, p, b)'
               PROVE  p \in Int /\ Waits(x, p + 1, b) /\ p + 1 # 1
    OBVIOUS
  <2>1. p \in 1 .. e.count /\ Pending(e)[p] = b
    BY <1>5 DEF Waits
  <2> QED BY <1>2, <1>5, <1>8, <2>1 DEF Waits
<1>11. \A q, b : Waits(x, q, b) /\ q # 1 => Waits(x, q - 1, b)'
  <2> SUFFICES ASSUME NEW q, NEW b, Waits(x, q, b), q # 1
               PROVE  Waits(x, q - 1, b)'
    OBVIOUS
  <2>1. q \in 1 .. d.count /\ Pending(d)[q] = b
    BY <1>5 DEF Waits
  <2>2. q - 1 \in 1 .. e.count /\ (q - 1) + 1 = q
    BY <1>9, <2>1
  <2>3. Pending(e)[q - 1] = b
    BY <1>2, <2>1, <2>2
  <2> QED BY <1>5, <2>2, <2>3 DEF Waits
<1>12. \A i, p, b : i # x => (Waits(i, p, b)' <=> Waits(i, p, b))
  BY <1>5 DEF Waits
<1>13. \A i, p, b : Waits(i, p, b)' => \E q : Waits(i, q, b) /\ (i = x => q # 1)
  <2> SUFFICES ASSUME NEW i, NEW p, NEW b, Waits(i, p, b)'
               PROVE  \E q : Waits(i, q, b) /\ (i = x => q # 1)
    OBVIOUS
  <2> QED BY <1>10, <1>12
<1>14. \A i, p, b : Waits(i, p, b)' => b # h
  BY <1>7, <1>13 DEF RingsInv, Once
<1>15. \A i \in DOMAIN devices : devices'[i].node = devices[i].node
  BY <1>1, <1>3, <1>5
<1>16. h \in Commands
  BY <1>7 DEF RingsInv, Held
<1>17. fate \in [Commands -> Fates]
  BY DEF RegistryInv, History
<1>18. fate'[h] = "taken" /\ \A b \in Commands : b # h => fate'[b] = fate[b]
  BY <1>4, <1>16, <1>17
<1>19. Once'
  <2> SUFFICES ASSUME NEW c, NEW i, NEW j, NEW p, NEW q,
                      Waits(i, p, c)', Waits(j, q, c)'
               PROVE  i = j /\ p = q
    BY DEF Once
  <2>1. i = j
    BY <1>13 DEF RingsInv, Once
  <2>2. CASE i = x
    <3>1. p \in Int /\ q \in Int /\ p + 1 = q + 1
      BY <1>10, <2>1, <2>2 DEF RingsInv, Once
    <3> QED BY <2>1, <3>1
  <2>3. CASE i # x
    BY <1>12, <2>1, <2>3 DEF RingsInv, Once
  <2> QED BY <2>2, <2>3
<1>20. Held'
  BY <1>13, <1>14, <1>18 DEF RingsInv, Held
<1>21. Kept'
  <2> SUFFICES ASSUME NEW c \in Commands, fate'[c] = "queued"
               PROVE  \E i, p : Waits(i, p, c)'
    BY DEF Kept
  <2>1. c # h /\ fate[c] = "queued"
    BY <1>18
  <2>2. PICK i, q : Waits(i, q, c)
    BY <2>1 DEF RingsInv, Kept
  <2>3. CASE i = x
    <3>1. q # 1
      BY <1>2, <1>5, <2>1, <2>2, <2>3 DEF Waits
    <3> QED BY <1>11, <2>2, <2>3, <3>1
  <2>4. CASE i # x
    BY <1>12, <2>2, <2>4
  <2> QED BY <2>3, <2>4
<1>22. Own'
  <2>1. \A i, p, b : Waits(i, p, b) => i \in DOMAIN devices
    BY DEF Waits
  <2> QED BY <1>13, <1>15, <2>1 DEF RingsInv, Own
<1>23. Waits(FindIndex(n), 1, Head1(Find(n)))
  BY <1>0, <1>7 DEF h, d
<1> QED BY <1>13, <1>19, <1>20, <1>21, <1>22, <1>23 DEF RingsInv

\* The entries behind the removed one move up with their rings.
LEMMA UnregisterRings ==
    ASSUME RegistryInv, RingsInv, NEW n \in Nodes, Unregister(n)
    PROVE  RingsInv'
<1>1. /\ FindIndex(n) \in 1 .. Len(devices) /\ Len(devices) \in Nat
      /\ DOMAIN devices = 1 .. Len(devices) /\ Find(n) \in Device
  BY FindFinds, LenProperties DEF Unregister, RegistryInv, Entries
<1>2. PICK x, m : x = FindIndex(n) /\ m = Len(devices)
  OBVIOUS
<1> DEFINE move(i) == IF i < x THEN i ELSE i + 1
<1>3. x \in 1 .. m /\ m \in Nat /\ DOMAIN devices = 1 .. m /\ devices[x] = Find(n)
  BY <1>1, <1>2 DEF Find
<1>4. devices' = [i \in 1 .. m - 1 |-> IF i < x THEN devices[i] ELSE devices[i + 1]]
  BY <1>2 DEF Unregister
<1>5. DOMAIN devices' = 1 .. m - 1
  BY <1>4
<1>6. \A i \in 1 .. m - 1 : /\ move(i) \in 1 .. m /\ move(i) # x
                            /\ devices'[i] = devices[move(i)]
  BY <1>3, <1>4
<1>7. \A i, j \in 1 .. m - 1 : move(i) = move(j) => i = j
  BY <1>3
<1>8. \A j \in 1 .. m : j # x => \E i \in 1 .. m - 1 : move(i) = j
  <2> SUFFICES ASSUME NEW j \in 1 .. m, j # x
               PROVE  \E i \in 1 .. m - 1 : move(i) = j
    OBVIOUS
  <2>1. CASE j < x
    BY <1>3, <2>1
  <2>2. CASE j > x
    <3>1. j - 1 \in 1 .. m - 1 /\ ~(j - 1 < x) /\ (j - 1) + 1 = j
      BY <1>3, <2>2
    <3>2. move(j - 1) = j
      BY <3>1
    <3> HIDE DEF move
    <3> QED BY <3>1, <3>2
  <2> QED BY <1>3, <2>1, <2>2
<1> HIDE DEF move
<1>9. \A i, p, c : Waits(i, p, c)' <=> i \in 1 .. m - 1 /\ Waits(move(i), p, c)
  BY <1>3, <1>5, <1>6 DEF Waits
<1>10. \A c : c \in PendingSet(Find(n)) <=> \E p : Waits(x, p, c)
  <2>1. PendingSet(Find(n)) = {Pending(Find(n))[p] : p \in 1 .. Find(n).count}
    BY <1>1, PendingIs
  <2>2. \A p, c : Waits(x, p, c) <=> p \in 1 .. Find(n).count /\ Pending(Find(n))[p] = c
    BY <1>3 DEF Waits
  <2> QED BY <2>1, <2>2
<1>11. \A c \in Commands : fate'[c] = IF \E p : Waits(x, p, c) THEN "dropped" ELSE fate[c]
  BY <1>10 DEF Unregister, Settle
<1>12. Once'
  BY <1>7, <1>9 DEF RingsInv, Once
<1>13. Held'
  <2> SUFFICES ASSUME NEW i, NEW p, NEW c, Waits(i, p, c)'
               PROVE  c \in Commands /\ fate'[c] = "queued"
    BY DEF Held
  <2>1. i \in 1 .. m - 1 /\ Waits(move(i), p, c)
    BY <1>9
  <2>2. ~\E q : Waits(x, q, c)
    BY <1>6, <2>1 DEF RingsInv, Once
  <2> QED BY <1>11, <2>1, <2>2 DEF RingsInv, Held
<1>14. Kept'
  <2> SUFFICES ASSUME NEW c \in Commands, fate'[c] = "queued"
               PROVE  \E i, p : Waits(i, p, c)'
    BY DEF Kept
  <2>1. fate[c] = "queued" /\ ~\E q : Waits(x, q, c)
    BY <1>11
  <2>2. PICK j, p : Waits(j, p, c)
    BY <2>1 DEF RingsInv, Kept
  <2>3. j \in 1 .. m /\ j # x
    BY <1>3, <2>1, <2>2 DEF Waits
  <2> QED BY <1>8, <1>9, <2>2, <2>3
<1>15. Own'
  BY <1>6, <1>9 DEF RingsInv, Own
<1> QED BY <1>12, <1>13, <1>14, <1>15 DEF RingsInv

-----------------------------------------------------------------------------
(* The steps *)

\* A ring that was reset is empty.
LEMMA ResetIsEmpty ==
    ASSUME NEW d \in Device
    PROVE  [ResetQueue(d) EXCEPT !.online = FALSE, !.fd = -1].count = 0
  BY DEF ResetQueue, Device

LEMMA BindRings ==
    ASSUME RegistryInv, RingsInv, NEW n \in Nodes, NEW tr \in Transports, NEW k \in Conns,
           \/ BindNew(n, tr, k)
           \/ \E f \in {"returned", "dropped"} : BindTakeover(n, tr, k, f)
    PROVE  RingsInv'
<1>1. k.fd \in Fds \cup {-1} /\ k.fd \in Fds /\ k.thread \in Threads /\ TRUE \in BOOLEAN
  BY ConnFields
<1>2. CASE BindNew(n, tr, k)
  <2> DEFINE d == NewDevice(n, tr, k.fd, k.thread, TRUE)
  <2>1. d \in Device /\ d.count = 0
    BY <1>1, NewDeviceIs DEF NewDevice
  <2>2. devices' = Append(devices, d) /\ UNCHANGED fate
    BY <1>2 DEF BindNew
  <2> HIDE DEF d
  <2> QED BY <2>1, <2>2, NewRing
<1>3. ASSUME NEW f \in {"returned", "dropped"}, BindTakeover(n, tr, k, f)
      PROVE  RingsInv'
  <2> DEFINE d == [ResetQueue(Find(n)) EXCEPT !.fd = k.fd, !.thread = k.thread,
                                              !.online = TRUE]
  <2>1. Known(n) /\ Find(n) \in Device /\ Find(n).node = n
    BY <1>3, FindFinds DEF BindTakeover
  <2>2. d \in Device /\ d.node = n /\ d.count = 0
    <3>1. 0 \in Slots /\ 0 \in 0 .. QueueCap
      BY SizesAssumption DEF Slots
    <3> QED
      BY <1>1, <2>1, <3>1 DEF ResetQueue, Device
  <2>3. Store(n, d) /\ Settle(Find(n), f)
    BY <1>3 DEF BindTakeover
  <2> HIDE DEF d
  <2> QED BY <2>1, <2>2, <2>3, EmptiedRing
<1> QED BY <1>2, <1>3

LEMMA DisconnectRings ==
    ASSUME RegistryInv, RingsInv, NEW n \in Nodes, NEW k \in Conns,
           NEW f \in {"returned", "dropped"}, Disconnect(n, k, f)
    PROVE  RingsInv'
<1> DEFINE d == [ResetQueue(Find(n)) EXCEPT !.online = FALSE, !.fd = -1]
<1>1. Known(n) /\ Find(n) \in Device /\ Find(n).node = n
  BY FindFinds DEF Disconnect
<1>2. d \in Device /\ d.node = n /\ d.count = 0
  BY <1>1, OfflineDeviceIs, ResetIsEmpty
<1>3. Store(n, d) /\ Settle(Find(n), f)
  BY DEF Disconnect
<1> HIDE DEF d
<1> QED BY <1>1, <1>2, <1>3, EmptiedRing

LEMMA RegisterRings ==
    ASSUME RegistryInv, RingsInv, NEW n \in Nodes, NEW tr \in Transports,
           NEW fd \in Fds \cup {-1}, NEW th \in Threads, Register(n, tr, fd, th)
    PROVE  RingsInv'
<1> DEFINE d == NewDevice(n, tr, fd, th, fd > 0)
<1>1. d \in Device /\ d.count = 0
  <2>1. (fd > 0) \in BOOLEAN
    OBVIOUS
  <2> QED BY <2>1, NewDeviceIs DEF NewDevice
<1>2. devices' = Append(devices, d) /\ UNCHANGED fate
  BY DEF Register
<1> HIDE DEF d
<1> QED BY <1>1, <1>2, NewRing

LEMMA SetOnlineRings ==
    ASSUME RegistryInv, RingsInv, NEW n \in Nodes, NEW on \in BOOLEAN,
           NEW fd \in Fds \cup {-1}, SetOnline(n, on, fd)
    PROVE  RingsInv'
<1> DEFINE d == [Find(n) EXCEPT !.online = on, !.fd = IF on THEN fd ELSE -1]
<1>1. Known(n) /\ Find(n) \in Device /\ Find(n).node = n
  BY FindFinds DEF SetOnline
<1>2. /\ d \in Device /\ d.node = n /\ d.count = Find(n).count
      /\ d.head = Find(n).head /\ d.queue = Find(n).queue
  BY <1>1 DEF Device
<1>3. Store(n, d) /\ UNCHANGED fate
  BY DEF SetOnline
<1> HIDE DEF d
<1> QED BY <1>1, <1>2, <1>3, SameRing

LEMMA InitRings == Init => RingsInv
<1> SUFFICES ASSUME Init PROVE RingsInv
  OBVIOUS
<1>1. \A i, p, c : ~Waits(i, p, c)
  BY DEF Init, Waits
<1>2. \A c \in Commands : fate[c] = "new"
  BY DEF Init
<1> QED BY <1>1, <1>2 DEF RingsInv, Once, Held, Kept, Own

LEMMA StepKeepsRings == RegistryInv /\ RingsInv /\ [Next]_dmVars => RingsInv'
<1> SUFFICES ASSUME RegistryInv, RingsInv, [Next]_dmVars PROVE RingsInv'
  OBVIOUS
<1>1. CASE UNCHANGED dmVars
  BY <1>1 DEF dmVars, RingsInv, Once, Held, Kept, Own, Waits
<1>2. CASE GatewayNext
  BY <1>2, BindRings, DisconnectRings, TryDequeueRings, EnqueueRings DEF GatewayNext
<1>3. CASE OtherNext
  BY <1>3, BindRings, DisconnectRings, RegisterRings, UnregisterRings, SetOnlineRings
     DEF OtherNext
<1>4. CASE RefusedNext
  BY <1>1, <1>4
     DEF RefusedNext, BindFull, BindConflict, BindAgain, BindTooSmall,
         DisconnectRefused, DisconnectTooSmall, DequeueRefused, DequeueEmpty,
         EnqueueRefused
<1> QED BY <1>1, <1>2, <1>3, <1>4 DEF Next

LEMMA RingsCorrect == Spec => [](RegistryInv /\ RingsInv)
  BY InitRegistry, StepKeepsRegistry, InitRings, StepKeepsRings, PTL DEF Spec

\* What is in the rings, in the words of the runs.
LEMMA RingsSay ==
    ASSUME RegistryInv, RingsInv
    PROVE  RingsHoldTheQueued /\ RoutedToTarget
<1>1. \A i \in DOMAIN devices : devices[i] \in Device
  BY ElementOfSeq, LenProperties DEF RegistryInv, Entries
<1>2. \A i \in DOMAIN devices : \A c :
         c \in PendingSet(devices[i]) <=> \E p : Waits(i, p, c)
  BY <1>1, PendingIs DEF Waits
<1>3. RoutedToTarget
  BY <1>2 DEF RoutedToTarget, RingsInv, Own
<1>4. UNION {PendingSet(devices[i]) : i \in DOMAIN devices}
         = {c \in Commands : fate[c] = "queued"}
  <2>1. \A i, p, c : Waits(i, p, c) => i \in DOMAIN devices
    BY DEF Waits
  <2> QED BY <1>2, <2>1 DEF RingsInv, Held, Kept
<1>5. \A i, j \in DOMAIN devices :
         \A p \in 1 .. devices[i].count, q \in 1 .. devices[j].count :
            Pending(devices[i])[p] = Pending(devices[j])[q] => i = j /\ p = q
  BY DEF RingsInv, Once, Waits
<1> QED BY <1>3, <1>4, <1>5 DEF RingsHoldTheQueued

\* No operation of the interface loses a command or keeps a copy of one that it
\* gave away: what was accepted and not settled is in exactly one place.
THEOREM RingsAreExact == Spec => []RingsHoldTheQueued
  BY RingsCorrect, RingsSay, PTL

\* A command is only ever in the ring of the node it is for.
THEOREM RoutingIsRight == Spec => []RoutedToTarget
  BY RingsCorrect, RingsSay, PTL

-----------------------------------------------------------------------------
(* Part 3: the owners *)

\* try_dequeue compares threads only: the gateway's threads have one connection
\* at a time.
OneDescriptor == \A k, l \in Conns : k.thread = l.thread => k = l

Holder(d) == [fd |-> d.fd, thread |-> d.thread]

\* What waits, waits for the connection that owns the node and is up.
ForItsOwner == \A i, p, c : Waits(i, p, c) =>
    Reachable(devices[i]) /\ acceptedFor[c] = Holder(devices[i])

OwnersAreCallers == \A i \in DOMAIN devices :
    Reachable(devices[i]) => Holder(devices[i]) \in Conns

OwnersInv == ForItsOwner /\ OwnersAreCallers

LEMMA ConnIs ==
    ASSUME NEW k \in Conns
    PROVE  /\ k = [fd |-> k.fd, thread |-> k.thread] /\ k.fd >= 0
           /\ k.fd \in Fds /\ k.thread \in Threads /\ k # NoConn
  BY ConnsAssumption DEF Fds, Threads

-----------------------------------------------------------------------------
(* The steps *)

LEMMA BindOwners ==
    ASSUME RegistryInv, RingsInv, OwnersInv, NEW n \in Nodes, NEW tr \in Transports,
           NEW k \in Conns, BindNew(n, tr, k) \/ BindTakeover(n, tr, k, "returned")
    PROVE  OwnersInv'
<1>1. k = [fd |-> k.fd, thread |-> k.thread] /\ k.fd >= 0
      /\ k.fd \in Fds /\ k.thread \in Threads
  BY ConnIs
<1>2. CASE BindNew(n, tr, k)
  <2> DEFINE d == NewDevice(n, tr, k.fd, k.thread, TRUE)
  <2>1. d \in Device /\ d.count = 0 /\ Reachable(d) /\ Holder(d) = k
    BY <1>1, NewDeviceIs DEF NewDevice, Reachable, Holder
  <2>2. devices' = Append(devices, d) /\ UNCHANGED <<fate, acceptedFor>>
    BY <1>2 DEF BindNew
  <2> HIDE DEF d
  <2>3. \A i, p, c : Waits(i, p, c)' => Waits(i, p, c)
    BY <2>1, <2>2, NewRing
  <2>4. devices \in Seq(Device) /\ DOMAIN devices = 1 .. Len(devices) /\ Len(devices) \in Nat
    BY LenProperties DEF RegistryInv, Entries
  <2>5. /\ \A i \in DOMAIN devices : devices'[i] = devices[i]
        /\ devices'[Len(devices) + 1] = d
        /\ DOMAIN devices' = 1 .. Len(devices) + 1
    BY <2>1, <2>2, <2>4, AppendProperties, LenProperties
  <2>6. ForItsOwner'
    <3>1. \A i, p, c : Waits(i, p, c) => i \in DOMAIN devices
      BY DEF Waits
    <3> QED BY <2>2, <2>3, <2>5, <3>1 DEF OwnersInv, ForItsOwner
  <2>7. OwnersAreCallers'
    <3>1. \A i \in DOMAIN devices' : i \in DOMAIN devices \/ i = Len(devices) + 1
      BY <2>4, <2>5
    <3> QED BY <2>1, <2>5, <3>1 DEF OwnersInv, OwnersAreCallers
  <2> QED BY <2>6, <2>7 DEF OwnersInv
<1>3. CASE BindTakeover(n, tr, k, "returned")
  <2> DEFINE d == [ResetQueue(Find(n)) EXCEPT !.fd = k.fd, !.thread = k.thread,
                                              !.online = TRUE]
  <2>1. Known(n) /\ Find(n) \in Device /\ Find(n).node = n
    BY <1>3, FindFinds DEF BindTakeover
  <2>2. /\ d \in Device /\ d.node = n /\ d.count = 0
        /\ Reachable(d) /\ Holder(d) = k
    <3>1. 0 \in Slots /\ 0 \in 0 .. QueueCap
      BY SizesAssumption DEF Slots
    <3> QED
      BY <1>1, <2>1, <3>1 DEF ResetQueue, Device, Reachable, Holder
  <2>3. Store(n, d) /\ Settle(Find(n), "returned") /\ UNCHANGED acceptedFor
    BY <1>3 DEF BindTakeover
  <2> HIDE DEF d
  <2>4. \A i, p, c : Waits(i, p, c)' => i # FindIndex(n) /\ Waits(i, p, c)
    BY <2>1, <2>2, <2>3, EmptiedRing
  <2>5. /\ DOMAIN devices' = DOMAIN devices /\ FindIndex(n) \in DOMAIN devices
        /\ devices'[FindIndex(n)] = d
        /\ \A j \in DOMAIN devices : j # FindIndex(n) => devices'[j] = devices[j]
    BY <2>1, <2>2, <2>3, StoredRings
  <2>6. ForItsOwner'
    <3>1. \A i, p, c : Waits(i, p, c) => i \in DOMAIN devices
      BY DEF Waits
    <3> QED BY <2>3, <2>4, <2>5, <3>1 DEF OwnersInv, ForItsOwner
  <2>7. OwnersAreCallers'
    BY <2>2, <2>5 DEF OwnersInv, OwnersAreCallers
  <2> QED BY <2>6, <2>7 DEF OwnersInv
<1> QED BY <1>2, <1>3

LEMMA DisconnectOwners ==
    ASSUME RegistryInv, RingsInv, OwnersInv, NEW n \in Nodes, NEW k \in Conns,
           Disconnect(n, k, "returned")
    PROVE  OwnersInv'
<1> DEFINE d == [ResetQueue(Find(n)) EXCEPT !.online = FALSE, !.fd = -1]
<1>1. Known(n) /\ Find(n) \in Device /\ Find(n).node = n
  BY FindFinds DEF Disconnect
<1>2. d \in Device /\ d.node = n /\ d.count = 0 /\ ~Reachable(d)
  <2>1. d \in Device /\ d.node = n /\ d.count = 0
    BY <1>1, OfflineDeviceIs, ResetIsEmpty
  <2>2. ~d.online
    BY <1>1 DEF ResetQueue, Device
  <2> QED BY <2>1, <2>2 DEF Reachable
<1>3. Store(n, d) /\ Settle(Find(n), "returned") /\ UNCHANGED acceptedFor
  BY DEF Disconnect
<1> HIDE DEF d
<1>4. \A i, p, c : Waits(i, p, c)' => i # FindIndex(n) /\ Waits(i, p, c)
  BY <1>1, <1>2, <1>3, EmptiedRing
<1>5. /\ DOMAIN devices' = DOMAIN devices /\ FindIndex(n) \in DOMAIN devices
      /\ devices'[FindIndex(n)] = d
      /\ \A j \in DOMAIN devices : j # FindIndex(n) => devices'[j] = devices[j]
  BY <1>1, <1>2, <1>3, StoredRings
<1>6. \A i, p, c : Waits(i, p, c) => i \in DOMAIN devices
  BY DEF Waits
<1>7. ForItsOwner'
  BY <1>3, <1>4, <1>5, <1>6 DEF OwnersInv, ForItsOwner
<1>8. OwnersAreCallers'
  BY <1>2, <1>5 DEF OwnersInv, OwnersAreCallers
<1> QED BY <1>7, <1>8 DEF OwnersInv

LEMMA TryDequeueOwners ==
    ASSUME RegistryInv, RingsInv, OwnersInv, NEW n \in Nodes, NEW k \in Conns,
           TryDequeue(n, k)
    PROVE  OwnersInv'
<1> DEFINE d == Find(n)
           e == [d EXCEPT !.head = (d.head + 1) % QueueCap, !.count = @ - 1]
<1>1. Known(n) /\ d \in Device /\ d.node = n /\ d.count > 0
  BY FindFinds DEF TryDequeue
<1>2. /\ e.fd = d.fd /\ e.thread = d.thread /\ e.online = d.online
  BY <1>1 DEF Device
<1>3. e \in Device
  <2>1. /\ d.head \in 0 .. QueueCap - 1 /\ QueueCap \in Nat \ {0} /\ d.count \in 1 .. QueueCap
    BY <1>1, PendingIs
  <2>2. (d.head + 1) % QueueCap \in Slots /\ d.count - 1 \in 0 .. QueueCap
    BY <2>1, NextSlot DEF Slots
  <2> QED BY <1>1, <2>2 DEF Device
<1>4. Store(n, e) /\ UNCHANGED acceptedFor
  BY DEF TryDequeue
<1> HIDE DEF e
<1>5. /\ DOMAIN devices' = DOMAIN devices /\ FindIndex(n) \in DOMAIN devices
      /\ devices[FindIndex(n)] = d /\ devices'[FindIndex(n)] = e
      /\ \A j \in DOMAIN devices : j # FindIndex(n) => devices'[j] = devices[j]
  BY <1>1, <1>3, <1>4, StoredRings
<1> HIDE DEF d
<1>6. \A i \in DOMAIN devices : /\ Reachable(devices'[i]) <=> Reachable(devices[i])
                                /\ Holder(devices'[i]) = Holder(devices[i])
  BY <1>2, <1>5 DEF Reachable, Holder
<1>7. \A i, p, c : Waits(i, p, c)' => \E q : Waits(i, q, c)
  BY TryDequeueRings
<1>8. \A i, p, c : Waits(i, p, c) => i \in DOMAIN devices
  BY DEF Waits
<1>9. ForItsOwner'
  BY <1>4, <1>6, <1>7, <1>8 DEF OwnersInv, ForItsOwner
<1>10. OwnersAreCallers'
  BY <1>5, <1>6 DEF OwnersInv, OwnersAreCallers
<1> QED BY <1>9, <1>10 DEF OwnersInv

LEMMA EnqueueOwners ==
    ASSUME RegistryInv, RingsInv, OwnersInv, NEW n \in Nodes, NEW c \in Commands,
           Enqueue(n, c)
    PROVE  OwnersInv'
<1> DEFINE d == Find(n)
           e == [d EXCEPT !.queue[d.tail] = c, !.tail = (d.tail + 1) % QueueCap,
                          !.count = @ + 1]
<1>1. /\ Known(n) /\ d \in Device /\ d.node = n /\ d.count < QueueCap /\ Reachable(d)
  BY FindFinds DEF Enqueue, Accepts
<1>2. /\ e.fd = d.fd /\ e.thread = d.thread /\ e.online = d.online
  BY <1>1 DEF Device
<1>3. e \in Device
  <2>1. /\ d.tail \in 0 .. QueueCap - 1 /\ QueueCap \in Nat \ {0} /\ d.count \in 0 .. QueueCap
    BY <1>1, PendingIs
  <2>2. (d.tail + 1) % QueueCap \in Slots /\ d.count + 1 \in 0 .. QueueCap
    BY <1>1, <2>1, NextSlot DEF Slots
  <2> QED BY <1>1, <2>2 DEF Device
<1>4. Store(n, e) /\ acceptedFor' = [acceptedFor EXCEPT ![c] = Holder(d)]
  BY DEF Enqueue, Holder
<1> HIDE DEF e
<1>5. /\ DOMAIN devices' = DOMAIN devices /\ FindIndex(n) \in DOMAIN devices
      /\ devices[FindIndex(n)] = d /\ devices'[FindIndex(n)] = e
      /\ \A j \in DOMAIN devices : j # FindIndex(n) => devices'[j] = devices[j]
  BY <1>1, <1>3, <1>4, StoredRings
<1>6. \A i, p, b : Waits(i, p, b)' => \/ Waits(i, p, b) /\ b # c
                                      \/ i = FindIndex(n) /\ b = c
  BY EnqueueRings
<1> HIDE DEF d
<1>7. \A i \in DOMAIN devices : /\ Reachable(devices'[i]) <=> Reachable(devices[i])
                                /\ Holder(devices'[i]) = Holder(devices[i])
  BY <1>2, <1>5 DEF Reachable, Holder
<1>8. \A i, p, b : Waits(i, p, b) => i \in DOMAIN devices /\ b \in Commands
  BY DEF Waits, RingsInv, Held
<1>9. /\ acceptedFor'[c] = Holder(d)
      /\ \A b \in Commands : b # c => acceptedFor'[b] = acceptedFor[b]
  BY <1>4 DEF RegistryInv, History
<1>10. ForItsOwner'
  <2> SUFFICES ASSUME NEW i, NEW p, NEW b, Waits(i, p, b)'
               PROVE  Reachable(devices'[i]) /\ acceptedFor'[b] = Holder(devices'[i])
    BY DEF ForItsOwner
  <2>1. CASE Waits(i, p, b) /\ b # c
    BY <1>7, <1>8, <1>9, <2>1 DEF OwnersInv, ForItsOwner
  <2>2. CASE i = FindIndex(n) /\ b = c
    BY <1>1, <1>5, <1>7, <1>9, <2>2
  <2> QED BY <1>6, <2>1, <2>2
<1>11. OwnersAreCallers'
  BY <1>5, <1>7 DEF OwnersInv, OwnersAreCallers
<1> QED BY <1>10, <1>11 DEF OwnersInv

LEMMA InitOwners == Init => OwnersInv
  BY DEF Init, OwnersInv, ForItsOwner, OwnersAreCallers, Waits

LEMMA StepKeepsOwners ==
    RegistryInv /\ RingsInv /\ OwnersInv /\ [GatewayNext \/ RefusedNext]_dmVars
        => OwnersInv'
<1> SUFFICES ASSUME RegistryInv, RingsInv, OwnersInv, [GatewayNext \/ RefusedNext]_dmVars
             PROVE  OwnersInv'
  OBVIOUS
<1>1. CASE UNCHANGED dmVars
  BY <1>1 DEF dmVars, OwnersInv, ForItsOwner, OwnersAreCallers, Waits
<1>2. CASE GatewayNext
  BY <1>2, BindOwners, DisconnectOwners, TryDequeueOwners, EnqueueOwners DEF GatewayNext
<1>3. CASE RefusedNext
  BY <1>1, <1>3
     DEF RefusedNext, BindFull, BindConflict, BindAgain, BindTooSmall,
         DisconnectRefused, DisconnectTooSmall, DequeueRefused, DequeueEmpty,
         EnqueueRefused
<1> QED BY <1>1, <1>2, <1>3

LEMMA OwnersCorrect == GatewaySpec => [](RegistryInv /\ RingsInv /\ OwnersInv)
<1>1. [GatewayNext \/ RefusedNext]_dmVars => [Next]_dmVars
  BY DEF Next
<1> QED
  BY <1>1, InitRegistry, StepKeepsRegistry, InitRings, StepKeepsRings, InitOwners,
     StepKeepsOwners, PTL DEF GatewaySpec

\* The command at the head was accepted for the connection that owns the node.
LEMMA TakenWasAccepted ==
    ASSUME RegistryInv, RingsInv, OwnersInv, NEW n \in Nodes, NEW k \in Conns,
           TryDequeue(n, k)
    PROVE  /\ Head1(Find(n)) \in Commands
           /\ Reachable(Find(n)) /\ Holder(Find(n)) \in Conns
           /\ acceptedFor[Head1(Find(n))] = Holder(Find(n))
           /\ Holder(Find(n)).thread = k.thread
<1>1. Waits(FindIndex(n), 1, Head1(Find(n)))
  BY TryDequeueRings
<1>2. /\ FindIndex(n) \in DOMAIN devices /\ devices[FindIndex(n)] = Find(n)
      /\ Head1(Find(n)) \in Commands
  BY <1>1 DEF Waits, RingsInv, Held, Find
<1>3. /\ Reachable(Find(n)) /\ acceptedFor[Head1(Find(n))] = Holder(Find(n))
      /\ Holder(Find(n)) \in Conns
  BY <1>1, <1>2 DEF OwnersInv, ForItsOwner, OwnersAreCallers
<1>4. Holder(Find(n)).thread = k.thread
  BY DEF TryDequeue, MayDequeue, Holder
<1> QED BY <1>2, <1>3, <1>4

\* The calls of the gateway where the one who takes a command is the owner.
OwnedNext ==
    \E n \in Nodes :
       \/ \E k \in Conns :
             \/ \E tr \in Transports : \/ BindNew(n, tr, k)
                                       \/ BindTakeover(n, tr, k, "returned")
             \/ Disconnect(n, k, "returned")
             \/ TryDequeue(n, k) /\ Holder(Find(n)) = k
       \/ \E c \in Commands : Enqueue(n, c)

LEMMA ThreadsAreOwners ==
    ASSUME OneDescriptor, RegistryInv, RingsInv, OwnersInv, GatewayNext
    PROVE  OwnedNext
  BY TakenWasAccepted DEF OneDescriptor, OwnedNext, GatewayNext

LEMMA StepKeepsTaken ==
    ASSUME RegistryInv, RingsInv, OwnersInv, TakenByItsOwner,
           [OwnedNext \/ RefusedNext]_dmVars
    PROVE  TakenByItsOwner'
<1>1. CASE UNCHANGED dmVars
  BY <1>1 DEF dmVars, TakenByItsOwner
<1>2. ASSUME NEW n \in Nodes, NEW tr \in Transports, NEW k \in Conns,
             \/ BindNew(n, tr, k) \/ BindTakeover(n, tr, k, "returned")
             \/ Disconnect(n, k, "returned")
      PROVE  TakenByItsOwner'
  BY <1>2 DEF BindNew, BindTakeover, Disconnect, Settle, TakenByItsOwner
<1>3. ASSUME NEW n \in Nodes, NEW k \in Conns, TryDequeue(n, k), Holder(Find(n)) = k
      PROVE  TakenByItsOwner'
  <2>1. Head1(Find(n)) \in Commands /\ acceptedFor[Head1(Find(n))] = k
    BY <1>3, TakenWasAccepted
  <2> DEFINE h == Head1(Find(n))
  <2>2. /\ fate' = [fate EXCEPT ![h] = "taken"] /\ takenBy' = [takenBy EXCEPT ![h] = k]
        /\ acceptedFor' = acceptedFor
    BY <1>3 DEF TryDequeue
  <2>3. fate \in [Commands -> Fates] /\ takenBy \in [Commands -> Conns \cup {NoConn}]
    BY DEF RegistryInv, History
  <2> HIDE DEF h
  <2>4. \A c \in Commands : c # h => fate'[c] = fate[c] /\ takenBy'[c] = takenBy[c]
    BY <2>2, <2>3
  <2>5. h \in Commands /\ acceptedFor[h] = k
    BY <2>1 DEF h
  <2>6. takenBy'[h] = k
    BY <2>2, <2>3, <2>5
  <2> QED BY <2>2, <2>4, <2>5, <2>6 DEF TakenByItsOwner
<1>4. ASSUME NEW n \in Nodes, NEW c \in Commands, Enqueue(n, c)
      PROVE  TakenByItsOwner'
  <2>1. fate \in [Commands -> Fates]
    BY DEF RegistryInv, History
  <2>2. /\ fate' = [fate EXCEPT ![c] = "queued"] /\ takenBy' = takenBy
        /\ \A b \in Commands : b # c => acceptedFor'[b] = acceptedFor[b]
    BY <1>4 DEF Enqueue, RegistryInv, History
  <2> QED BY <2>1, <2>2 DEF TakenByItsOwner
<1>5. CASE RefusedNext
  BY <1>1, <1>5
     DEF RefusedNext, BindFull, BindConflict, BindAgain, BindTooSmall,
         DisconnectRefused, DisconnectTooSmall, DequeueRefused, DequeueEmpty,
         EnqueueRefused
<1>6. CASE OwnedNext
  BY <1>2, <1>3, <1>4, <1>6 DEF OwnedNext, Transports
<1> QED BY <1>1, <1>5, <1>6

-----------------------------------------------------------------------------
(* Results *)

\* A node that is offline has nothing pending: what its connection did not send
\* went back to that connection's worker, and nothing was accepted since.
THEOREM OfflineIsEmpty == GatewaySpec => []OfflineHasNothingPending
<1>1. RegistryInv /\ OwnersInv => OfflineHasNothingPending
  <2> SUFFICES ASSUME RegistryInv, OwnersInv, NEW i \in DOMAIN devices,
                      ~Reachable(devices[i])
               PROVE  devices[i].count = 0
    BY DEF OfflineHasNothingPending
  <2>1. devices[i] \in Device
    BY ElementOfSeq, LenProperties DEF RegistryInv, Entries
  <2>2. devices[i].count \in Nat
    BY <2>1, PendingIs
  <2>3. devices[i].count > 0 => Waits(i, 1, Pending(devices[i])[1])
    BY <2>2 DEF Waits
  <2> QED BY <2>2, <2>3 DEF OwnersInv, ForItsOwner
<1> QED
  BY <1>1, OwnersCorrect, PTL

\* No connection inherits the commands that were accepted for an earlier one.
THEOREM NothingIsInherited == GatewaySpec => []PendingIsForTheOwner
<1>1. RegistryInv /\ OwnersInv => PendingIsForTheOwner
  <2> SUFFICES ASSUME RegistryInv, OwnersInv, NEW i \in DOMAIN devices,
                      NEW c \in PendingSet(devices[i])
               PROVE  acceptedFor[c] = Holder(devices[i])
    BY DEF PendingIsForTheOwner, Holder
  <2>1. devices[i] \in Device
    BY ElementOfSeq, LenProperties DEF RegistryInv, Entries
  <2>2. \E p : Waits(i, p, c)
    BY <2>1, PendingIs DEF Waits
  <2> QED BY <2>2 DEF OwnersInv, ForItsOwner
<1> QED
  BY <1>1, OwnersCorrect, PTL

\* Where every thread has one descriptor, comparing the threads is enough: a
\* command is taken by the very connection it was accepted for.
THEOREM OwnerTakes ==
    ASSUME OneDescriptor
    PROVE  GatewaySpec => []TakenByItsOwner
<1>1. Init => TakenByItsOwner
  BY DEF Init, TakenByItsOwner
<1>2. RegistryInv /\ RingsInv /\ OwnersInv /\ TakenByItsOwner
         /\ [GatewayNext \/ RefusedNext]_dmVars => TakenByItsOwner'
  BY StepKeepsTaken, ThreadsAreOwners
<1> QED
  BY <1>1, <1>2, OwnersCorrect, PTL DEF GatewaySpec

-----------------------------------------------------------------------------
(* The registry implements NodeChannels *)

Owners == [n \in Nodes |-> OwnerOf(n)]
Rings  == [n \in Nodes |-> PendingOf(n)]

\* The entry of a node is the one that the search finds.
LEMMA FindIs ==
    ASSUME UniqueNodeIds, NEW i \in DOMAIN devices, devices \in Seq(Device)
    PROVE  Known(devices[i].node) /\ Find(devices[i].node) = devices[i]
<1>1. DOMAIN devices = 1 .. Len(devices) /\ Len(devices) \in Nat
  BY LenProperties
<1>2. PICK n : n = devices[i].node
  OBVIOUS
<1>3. \A j \in 1 .. i - 1 : devices[j].node # n
  BY <1>1, <1>2 DEF UniqueNodeIds
<1>4. FindIndex(n) \in DOMAIN devices /\ devices[FindIndex(n)].node = n
  BY <1>2, <1>3 DEF FindIndex
<1>5. FindIndex(n) = i
  BY <1>2, <1>4 DEF UniqueNodeIds
<1> QED BY <1>2, <1>5 DEF Known, Find

LEMMA FindIsNext ==
    ASSUME UniqueNodeIds', NEW i \in DOMAIN devices', devices' \in Seq(Device),
           NEW n, devices'[i].node = n
    PROVE  Known(n)' /\ Find(n)' = devices'[i]
<1>1. DOMAIN devices' = 1 .. Len(devices') /\ Len(devices') \in Nat
  BY LenProperties
<1>2. \A j \in 1 .. i - 1 : devices'[j].node # n
  BY <1>1 DEF UniqueNodeIds
<1>3. FindIndex(n)' \in DOMAIN devices' /\ devices'[FindIndex(n)'].node = n
  BY <1>2 DEF FindIndex
<1>4. FindIndex(n)' = i
  BY <1>3 DEF UniqueNodeIds
<1> QED BY <1>4 DEF Known, Find

\* When the entry of one node is replaced or added, nothing changes for the
\* other nodes.
LEMMA OneNodeChanges ==
    ASSUME RegistryInv, RegistryInv', NEW n \in Nodes, NEW d \in Device, d.node = n,
           \/ Known(n) /\ Store(n, d)
           \/ ~Known(n) /\ devices' = Append(devices, d)
    PROVE  /\ OwnerOf(n)' = IF Reachable(d) THEN Holder(d) ELSE NoConn
           /\ PendingOf(n)' = Pending(d)
           /\ \A m \in Nodes : m # n => /\ OwnerOf(m)' = OwnerOf(m)
                                        /\ PendingOf(m)' = PendingOf(m)
<1>1. /\ devices \in Seq(Device) /\ DOMAIN devices = 1 .. Len(devices)
      /\ Len(devices) \in Nat /\ devices' \in Seq(Device)
      /\ UniqueNodeIds /\ UniqueNodeIds'
  BY LenProperties DEF RegistryInv, Entries
<1>2. PICK x \in DOMAIN devices' :
         /\ devices'[x] = d
         /\ \A j \in DOMAIN devices' : j # x => j \in DOMAIN devices /\ devices'[j] = devices[j]
         /\ \A j \in DOMAIN devices : devices[j].node # n
                                         => j \in DOMAIN devices' /\ devices'[j] = devices[j]
  <2>1. CASE Known(n) /\ Store(n, d)
    <3>1. /\ DOMAIN devices' = DOMAIN devices
          /\ FindIndex(n) \in DOMAIN devices
          /\ devices[FindIndex(n)].node = n /\ devices'[FindIndex(n)] = d
          /\ \A j \in DOMAIN devices : j # FindIndex(n) => devices'[j] = devices[j]
      BY <2>1, StoredRings, FindFinds
    <3> QED BY <3>1
  <2>2. CASE ~Known(n) /\ devices' = Append(devices, d)
    <3>1. /\ \A i \in DOMAIN devices : devices'[i] = devices[i]
          /\ devices'[Len(devices) + 1] = d
          /\ DOMAIN devices' = 1 .. Len(devices) + 1
      BY <1>1, <2>2, AppendProperties, LenProperties
    <3>2. \A j \in DOMAIN devices' : j \in DOMAIN devices \/ j = Len(devices) + 1
      BY <1>1, <3>1
    <3>3. Len(devices) + 1 \in DOMAIN devices' /\ \A j \in DOMAIN devices : j \in DOMAIN devices'
      BY <1>1, <3>1
    <3> QED BY <3>1, <3>2, <3>3
  <2> QED BY <2>1, <2>2
<1>3. Known(n)' /\ Find(n)' = d
  BY <1>1, <1>2, FindIsNext
<1>4. OwnerOf(n)' = (IF Reachable(d) THEN Holder(d) ELSE NoConn) /\ PendingOf(n)' = Pending(d)
  BY <1>3 DEF OwnerOf, PendingOf, Reachable, Holder, Pending
<1>5. ASSUME NEW m \in Nodes, m # n
      PROVE  OwnerOf(m)' = OwnerOf(m) /\ PendingOf(m)' = PendingOf(m)
  <2>1. CASE Known(m)
    <3>1. PICK i \in DOMAIN devices : devices[i].node = m
      BY <2>1 DEF Known
    <3>2. i \in DOMAIN devices' /\ devices'[i] = devices[i]
      BY <1>2, <1>5, <3>1
    <3>3. Find(m) = devices[i]
      BY <1>1, <3>1, FindIs
    <3>4. Known(m)' /\ Find(m)' = devices[i]
      BY <1>1, <3>1, <3>2, FindIsNext
    <3> QED
      BY <2>1, <3>3, <3>4 DEF OwnerOf, PendingOf, Reachable, Pending
  <2>2. CASE ~Known(m)
    <3>1. ~Known(m)'
      BY <1>2, <1>5, <2>2 DEF Known
    <3> QED BY <2>2, <3>1 DEF OwnerOf, PendingOf
  <2> QED BY <2>1, <2>2
<1> QED BY <1>4, <1>5

\* The same, of the functions that NodeChannels has for the nodes.
LEMMA ChannelChanges ==
    ASSUME RegistryInv, RegistryInv', NEW n \in Nodes, NEW d \in Device, d.node = n,
           \/ Known(n) /\ Store(n, d)
           \/ ~Known(n) /\ devices' = Append(devices, d)
    PROVE  /\ Owners' = [Owners EXCEPT ![n] = IF Reachable(d) THEN Holder(d) ELSE NoConn]
           /\ Rings' = [Rings EXCEPT ![n] = Pending(d)]
<1>1. /\ OwnerOf(n)' = IF Reachable(d) THEN Holder(d) ELSE NoConn
      /\ PendingOf(n)' = Pending(d)
      /\ \A m \in Nodes : m # n => /\ OwnerOf(m)' = OwnerOf(m)
                                   /\ PendingOf(m)' = PendingOf(m)
  BY OneNodeChanges
<1> QED BY <1>1 DEF Owners, Rings

\* An empty ring.
LEMMA EmptyRing ==
    ASSUME NEW d \in Device, d.count = 0
    PROVE  Pending(d) = <<>>
<1>1. Pending(d) \in Seq({}) /\ Len(Pending(d)) = 0
  <2>1. /\ Pending(d) = [p \in 1 .. 0 |-> d.queue[(d.head + p - 1) % QueueCap]]
        /\ 1 .. 0 = {}
    BY DEF Pending
  <2>2. Pending(d) \in [1 .. 0 -> {}]
    BY <2>1
  <2> QED BY <2>2, FunctionIsSeq
<1> QED BY <1>1, EmptySeq

LEMMA BindConnects ==
    ASSUME RegistryInv, RegistryInv', NEW n \in Nodes, NEW tr \in Transports,
           NEW k \in Conns, BindNew(n, tr, k) \/ BindTakeover(n, tr, k, "returned")
    PROVE  Channels!Connect(n, k)
<1>1. k = [fd |-> k.fd, thread |-> k.thread] /\ k.fd >= 0
      /\ k.fd \in Fds /\ k.thread \in Threads /\ k # NoConn
  BY ConnIs
<1>2. fate \in [Commands -> Fates]
  BY DEF RegistryInv, History
<1>3. CASE BindNew(n, tr, k)
  <2> DEFINE d == NewDevice(n, tr, k.fd, k.thread, TRUE)
  <2>1. d \in Device /\ d.node = n /\ d.count = 0 /\ Reachable(d) /\ Holder(d) = k
    BY <1>1, NewDeviceIs DEF NewDevice, Reachable, Holder
  <2>2. /\ ~Known(n) /\ devices' = Append(devices, d)
        /\ fate' = fate /\ takenBy' = takenBy
    BY <1>3 DEF BindNew
  <2> HIDE DEF d
  <2>3. Owners' = [Owners EXCEPT ![n] = k] /\ Rings' = [Rings EXCEPT ![n] = <<>>]
    BY <2>1, <2>2, ChannelChanges, EmptyRing
  <2>4. Owners[n] = NoConn /\ Rings[n] = <<>>
    BY <2>2 DEF Owners, Rings, OwnerOf, PendingOf
  <2>5. fate' = [c \in Commands |-> IF \E i \in DOMAIN Rings[n] : Rings[n][i] = c
                                    THEN "returned" ELSE fate[c]]
    BY <1>2, <2>2, <2>4
  <2> QED
    BY <1>1, <2>2, <2>3, <2>4, <2>5 DEF Channels!Connect, Channels!Switch, Owners, Rings
<1>4. CASE BindTakeover(n, tr, k, "returned")
  <2> DEFINE d == [ResetQueue(Find(n)) EXCEPT !.fd = k.fd, !.thread = k.thread,
                                              !.online = TRUE]
  <2>1. Known(n) /\ Find(n) \in Device /\ Find(n).node = n
    BY <1>4, FindFinds DEF BindTakeover
  <2>2. /\ d \in Device /\ d.node = n /\ d.count = 0
        /\ Reachable(d) /\ Holder(d) = k
    <3>1. 0 \in Slots /\ 0 \in 0 .. QueueCap
      BY SizesAssumption DEF Slots
    <3> QED
      BY <1>1, <2>1, <3>1 DEF ResetQueue, Device, Reachable, Holder
  <2>3. Store(n, d) /\ Settle(Find(n), "returned") /\ takenBy' = takenBy
    BY <1>4 DEF BindTakeover
  <2> HIDE DEF d
  <2>4. Owners' = [Owners EXCEPT ![n] = k] /\ Rings' = [Rings EXCEPT ![n] = <<>>]
    BY <2>1, <2>2, <2>3, ChannelChanges, EmptyRing
  <2>5. Owners[n] # k
    <3>1. ~(Find(n).online /\ Find(n).fd = k.fd /\ Find(n).thread = k.thread)
      BY <1>4 DEF BindTakeover, OwnedBy
    <3>2. Reachable(Find(n)) => Holder(Find(n)) # k
      BY <1>1, <3>1 DEF Reachable, Holder
    <3> QED BY <1>1, <3>2 DEF Owners, OwnerOf, Holder
  <2>6. Rings[n] = Pending(Find(n)) /\ DOMAIN Rings[n] = 1 .. Find(n).count
    BY <2>1, PendingIs DEF Rings, PendingOf
  <2>7. fate' = [c \in Commands |-> IF \E i \in DOMAIN Rings[n] : Rings[n][i] = c
                                    THEN "returned" ELSE fate[c]]
    BY <2>3, <2>6 DEF Settle, PendingSet
  <2> QED
    BY <2>3, <2>4, <2>5, <2>7 DEF Channels!Connect, Channels!Switch, Owners, Rings
<1> QED BY <1>3, <1>4

\* A disconnect ends the connection; of a node that is offline it changes nothing.
LEMMA DisconnectEnds ==
    ASSUME RegistryInv, RegistryInv', OwnersInv, NEW n \in Nodes, NEW k \in Conns,
           Disconnect(n, k, "returned")
    PROVE  /\ Channels!End(n) \/ UNCHANGED <<Owners, Rings, fate, takenBy>>
           /\ Owners' = [Owners EXCEPT ![n] = NoConn]
<1> DEFINE d == [ResetQueue(Find(n)) EXCEPT !.online = FALSE, !.fd = -1]
<1>1. Known(n) /\ Find(n) \in Device /\ Find(n).node = n
  BY FindFinds DEF Disconnect
<1>2. d \in Device /\ d.node = n /\ d.count = 0 /\ ~Reachable(d)
  <2>1. d \in Device /\ d.node = n /\ d.count = 0
    BY <1>1, OfflineDeviceIs, ResetIsEmpty
  <2>2. ~d.online
    BY <1>1 DEF ResetQueue, Device
  <2> QED BY <2>1, <2>2 DEF Reachable
<1>3. Store(n, d) /\ Settle(Find(n), "returned") /\ takenBy' = takenBy
  BY DEF Disconnect
<1> HIDE DEF d
<1>4. Owners' = [Owners EXCEPT ![n] = NoConn] /\ Rings' = [Rings EXCEPT ![n] = <<>>]
  BY <1>1, <1>2, <1>3, ChannelChanges, EmptyRing
<1>5. Rings[n] = Pending(Find(n)) /\ DOMAIN Rings[n] = 1 .. Find(n).count
  BY <1>1, PendingIs DEF Rings, PendingOf
<1>6. fate' = [c \in Commands |-> IF \E i \in DOMAIN Rings[n] : Rings[n][i] = c
                                  THEN "returned" ELSE fate[c]]
  BY <1>3, <1>5 DEF Settle, PendingSet
<1>7. CASE Reachable(Find(n))
  <2>1. Owners[n] = Holder(Find(n))
    BY <1>1, <1>7 DEF Owners, OwnerOf, Holder
  <2>2. Holder(Find(n)) \in Conns
    <3>1. FindIndex(n) \in DOMAIN devices /\ devices[FindIndex(n)] = Find(n)
      BY <1>1, <1>2, <1>3, StoredRings
    <3> QED BY <1>7, <3>1 DEF OwnersInv, OwnersAreCallers
  <2>3. Owners[n] # NoConn
    BY <2>1, <2>2, ConnIs
  <2> QED
    BY <1>3, <1>4, <1>6, <2>3 DEF Channels!End, Channels!Switch, Owners, Rings
<1>8. CASE ~Reachable(Find(n))
  <2>1. Owners[n] = NoConn
    BY <1>1, <1>8 DEF Owners, OwnerOf
  <2>2. Find(n).count = 0
    <3>1. FindIndex(n) \in DOMAIN devices /\ devices[FindIndex(n)] = Find(n)
      BY <1>1, <1>2, <1>3, StoredRings
    <3>2. Find(n).count \in Nat
      BY <1>1, PendingIs
    <3>3. Find(n).count > 0 => Waits(FindIndex(n), 1, Pending(Find(n))[1])
      BY <3>1, <3>2 DEF Waits
    <3> QED BY <1>8, <3>1, <3>2, <3>3 DEF OwnersInv, ForItsOwner
  <2>3. Rings[n] = <<>>
    BY <1>1, <1>5, <2>2, EmptyRing
  <2>4. fate' = fate
    <3>1. fate \in [Commands -> Fates]
      BY DEF RegistryInv, History
    <3> QED BY <1>6, <2>3, <3>1
  <2>5. Owners' = Owners /\ Rings' = Rings
    BY <1>4, <2>1, <2>3 DEF Owners, Rings
  <2> QED BY <1>3, <1>4, <2>4, <2>5
<1> QED BY <1>4, <1>7, <1>8

\* A sequence is a function on the positions up to its length.
LEMMA SeqIsFunction ==
    ASSUME NEW S, NEW s \in Seq(S)
    PROVE  s = [p \in 1 .. Len(s) |-> s[p]]
<1>1. s \in [1 .. Len(s) -> S]
  BY LenProperties
<1> QED BY <1>1

\* An accepted command goes to the end of its node's FIFO.
LEMMA EnqueueAccepts ==
    ASSUME RegistryInv, RegistryInv', RingsInv, OwnersInv, NEW n \in Nodes,
           NEW c \in Commands, Enqueue(n, c)
    PROVE  Channels!Accept(n, c)
<1> DEFINE d == Find(n)
           e == [d EXCEPT !.queue[d.tail] = c, !.tail = (d.tail + 1) % QueueCap,
                          !.count = @ + 1]
<1>1. /\ Known(n) /\ d \in Device /\ d.node = n /\ d.count < QueueCap /\ Reachable(d)
      /\ Consistent(d) /\ Target[c] = n /\ fate[c] = "new"
  BY FindFinds DEF Enqueue, Accepts
<1>2. /\ e.fd = d.fd /\ e.thread = d.thread /\ e.online = d.online /\ e.node = d.node
  BY <1>1 DEF Device
<1>3. e \in Device
  <2>1. /\ d.tail \in 0 .. QueueCap - 1 /\ QueueCap \in Nat \ {0} /\ d.count \in 0 .. QueueCap
    BY <1>1, PendingIs
  <2>2. (d.tail + 1) % QueueCap \in Slots
    BY <2>1, NextSlot DEF Slots
  <2>3. d.count + 1 \in 0 .. QueueCap
    <3> HIDE DEF d, e
    <3> QED BY <1>1, <2>1
  <2> QED BY <1>1, <2>2, <2>3 DEF Device
<1>4. /\ e.count = d.count + 1
      /\ \A p \in 1 .. d.count : Pending(e)[p] = Pending(d)[p]
      /\ Pending(e)[d.count + 1] = c
  BY <1>1, EnteredBehind
<1>5. Store(n, e) /\ fate' = [fate EXCEPT ![c] = "queued"] /\ takenBy' = takenBy
  BY DEF Enqueue
<1> HIDE DEF e
<1>6. FindIndex(n) \in DOMAIN devices /\ devices[FindIndex(n)] = d
  BY <1>1, <1>3, <1>5, StoredRings
<1>7. Owners[n] = Holder(d) /\ Holder(d) \in Conns /\ Rings[n] = Pending(d)
  BY <1>1, <1>6
     DEF Owners, Rings, OwnerOf, PendingOf, Holder, OwnersInv, OwnersAreCallers
<1> HIDE DEF d
<1>8. Reachable(e) /\ Holder(e) = Holder(d)
  BY <1>1, <1>2 DEF Reachable, Holder
<1>9. /\ Owners' = [Owners EXCEPT ![n] = Holder(d)]
      /\ Rings' = [Rings EXCEPT ![n] = Pending(e)]
  BY <1>1, <1>2, <1>3, <1>5, <1>8, ChannelChanges
<1>10. Owners' = Owners
  BY <1>7, <1>9 DEF Owners
<1>11. Pending(e) = Append(Pending(d), c) /\ Len(Pending(d)) = d.count
  <2> DEFINE C == Commands \cup {NoCommand}
  <2>1. /\ d.count \in 0 .. QueueCap /\ DOMAIN Pending(d) = 1 .. d.count
        /\ Pending(d) \in [1 .. d.count -> C]
    <3>1. /\ d.count \in 0 .. QueueCap /\ d.head \in 0 .. QueueCap - 1
          /\ QueueCap \in Nat \ {0}
          /\ Pending(d) = [p \in 1 .. d.count |-> d.queue[(d.head + p - 1) % QueueCap]]
      BY <1>1, PendingIs
    <3>2. \A p \in 1 .. d.count : (d.head + p - 1) % QueueCap \in Slots
      BY <1>1, <3>1, OtherSlot DEF Slots
    <3> QED BY <1>1, <3>1, <3>2 DEF Device
  <2>2. Pending(d) \in Seq(C) /\ Len(Pending(d)) = d.count
    BY <2>1, FunctionIsSeq
  <2>3. c \in C
    OBVIOUS
  <2> HIDE DEF C
  <2>4. /\ Append(Pending(d), c) \in Seq(C) /\ Len(Append(Pending(d), c)) = d.count + 1
        /\ \A p \in 1 .. d.count : Append(Pending(d), c)[p] = Pending(d)[p]
        /\ Append(Pending(d), c)[d.count + 1] = c
    BY <2>2, <2>3, AppendProperties
  <2>6. DOMAIN Pending(e) = 1 .. d.count + 1 /\ Pending(e) = [p \in 1 .. d.count + 1 |-> Pending(e)[p]]
    BY <1>3, <1>4, PendingIs
  <2>7. \A p \in 1 .. d.count + 1 : Pending(e)[p] = Append(Pending(d), c)[p]
    <3> TAKE p \in 1 .. d.count + 1
    <3>1. p \in 1 .. d.count \/ p = d.count + 1
      BY <2>1
    <3> QED BY <1>4, <2>4, <3>1
  <2>8. Append(Pending(d), c) = [p \in 1 .. d.count + 1 |-> Append(Pending(d), c)[p]]
    BY <2>4, SeqIsFunction
  <2> QED BY <2>2, <2>6, <2>7, <2>8
<1>12. Rings' = [Rings EXCEPT ![n] = Append(@, c)]
  BY <1>7, <1>9, <1>11
<1>13. Owners[n] # NoConn /\ Len(Rings[n]) < QueueCap
  BY <1>1, <1>7, <1>11, ConnIs
<1> QED
  BY <1>1, <1>5, <1>10, <1>12, <1>13 DEF Channels!Accept, Owners, Rings

LEMMA TryDequeueTakes ==
    ASSUME RegistryInv, RegistryInv', RingsInv, OwnersInv,
           NEW n \in Nodes, NEW k \in Conns, TryDequeue(n, k), Holder(Find(n)) = k
    PROVE  Channels!Take(n)
<1> DEFINE d == Find(n)
           e == [d EXCEPT !.head = (d.head + 1) % QueueCap, !.count = @ - 1]
           h == Head1(d)
<1>1. Known(n) /\ d \in Device /\ d.node = n /\ d.count > 0
  BY FindFinds DEF TryDequeue
<1>2. /\ e.fd = d.fd /\ e.thread = d.thread /\ e.online = d.online /\ e.node = d.node
  BY <1>1 DEF Device
<1>3. e \in Device
  <2>1. /\ d.head \in 0 .. QueueCap - 1 /\ QueueCap \in Nat \ {0} /\ d.count \in 1 .. QueueCap
    BY <1>1, PendingIs
  <2>2. (d.head + 1) % QueueCap \in Slots /\ d.count - 1 \in 0 .. QueueCap
    BY <2>1, NextSlot DEF Slots
  <2> QED BY <1>1, <2>2 DEF Device
<1>4. /\ e.count = d.count - 1
      /\ \A p \in 1 .. d.count - 1 : Pending(e)[p] = Pending(d)[p + 1]
      /\ Pending(d)[1] = h
  BY <1>1, TakenInFront
<1>5. /\ Store(n, e) /\ fate' = [fate EXCEPT ![h] = "taken"]
      /\ takenBy' = [takenBy EXCEPT ![h] = k]
  BY DEF TryDequeue
<1>6. Reachable(d) /\ Holder(d) = k
  BY TakenWasAccepted
<1> HIDE DEF e, h
<1>7. Owners[n] = k /\ Rings[n] = Pending(d)
  BY <1>1, <1>6 DEF Owners, Rings, OwnerOf, PendingOf, Holder
<1> HIDE DEF d
<1>8. Reachable(e) /\ Holder(e) = k
  BY <1>2, <1>6 DEF Reachable, Holder
<1>9. Owners' = [Owners EXCEPT ![n] = k] /\ Rings' = [Rings EXCEPT ![n] = Pending(e)]
  BY <1>1, <1>2, <1>3, <1>5, <1>8, ChannelChanges DEF d
<1>10. Owners' = Owners
  BY <1>7, <1>9 DEF Owners
<1>11. Pending(d) # <<>> /\ Head(Pending(d)) = h /\ Tail(Pending(d)) = Pending(e)
  <2> DEFINE C == {Pending(d)[p] : p \in 1 .. d.count}
  <2>1. /\ d.count \in Nat \ {0} /\ DOMAIN Pending(d) = 1 .. d.count
        /\ Pending(d) \in [1 .. d.count -> C]
    BY <1>1, PendingIs
  <2> HIDE DEF C
  <2>2. Pending(d) \in Seq(C) /\ Len(Pending(d)) = d.count
    BY <2>1, FunctionIsSeq
  <2>3. Pending(d) # <<>>
    BY <2>1, <2>2, EmptySeq
  <2>4. /\ Head(Pending(d)) = Pending(d)[1]
        /\ Tail(Pending(d)) \in Seq(C) /\ Len(Tail(Pending(d))) = d.count - 1
        /\ \A p \in 1 .. d.count - 1 : Tail(Pending(d))[p] = Pending(d)[p + 1]
    BY <2>2, <2>3, HeadTailProperties
  <2>6. DOMAIN Pending(e) = 1 .. d.count - 1
        /\ Pending(e) = [p \in 1 .. d.count - 1 |-> Pending(e)[p]]
    BY <1>3, <1>4, PendingIs
  <2>7. Tail(Pending(d)) = [p \in 1 .. d.count - 1 |-> Tail(Pending(d))[p]]
    BY <2>4, SeqIsFunction
  <2> QED BY <1>4, <2>3, <2>4, <2>6, <2>7
<1>12. Rings' = [Rings EXCEPT ![n] = Tail(@)]
  BY <1>7, <1>9, <1>11
<1> QED
  BY <1>5, <1>7, <1>10, <1>11, <1>12 DEF Channels!Take, Owners, Rings

LEMMA InitIsChannels == Init => Channels!Init
<1> SUFFICES ASSUME Init
             PROVE  /\ Owners = [n \in Nodes |-> NoConn] /\ Rings = [n \in Nodes |-> <<>>]
                    /\ fate = [c \in Commands |-> "new"]
                    /\ takenBy = [c \in Commands |-> NoConn]
  BY DEF Channels!Init, Owners, Rings
<1>1. \A n \in Nodes : ~Known(n)
  BY DEF Init, Known
<1> QED BY <1>1 DEF Init, Owners, Rings, OwnerOf, PendingOf

\* Every call is a step of NodeChannels, or changes nothing of it.
LEMMA StepIsChannels ==
    ASSUME RegistryInv, RegistryInv', RingsInv, OwnersInv,
           [OwnedNext \/ RefusedNext]_dmVars
    PROVE  [Channels!Next]_(Channels!vars)
<1> SUFFICES Channels!Next \/ UNCHANGED <<Owners, Rings, fate, takenBy>>
  BY DEF Channels!vars, Owners, Rings
<1>1. ASSUME UNCHANGED dmVars
      PROVE  UNCHANGED <<Owners, Rings, fate, takenBy>>
  BY <1>1 DEF dmVars, Owners, Rings, OwnerOf, PendingOf, Known, Find, FindIndex,
              Reachable, Pending
<1>2. CASE OwnedNext
  BY <1>2, BindConnects, DisconnectEnds, EnqueueAccepts, TryDequeueTakes
     DEF OwnedNext, Channels!Next
<1>3. CASE RefusedNext
  BY <1>1, <1>3
     DEF RefusedNext, BindFull, BindConflict, BindAgain, BindTooSmall,
         DisconnectRefused, DisconnectTooSmall, DequeueRefused, DequeueEmpty,
         EnqueueRefused
<1> QED BY <1>1, <1>2, <1>3

\* Where every thread has one descriptor, the registry is what NodeChannels says:
\* a connection per node and a FIFO per connection.
THEOREM RegistryIsChannels ==
    ASSUME OneDescriptor
    PROVE  GatewaySpec => ImplementsChannels
<1>1. RegistryInv /\ RegistryInv' /\ RingsInv /\ OwnersInv
         /\ [GatewayNext \/ RefusedNext]_dmVars => [Channels!Next]_(Channels!vars)
  BY StepIsChannels, ThreadsAreOwners
<1> QED
  BY <1>1, InitIsChannels, OwnersCorrect, PTL
     DEF GatewaySpec, ImplementsChannels, Channels!Spec
=============================================================================
