-------------------------- MODULE NodeStoreProofs --------------------------
(***************************************************************************)
(* Proofs about NodeStore for any number of nodes, slots and seconds: the  *)
(* table holds the latest report of every node it knows, it forgets only   *)
(* the stalest, and a node heard within the timeout is shown online.       *)
(***************************************************************************)
EXTENDS NodeStore, FiniteSetTheorems, TLAPS

OneSlotPerNode == \A i, j \in DOMAIN entries :
                     entries[i].node_id = entries[j].node_id => i = j

\* A slot is the last report of its node.
SlotsAreLatest == \A i \in DOMAIN entries :
    /\ entries[i].node_id \in DOMAIN latest
    /\ entries[i] = latest[entries[i].node_id]

\* No report is from the future: a new one is at least as recent as all others.
NotAhead == \A n \in DOMAIN latest : latest[n].last_update <= now

\* The inductive invariant.
StoreInv == TypeOK /\ OneSlotPerNode /\ SlotsAreLatest /\ NotAhead /\ ForgetsTheStalest

-----------------------------------------------------------------------------
\* What the search finds when a node has one slot.
LEMMA Found ==
    ASSUME OneSlotPerNode, entries \in Seq(Entry), NEW n, Known(n)
    PROVE  /\ Find(n) \in DOMAIN entries
           /\ entries[Find(n)].node_id = n
<1>1. PICK i \in DOMAIN entries : Slot(i, n)
  BY DEF Known
<1>2. ASSUME NEW j \in 1 .. i - 1 PROVE ~Slot(j, n)
  <2>1. j \in DOMAIN entries /\ j # i
    OBVIOUS
  <2> QED BY <1>1, <2>1 DEF OneSlotPerNode, Slot
<1>3. Slot(Find(n), n) /\ Find(n) \in DOMAIN entries
  BY <1>1, <1>2 DEF Find
<1> QED BY <1>3 DEF Slot

\* The history of a report: the node's own entry changes, no other does.
LEMMA Heard ==
    ASSUME NEW n \in Nodes, NEW d \in Payloads, Hear(Report(n, d))
    PROVE  /\ DOMAIN latest' = DOMAIN latest \cup {n}
           /\ latest'[n] = Report(n, d)
           /\ \A k \in DOMAIN latest : k # n => latest'[k] = latest[k]
BY DEF Hear, Report

\* A report made now is an entry.
LEMMA ReportIsEntry ==
    ASSUME TypeOK, NEW n \in Nodes, NEW d \in Payloads
    PROVE  /\ Report(n, d) \in Entry
           /\ Report(n, d).node_id = n
           /\ Report(n, d).last_update = now
           /\ now \in Nat
BY StoreAssumption DEF TypeOK, Report, Entry

\* Times are natural numbers.
LEMMA Times ==
    ASSUME TypeOK
    PROVE  /\ \A i \in DOMAIN entries : entries[i].last_update \in Nat
           /\ \A n \in DOMAIN latest : latest[n].last_update \in Nat
           /\ now \in Nat
<1>1. \A e \in Entry : e.last_update \in Nat
  BY StoreAssumption DEF Entry
<1>2. \A i \in DOMAIN entries : entries[i] \in Entry
  BY DEF TypeOK
<1> QED BY <1>1, <1>2 DEF TypeOK

\* The parts of the invariant that every report keeps.
LEMMA HistoryKept ==
    ASSUME TypeOK, NotAhead, NEW n \in Nodes, NEW d \in Payloads,
           Hear(Report(n, d)), now' = now
    PROVE  /\ NotAhead'
           /\ (DOMAIN latest)' \subseteq Nodes
           /\ \A k \in (DOMAIN latest)' : latest'[k] \in Entry
<1> DEFINE r == Report(n, d)
<1>a. /\ DOMAIN latest' = DOMAIN latest \cup {n}
      /\ latest'[n] = r
      /\ \A k \in DOMAIN latest : k # n => latest'[k] = latest[k]
  BY Heard
<1>b. r \in Entry /\ r.last_update = now /\ now \in Nat
  BY ReportIsEntry
<1> HIDE DEF r
<1>1. NotAhead'
  BY <1>a, <1>b DEF NotAhead
<1>2. (DOMAIN latest)' \subseteq Nodes
  BY <1>a DEF TypeOK
<1>3. \A k \in (DOMAIN latest)' : latest'[k] \in Entry
  BY <1>a, <1>b DEF TypeOK
<1> QED BY <1>1, <1>2, <1>3

LEMMA InitInv == Init => StoreInv
BY StoreAssumption DEF Init, StoreInv, TypeOK, OneSlotPerNode, SlotsAreLatest, NotAhead,
                       ForgetsTheStalest, Entry, Known

LEMMA OverwriteInv ==
    ASSUME StoreInv, NEW n \in Nodes, NEW d \in Payloads, Overwrite(n, d)
    PROVE  StoreInv'
<1> DEFINE f == Find(n)
<1> DEFINE r == Report(n, d)
<1>0. /\ TypeOK /\ OneSlotPerNode /\ SlotsAreLatest /\ NotAhead /\ ForgetsTheStalest
      /\ Hear(r) /\ now' = now /\ Known(n)
      /\ entries' = [entries EXCEPT ![f] = r]
  BY DEF StoreInv, Overwrite
<1>1. f \in DOMAIN entries /\ entries[f].node_id = n
  BY <1>0, Found DEF TypeOK
<1>2. r \in Entry /\ r.node_id = n /\ r.last_update = now /\ now \in Nat
  BY <1>0, ReportIsEntry
<1>3. /\ DOMAIN latest' = DOMAIN latest \cup {n}
      /\ latest'[n] = r
      /\ \A k \in DOMAIN latest : k # n => latest'[k] = latest[k]
  BY <1>0, Heard
<1>h. /\ NotAhead' /\ (DOMAIN latest)' \subseteq Nodes
      /\ \A k \in (DOMAIN latest)' : latest'[k] \in Entry
  BY <1>0, HistoryKept
<1> HIDE DEF f, r
<1>4. /\ entries' \in Seq(Entry) /\ Len(entries') = Len(entries)
      /\ DOMAIN entries' = DOMAIN entries
      /\ entries'[f] = r
      /\ \A i \in DOMAIN entries : i # f => entries'[i] = entries[i]
  BY <1>0, <1>1, <1>2 DEF TypeOK
<1>5. \A i \in DOMAIN entries : entries'[i].node_id = entries[i].node_id
  BY <1>1, <1>2, <1>4
<1>6. TypeOK'
  BY <1>0, <1>4, <1>h DEF TypeOK
<1>7. OneSlotPerNode'
  BY <1>0, <1>4, <1>5 DEF OneSlotPerNode
<1>8. SlotsAreLatest'
  BY <1>0, <1>1, <1>2, <1>3, <1>4, <1>5 DEF SlotsAreLatest, OneSlotPerNode
<1>9. ForgetsTheStalest'
  <2> SUFFICES ASSUME NEW k \in DOMAIN latest', ~Known(k)'
               PROVE  /\ Len(entries') = MaxNodes
                      /\ \A i \in DOMAIN entries' :
                            entries'[i].last_update >= latest'[k].last_update
    BY DEF ForgetsTheStalest
  <2>1. ~Known(k) /\ k # n
    BY <1>1, <1>4, <1>5 DEF Known, Slot
  <2>2. k \in DOMAIN latest /\ latest'[k] = latest[k]
    BY <1>3, <2>1
  <2>3. latest[k].last_update <= now
    BY <1>0, <2>2 DEF NotAhead
  <2>4. latest[k].last_update \in Nat
    BY <1>0, <2>2 DEF TypeOK, Entry
  <2> QED BY <1>0, <1>2, <1>4, <2>1, <2>2, <2>3, <2>4 DEF ForgetsTheStalest
<1> QED BY <1>6, <1>7, <1>8, <1>9, <1>h DEF StoreInv

LEMMA AddInv ==
    ASSUME StoreInv, NEW n \in Nodes, NEW d \in Payloads, Add(n, d)
    PROVE  StoreInv'
<1> DEFINE r == Report(n, d)
<1>0. /\ TypeOK /\ OneSlotPerNode /\ SlotsAreLatest /\ NotAhead /\ ForgetsTheStalest
      /\ Hear(r) /\ now' = now /\ ~Known(n) /\ HasRoom
      /\ entries' = Append(entries, r)
  BY DEF StoreInv, Add
<1>2. r \in Entry /\ r.node_id = n
  BY <1>0, ReportIsEntry
<1>3. /\ DOMAIN latest' = DOMAIN latest \cup {n}
      /\ latest'[n] = r
      /\ \A k \in DOMAIN latest : k # n => latest'[k] = latest[k]
  BY <1>0, Heard
<1>h. /\ NotAhead' /\ (DOMAIN latest)' \subseteq Nodes
      /\ \A k \in (DOMAIN latest)' : latest'[k] \in Entry
  BY <1>0, HistoryKept
<1> HIDE DEF r
<1>4. /\ entries' \in Seq(Entry) /\ Len(entries') = Len(entries) + 1
      /\ DOMAIN entries' = DOMAIN entries \cup {Len(entries) + 1}
      /\ Len(entries) + 1 \notin DOMAIN entries
      /\ entries'[Len(entries) + 1] = r
      /\ \A i \in DOMAIN entries : entries'[i] = entries[i]
  BY <1>0, <1>2 DEF TypeOK
<1>5. \A i \in DOMAIN entries : entries[i].node_id # n
  BY <1>0 DEF Known, Slot
<1>6. TypeOK'
  <2>1. Len(entries') <= MaxNodes
    BY <1>0, <1>4, StoreAssumption DEF HasRoom, TypeOK
  <2> QED BY <1>0, <1>4, <1>h, <2>1 DEF TypeOK
<1>7. OneSlotPerNode'
  BY <1>0, <1>2, <1>4, <1>5 DEF OneSlotPerNode
<1>8. SlotsAreLatest'
  BY <1>0, <1>2, <1>3, <1>4, <1>5 DEF SlotsAreLatest
<1>9. ForgetsTheStalest'
  <2> SUFFICES ASSUME NEW k \in DOMAIN latest', ~Known(k)'
               PROVE  FALSE
    BY DEF ForgetsTheStalest
  <2>1. ~Known(k) /\ k # n
    BY <1>2, <1>4 DEF Known, Slot
  <2>2. Len(entries) = MaxNodes
    BY <1>0, <1>3, <2>1 DEF ForgetsTheStalest
  <2> QED BY <1>0, <2>2, StoreAssumption DEF HasRoom
<1> QED BY <1>6, <1>7, <1>8, <1>9, <1>h DEF StoreInv

LEMMA EvictInv ==
    ASSUME StoreInv, NEW n \in Nodes, NEW d \in Payloads, Evict(n, d)
    PROVE  StoreInv'
<1> DEFINE r == Report(n, d)
<1>0. /\ TypeOK /\ OneSlotPerNode /\ SlotsAreLatest /\ NotAhead /\ ForgetsTheStalest
      /\ Hear(r) /\ now' = now /\ ~Known(n) /\ ~HasRoom
  BY DEF StoreInv, Evict
<1>1. PICK f \in DOMAIN entries : Oldest(f) /\ entries' = [entries EXCEPT ![f] = r]
  BY DEF Evict
<1>2. r \in Entry /\ r.node_id = n /\ r.last_update = now /\ now \in Nat
  BY <1>0, ReportIsEntry
<1>3. /\ DOMAIN latest' = DOMAIN latest \cup {n}
      /\ latest'[n] = r
      /\ \A k \in DOMAIN latest : k # n => latest'[k] = latest[k]
  BY <1>0, Heard
<1>h. /\ NotAhead' /\ (DOMAIN latest)' \subseteq Nodes
      /\ \A k \in (DOMAIN latest)' : latest'[k] \in Entry
  BY <1>0, HistoryKept
<1> HIDE DEF r
<1>4. /\ entries' \in Seq(Entry) /\ Len(entries') = Len(entries)
      /\ DOMAIN entries' = DOMAIN entries
      /\ entries'[f] = r
      /\ \A i \in DOMAIN entries : i # f => entries'[i] = entries[i]
  BY <1>0, <1>1, <1>2 DEF TypeOK
<1>5. \A i \in DOMAIN entries : entries[i].node_id # n
  BY <1>0 DEF Known, Slot
<1>6. TypeOK'
  BY <1>0, <1>4, <1>h DEF TypeOK
<1>7. OneSlotPerNode'
  BY <1>0, <1>2, <1>4, <1>5 DEF OneSlotPerNode
<1>8. SlotsAreLatest'
  BY <1>0, <1>2, <1>3, <1>4, <1>5 DEF SlotsAreLatest
<1>9. ForgetsTheStalest'
  <2> SUFFICES ASSUME NEW k \in DOMAIN latest', ~Known(k)'
               PROVE  /\ Len(entries') = MaxNodes
                      /\ \A i \in DOMAIN entries' :
                            entries'[i].last_update >= latest'[k].last_update
    BY DEF ForgetsTheStalest
  <2>1. Len(entries') = MaxNodes
    <3>1. Len(entries) \in Nat /\ Len(entries) <= MaxNodes /\ MaxNodes \in Nat
      BY <1>0, StoreAssumption DEF TypeOK
    <3>2. ~(Len(entries) < MaxNodes)
      BY <1>0 DEF HasRoom
    <3>3. Len(entries) = MaxNodes
      BY <3>1, <3>2
    <3>4. Len(entries') = Len(entries)
      BY <1>4
    <3> QED BY <3>3, <3>4
  <2>2. k # n
    BY <1>2, <1>4, <1>1 DEF Known, Slot
  <2>3. k \in DOMAIN latest /\ latest'[k] = latest[k]
    BY <1>3, <2>2
  <2>4. latest[k].last_update <= now /\ latest[k].last_update \in Nat
    BY <1>0, <2>3 DEF NotAhead, TypeOK, Entry
  <2>5. \A i \in DOMAIN entries : entries[i].last_update >= latest[k].last_update
    <3>1. CASE Known(k)
      <4>1. entries[f].node_id = k
        BY <1>4, <3>1 DEF Known, Slot
      <4>2. entries[f] = latest[k]
        BY <1>0, <4>1 DEF SlotsAreLatest
      <4>3. \A i \in DOMAIN entries : entries[i].last_update \in Nat
        BY <1>0, Times
      <4> QED BY <1>1, <2>4, <4>2, <4>3 DEF Oldest
    <3>2. CASE ~Known(k)
      BY <1>0, <2>3, <3>2 DEF ForgetsTheStalest
    <3> QED BY <3>1, <3>2
  <2> QED BY <1>2, <1>4, <2>1, <2>3, <2>4, <2>5
<1> QED BY <1>6, <1>7, <1>8, <1>9, <1>h DEF StoreInv

LEMMA TickInv == StoreInv /\ Tick => StoreInv'
<1> SUFFICES ASSUME StoreInv, Tick PROVE StoreInv'
  OBVIOUS
<1>1. now' \in 0 .. MaxTime
  BY StoreAssumption DEF Tick, StoreInv, TypeOK
<1>2. TypeOK'
  BY <1>1 DEF StoreInv, TypeOK, Tick
<1>3. NotAhead'
  <2>1. \A n \in DOMAIN latest : latest[n].last_update \in Nat
    BY DEF StoreInv, TypeOK, Entry
  <2>2. now \in Nat
    BY DEF StoreInv, TypeOK
  <2> QED BY <2>1, <2>2 DEF StoreInv, NotAhead, Tick
<1> QED BY <1>2, <1>3 DEF StoreInv, OneSlotPerNode, SlotsAreLatest, ForgetsTheStalest,
                          Known, Slot, Tick

LEMMA StutterInv == StoreInv /\ UNCHANGED vars => StoreInv'
BY DEF StoreInv, TypeOK, OneSlotPerNode, SlotsAreLatest, NotAhead, ForgetsTheStalest,
       Known, Slot, vars

LEMMA StoreInvariant == Spec => []StoreInv
<1>1. StoreInv /\ [Next]_vars => StoreInv'
  BY OverwriteInv, AddInv, EvictInv, TickInv, StutterInv DEF Next
<1> QED BY InitInv, <1>1, PTL DEF Spec

-----------------------------------------------------------------------------
\* The table and its history stay well typed, and the table within its slots,
\* whatever the nodes report.
THEOREM TypeCorrect == Spec => []TypeOK
<1>1. StoreInv => TypeOK
  BY DEF StoreInv
<1> QED BY StoreInvariant, <1>1, PTL

\* The last report of a known node is what its slot holds.
LEMMA KnownIsLatest ==
    ASSUME StoreInv, NEW n, Known(n)
    PROVE  n \in DOMAIN latest /\ entries[Find(n)] = latest[n]
<1>1. Find(n) \in DOMAIN entries /\ entries[Find(n)].node_id = n
  BY Found DEF StoreInv, TypeOK
<1> QED BY <1>1 DEF StoreInv, SlotsAreLatest

\* A query of a node returns what that node reported last (node_store_query,
\* node_store_update), for any number of nodes, slots and evictions.
THEOREM QueryIsLatest == Spec => []HoldsTheLatest
<1>1. StoreInv => HoldsTheLatest
  BY KnownIsLatest DEF StoreInv, OneSlotPerNode, HoldsTheLatest, Query
<1> QED BY StoreInvariant, <1>1, PTL

\* Only a full table forgets a node, and never one that was heard in a later
\* second than a node it keeps (the eviction of node_store_update).
THEOREM StalestIsForgotten == Spec => []ForgetsTheStalest
<1>1. StoreInv => ForgetsTheStalest
  BY DEF StoreInv
<1> QED BY StoreInvariant, <1>1, PTL

\* A full table of nodes as recent as n leaves no place for n among MaxNodes.
LEMMA NoPlaceLeft ==
    ASSUME StoreInv, NEW n \in Recent, ~Known(n)
    PROVE  MaxNodes < Cardinality(Recent)
<1> DEFINE g == [i \in 1 .. MaxNodes |-> entries[i].node_id]
<1> DEFINE Others == Recent \ {n}
<1>1. /\ n \in DOMAIN latest /\ now - latest[n].last_update < OnlineTimeout
      /\ MaxNodes \in Nat /\ OnlineTimeout \in Nat
  BY StoreAssumption DEF Recent
<1>2. /\ Len(entries) = MaxNodes /\ entries \in Seq(Entry)
      /\ \A i \in DOMAIN entries : entries[i].last_update >= latest[n].last_update
  BY <1>1 DEF StoreInv, ForgetsTheStalest, TypeOK
<1>3. DOMAIN entries = 1 .. MaxNodes
  BY <1>2
<1>4. ASSUME NEW i \in 1 .. MaxNodes PROVE entries[i].node_id \in Others
  <2>1. i \in DOMAIN entries /\ entries[i].node_id # n
    BY <1>3 DEF Known, Slot
  <2>2. entries[i].node_id \in DOMAIN latest /\ latest[entries[i].node_id] = entries[i]
    BY <2>1 DEF StoreInv, SlotsAreLatest
  <2>3. entries[i].last_update \in Nat /\ latest[n].last_update \in Nat /\ now \in Nat
    BY <1>1, <2>1, Times DEF StoreInv
  <2>4. now - entries[i].last_update < OnlineTimeout
    BY <1>1, <1>2, <2>1, <2>3
  <2> QED BY <2>1, <2>2, <2>4 DEF Recent
<1>5. IsFiniteSet(Recent)
  <2>1. Recent \in SUBSET Nodes
    BY DEF Recent, StoreInv, TypeOK
  <2> QED BY <2>1, NodesAssumption, FS_Subset
<1>6. IsFiniteSet(Others) /\ Cardinality(Others) = Cardinality(Recent) - 1
  BY <1>5, FS_RemoveElement
<1>7. g \in Injection(1 .. MaxNodes, Others)
  <2>1. g \in [1 .. MaxNodes -> Others]
    BY <1>4
  <2>2. \A i, j \in 1 .. MaxNodes : g[i] = g[j] => i = j
    BY <1>3 DEF StoreInv, OneSlotPerNode
  <2> QED BY <2>1, <2>2 DEF Injection, IsInjective
<1>8. Cardinality(1 .. MaxNodes) <= Cardinality(Others)
  BY <1>6, <1>7, FS_Injection
<1>9. Cardinality(1 .. MaxNodes) = MaxNodes
  BY <1>1, FS_Interval, StoreAssumption
<1>10. Cardinality(Recent) \in Nat
  BY <1>5, FS_CardinalityType
<1> QED BY <1>1, <1>6, <1>8, <1>9, <1>10

\* While no more nodes report within the timeout than there are slots, each of
\* them is found and shown online, and nobody else is (node_store_is_online under
\* the evictions of node_store_update).
THEOREM RecentNodesAreOnline == Spec => []RecentAreOnline
<1>1. ASSUME StoreInv PROVE RecentAreOnline
  <2>1. ASSUME Cardinality(Recent) <= MaxNodes, NEW n \in Recent
        PROVE  Known(n) /\ IsOnline(n)
    <3>1. Known(n)
      <4>1. Cardinality(Recent) \in Nat /\ MaxNodes \in Nat
        <5>1. Recent \in SUBSET Nodes
          BY <1>1 DEF Recent, StoreInv, TypeOK
        <5> QED BY <5>1, NodesAssumption, FS_Subset, FS_CardinalityType, StoreAssumption
      <4> QED BY <1>1, <2>1, <4>1, NoPlaceLeft
    <3> QED BY <1>1, <2>1, <3>1, KnownIsLatest DEF Recent, IsOnline
  <2>2. ASSUME NEW n \in Nodes, Known(n), IsOnline(n) PROVE n \in Recent
    BY <1>1, <2>2, KnownIsLatest DEF Recent, IsOnline
  <2> QED BY <2>1, <2>2 DEF RecentAreOnline
<1> QED BY StoreInvariant, <1>1, PTL
=============================================================================
