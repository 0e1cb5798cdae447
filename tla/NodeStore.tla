----------------------------- MODULE NodeStore -----------------------------
(***************************************************************************)
(* The server's table of the latest DATA per node (server/node_store.c),   *)
(* written by the main loop for every DATA line and read by the registry   *)
(* it prints.  One thread, no locks.                                       *)
(*                                                                         *)
(* now is time(NULL): whole seconds, so that many reports share a stamp.   *)
(* It does not step back, and it is counted up to MaxTime.                 *)
(***************************************************************************)
EXTENDS Integers, Sequences, FiniteSets

CONSTANTS Nodes, Payloads,
          MaxNodes,          \* NODE_STORE_MAX_NODES
          OnlineTimeout,     \* NODE_ONLINE_TIMEOUT_SEC
          MaxTime            \* bound of the clock

ASSUME NodesAssumption == IsFiniteSet(Nodes)
ASSUME StoreAssumption == /\ MaxNodes \in Nat \ {0}
                          /\ OnlineTimeout \in Nat
                          /\ MaxTime \in Nat

VARIABLES entries, now,
          latest      \* history: the last report of every node that reported

vars == <<entries, now, latest>>

Entry == [node_id : Nodes, data : Payloads, last_update : 0 .. MaxTime]

Slot(i, n) == entries[i].node_id = n
Known(n)   == \E i \in DOMAIN entries : Slot(i, n)
Find(n)    == CHOOSE i \in DOMAIN entries :
                 Slot(i, n) /\ \A j \in 1 .. i - 1 : ~Slot(j, n)

\* query and is_online of a known node.
Query(n)    == entries[Find(n)].data
IsOnline(n) == now - entries[Find(n)].last_update < OnlineTimeout

-----------------------------------------------------------------------------
Init == /\ entries = <<>>
        /\ now = 0
        /\ latest = << >>

Report(n, d) == [node_id |-> n, data |-> d, last_update |-> now]

Hear(r) == latest' = [n \in DOMAIN latest \cup {r.node_id} |->
                         IF n = r.node_id THEN r ELSE latest[n]]

\* Fault: the data is overwritten and the time is not.
OverwriteKeepsTime(n, d) ==
    /\ Known(n)
    /\ entries' = [entries EXCEPT ![Find(n)].data = d]
    /\ Hear(Report(n, d))
    /\ UNCHANGED now

Overwrite(n, d) ==
    /\ Known(n)
    /\ entries' = [entries EXCEPT ![Find(n)] = Report(n, d)]
    /\ Hear(Report(n, d))
    /\ UNCHANGED now

HasRoom == Len(entries) < MaxNodes

\* Fault: a report always takes a slot of its own.
AddAlways(n, d) ==
    /\ HasRoom
    /\ entries' = Append(entries, Report(n, d))
    /\ Hear(Report(n, d))
    /\ UNCHANGED now

Add(n, d) ==
    /\ ~Known(n)
    /\ HasRoom
    /\ entries' = Append(entries, Report(n, d))
    /\ Hear(Report(n, d))
    /\ UNCHANGED now

\* Fault: the search for the oldest looks at the other end of the times.
NewestFirst(i) == \A j \in DOMAIN entries :
                     entries[i].last_update >= entries[j].last_update

\* The victim: the first slot with the smallest time.
Oldest(i) == \A j \in DOMAIN entries :
                /\ entries[i].last_update <= entries[j].last_update
                /\ entries[i].last_update = entries[j].last_update => i <= j

Evict(n, d) ==
    /\ ~Known(n)
    /\ ~HasRoom
    /\ \E i \in DOMAIN entries :
          /\ Oldest(i)
          /\ entries' = [entries EXCEPT ![i] = Report(n, d)]
    /\ Hear(Report(n, d))
    /\ UNCHANGED now

\* A second passes.
Tick == now < MaxTime /\ now' = now + 1 /\ UNCHANGED <<entries, latest>>

Next == \/ \E n \in Nodes, d \in Payloads : \/ Overwrite(n, d)
                                            \/ Add(n, d)
                                            \/ Evict(n, d)
        \/ Tick

Spec == Init /\ [][Next]_vars

-----------------------------------------------------------------------------
(* Properties *)

\* The types of the table, which never exceeds its slots, and of the history.
TypeOK == /\ entries \in Seq(Entry)
          /\ Len(entries) <= MaxNodes
          /\ now \in 0 .. MaxTime
          /\ DOMAIN latest \subseteq Nodes
          /\ \A n \in DOMAIN latest : latest[n] \in Entry

\* A node has one slot, and it holds what the node reported last: a query never
\* returns a report of another node or one that was replaced.
HoldsTheLatest ==
    /\ \A i, j \in DOMAIN entries : entries[i].node_id = entries[j].node_id => i = j
    /\ \A n \in Nodes : Known(n) => /\ n \in DOMAIN latest
                                    /\ Query(n) = latest[n].data

\* "When full, the node not updated for the longest time is evicted": a node that
\* reported and is not in the table left a full table, none of whose nodes was
\* heard in an earlier second than it.
ForgetsTheStalest ==
    \A n \in DOMAIN latest : ~Known(n) =>
       /\ Len(entries) = MaxNodes
       /\ \A i \in DOMAIN entries : entries[i].last_update >= latest[n].last_update

Recent == {n \in DOMAIN latest : now - latest[n].last_update < OnlineTimeout}

\* As long as no more nodes report within the online timeout than the table has
\* slots, each of them is in the table and shown online, and no other is, however
\* many nodes there are and whatever was evicted before.
RecentAreOnline ==
    /\ Cardinality(Recent) <= MaxNodes => \A n \in Recent : Known(n) /\ IsOnline(n)
    /\ \A n \in Nodes : Known(n) /\ IsOnline(n) => n \in Recent
=============================================================================
