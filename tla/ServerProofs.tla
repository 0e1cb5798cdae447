---------------------------- MODULE ServerProofs ----------------------------
(***************************************************************************)
(* Proofs about the server's main loop with its connections, the gateway   *)
(* and the nodes: for any number of nodes, connections, restarts and typed *)
(* commands, any size of the table and any bound on the retries.           *)
(***************************************************************************)
EXTENDS Server, FiniteSetTheorems, SequenceTheorems, TLAPS

\* The command table, with what is proved about it.
Tab == INSTANCE CommandManagerProofs

Units == Texts \cup {NL}

LoopTypes ==
    /\ pc \in {"top", "poll", "turn", "lines"}
    /\ revents \subseteq Events
    /\ client_fd \in 0 .. MaxConnections
    /\ receive_buffer \in Seq(Units)
    /\ run \in 0 .. MaxRestarts /\ typed \in 0 .. MaxTyped

LinkTypes ==
    /\ gw_fd \in 0 .. MaxConnections
    /\ state \in [Connections -> {"none", "open", "closed", "reset", "dead"}]
    /\ backlog \in Seq(Connections)
    /\ up \in [Connections -> Seq(Units)]
    /\ down \in [Connections -> Seq(Commands)]

SouthTypes ==
    /\ queue \in Seq(Messages)
    /\ ring \in [Nodes -> Seq(Commands)]
    /\ toNode \in [Nodes -> Seq(Commands)]
    /\ executed \in [Commands -> Nat]

\* The table, and that every command in it is for a node.
TableInv == /\ Tab!TableInv
            /\ \A i \in Tab!Slots : Tab!Used(i) => entries[i].target \in Nodes

\* The loop only handles what poll may have reported.
LoopInv == /\ "stdin" \in revents => typed < MaxTyped
           /\ NeverBlocks
           /\ pc = "lines" => "client" \notin revents
           /\ "listen" \in revents => backlog # <<>>
           /\ "hangup" \in revents => client_fd # 0
           /\ client_fd # 0 => state[client_fd] # "none"
           /\ \A b \in 1 .. Len(backlog) : state[backlog[b]] # "none"

\* Connection k's bytes, from the first that no line has been made of.
Stream(k) == IF k = client_fd THEN receive_buffer \o up[k] ELSE up[k]

\* A line feed ends a whole text; a text is of connection k, and without a line feed
\* of its own when it is a NACK.
Framed(s, k) == \A i \in 1 .. Len(s) :
    IF s[i] = NL THEN i > 1 /\ s[i - 1] # NL /\ s[i - 1].whole
    ELSE /\ s[i] \in Texts /\ s[i].conn = k
         /\ i < Len(s) /\ s[i + 1] # NL => s[i].message.type = "NACK"

\* What the gateway sends may follow s.
GoesOn(s) == s = <<>> \/ s[Len(s)] = NL \/ s[Len(s)].message.type = "NACK"

\* Only the gateway's connection is open.
StreamsInv ==
    /\ client_fd = 0 => receive_buffer = <<>>
    /\ \A k \in Connections :
          /\ Framed(Stream(k), k)
          /\ state[k] = "open" => k = gw_fd /\ GoesOn(Stream(k))
          /\ state[k] = "none" => up[k] = <<>>

\* What a message can be on its connection.
Wire(m) == {<<Text(m), NL>>, <<>>, <<Cut(m)>>, <<Text(m)>>}

-----------------------------------------------------------------------------
(* Where commands and answers are *)

InText(s, m) == \E i \in 1 .. Len(s) : s[i] # NL /\ s[i].message = m

\* The messages on their way to the server.
Answered == {m \in Messages : \/ \E i \in 1 .. Len(queue) : queue[i] = m
                              \/ InText(receive_buffer, m)
                              \/ \E k \in Connections : InText(up[k], m)}

Count(s, c) == Cardinality({i \in 1 .. Len(s) : s[i] = c})

\* The commands the gateway has still to read.
ToGateway == IF gw_fd = 0 THEN <<>> ELSE down[gw_fd]

\* The NACK of a command is under way, or has been taken.
NackTaken(c) == \E i \in Tab!Slots : /\ run = 0 /\ entries[i].state = "NACKED"
                                     /\ Command(i) = c
Nacked(c) == IF Nack(c) \in Answered \/ NackTaken(c) THEN 1 ELSE 0

\* How many copies of a command there are, or must have been.
Unread(c) == Count(ToGateway, c)
InRing(c) == Count(ring[c.node], c)
AtNode(c) == Count(toNode[c.node], c)
Weight(c) == Unread(c) + InRing(c) + AtNode(c) + executed[c] + Nacked(c)

\* The server issued the command: now, or in an earlier run.
Sent(c) == c.run < run \/ \E i \in Tab!Slots : Tab!Used(i) /\ Command(i) = c

\* Every place holds its own commands.
PlacesInv ==
    /\ \A k \in Connections : k # gw_fd => down[k] = <<>>
    /\ \A n \in Nodes : /\ \A p \in 1 .. Len(ring[n]) : ring[n][p].node = n
                        /\ \A p \in 1 .. Len(toNode[n]) : toNode[n][p].node = n

\* Nothing is there that was not sent, and nothing more often than it was sent.
CopiesInv ==
    /\ \A c \in Commands : Weight(c) > 0 => Sent(c)
    /\ \A i \in Tab!Slots : Tab!Used(i) => Weight(Command(i)) <= copies[i]

\* An ACK is only under way when the command was executed.
AcksInv == /\ \A m \in Answered : m.type = "ACK" => executed[m.command] > 0
           /\ \A i \in Tab!Slots : entries[i].state = "ACKED" =>
                 \E r \in 0 .. run : executed[[Command(i) EXCEPT !.run = r]] > 0

TypesInv == LoopTypes /\ LinkTypes /\ SouthTypes

\* The part of the inductive invariant that the rest is built on.
BaseInv == TypesInv /\ TableInv /\ LoopInv /\ StreamsInv

-----------------------------------------------------------------------------
(* The command table *)

\* The assumptions of CommandManager hold of the server's constants.
LEMMA TableConstants ==
    /\ NoNode \notin Nodes
    /\ (/\ MaxCommands \in Nat \ {0} /\ SequenceModulus \in Nat
        /\ MaxCommands < SequenceModulus - 1 /\ TimeoutSec \in Nat \ {0}
        /\ MaxRetries \in Nat /\ RetryCapacity \in Nat)
  BY NoNodeAssumption, SizesAssumption

\* The two instances of CommandManager, with and without its theorems, are one.
LEMMA SameTable ==
    /\ CM!Slots = Tab!Slots /\ CM!Sequences = Tab!Sequences /\ CM!Entry = Tab!Entry
    /\ \A i : (CM!Used(i) <=> Tab!Used(i)) /\ (CM!Waiting(i) <=> Tab!Waiting(i))
    /\ CM!Emitted = Tab!Emitted
    /\ CM!Init <=> Tab!Init
    /\ CM!TypeOK <=> Tab!TypeOK
    /\ CM!CheckTimeouts <=> Tab!CheckTimeouts
    /\ CM!Tick <=> Tab!Tick
    /\ \A n : CM!Send(n) <=> Tab!Send(n)
    /\ \A s, n : /\ CM!OnAck(s, n) <=> Tab!OnAck(s, n)
                 /\ CM!OnNack(s, n) <=> Tab!OnNack(s, n)
                 /\ CM!AnswerIgnored(s, n) <=> Tab!AnswerIgnored(s, n)
<1>1. CM!Slots = Tab!Slots /\ CM!Sequences = Tab!Sequences /\ CM!Allowance = Tab!Allowance
      /\ CM!States = Tab!States
  BY DEF CM!Slots, Tab!Slots, CM!Sequences, Tab!Sequences, CM!Allowance, Tab!Allowance,
         CM!States, Tab!States
<1>2. CM!Entry = Tab!Entry
  BY <1>1 DEF CM!Entry, Tab!Entry
<1>3. \A i : (CM!Used(i) <=> Tab!Used(i)) /\ (CM!Waiting(i) <=> Tab!Waiting(i))
  BY DEF CM!Used, Tab!Used, CM!Waiting, Tab!Waiting
<1>4. CM!Due = Tab!Due
  BY <1>1, <1>3 DEF CM!Due, Tab!Due
<1>5. CM!Retry = Tab!Retry
  BY <1>4 DEF CM!Retry, Tab!Retry
<1>6. CM!Emitted = Tab!Emitted
  <2>1. \A S : CM!Cardinality(S) = Tab!Cardinality(S)
    BY DEF CM!Cardinality, Tab!Cardinality
  <2> QED BY <1>5, <2>1 DEF CM!Emitted, Tab!Emitted
<1>7. CM!Init <=> Tab!Init
  BY <1>1 DEF CM!Init, Tab!Init
<1>8. CM!TypeOK <=> Tab!TypeOK
  BY <1>1, <1>2 DEF CM!TypeOK, Tab!TypeOK
<1>9. CM!CheckTimeouts <=> Tab!CheckTimeouts
  BY <1>1, <1>4, <1>5, <1>6 DEF CM!CheckTimeouts, Tab!CheckTimeouts
<1>10. CM!Tick <=> Tab!Tick
  BY <1>1, <1>3 DEF CM!Tick, Tab!Tick, CM!AtMost, Tab!AtMost
<1>11. \A n : CM!Send(n) <=> Tab!Send(n)
  BY <1>1, <1>3 DEF CM!Send, Tab!Send, CM!FirstFree, Tab!FirstFree,
                    CM!Successor, Tab!Successor
<1>12. \A s : (CM!Found(s) <=> Tab!Found(s)) /\ CM!FindEntry(s) = Tab!FindEntry(s)
  BY <1>1, <1>3 DEF CM!Found, Tab!Found, CM!FindEntry, Tab!FindEntry
<1>13. \A s, n : CM!Accepts(s, n) <=> Tab!Accepts(s, n)
  BY <1>3, <1>12 DEF CM!Accepts, Tab!Accepts
<1>14. \A s, n : /\ CM!OnAck(s, n) <=> Tab!OnAck(s, n)
                 /\ CM!OnNack(s, n) <=> Tab!OnNack(s, n)
                 /\ CM!AnswerIgnored(s, n) <=> Tab!AnswerIgnored(s, n)
  BY <1>12, <1>13 DEF CM!OnAck, Tab!OnAck, CM!OnNack, Tab!OnNack, CM!Answer, Tab!Answer,
                      CM!AnswerIgnored, Tab!AnswerIgnored, CM!vars, Tab!vars
<1> QED
  BY <1>1, <1>2, <1>3, <1>6, <1>7, <1>8, <1>9, <1>10, <1>11, <1>14

\* A used entry keeps its sequence number and its target.
Kept == \A i \in Tab!Slots : Tab!Used(i) =>
    /\ Tab!Used(i)' /\ entries'[i].sequence = entries[i].sequence
    /\ entries'[i].target = entries[i].target

\* What the table says of an entry.
LEMMA EntryIs ==
    ASSUME TableInv, NEW i \in Tab!Slots
    PROVE  /\ entries \in [Tab!Slots -> Tab!Entry] /\ entries[i] \in Tab!Entry
           /\ entries[i].sequence \in Tab!Sequences
           /\ i \in Nat /\ copies \in [Tab!Slots -> Nat] /\ copies[i] \in Nat
           /\ Tab!Used(i) => entries[i].sequence = i /\ entries[i].target \in Nodes
<1>1. /\ entries \in [Tab!Slots -> Tab!Entry] /\ entries[i] \in Tab!Entry
      /\ copies \in [Tab!Slots -> Nat] /\ copies[i] \in Nat
  BY DEF TableInv, Tab!TableInv, Tab!Types
<1>2. entries[i].sequence \in Tab!Sequences
  BY <1>1 DEF Tab!Entry
<1>3. i \in Nat
  BY TableConstants DEF Tab!Slots
<1>4. Tab!Used(i) => entries[i].sequence = i /\ entries[i].target \in Nodes
  BY DEF TableInv, Tab!TableInv, Tab!Numbered
<1> QED BY <1>1, <1>2, <1>3, <1>4

LEMMA TableSends ==
    ASSUME TableInv, NEW n \in Nodes, Tab!Send(n)
    PROVE  TableInv' /\ Kept
<1>1. /\ next_sequence \in Tab!Slots /\ ~Tab!Used(next_sequence)
      /\ entries' = [entries EXCEPT
              ![next_sequence] = [state |-> "WAITING", sequence |-> next_sequence,
                                  target |-> n, age |-> 0, retries |-> 0]]
  BY TableConstants, Tab!SendTakes DEF TableInv
<1>2. Tab!TableInv'
  BY TableConstants, Tab!SendKeeps DEF TableInv
<1>3. Kept
  BY <1>1 DEF Kept, Tab!Used
<1>4. ASSUME NEW i \in Tab!Slots, Tab!Used(i)' PROVE entries'[i].target \in Nodes
  <2>1. CASE i = next_sequence
    BY <1>1, <2>1, EntryIs
  <2>2. CASE i # next_sequence
    BY <1>1, <1>4, <2>2, EntryIs DEF Tab!Used
  <2> QED BY <2>1, <2>2
<1> QED BY <1>2, <1>3, <1>4 DEF TableInv

LEMMA TableAnswers ==
    ASSUME TableInv, NEW s \in Tab!Sequences, NEW n \in Nodes,
           NEW r \in {"ACKED", "NACKED"}, Tab!Answer(s, n, r)
    PROVE  /\ TableInv' /\ Kept
           /\ \E e \in Tab!Slots :
                 /\ Tab!Waiting(e) /\ entries[e].sequence = s /\ entries[e].target = n
                 /\ entries' = [entries EXCEPT ![e].state = r]
           /\ copies' = copies /\ next_sequence' = next_sequence
<1>1. Tab!Accepts(s, n)
      /\ entries' = [entries EXCEPT ![Tab!FindEntry(s)].state = r]
      /\ copies' = copies /\ next_sequence' = next_sequence
  BY DEF Tab!Answer
<1>2. PICK e \in Tab!Slots :
         /\ Tab!Waiting(e) /\ entries[e].sequence = s /\ entries[e].target = n
         /\ entries' = [entries EXCEPT ![e].state = r]
  BY <1>1, TableConstants, Tab!FoundIs DEF TableInv
<1>3. Tab!TableInv'
  BY TableConstants, Tab!AnswerKeeps DEF TableInv
<1>4. ASSUME NEW i \in Tab!Slots
      PROVE  /\ entries'[i].sequence = entries[i].sequence
             /\ entries'[i].target = entries[i].target
             /\ Tab!Used(i)' <=> Tab!Used(i)
  <2>1. entries \in [Tab!Slots -> Tab!Entry] /\ entries[i] \in Tab!Entry
    BY EntryIs
  <2>2. CASE i = e
    BY <1>2, <2>1, <2>2 DEF Tab!Entry, Tab!Used, Tab!Waiting
  <2>3. CASE i # e
    BY <1>2, <2>1, <2>3 DEF Tab!Used
  <2> QED BY <2>2, <2>3
<1>5. Kept
  BY <1>4 DEF Kept
<1>6. \A i \in Tab!Slots : Tab!Used(i)' => entries'[i].target \in Nodes
  BY <1>4, EntryIs
<1> QED BY <1>1, <1>2, <1>3, <1>5, <1>6 DEF TableInv

\* Most actions leave the table alone.
LEMMA TableStays ==
    ASSUME TableInv, UNCHANGED table
    PROVE  /\ TableInv' /\ Kept /\ copies' = copies /\ entries' = entries
           /\ \A i \in Tab!Slots : Tab!Used(i)' <=> Tab!Used(i)
<1>1. entries' = entries /\ copies' = copies /\ next_sequence' = next_sequence
        /\ elapsed' = elapsed
  BY DEF table
<1>2. TableInv'
  BY <1>1 DEF TableInv, Tab!TableInv, Tab!Types, Tab!Numbered, Tab!Paid, Tab!Used,
              Tab!Waiting, Tab!Waited
<1> QED BY <1>1, <1>2 DEF Kept, Tab!Used

LEMMA TableTicks ==
    ASSUME TableInv, Tab!Tick
    PROVE  /\ TableInv' /\ Kept
           /\ copies' = copies /\ next_sequence' = next_sequence
           /\ \A i \in Tab!Slots : entries'[i].state = entries[i].state
<1>1. copies' = copies /\ next_sequence' = next_sequence
  BY DEF Tab!Tick
<1>2. ASSUME NEW i \in Tab!Slots
      PROVE  /\ entries'[i].sequence = entries[i].sequence
             /\ entries'[i].target = entries[i].target
             /\ entries'[i].state = entries[i].state
  <2>1. entries[i] \in Tab!Entry
    BY EntryIs
  <2>2. entries'[i] = IF Tab!Waiting(i)
                      THEN [entries[i] EXCEPT !.age = Tab!AtMost(TimeoutSec, @ + 1)]
                      ELSE entries[i]
    BY DEF Tab!Tick
  <2> QED BY <2>1, <2>2 DEF Tab!Entry
<1>3. Tab!TableInv'
  BY TableConstants, Tab!TickKeeps DEF TableInv
<1>4. Kept
  BY <1>2 DEF Kept, Tab!Used
<1>5. \A i \in Tab!Slots : Tab!Used(i)' => entries'[i].target \in Nodes
  BY <1>2, EntryIs DEF Tab!Used
<1> QED BY <1>1, <1>2, <1>3, <1>4, <1>5 DEF TableInv

LEMMA TableChecks ==
    ASSUME TableInv, Tab!CheckTimeouts
    PROVE  /\ TableInv' /\ Kept
           /\ Tab!Emitted \subseteq Tab!Slots
           /\ \A i \in Tab!Emitted : Tab!Used(i)
           /\ next_sequence' = next_sequence
           /\ \A i \in Tab!Slots :
                 /\ copies'[i] = IF i \in Tab!Emitted THEN copies[i] + 1 ELSE copies[i]
                 /\ Tab!Used(i)' <=> Tab!Used(i)
                 /\ entries'[i].state \in {entries[i].state, "TIMEOUT"}
<1>1. next_sequence' = next_sequence
      /\ \A i \in Tab!Slots :
            copies'[i] = IF i \in Tab!Emitted THEN copies[i] + 1 ELSE copies[i]
  BY DEF Tab!CheckTimeouts
<1>2. Tab!Emitted \subseteq Tab!Slots /\ \A i \in Tab!Emitted : Tab!Used(i)
  BY DEF Tab!Emitted, Tab!Retry, Tab!Due, Tab!Used, Tab!Waiting
<1>3. ASSUME NEW i \in Tab!Slots
      PROVE  /\ entries'[i].sequence = entries[i].sequence
             /\ entries'[i].target = entries[i].target
             /\ entries'[i].state \in {entries[i].state, "TIMEOUT"}
             /\ Tab!Used(i)' <=> Tab!Used(i)
  <2>1. entries[i] \in Tab!Entry
    BY EntryIs
  <2>2. entries'[i] = IF i \in Tab!Retry
                      THEN [entries[i] EXCEPT !.retries = @ + 1, !.age = 0]
                      ELSE IF i \in Tab!Due THEN [entries[i] EXCEPT !.state = "TIMEOUT"]
                                            ELSE entries[i]
    BY DEF Tab!CheckTimeouts
  <2>3. i \in Tab!Due => Tab!Used(i)
    BY DEF Tab!Due, Tab!Used, Tab!Waiting
  <2> QED BY <2>1, <2>2, <2>3 DEF Tab!Entry, Tab!Used
<1>4. Tab!TableInv'
  BY TableConstants, Tab!CheckKeeps DEF TableInv
<1>5. Kept
  BY <1>3 DEF Kept
<1>6. \A i \in Tab!Slots : Tab!Used(i)' => entries'[i].target \in Nodes
  BY <1>3, EntryIs
<1> QED BY <1>1, <1>2, <1>3, <1>4, <1>5, <1>6 DEF TableInv

\* The table of a server that was started again.
LEMMA TableRestarts ==
    ASSUME Restart
    PROVE  /\ TableInv'
           /\ \A i \in Tab!Slots : ~Tab!Used(i)' /\ entries'[i].state = "FREE"
<1>1. /\ entries' = [i \in Tab!Slots |-> [state |-> "FREE", sequence |-> 0,
                                          target |-> NoNode, age |-> 0, retries |-> 0]]
      /\ next_sequence' = 1
      /\ copies' = [i \in Tab!Slots |-> 0]
      /\ elapsed' = [i \in Tab!Slots |-> 0]
  BY SameTable DEF Restart
<1>2. \A i \in Tab!Slots : ~Tab!Used(i)' /\ entries'[i].state = "FREE"
  BY <1>1 DEF Tab!Used
<1>3. Tab!Allowance \in Nat
  BY TableConstants, Tab!AllowanceIs
<1>4. Tab!Types'
  BY <1>1, <1>3, SizesAssumption DEF Tab!Types, Tab!Entry, Tab!Sequences, Tab!States
<1>5. Tab!Numbered'
  BY <1>1, SizesAssumption DEF Tab!Numbered, Tab!Used, Tab!Slots
<1>6. Tab!Paid'
  BY <1>1, SizesAssumption DEF Tab!Paid, Tab!Waiting
<1> QED BY <1>2, <1>4, <1>5, <1>6 DEF TableInv, Tab!TableInv

LEMMA InitServerTable == Init => TableInv
<1> SUFFICES ASSUME Init PROVE TableInv
  OBVIOUS
<1>1. Tab!Init
  BY SameTable DEF Init
<1>2. Tab!TableInv
  BY <1>1, TableConstants, Tab!InitTable
<1>3. \A i \in Tab!Slots : ~Tab!Used(i)
  BY <1>1 DEF Tab!Init, Tab!Used
<1> QED BY <1>2, <1>3 DEF TableInv

-----------------------------------------------------------------------------
(* The commands that are handed out *)

LEMMA CommandIs ==
    ASSUME TableInv, run \in 0 .. MaxRestarts, NEW i \in Tab!Slots, Tab!Used(i)
    PROVE  /\ Command(i) \in Commands
           /\ Command(i).run = run /\ Command(i).seq = i
           /\ Command(i).node = entries[i].target /\ Command(i).node \in Nodes
<1>1. entries[i].sequence \in Tab!Sequences /\ entries[i].sequence = i
      /\ entries[i].target \in Nodes
  BY EntryIs
<1>2. Command(i) = [run |-> run, seq |-> entries[i].sequence, node |-> entries[i].target]
  BY DEF Command
<1> QED BY <1>1, <1>2, SameTable DEF Commands

\* The rank of an entry among those that are sent again numbers them.
LEMMA RanksNumber ==
    ASSUME NEW E \in SUBSET Nat, IsFiniteSet(E)
    PROVE  /\ Cardinality(E) \in Nat
           /\ \A r \in 1 .. Cardinality(E) : \E i \in E : Cardinality({j \in E : j <= i}) = r
<1>1. Cardinality(E) \in Nat
  BY FS_CardinalityType
<1> DEFINE below(i) == {j \in E : j <= i}
           R == [i \in E |-> Cardinality(below(i))]
<1>2. ASSUME NEW i \in E
      PROVE  /\ IsFiniteSet(below(i)) /\ Cardinality(below(i)) \in 1 .. Cardinality(E)
             /\ i \in below(i)
  <2>1. i \in below(i)
    OBVIOUS
  <2>2. below(i) \in SUBSET E
    OBVIOUS
  <2>3. IsFiniteSet(below(i)) /\ Cardinality(below(i)) <= Cardinality(E)
    BY <2>2, FS_Subset
  <2>4. Cardinality(below(i)) \in Nat /\ Cardinality(below(i)) # 0
    BY <2>1, <2>3, FS_CardinalityType, FS_EmptySet
  <2> QED BY <1>1, <2>1, <2>3, <2>4
<1>3. ASSUME NEW i \in E, NEW k \in E, i < k
      PROVE  Cardinality(below(i)) # Cardinality(below(k))
  <2>1. \A j \in Nat : j <= i => j <= k
    BY <1>3
  <2>4. below(i) \in SUBSET below(k)
    BY <2>1
  <2>2. k \in below(k) /\ k \notin below(i)
    BY <1>3
  <2>3. IsFiniteSet(below(k))
    BY <1>2
  <2> QED BY <2>2, <2>3, <2>4, FS_Subset
<1>4. R \in [E -> 1 .. Cardinality(E)]
  BY <1>2
<1>5. \A i, k \in E : R[i] = R[k] => i = k
  <2> SUFFICES ASSUME NEW i \in E, NEW k \in E, R[i] = R[k], i # k PROVE FALSE
    OBVIOUS
  <2>1. i < k \/ k < i
    OBVIOUS
  <2> QED BY <1>3, <2>1
<1>6. R \in Injection(E, 1 .. Cardinality(E))
  BY <1>4, <1>5 DEF Injection, IsInjective
<1>7. IsFiniteSet(1 .. Cardinality(E)) /\ Cardinality(1 .. Cardinality(E)) = Cardinality(E)
  BY <1>1, FS_Interval
<1>8. R \in Surjection(E, 1 .. Cardinality(E))
  BY <1>6, <1>7, FS_Injection
<1>9. \A r \in 1 .. Cardinality(E) : \E i \in E : R[i] = r
  BY <1>8 DEF Surjection
<1> QED BY <1>1, <1>9

\* A check hands out one command for each entry that is sent again.
LEMMA HandedIs ==
    ASSUME TableInv, run \in 0 .. MaxRestarts, Tab!Emitted \subseteq Tab!Slots,
           \A i \in Tab!Emitted : Tab!Used(i)
    PROVE  /\ Handed \in Seq(Commands)
           /\ \A r \in 1 .. Len(Handed) : \E i \in Tab!Emitted : Handed[r] = Command(i)
           /\ \A q, r \in 1 .. Len(Handed) : Handed[q] = Handed[r] => q = r
<1> DEFINE E == Tab!Emitted
           rank(i) == Cardinality({j \in E : j <= i})
           pick(r) == CHOOSE i \in E : rank(i) = r
<1>1. E \in SUBSET Nat /\ IsFiniteSet(E)
  <2>1. E \in SUBSET (1 .. MaxCommands) /\ MaxCommands \in Nat
    BY SizesAssumption DEF Tab!Slots
  <2>2. IsFiniteSet(1 .. MaxCommands)
    BY <2>1, FS_Interval
  <2>3. IsFiniteSet(E)
    BY <2>1, <2>2, FS_Subset
  <2> QED BY <2>1, <2>3
<1>2. Cardinality(E) \in Nat
      /\ \A r \in 1 .. Cardinality(E) : \E i \in E : rank(i) = r
  BY <1>1, RanksNumber
<1>3. \A r \in 1 .. Cardinality(E) : pick(r) \in E /\ rank(pick(r)) = r
  BY <1>2
<1>4. Handed = [r \in 1 .. Cardinality(E) |-> Command(pick(r))]
  BY SameTable DEF Handed
<1>5. \A i \in E : Command(i) \in Commands /\ Command(i).seq = i
  BY CommandIs
<1> HIDE DEF E, rank, pick
<1>6. Handed \in [1 .. Cardinality(E) -> Commands]
  BY <1>3, <1>4, <1>5
<1>7. Handed \in Seq(Commands) /\ Len(Handed) = Cardinality(E)
  BY <1>2, <1>6
<1>8. \A r \in 1 .. Len(Handed) : \E i \in E : Handed[r] = Command(i)
  BY <1>3, <1>4, <1>7
<1>9. ASSUME NEW q \in 1 .. Len(Handed), NEW r \in 1 .. Len(Handed), Handed[q] = Handed[r]
      PROVE  q = r
  <2>1. Command(pick(q)) = Command(pick(r))
    BY <1>4, <1>7, <1>9
  <2>2. pick(q) = pick(r)
    BY <1>3, <1>5, <1>7, <2>1
  <2> QED BY <1>3, <1>7, <2>2
<1> QED BY <1>7, <1>8, <1>9 DEF E

-----------------------------------------------------------------------------
(* The pieces of an action *)

LEMMA FdIs ==
    ASSUME NEW k \in 0 .. MaxConnections, k # 0
    PROVE  k \in Connections
  BY BoundsAssumption DEF Connections

LEMMA SendToIs ==
    ASSUME LinkTypes, NEW k \in Connections, NEW cs \in Seq(Commands), SendTo(k, cs)
    PROVE  /\ down' \in [Connections -> Seq(Commands)]
           /\ \A j \in Connections :
                 down'[j] = IF j = k /\ state[k] = "open" THEN down[j] \o cs ELSE down[j]
<1>1. down \in [Connections -> Seq(Commands)] /\ down[k] \o cs \in Seq(Commands)
  BY ConcatProperties DEF LinkTypes
<1>2. down' = IF state[k] = "open" THEN [down EXCEPT ![k] = down[k] \o cs] ELSE down
  BY DEF SendTo
<1> QED BY <1>1, <1>2

LEMMA ArrivesIs ==
    ASSUME LinkTypes, gw_fd # 0, NEW us \in Seq(Units), Arrives(us)
    PROVE  /\ gw_fd \in Connections
           /\ up' \in [Connections -> Seq(Units)]
           /\ \A j \in Connections :
                 up'[j] = IF j = gw_fd /\ state[j] = "open" THEN up[j] \o us ELSE up[j]
<1>1. gw_fd \in Connections
  BY FdIs DEF LinkTypes
<1>2. up \in [Connections -> Seq(Units)] /\ up[gw_fd] \o us \in Seq(Units)
  BY <1>1, ConcatProperties DEF LinkTypes
<1>3. up' = IF state[gw_fd] = "open" THEN [up EXCEPT ![gw_fd] = up[gw_fd] \o us] ELSE up
  BY DEF Arrives
<1> QED BY <1>1, <1>2, <1>3

LEMMA WireIs ==
    ASSUME LinkTypes, gw_fd # 0, NEW m \in Messages, NEW us \in Wire(m)
    PROVE  /\ us \in Seq(Units) /\ gw_fd \in Connections
           /\ \A i \in 1 .. Len(us) :
                 IF us[i] = NL THEN i = 2 /\ us[1] # NL /\ us[1].whole
                 ELSE i = 1 /\ us[1] \in Texts /\ us[1].conn = gw_fd /\ us[1].message = m
           /\ Len(us) \in {0, 1, 2}
           /\ Len(us) = 2 => us[2] = NL
<1>1. gw_fd \in Connections
  BY FdIs DEF LinkTypes
<1>2. /\ Text(m) \in Texts /\ Text(m).conn = gw_fd /\ Text(m).message = m
      /\ Text(m).whole = TRUE
      /\ Cut(m) \in Texts /\ Cut(m).conn = gw_fd /\ Cut(m).message = m
  BY <1>1 DEF Text, Cut, Texts
<1>3. NL \notin Texts
  BY UnitsAssumption
<1>4. Text(m) # NL /\ Cut(m) # NL /\ Text(m) \in Units /\ Cut(m) \in Units /\ NL \in Units
  BY <1>2, <1>3 DEF Units
<1>5. us \in {<<Text(m), NL>>, <<>>, <<Cut(m)>>, <<Text(m)>>}
  BY DEF Wire
<1>6. CASE us = <<>>
  <2>1. us \in Seq(Units) /\ Len(us) = 0
    BY <1>6
  <2> QED BY <1>1, <2>1
<1>7. ASSUME NEW t \in {Text(m), Cut(m)}, us = <<t>>
      PROVE  us \in Seq(Units) /\ Len(us) = 1 /\ us[1] = t
  BY <1>4, <1>7
<1>8. ASSUME NEW t \in {Text(m), Cut(m)}, us = <<t>>
      PROVE  \A i \in 1 .. Len(us) : us[i] # NL /\ i = 1
  <2>1. \A i \in 1 .. Len(us) : i = 1
    BY <1>7, <1>8
  <2> QED BY <1>4, <1>7, <1>8, <2>1
<1>9. ASSUME NEW t \in {Text(m), Cut(m)}, us = <<t>>
      PROVE  us[1] \in Texts /\ us[1].conn = gw_fd /\ us[1].message = m
  BY <1>2, <1>7, <1>9
<1>10. CASE us = <<Text(m), NL>>
  <2>1. us \in Seq(Units) /\ Len(us) = 2 /\ us[1] = Text(m) /\ us[2] = NL
    BY <1>4, <1>10
  <2>2. \A i \in 1 .. Len(us) : i = 1 \/ i = 2
    BY <2>1
  <2> HIDE <1>10
  <2> QED BY <1>1, <1>2, <1>4, <2>1, <2>2
<1> QED BY <1>1, <1>5, <1>6, <1>7, <1>8, <1>9, <1>10

LEMMA CloseClientIs ==
    ASSUME LinkTypes, client_fd \in Connections, CloseClient
    PROVE  /\ state' \in [Connections -> {"none", "open", "closed", "reset", "dead"}]
           /\ up' \in [Connections -> Seq(Units)]
           /\ \A j \in Connections :
                 /\ state'[j] = IF j = client_fd THEN "dead" ELSE state[j]
                 /\ up'[j] = IF j = client_fd THEN <<>> ELSE up[j]
  BY DEF LinkTypes, CloseClient

LEMMA LinkClosesIs ==
    ASSUME LinkTypes, gw_fd # 0, LinkCloses
    PROVE  /\ state' \in [Connections -> {"none", "open", "closed", "reset", "dead"}]
           /\ down' \in [Connections -> Seq(Commands)]
           /\ gw_fd' = 0
           /\ state'[gw_fd] \notin {"none", "open"}
           /\ \A j \in Connections :
                 /\ j # gw_fd => state'[j] = state[j] /\ down'[j] = down[j]
                 /\ j = gw_fd => down'[j] = <<>>
<1>1. gw_fd \in Connections
  BY FdIs DEF LinkTypes
<1>2. /\ state \in [Connections -> {"none", "open", "closed", "reset", "dead"}]
      /\ down \in [Connections -> Seq(Commands)] /\ <<>> \in Seq(Commands)
  BY DEF LinkTypes
<1> QED BY <1>1, <1>2 DEF LinkCloses

\* The elements of the end of a sequence.
LEMMA EndIs ==
    ASSUME NEW S, NEW s \in Seq(S), NEW n \in 1 .. Len(s)
    PROVE  /\ SubSeq(s, n + 1, Len(s)) \in Seq(S)
           /\ Len(SubSeq(s, n + 1, Len(s))) = Len(s) - n
           /\ \A i \in 1 .. Len(s) - n : SubSeq(s, n + 1, Len(s))[i] = s[i + n]
<1>1. Len(s) \in Nat /\ n \in Nat /\ n <= Len(s)
  BY LenProperties
<1>2. PICK l : l = Len(s)
  OBVIOUS
<1>3. \A i \in n + 1 .. l : s[i] \in S
  <2>1. \A i \in n + 1 .. l : i \in 1 .. l
    BY <1>1, <1>2
  <2> QED BY <1>2, <2>1, ElementOfSeq
<1>4. l \in Int /\ n + 1 \in Int /\ n \in Int /\ n <= l
  BY <1>1, <1>2
<1>5. PICK e : e = SubSeq(s, n + 1, l)
  OBVIOUS
<1>6. /\ e \in Seq(S)
      /\ Len(e) = IF n + 1 <= l THEN l - (n + 1) + 1 ELSE 0
      /\ \A i \in 1 .. l - (n + 1) + 1 : e[i] = s[(n + 1) + i - 1]
  BY <1>3, <1>4, <1>5, SubSeqProperties
<1>7. Len(e) = l - n
  BY <1>4, <1>6
<1>8. \A i \in Int : (n + 1) + i - 1 = i + n
  BY <1>4
<1>9. l - (n + 1) + 1 = l - n
  BY <1>4
<1>10. \A i \in 1 .. l - n : e[i] = s[i + n]
  BY <1>6, <1>8, <1>9
<1> QED BY <1>2, <1>5, <1>6, <1>7, <1>10

\* A line begins with a text, and is what stands before the first line feed.
LEMMA LineIs ==
    ASSUME LoopTypes, LinkTypes, StreamsInv, LP!HasLine(receive_buffer)
    PROVE  /\ client_fd \in Connections
           /\ receive_buffer[1] \in Texts /\ receive_buffer[1] # NL
           /\ receive_buffer[1].message \in Messages
           /\ LP!Line(receive_buffer)[1] = receive_buffer[1]
           /\ \E n \in 2 .. Len(receive_buffer) :
                 /\ receive_buffer[n] = NL
                 /\ LP!Rest(receive_buffer)
                       = SubSeq(receive_buffer, n + 1, Len(receive_buffer))
<1> DEFINE b == receive_buffer
           n == LP!NewlineAt(b)
<1>1. b \in Seq(Units) /\ DOMAIN b = 1 .. Len(b) /\ Len(b) \in Nat
  BY LenProperties DEF LoopTypes
<1>2. PICK h \in 1 .. Len(b) : b[h] = NL
  BY <1>1 DEF LP!HasLine
<1>3. client_fd \in Connections
  <2>1. client_fd # 0
    BY <1>2 DEF StreamsInv
  <2> QED BY <2>1, FdIs DEF LoopTypes
<1>4. Framed(b \o up[client_fd], client_fd)
  BY <1>3 DEF StreamsInv, Stream
<1>5. NL \notin Texts /\ CR \notin Texts \cup {NL}
  BY UnitsAssumption
<1>6. PICK u : u = b \o up[client_fd]
  OBVIOUS
<1>7. 1 <= Len(u) /\ Len(u) \in Nat /\ u[1] = b[1]
  <2>1. up[client_fd] \in Seq(Units)
    BY <1>3 DEF LinkTypes
  <2>2. PICK v : v = up[client_fd]
    OBVIOUS
  <2>3. /\ Len(b \o v) = Len(b) + Len(v) /\ Len(v) \in Nat
        /\ \A i \in 1 .. Len(b) + Len(v) : (b \o v)[i] = IF i <= Len(b) THEN b[i] ELSE v[i - Len(b)]
    BY <1>1, <2>1, <2>2, ConcatProperties, LenProperties
  <2>4. 1 <= Len(b) /\ 1 \in 1 .. Len(b) + Len(v)
    BY <1>1, <1>2, <2>3
  <2> QED BY <1>1, <1>6, <2>2, <2>3, <2>4
<1>8. b[1] \in Texts /\ b[1] # NL /\ b[1] # CR /\ b[1].message \in Messages
  <2>1. 1 \in 1 .. Len(u)
    BY <1>7
  <2>2. u[1] # NL
    BY <1>4, <1>6, <2>1 DEF Framed
  <2>3. u[1] \in Texts
    BY <1>4, <1>6, <2>1, <2>2 DEF Framed
  <2> QED BY <1>5, <1>7, <2>3 DEF Texts
<1>9. n \in DOMAIN b /\ b[n] = NL
  <2>1. PICK S : S = {i \in 1 .. Len(b) : b[i] = NL}
    OBVIOUS
  <2>2. S \in SUBSET Nat /\ h \in S
    BY <1>2, <2>1
  <2>3. PICK m \in S : \A i \in S : m <= i
    BY <2>2, TableConstants, Tab!Least
  <2>4. \A j \in 1 .. m - 1 : j \in Nat /\ j < m /\ j \in 1 .. Len(b)
    BY <1>1, <2>1, <2>3
  <2>5. \A j \in 1 .. m - 1 : b[j] # NL
    BY <2>1, <2>3, <2>4
  <2>6. m \in DOMAIN b /\ b[m] = NL
    BY <1>1, <2>1
  <2> HIDE DEF b
  <2>7. n \in DOMAIN b /\ (b[n] = NL /\ \A j \in 1 .. n - 1 : b[j] # NL)
    BY <2>5, <2>6 DEF LP!NewlineAt
  <2> QED BY <2>7
<1> HIDE DEF n
<1>10. n \in 2 .. Len(b)
  BY <1>1, <1>8, <1>9
<1>11. LP!Line(b)[1] = b[1]
  <2>1. LP!Line(b) = SubSeq(b, 1, IF n > 1 /\ b[n - 1] = CR THEN n - 2 ELSE n - 1)
    BY DEF LP!Line, n
  <2>2. PICK e : e = IF n > 1 /\ b[n - 1] = CR THEN n - 2 ELSE n - 1
    OBVIOUS
  <2>3. n = 2 => n - 1 = 1
    OBVIOUS
  <2>4. n = 2 => e = 1
    BY <1>8, <2>2, <2>3
  <2>5. n # 2 => e >= 1
    BY <1>1, <1>10, <2>2
  <2>6. e \in 1 .. Len(b)
    BY <1>1, <1>10, <2>2, <2>4, <2>5
  <2>7. \A i \in 1 .. e : b[i] \in Units
    <3>1. \A i \in 1 .. e : i \in 1 .. Len(b)
      BY <1>1, <2>6
    <3> HIDE DEF b
    <3> QED BY <1>1, <3>1, ElementOfSeq
  <2> HIDE DEF b
  <2>8. \A i \in 1 .. e - 1 + 1 : SubSeq(b, 1, e)[i] = b[1 + i - 1]
    BY <1>1, <2>6, <2>7, SubSeqProperties
  <2>9. 1 \in 1 .. e - 1 + 1 /\ 1 + 1 - 1 = 1
    BY <2>6
  <2> QED BY <2>1, <2>2, <2>8, <2>9
<1>12. LP!Rest(b) = SubSeq(b, n + 1, Len(b))
  BY DEF LP!Rest, n
<1> HIDE DEF b
<1> QED BY <1>3, <1>8, <1>9, <1>10, <1>11, <1>12 DEF b

\* A line is taken for the message it begins with: its number and its node decide a
\* command, or nothing.
LEMMA OnLineIs ==
    ASSUME LoopTypes, LinkTypes, StreamsInv, OnLine
    PROVE  \E m \in Messages :
              /\ m = receive_buffer[1].message
              /\ \/ m.type = "ACK" /\ Tab!Answer(m.command.seq, m.command.node, "ACKED")
                 \/ m.type = "NACK" /\ Tab!Answer(m.command.seq, m.command.node, "NACKED")
                 \/ UNCHANGED table
<1> DEFINE m == receive_buffer[1].message
<1>1. LP!HasLine(receive_buffer)
  BY DEF OnLine
<1>2. PICK line : line = LP!Line(receive_buffer)
  OBVIOUS
<1>3. m \in Messages /\ line[1].message = m
  BY <1>1, <1>2, LineIs
<1>4. OnAnswer(m) \/ UNCHANGED table
  BY <1>2, <1>3 DEF OnLine
<1> HIDE DEF m
<1>5. OnAnswer(m) => \/ m.type = "ACK" /\ CM!OnAck(m.command.seq, m.command.node)
                     \/ m.type = "NACK" /\ CM!OnNack(m.command.seq, m.command.node)
                     \/ CM!AnswerIgnored(m.command.seq, m.command.node)
  BY DEF OnAnswer
<1>6. OnAnswer(m) => \/ m.type = "ACK" /\ Tab!OnAck(m.command.seq, m.command.node)
                     \/ m.type = "NACK" /\ Tab!OnNack(m.command.seq, m.command.node)
                     \/ Tab!AnswerIgnored(m.command.seq, m.command.node)
  BY <1>5, SameTable
<1>7. Tab!AnswerIgnored(m.command.seq, m.command.node) => UNCHANGED table
  BY DEF Tab!AnswerIgnored, Tab!vars, table
<1>8. \/ m.type = "ACK" /\ Tab!Answer(m.command.seq, m.command.node, "ACKED")
      \/ m.type = "NACK" /\ Tab!Answer(m.command.seq, m.command.node, "NACKED")
      \/ UNCHANGED table
  BY <1>4, <1>6, <1>7 DEF Tab!OnAck, Tab!OnNack
<1> QED BY <1>3, <1>8 DEF m

LEMMA MessageFields ==
    ASSUME NEW m \in Messages
    PROVE  /\ m.type \in {"ACK", "NACK"}
           /\ m.command \in Commands /\ m.command.seq \in Tab!Sequences
           /\ m.command.node \in Nodes
  BY SameTable DEF Messages, Commands

LEMMA CommandFields ==
    ASSUME NEW c \in Commands
    PROVE  /\ c.run \in 0 .. MaxRestarts /\ c.run \in Nat /\ c.node \in Nodes
           /\ Ack(c) \in Messages /\ Nack(c) \in Messages
           /\ Ack(c).type = "ACK" /\ Nack(c).type = "NACK"
           /\ Ack(c).command = c /\ Nack(c).command = c
  BY BoundsAssumption DEF Commands, Messages, Ack, Nack

\* An answer decides one command of the table, for whose node it is.
LEMMA OnLineTable ==
    ASSUME LoopTypes, LinkTypes, StreamsInv, TableInv, OnLine
    PROVE  /\ TableInv' /\ Kept /\ copies' = copies
           /\ \A i \in Tab!Slots : Tab!Used(i)' <=> Tab!Used(i)
           /\ \/ entries' = entries
              \/ \E m \in Messages, e \in Tab!Slots :
                    /\ m = receive_buffer[1].message
                    /\ Tab!Used(e)
                    /\ entries[e].sequence = m.command.seq
                    /\ entries[e].target = m.command.node
                    /\ entries' = [entries EXCEPT
                          ![e].state = IF m.type = "ACK" THEN "ACKED" ELSE "NACKED"]
<1>1. PICK m \in Messages :
         /\ m = receive_buffer[1].message
         /\ \/ m.type = "ACK" /\ Tab!Answer(m.command.seq, m.command.node, "ACKED")
            \/ m.type = "NACK" /\ Tab!Answer(m.command.seq, m.command.node, "NACKED")
            \/ UNCHANGED table
  BY OnLineIs
<1>2. CASE UNCHANGED table
  BY <1>2, TableStays
<1>3. ASSUME NEW r \in {"ACKED", "NACKED"}, r = IF m.type = "ACK" THEN "ACKED" ELSE "NACKED",
             Tab!Answer(m.command.seq, m.command.node, r)
      PROVE  /\ TableInv' /\ Kept /\ copies' = copies
             /\ \A i \in Tab!Slots : Tab!Used(i)' <=> Tab!Used(i)
             /\ \E e \in Tab!Slots :
                    /\ Tab!Used(e)
                    /\ entries[e].sequence = m.command.seq
                    /\ entries[e].target = m.command.node
                    /\ entries' = [entries EXCEPT ![e].state = r]
  <2>1. /\ TableInv' /\ Kept /\ copies' = copies
        /\ \E e \in Tab!Slots :
              /\ Tab!Waiting(e) /\ entries[e].sequence = m.command.seq
              /\ entries[e].target = m.command.node
              /\ entries' = [entries EXCEPT ![e].state = r]
    BY <1>3, MessageFields, TableAnswers, SMTT(30)
  <2>2. PICK e \in Tab!Slots :
              /\ Tab!Waiting(e) /\ entries[e].sequence = m.command.seq
              /\ entries[e].target = m.command.node
              /\ entries' = [entries EXCEPT ![e].state = r]
    BY <2>1
  <2>3. Tab!Used(e)
    BY <2>2 DEF Tab!Used, Tab!Waiting
  <2>4. \A i \in Tab!Slots : i # e => entries'[i] = entries[i]
    BY <2>2, EntryIs
  <2>5. \A i \in Tab!Slots : Tab!Used(i)' <=> Tab!Used(i)
    BY <2>1, <2>3, <2>4 DEF Kept, Tab!Used
  <2> QED BY <2>1, <2>2, <2>3, <2>5
<1>4. CASE m.type = "ACK" /\ Tab!Answer(m.command.seq, m.command.node, "ACKED")
  BY <1>1, <1>3, <1>4
<1>5. CASE m.type = "NACK" /\ Tab!Answer(m.command.seq, m.command.node, "NACKED")
  BY <1>1, <1>3, <1>5
<1> QED BY <1>1, <1>2, <1>4, <1>5

\* The command that is issued for a typed line.
NewCommand(n) == [run |-> run, seq |-> next_sequence, node |-> n]

-----------------------------------------------------------------------------
(* Types *)

LEMMA TopTypes ==
    ASSUME TypesInv, TableInv, Top
    PROVE  TypesInv'
<1>1. down' \in [Connections -> Seq(Commands)]
  <2>1. Tab!CheckTimeouts
    BY SameTable DEF Top
  <2>2. Handed \in Seq(Commands)
    BY <2>1, TableChecks, HandedIs DEF TypesInv, LoopTypes
  <2>3. client_fd # 0 => client_fd \in Connections
    BY FdIs DEF TypesInv, LoopTypes
  <2>4. CASE client_fd = 0
    BY <2>4 DEF Top, TypesInv, LinkTypes
  <2>5. CASE client_fd # 0
    BY <2>2, <2>3, <2>5, SendToIs DEF Top, TypesInv
  <2> QED BY <2>4, <2>5
<1> QED BY <1>1 DEF Top, gateway, TypesInv, LoopTypes, LinkTypes, SouthTypes

LEMMA StdinTypes ==
    ASSUME TypesInv, TableInv, LoopInv, Stdin
    PROVE  TypesInv'
<1>1. down' \in [Connections -> Seq(Commands)]
  <2>1. CASE StdinRefused
    BY <2>1 DEF StdinRefused, TypesInv, LinkTypes
  <2>2. ASSUME NEW n \in Nodes, StdinSends(n) PROVE down' \in [Connections -> Seq(Commands)]
    <3>1. client_fd \in Connections
      BY <2>2, FdIs DEF StdinSends, TypesInv, LoopTypes
    <3>2. next_sequence \in CM!Sequences
      BY SameTable DEF TableInv, Tab!TableInv, Tab!Types
    <3>3. NewCommand(n) \in Commands
      BY <3>2 DEF NewCommand, Commands, TypesInv, LoopTypes
    <3>4. SendTo(client_fd, <<NewCommand(n)>>)
      BY <2>2 DEF StdinSends, NewCommand
    <3>5. PICK cs : cs = <<NewCommand(n)>>
      OBVIOUS
    <3>6. cs \in Seq(Commands)
      BY <3>3, <3>5
    <3> QED BY <3>1, <3>4, <3>5, <3>6, SendToIs DEF TypesInv
  <2> QED BY <2>1, <2>2 DEF Stdin
<1>2. typed' \in 0 .. MaxTyped
  BY BoundsAssumption DEF Stdin, At, LoopInv, TypesInv, LoopTypes
<1> QED
  BY <1>1, <1>2 DEF Stdin, Remain, gateway, TypesInv, LoopTypes, LinkTypes, SouthTypes

LEMMA AcceptTypes ==
    ASSUME TypesInv, LoopInv, Accept
    PROVE  TypesInv'
<1>1. Head(backlog) \in Connections /\ Tail(backlog) \in Seq(Connections)
  BY DEF TypesInv, LinkTypes, LoopInv, Accept, At
<1>2. /\ state' \in [Connections -> {"none", "open", "closed", "reset", "dead"}]
      /\ up' \in [Connections -> Seq(Units)]
  <2>1. client_fd # 0 => client_fd \in Connections
    BY FdIs DEF TypesInv, LoopTypes
  <2>2. CASE client_fd = 0
    BY <2>2 DEF Accept, Replace, TypesInv, LinkTypes
  <2>3. CASE client_fd # 0
    BY <2>1, <2>3, CloseClientIs DEF Accept, Replace, TypesInv
  <2> QED BY <2>2, <2>3
<1>3. LoopTypes'
  <2>1. client_fd' \in 0 .. MaxConnections
    BY <1>1, BoundsAssumption DEF Accept, Replace, Connections
  <2> QED BY <2>1 DEF Accept, Replace, Remain, TypesInv, LoopTypes
<1>4. LinkTypes' /\ SouthTypes'
  BY <1>1, <1>2 DEF Accept, Replace, gateway, TypesInv, LinkTypes, SouthTypes
<1> QED BY <1>3, <1>4 DEF TypesInv

LEMMA ReceiveIs ==
    ASSUME LoopTypes, LinkTypes, LoopInv, Receive
    PROVE  /\ client_fd \in Connections
           /\ \E k \in 1 .. Len(up[client_fd]) :
                 /\ receive_buffer' \in Seq(Units)
                 /\ Len(receive_buffer') = Len(receive_buffer) + k
                 /\ \A i \in 1 .. Len(receive_buffer) :
                       receive_buffer'[i] = receive_buffer[i]
                 /\ \A i \in 1 .. k :
                       receive_buffer'[Len(receive_buffer) + i] = up[client_fd][i]
                 /\ up' \in [Connections -> Seq(Units)]
                 /\ \A j \in Connections : j # client_fd => up'[j] = up[j]
                 /\ Len(up'[client_fd]) = Len(up[client_fd]) - k
                 /\ \A i \in 1 .. Len(up[client_fd]) - k :
                       up'[client_fd][i] = up[client_fd][k + i]
<1> DEFINE u == up[client_fd]
<1>1. client_fd \in Connections
  BY FdIs DEF LoopTypes, LoopInv, NeverBlocks, Receive, At
<1>2. u \in Seq(Units) /\ Len(u) \in Nat /\ up \in [Connections -> Seq(Units)]
      /\ receive_buffer \in Seq(Units) /\ Len(receive_buffer) \in Nat
  BY <1>1, LenProperties DEF LoopTypes, LinkTypes
<1>3. PICK k \in 1 .. Len(u) :
         /\ receive_buffer' = receive_buffer \o SubSeq(u, 1, k)
         /\ up' = [up EXCEPT ![client_fd] = SubSeq(u, k + 1, Len(u))]
  BY DEF Receive
<1> HIDE DEF u
<1>4. k \in Nat /\ k <= Len(u) /\ k \in Int /\ 1 <= k /\ k + 1 \in Int /\ Len(u) \in Int
  BY <1>2, <1>3
<1>5. \A i \in 1 .. Len(u) : u[i] \in Units
  BY <1>2, ElementOfSeq
<1>6. /\ SubSeq(u, 1, k) \in Seq(Units) /\ Len(SubSeq(u, 1, k)) = k
      /\ \A i \in 1 .. k : SubSeq(u, 1, k)[i] = u[i]
  <2>1. \A i \in 1 .. k : u[i] \in Units
    BY <1>4, <1>5
  <2>2. /\ SubSeq(u, 1, k) \in Seq(Units)
        /\ Len(SubSeq(u, 1, k)) = IF 1 <= k THEN k - 1 + 1 ELSE 0
        /\ \A i \in 1 .. k - 1 + 1 : SubSeq(u, 1, k)[i] = u[1 + i - 1]
    BY <1>4, <2>1, SubSeqProperties
  <2> QED BY <1>4, <2>2
<1>7. /\ SubSeq(u, k + 1, Len(u)) \in Seq(Units)
      /\ Len(SubSeq(u, k + 1, Len(u))) = Len(u) - k
      /\ \A i \in 1 .. Len(u) - k : SubSeq(u, k + 1, Len(u))[i] = u[k + i]
  <2>1. \A i \in k + 1 .. Len(u) : u[i] \in Units
    BY <1>4, <1>5
  <2>2. /\ SubSeq(u, k + 1, Len(u)) \in Seq(Units)
        /\ Len(SubSeq(u, k + 1, Len(u)))
              = IF k + 1 <= Len(u) THEN Len(u) - (k + 1) + 1 ELSE 0
        /\ \A i \in 1 .. Len(u) - (k + 1) + 1 :
              SubSeq(u, k + 1, Len(u))[i] = u[(k + 1) + i - 1]
    BY <1>4, <2>1, SubSeqProperties
  <2>3. Len(SubSeq(u, k + 1, Len(u))) = Len(u) - k
    BY <1>4, <2>2
  <2>4. Len(u) - (k + 1) + 1 = Len(u) - k /\ \A i \in Int : (k + 1) + i - 1 = k + i
    BY <1>4
  <2>5. \A i \in 1 .. Len(u) - k : SubSeq(u, k + 1, Len(u))[i] = u[(k + 1) + i - 1]
    BY <2>2, <2>4
  <2>6. \A i \in 1 .. Len(u) - k : (k + 1) + i - 1 = k + i
    BY <2>4
  <2> QED BY <2>2, <2>3, <2>5, <2>6
<1>8. PICK a, b : a = SubSeq(u, 1, k) /\ b = SubSeq(u, k + 1, Len(u))
  OBVIOUS
<1>9. /\ receive_buffer \o a \in Seq(Units)
      /\ Len(receive_buffer \o a) = Len(receive_buffer) + k
      /\ \A i \in 1 .. Len(receive_buffer) + k : (receive_buffer \o a)[i] =
            IF i <= Len(receive_buffer) THEN receive_buffer[i] ELSE a[i - Len(receive_buffer)]
  BY <1>2, <1>6, <1>8, ConcatProperties
<1>10. /\ \A i \in 1 .. Len(receive_buffer) : (receive_buffer \o a)[i] = receive_buffer[i]
       /\ \A i \in 1 .. k : (receive_buffer \o a)[Len(receive_buffer) + i] = u[i]
  <2>1. ASSUME NEW i \in 1 .. Len(receive_buffer)
        PROVE  (receive_buffer \o a)[i] = receive_buffer[i]
    BY <1>2, <1>4, <1>9
  <2>2. ASSUME NEW i \in 1 .. k
        PROVE  (receive_buffer \o a)[Len(receive_buffer) + i] = u[i]
    <3>1. /\ Len(receive_buffer) + i \in 1 .. Len(receive_buffer) + k
          /\ ~(Len(receive_buffer) + i <= Len(receive_buffer))
          /\ Len(receive_buffer) + i - Len(receive_buffer) = i
      BY <1>2, <1>4
    <3> QED BY <1>6, <1>8, <1>9, <3>1
  <2> QED BY <2>1, <2>2
<1>11. /\ up' = [up EXCEPT ![client_fd] = b] /\ b \in Seq(Units)
       /\ up' \in [Connections -> Seq(Units)] /\ up'[client_fd] = b
       /\ \A j \in Connections : j # client_fd => up'[j] = up[j]
  BY <1>1, <1>2, <1>3, <1>7, <1>8
<1>12. receive_buffer' = receive_buffer \o a
  BY <1>3, <1>8
<1>13. /\ Len(b) = Len(u) - k
       /\ \A i \in 1 .. Len(u) - k : b[i] = u[k + i]
  BY <1>7, <1>8
<1>14. /\ receive_buffer' \in Seq(Units)
       /\ Len(receive_buffer') = Len(receive_buffer) + k
       /\ \A i \in 1 .. Len(receive_buffer) : receive_buffer'[i] = receive_buffer[i]
       /\ \A i \in 1 .. k : receive_buffer'[Len(receive_buffer) + i] = u[i]
  BY <1>9, <1>10, <1>12
<1>15. /\ Len(up'[client_fd]) = Len(u) - k
       /\ \A i \in 1 .. Len(u) - k : up'[client_fd][i] = u[k + i]
  BY <1>11, <1>13
<1> QED BY <1>1, <1>11, <1>14, <1>15 DEF u

\* What is left of the receive buffer when a line is taken.
LEMMA RestIs ==
    ASSUME LoopTypes, LinkTypes, StreamsInv, OnLine
    PROVE  /\ client_fd \in Connections /\ receive_buffer[1] # NL
           /\ receive_buffer' \in Seq(Units)
           /\ \E n \in 2 .. Len(receive_buffer) :
                 /\ receive_buffer[n] = NL
                 /\ Len(receive_buffer') = Len(receive_buffer) - n
                 /\ \A i \in 1 .. Len(receive_buffer) - n :
                       receive_buffer'[i] = receive_buffer[i + n]
<1> DEFINE b == receive_buffer
<1>1. /\ client_fd \in Connections /\ b[1] # NL
      /\ \E n \in 2 .. Len(b) : b[n] = NL /\ b' = SubSeq(b, n + 1, Len(b))
  BY LineIs DEF OnLine
<1>2. PICK n \in 2 .. Len(b) : b[n] = NL /\ b' = SubSeq(b, n + 1, Len(b))
  BY <1>1
<1>3. b \in Seq(Units) /\ n \in 1 .. Len(b)
  BY DEF LoopTypes
<1> HIDE DEF b
<1>4. /\ b' \in Seq(Units) /\ Len(b') = Len(b) - n
      /\ \A i \in 1 .. Len(b) - n : b'[i] = b[i + n]
  BY <1>2, <1>3, EndIs
<1> QED BY <1>1, <1>2, <1>4 DEF b

LEMMA DropTypes ==
    ASSUME TypesInv, client_fd # 0, Drop
    PROVE  TypesInv'
<1>1. client_fd \in Connections
  BY FdIs DEF TypesInv, LoopTypes
<1>2. CloseClient
  BY DEF Drop
<1>3. LoopTypes' /\ SouthTypes'
  BY BoundsAssumption DEF Drop, Remain, gateway, TypesInv, LoopTypes, SouthTypes
<1>4. LinkTypes'
  BY <1>1, <1>2, CloseClientIs DEF Drop, gateway, TypesInv, LinkTypes
<1> QED BY <1>3, <1>4 DEF TypesInv

LEMMA LoopTypesKept ==
    ASSUME TypesInv, TableInv, LoopInv, StreamsInv, Loop
    PROVE  TypesInv'
<1>1. CASE Top
  BY <1>1, TopTypes
<1>2. CASE Poll
  BY <1>2 DEF Poll, Remain, Reported, Events, links, gateway, TypesInv, LoopTypes,
              LinkTypes, SouthTypes
<1>3. CASE Stdin
  BY <1>3, StdinTypes
<1>4. CASE Accept
  BY <1>4, AcceptTypes
<1>5. CASE AcceptFails
  BY <1>5 DEF AcceptFails, Remain, links, gateway, TypesInv, LoopTypes, LinkTypes,
              SouthTypes
<1>6. CASE Receive
  <2>1. receive_buffer' \in Seq(Units) /\ up' \in [Connections -> Seq(Units)]
    BY <1>6, ReceiveIs DEF TypesInv
  <2> QED BY <1>6, <2>1 DEF Receive, gateway, TypesInv, LoopTypes, LinkTypes, SouthTypes
<1>7. CASE ReceiveEnds
  BY <1>7, DropTypes DEF ReceiveEnds, At, LoopInv, NeverBlocks
<1>8. CASE OnLine
  <2>1. receive_buffer' \in Seq(Units)
    BY <1>8, RestIs DEF TypesInv
  <2> QED BY <1>8, <2>1 DEF OnLine, links, gateway, TypesInv, LoopTypes, LinkTypes,
                            SouthTypes
<1>9. CASE LinesDone
  BY <1>9 DEF LinesDone, Remain, links, gateway, TypesInv, LoopTypes, LinkTypes,
              SouthTypes
<1>10. CASE HangUp
  BY <1>10, DropTypes DEF HangUp, At, LoopInv
<1> QED BY <1>1, <1>2, <1>3, <1>4, <1>5, <1>6, <1>7, <1>8, <1>9, <1>10 DEF Loop

LEMMA LinkTypesKept ==
    ASSUME TypesInv, Link
    PROVE  TypesInv'
<1> USE DEF TypesInv
<1>1. CASE Connect
  BY <1>1, BoundsAssumption
     DEF Connect, loop, LoopTypes, LinkTypes, SouthTypes, Connections
<1>2. CASE LinkSends
  <2>1. Head(queue) \in Messages /\ Tail(queue) \in Seq(Messages)
    BY <1>2 DEF LinkSends, SouthTypes
  <2>2. PICK us \in Wire(Head(queue)) : Arrives(us)
    BY <1>2 DEF LinkSends, Wire
  <2>3. up' \in [Connections -> Seq(Units)]
    BY <1>2, <2>1, <2>2, WireIs, ArrivesIs DEF LinkSends
  <2> QED BY <1>2, <2>1, <2>3 DEF LinkSends, loop, LoopTypes, LinkTypes, SouthTypes
<1>3. CASE LinkSendFails
  <2>1. Head(queue) \in Messages
    BY <1>3 DEF LinkSendFails, SouthTypes
  <2>2. PICK us \in Wire(Head(queue)) : Arrives(us)
    BY <1>3 DEF LinkSendFails, Wire
  <2>3. up' \in [Connections -> Seq(Units)]
    BY <1>3, <2>1, <2>2, WireIs, ArrivesIs DEF LinkSendFails
  <2>4. /\ state' \in [Connections -> {"none", "open", "closed", "reset", "dead"}]
        /\ down' \in [Connections -> Seq(Commands)] /\ gw_fd' = 0
    BY <1>3, LinkClosesIs DEF LinkSendFails
  <2> QED BY <1>3, <2>3, <2>4, BoundsAssumption
          DEF LinkSendFails, loop, LoopTypes, LinkTypes, SouthTypes
<1>4. CASE LinkDisconnects
  <2>1. /\ state' \in [Connections -> {"none", "open", "closed", "reset", "dead"}]
        /\ down' \in [Connections -> Seq(Commands)] /\ gw_fd' = 0
    BY <1>4, LinkClosesIs DEF LinkDisconnects
  <2> QED BY <1>4, <2>1, BoundsAssumption
          DEF LinkDisconnects, loop, LoopTypes, LinkTypes, SouthTypes
<1>5. ASSUME LinkRoutes \/ LinkRefuses
      PROVE  /\ gw_fd \in Connections /\ Head(down[gw_fd]) \in Commands
             /\ Tail(down[gw_fd]) \in Seq(Commands)
  <2>1. gw_fd # 0 /\ down[gw_fd] # <<>>
    BY <1>5 DEF LinkRoutes, LinkRefuses
  <2>2. gw_fd \in Connections /\ down[gw_fd] \in Seq(Commands)
    BY <2>1, FdIs DEF LinkTypes
  <2> QED BY <2>1, <2>2
<1>6. CASE LinkRoutes
  <2>1. Head(down[gw_fd]).node \in Nodes
    BY <1>5, <1>6, CommandFields
  <2>2. ring' \in [Nodes -> Seq(Commands)] /\ down' \in [Connections -> Seq(Commands)]
    BY <1>5, <1>6, <2>1 DEF LinkRoutes, SouthTypes, LinkTypes
  <2>3. UNCHANGED <<pc, revents, client_fd, receive_buffer, run, typed, state, backlog, up,
                    gw_fd, queue, toNode, executed>>
    BY <1>6 DEF LinkRoutes, loop
  <2>4. LoopTypes'
    BY <2>3 DEF LoopTypes
  <2>5. LinkTypes'
    BY <2>2, <2>3 DEF LinkTypes
  <2>6. SouthTypes'
    BY <2>2, <2>3 DEF SouthTypes
  <2> QED BY <2>4, <2>5, <2>6
<1>7. CASE LinkRefuses
  <2>1. Nack(Head(down[gw_fd])) \in Messages
    BY <1>5, <1>7, CommandFields
  <2>2. PICK us \in Wire(Nack(Head(down[gw_fd]))) : Arrives(us)
    BY <1>7 DEF LinkRefuses, Wire, Parts
  <2>3. up' \in [Connections -> Seq(Units)]
    BY <1>7, <2>1, <2>2, WireIs, ArrivesIs DEF LinkRefuses
  <2>4. down' \in [Connections -> Seq(Commands)]
    BY <1>5, <1>7 DEF LinkRefuses, LinkTypes
  <2> QED BY <1>7, <2>3, <2>4 DEF LinkRefuses, loop, gateway, LoopTypes, LinkTypes,
                                  SouthTypes
<1> QED BY <1>1, <1>2, <1>3, <1>4, <1>6, <1>7 DEF Link

LEMMA AnswersIs ==
    ASSUME queue \in Seq(Messages), NEW m \in Messages, Answers(m)
    PROVE  /\ queue' \in Seq(Messages)
           /\ \A i \in 1 .. Len(queue') :
                 queue'[i] = m \/ \E j \in 1 .. Len(queue) : queue'[i] = queue[j]
<1>1. CASE queue' = queue
  BY <1>1
<1>2. CASE queue' = Append(queue, m)
  BY <1>2
<1> QED BY <1>1, <1>2 DEF Answers

LEMMA SouthTypesKept ==
    ASSUME TypesInv, NEW n \in Nodes, South(n)
    PROVE  TypesInv'
<1> USE DEF TypesInv
<1>1. /\ ring[n] \in Seq(Commands) /\ toNode[n] \in Seq(Commands)
      /\ ring[n] # <<>> => Head(ring[n]) \in Commands /\ Tail(ring[n]) \in Seq(Commands)
      /\ toNode[n] # <<>> =>
            Head(toNode[n]) \in Commands /\ Tail(toNode[n]) \in Seq(Commands)
  BY DEF SouthTypes
<1>2. LoopTypes' /\ LinkTypes'
  BY DEF South, Delivers, DeliveryFails, ConnectionEnds, NodeExecutes, NodeRefuses, loop,
         links, LoopTypes, LinkTypes
<1>3. CASE Delivers(n)
  BY <1>1, <1>2, <1>3 DEF Delivers, SouthTypes
<1>4. CASE DeliveryFails(n)
  <2>1. Nack(Head(ring[n])) \in Messages
    BY <1>1, <1>4, CommandFields DEF DeliveryFails
  <2> QED BY <1>1, <1>2, <1>4, <2>1 DEF DeliveryFails, SouthTypes
<1>5. CASE ConnectionEnds(n)
  <2>1. PICK qs : qs = [i \in 1 .. Len(ring[n]) |-> Nack(ring[n][i])]
    OBVIOUS
  <2>2. qs \in Seq(Messages)
    <3>1. \A i \in 1 .. Len(ring[n]) : Nack(ring[n][i]) \in Messages
      BY <1>1, CommandFields, ElementOfSeq
    <3>2. Len(ring[n]) \in Nat /\ qs \in [1 .. Len(ring[n]) -> Messages]
      BY <1>1, <2>1, <3>1, LenProperties
    <3> QED BY <3>2
  <2>3. queue' \in Seq(Messages)
    BY <1>5, <2>1, <2>2, ConcatProperties DEF ConnectionEnds, SouthTypes
  <2> QED BY <1>2, <1>5, <2>3 DEF ConnectionEnds, SouthTypes
<1>6. CASE NodeExecutes(n)
  <2>1. Ack(Head(toNode[n])) \in Messages
    BY <1>1, <1>6, CommandFields DEF NodeExecutes
  <2>2. executed' \in [Commands -> Nat]
    BY <1>1, <1>6 DEF NodeExecutes, SouthTypes
  <2>3. queue' \in Seq(Messages)
    BY <1>6, <2>1, AnswersIs DEF NodeExecutes, SouthTypes
  <2> QED BY <1>1, <1>2, <1>6, <2>2, <2>3 DEF NodeExecutes, SouthTypes
<1>7. CASE NodeRefuses(n)
  <2>1. Nack(Head(toNode[n])) \in Messages
    BY <1>1, <1>7, CommandFields DEF NodeRefuses
  <2>2. queue' \in Seq(Messages)
    BY <1>7, <2>1, AnswersIs DEF NodeRefuses, SouthTypes
  <2> QED BY <1>1, <1>2, <1>7, <2>2 DEF NodeRefuses, SouthTypes
<1> QED BY <1>3, <1>4, <1>5, <1>6, <1>7 DEF South

LEMMA TypesKept ==
    ASSUME TypesInv, TableInv, LoopInv, StreamsInv, [Next]_vars
    PROVE  TypesInv'
<1>1. CASE Loop
  BY <1>1, LoopTypesKept
<1>2. CASE Link
  BY <1>2, LinkTypesKept
<1>3. ASSUME NEW n \in Nodes, South(n) PROVE TypesInv'
  BY <1>3, SouthTypesKept
<1>4. CASE Restart
  BY <1>4, BoundsAssumption
     DEF Restart, gateway, TypesInv, LoopTypes, LinkTypes, SouthTypes
<1>5. CASE Second
  BY <1>5 DEF Second, loop, links, gateway, TypesInv, LoopTypes, LinkTypes, SouthTypes
<1>6. CASE UNCHANGED vars
  BY <1>6 DEF vars, loop, links, gateway, TypesInv, LoopTypes, LinkTypes, SouthTypes
<1> QED BY <1>1, <1>2, <1>3, <1>4, <1>5, <1>6 DEF Next

\* The operations of the loop that the table sees are the table's own.
LEMMA TableKept ==
    ASSUME TypesInv, TableInv, LoopInv, StreamsInv, [Next]_vars
    PROVE  TableInv'
<1>1. CASE Top
  BY <1>1, SameTable, TableChecks DEF Top
<1>2. CASE Stdin
  <2>1. ASSUME NEW n \in Nodes, StdinSends(n) PROVE TableInv'
    BY <2>1, SameTable, TableSends DEF StdinSends
  <2> QED BY <1>2, <2>1, TableStays DEF Stdin, StdinRefused
<1>3. CASE OnLine
  BY <1>3, OnLineTable DEF TypesInv
<1>4. CASE Restart
  BY <1>4, TableRestarts
<1>5. CASE Second
  BY <1>5, SameTable, TableTicks DEF Second
<1>6. CASE Poll \/ Accept \/ AcceptFails \/ Receive \/ ReceiveEnds \/ LinesDone \/ HangUp
  BY <1>6, TableStays DEF Poll, Accept, Replace, AcceptFails, Receive, ReceiveEnds,
                          LinesDone, HangUp, Drop
<1>7. CASE Link
  BY <1>7, TableStays DEF Link, Connect, LinkSends, LinkSendFails, LinkDisconnects,
                          LinkRoutes, LinkRefuses
<1>8. ASSUME NEW n \in Nodes, South(n) PROVE TableInv'
  BY <1>8, TableStays DEF South, Delivers, DeliveryFails, ConnectionEnds, NodeExecutes,
                          NodeRefuses
<1>9. CASE UNCHANGED vars
  BY <1>9, TableStays DEF vars
<1> QED BY <1>1, <1>2, <1>3, <1>4, <1>5, <1>6, <1>7, <1>8, <1>9 DEF Next, Loop

-----------------------------------------------------------------------------
(* The loop's events *)

\* What is readable stays so until the loop reads it or lets go of it.
LEMMA LoopWaits ==
    ASSUME LoopTypes, LinkTypes, LoopInv, UNCHANGED <<loop, typed>>,
           \A j \in Connections : state[j] # "none" => state'[j] # "none",
           \A j \in Connections : state[j] # "none" /\ Readable(j) => Readable(j)',
           \A b \in 1 .. Len(backlog') : state'[backlog'[b]] # "none",
           backlog # <<>> => backlog' # <<>>
    PROVE  LoopInv'
<1>1. client_fd # 0 => client_fd \in Connections
  BY FdIs DEF LoopTypes
<1>2. client_fd' = client_fd /\ pc' = pc /\ revents' = revents /\ typed' = typed
  BY DEF loop
<1>3. NeverBlocks'
  BY <1>1, <1>2 DEF LoopInv, NeverBlocks, Readable
<1> QED BY <1>1, <1>2, <1>3 DEF LoopInv

LEMMA BacklogStays ==
    ASSUME LinkTypes, LoopInv, backlog' = backlog,
           \A j \in Connections : state[j] # "none" => state'[j] # "none"
    PROVE  \A b \in 1 .. Len(backlog') : state'[backlog'[b]] # "none"
<1>1. \A b \in 1 .. Len(backlog) : backlog[b] \in Connections
  BY ElementOfSeq DEF LinkTypes
<1> QED BY <1>1 DEF LoopInv

LEMMA LinkKeepsLoop ==
    ASSUME LoopTypes, LinkTypes, SouthTypes, LoopInv, Link
    PROVE  LoopInv'
<1>1. CASE Connect
  <2>1. PICK k \in Connections : /\ state[k] = "none"
                                 /\ state' = [state EXCEPT ![k] = "open"]
                                 /\ backlog' = Append(backlog, k)
    BY <1>1 DEF Connect
  <2>2. UNCHANGED <<loop, typed>> /\ up' = up
    BY <1>1 DEF Connect
  <2>3. \A j \in Connections : state'[j] = IF j = k THEN "open" ELSE state[j]
    BY <2>1 DEF LinkTypes
  <2>4. /\ backlog \in Seq(Connections) /\ Len(backlog) \in Nat
        /\ \A b \in 1 .. Len(backlog) : backlog[b] \in Connections
    BY ElementOfSeq, LenProperties DEF LinkTypes
  <2>5. /\ Len(backlog') = Len(backlog) + 1 /\ backlog' # <<>>
        /\ \A b \in 1 .. Len(backlog) : backlog'[b] = backlog[b]
        /\ backlog'[Len(backlog) + 1] = k
    BY <2>1, <2>4, AppendProperties
  <2>6. \A b \in 1 .. Len(backlog') : state'[backlog'[b]] # "none"
    BY <2>3, <2>4, <2>5 DEF LoopInv
  <2> QED BY <2>1, <2>2, <2>3, <2>5, <2>6, LoopWaits DEF Readable
<1>2. ASSUME NEW us \in Seq(Units), gw_fd # 0, Arrives(us), state' = state
      PROVE  \A j \in Connections : state[j] # "none" /\ Readable(j) => Readable(j)'
  <2> SUFFICES ASSUME NEW j \in Connections, Readable(j), state[j] = "open"
               PROVE  up'[j] # <<>>
    BY <1>2 DEF Readable
  <2>1. up[j] \in Seq(Units) /\ up[j] # <<>>
    BY DEF Readable, LinkTypes
  <2>2. up'[j] = up[j] \/ up'[j] = up[j] \o us
    BY <1>2, ArrivesIs
  <2> QED BY <1>2, <2>1, <2>2, ConcatEqualIffEmpty
<1>3. CASE LinkSends \/ LinkRefuses
  <2>1. \E us \in Seq(Units) : Arrives(us)
    <3>1. ASSUME NEW m \in Messages, NEW us \in Wire(m), Arrives(us)
          PROVE  \E v \in Seq(Units) : Arrives(v)
      BY <1>3, <3>1, WireIs DEF LinkSends, LinkRefuses
    <3>2. CASE LinkSends
      <4>1. Head(queue) \in Messages
        BY <3>2 DEF LinkSends, SouthTypes
      <4>2. \E us \in Wire(Head(queue)) : Arrives(us)
        BY <3>2 DEF LinkSends, Wire
      <4> QED BY <3>1, <4>1, <4>2
    <3>3. CASE LinkRefuses
      <4>1. Head(down[gw_fd]) \in Commands
        BY <3>3, FdIs DEF LinkRefuses, LinkTypes
      <4>2. \E us \in Wire(Nack(Head(down[gw_fd]))) : Arrives(us)
        BY <3>3 DEF LinkRefuses, Wire, Parts
      <4> QED BY <3>1, <4>1, <4>2, CommandFields
    <3> QED BY <1>3, <3>2, <3>3
  <2>2. UNCHANGED <<loop, typed>> /\ state' = state /\ backlog' = backlog /\ gw_fd # 0
    BY <1>3 DEF LinkSends, LinkRefuses
  <2> QED BY <1>2, <2>1, <2>2, LoopWaits, BacklogStays
<1>4. CASE LinkSendFails \/ LinkDisconnects
  <2>1. UNCHANGED <<loop, typed>> /\ backlog' = backlog /\ gw_fd # 0 /\ LinkCloses
    BY <1>4 DEF LinkSendFails, LinkDisconnects
  <2>2. gw_fd \in Connections
    BY <2>1, FdIs DEF LinkTypes
  <2>3. /\ state'[gw_fd] \notin {"none", "open"}
        /\ \A j \in Connections : j # gw_fd => state'[j] = state[j]
    BY <2>1, LinkClosesIs
  <2>4. \A j \in Connections : j # gw_fd => up'[j] = up[j]
    <3>1. CASE LinkDisconnects
      BY <3>1 DEF LinkDisconnects
    <3>2. CASE LinkSendFails
      BY <2>2, <3>2 DEF LinkSendFails, Arrives, LinkTypes
    <3> QED BY <1>4, <3>1, <3>2
  <2>5. \A j \in Connections : Readable(j) => Readable(j)'
    BY <2>3, <2>4 DEF Readable
  <2> QED BY <2>1, <2>3, <2>5, LoopWaits, BacklogStays
<1>5. CASE LinkRoutes
  <2>1. UNCHANGED <<loop, typed>> /\ state' = state /\ backlog' = backlog /\ up' = up
    BY <1>5 DEF LinkRoutes
  <2> QED BY <2>1, LoopWaits, BacklogStays DEF Readable
<1> QED BY <1>1, <1>3, <1>4, <1>5 DEF Link

\* Closing the connection it serves makes none of the others unknown.
LEMMA DropKeepsLoop ==
    ASSUME LoopTypes, LinkTypes, LoopInv, client_fd # 0, Drop
    PROVE  LoopInv'
<1>1. client_fd \in Connections
  BY FdIs DEF LoopTypes
<1>2. \A j \in Connections : state'[j] = IF j = client_fd THEN "dead" ELSE state[j]
  BY <1>1, CloseClientIs DEF Drop
<1>3. \A b \in 1 .. Len(backlog') : state'[backlog'[b]] # "none"
  BY <1>2, BacklogStays DEF Drop
<1>4. client_fd' = 0 /\ pc' = "top" /\ revents' = {} /\ typed' = typed
  BY DEF Drop, Remain
<1> QED BY <1>3, <1>4 DEF LoopInv, NeverBlocks

LEMMA AcceptKeepsLoop ==
    ASSUME LoopTypes, LinkTypes, LoopInv, Accept
    PROVE  LoopInv'
<1>1. /\ backlog # <<>> /\ backlog \in Seq(Connections) /\ Head(backlog) = backlog[1]
      /\ 1 \in 1 .. Len(backlog) /\ Len(backlog) \in Nat
      /\ \A b \in 1 .. Len(backlog) : backlog[b] \in Connections
  BY ElementOfSeq DEF Accept, At, LoopInv, LinkTypes
<1>2. \A j \in Connections : state[j] # "none" => state'[j] # "none"
  <2>1. client_fd # 0 => client_fd \in Connections
    BY FdIs DEF LoopTypes
  <2>2. CASE client_fd = 0
    BY <2>2 DEF Accept, Replace
  <2>3. CASE client_fd # 0
    BY <2>1, <2>3, CloseClientIs DEF Accept, Replace
  <2> QED BY <2>2, <2>3
<1>3. client_fd' = backlog[1] /\ backlog' = Tail(backlog) /\ revents' = {} /\ pc' = "top"
  BY <1>1 DEF Accept, Replace, Remain
<1>4. state'[client_fd'] # "none"
  BY <1>1, <1>2, <1>3 DEF LoopInv
<1>5. \A b \in 1 .. Len(backlog') : state'[backlog'[b]] # "none"
  <2>1. Len(backlog') = Len(backlog) - 1
        /\ \A b \in 1 .. Len(backlog') : backlog'[b] = backlog[b + 1]
    BY <1>1, <1>3, HeadTailProperties
  <2>2. \A b \in 1 .. Len(backlog) - 1 : b + 1 \in 1 .. Len(backlog)
    BY <1>1
  <2>3. \A b \in 1 .. Len(backlog') : b + 1 \in 1 .. Len(backlog)
    BY <2>1, <2>2
  <2> QED BY <1>1, <1>2, <2>1, <2>3 DEF LoopInv
<1> QED BY <1>3, <1>4, <1>5 DEF LoopInv, NeverBlocks

LEMMA LoopKeepsLoop ==
    ASSUME LoopTypes, LinkTypes, LoopInv, StreamsInv, Loop
    PROVE  LoopInv'
<1>1. ASSUME UNCHANGED <<client_fd, state, backlog>>
      PROVE  /\ client_fd' # 0 => state'[client_fd'] # "none"
             /\ \A b \in 1 .. Len(backlog') : state'[backlog'[b]] # "none"
  BY <1>1 DEF LoopInv
<1>2. CASE Top
  <2>1. UNCHANGED <<client_fd, state, backlog, revents, typed>> /\ pc' = "poll"
    BY <1>2 DEF Top
  <2> QED BY <1>1, <2>1 DEF LoopInv, NeverBlocks
<1>3. CASE Poll
  <2>1. UNCHANGED <<client_fd, state, backlog, typed, up>>
    BY <1>3 DEF Poll, links
  <2>2. PICK s \in {{}, {"stdin"}} : (s # {} => typed < MaxTyped) /\ Remain(Reported \cup s)
    BY <1>3 DEF Poll
  <2>3. /\ "stdin" \in revents' => typed < MaxTyped
        /\ "listen" \in revents' => backlog # <<>>
        /\ "client" \in revents' => client_fd # 0 /\ Readable(client_fd)
        /\ "hangup" \in revents' => client_fd # 0
        /\ pc' \in {"top", "turn"}
    BY <2>2 DEF Remain, Reported
  <2> QED BY <1>1, <2>1, <2>3 DEF LoopInv, NeverBlocks, Readable
<1>4. CASE Stdin
  <2>1. UNCHANGED <<client_fd, state, backlog, up>>
        /\ revents' = revents \ {"stdin"} /\ pc' \in {"top", "turn"} /\ pc = "turn"
    BY <1>4 DEF Stdin, Remain, At
  <2> QED BY <1>1, <2>1 DEF LoopInv, NeverBlocks, Readable
<1>5. CASE AcceptFails
  <2>1. UNCHANGED <<client_fd, state, backlog, typed, up>>
        /\ revents' = revents \ {"listen"} /\ pc' \in {"top", "turn"} /\ pc = "turn"
    BY <1>5 DEF AcceptFails, Remain, At, links
  <2> QED BY <1>1, <2>1 DEF LoopInv, NeverBlocks, Readable
<1>6. CASE Receive
  <2>1. UNCHANGED <<client_fd, state, backlog, typed>>
        /\ revents' = revents \ {"client"} /\ pc' = "lines"
    BY <1>6 DEF Receive
  <2> QED BY <1>1, <2>1 DEF LoopInv, NeverBlocks
<1>7. CASE OnLine
  <2>1. UNCHANGED <<client_fd, state, backlog, typed, revents, pc>> /\ pc = "lines"
    BY <1>7 DEF OnLine, links
  <2> QED BY <1>1, <2>1 DEF LoopInv, NeverBlocks
<1>8. CASE LinesDone
  <2>1. UNCHANGED <<client_fd, state, backlog, typed>> /\ revents' = revents
        /\ "client" \notin revents /\ pc' \in {"top", "turn"}
    BY <1>8 DEF LinesDone, links, Remain, LoopInv
  <2> QED BY <1>1, <2>1 DEF LoopInv, NeverBlocks
<1>9. CASE ReceiveEnds \/ HangUp
  BY <1>9, DropKeepsLoop DEF ReceiveEnds, HangUp, At, LoopInv, NeverBlocks
<1> QED
  BY <1>2, <1>3, <1>4, <1>5, <1>6, <1>7, <1>8, <1>9, AcceptKeepsLoop DEF Loop

LEMMA LoopKept ==
    ASSUME TypesInv, LoopInv, StreamsInv, [Next]_vars
    PROVE  LoopInv'
<1> USE DEF TypesInv
<1>1. CASE Loop
  BY <1>1, LoopKeepsLoop
<1>2. CASE Link
  BY <1>2, LinkKeepsLoop
<1>3. ASSUME UNCHANGED <<loop, typed, state, backlog, up>> PROVE LoopInv'
  BY <1>3, LoopWaits, BacklogStays DEF Readable
<1>4. ASSUME NEW n \in Nodes, South(n) PROVE LoopInv'
  BY <1>3, <1>4 DEF South, Delivers, DeliveryFails, ConnectionEnds, NodeExecutes,
                    NodeRefuses, links
<1>5. CASE Restart
  BY <1>5 DEF Restart, LoopInv, NeverBlocks
<1>6. CASE Second \/ UNCHANGED vars
  BY <1>3, <1>6 DEF Second, vars, links
<1> QED BY <1>1, <1>2, <1>4, <1>5, <1>6 DEF Next

-----------------------------------------------------------------------------
(* The streams *)

\* The elements of two sequences put together.
LEMMA Joined ==
    ASSUME NEW S, NEW s \in Seq(S), NEW t \in Seq(S), NEW a, NEW b,
           a = Len(s), b = Len(t)
    PROVE  /\ s \o t \in Seq(S) /\ Len(s \o t) = a + b /\ a \in Nat /\ b \in Nat
           /\ \A i \in 1 .. a : (s \o t)[i] = s[i]
           /\ \A i \in 1 .. b : (s \o t)[a + i] = t[i]
<1>1. /\ s \o t \in Seq(S) /\ Len(s \o t) = a + b /\ a \in Nat /\ b \in Nat
      /\ \A i \in 1 .. a + b : (s \o t)[i] = IF i <= a THEN s[i] ELSE t[i - a]
  <2>1. /\ s \o t \in Seq(S) /\ Len(s \o t) = Len(s) + Len(t)
        /\ \A i \in 1 .. Len(s) + Len(t) :
              (s \o t)[i] = IF i <= Len(s) THEN s[i] ELSE t[i - Len(s)]
    BY ConcatProperties
  <2>2. Len(s) \in Nat /\ Len(t) \in Nat
    BY LenProperties
  <2> QED BY <2>1, <2>2
<1>2. ASSUME NEW i \in 1 .. a PROVE (s \o t)[i] = s[i]
  <2>1. i \in 1 .. a + b /\ i <= a
    BY <1>1
  <2> QED BY <1>1, <2>1
<1>3. ASSUME NEW i \in 1 .. b PROVE (s \o t)[a + i] = t[i]
  <2>1. a + i \in 1 .. a + b /\ ~(a + i <= a) /\ a + i - a = i
    BY <1>1
  <2> QED BY <1>1, <2>1
<1> QED BY <1>1, <1>2, <1>3

\* What a message can be on its connection goes on where the gateway left off.
LEMMA FramedGrows ==
    ASSUME LinkTypes, gw_fd # 0, NEW m \in Messages, NEW us \in Wire(m),
           NEW s \in Seq(Units), Framed(s, gw_fd), GoesOn(s)
    PROVE  /\ Framed(s \o us, gw_fd)
           /\ us[Len(us)] = NL \/ us = <<>> \/ m.type = "NACK" => GoesOn(s \o us)
<1> DEFINE l == Len(s)
           n == Len(us)
           t == s \o us
<1>1. /\ us \in Seq(Units) /\ n \in {0, 1, 2}
      /\ \A i \in 1 .. n : IF us[i] = NL THEN i = 2 /\ us[1] # NL /\ us[1].whole
            ELSE i = 1 /\ us[1] \in Texts /\ us[1].conn = gw_fd /\ us[1].message = m
      /\ n = 2 => us[2] = NL
  BY WireIs
<1>2. /\ l \in Nat /\ Len(t) = l + n /\ t \in Seq(Units)
      /\ \A i \in 1 .. l : t[i] = s[i]
      /\ \A i \in 1 .. n : t[l + i] = us[i]
  BY <1>1, Joined
<1>3. /\ \A i \in 1 .. l : IF s[i] = NL THEN i > 1 /\ s[i - 1] # NL /\ s[i - 1].whole
            ELSE /\ s[i] \in Texts /\ s[i].conn = gw_fd
                 /\ i < l /\ s[i + 1] # NL => s[i].message.type = "NACK"
      /\ l = 0 \/ s[l] = NL \/ s[l].message.type = "NACK"
  BY DEF Framed, GoesOn
<1>4. n >= 1 => us[1] # NL /\ us[1] \in Texts /\ us[1].conn = gw_fd /\ us[1].message = m
  BY <1>1
<1>5. n = 2 => us[1].whole
  BY <1>1
<1> HIDE DEF l, n, t
<1>6. /\ \A i \in 1 .. l : i \in 1 .. l + n /\ t[i] = s[i]
      /\ n >= 1 => t[l + 1] = us[1] /\ l + 1 \in 1 .. l + n
      /\ n = 2 => t[l + 2] = NL
  <2>1. \A i \in 1 .. l : i \in 1 .. l + n
    BY <1>1, <1>2
  <2>2. n >= 1 => 1 \in 1 .. n /\ l + 1 \in 1 .. l + n
    BY <1>1, <1>2
  <2>3. n = 2 => 2 \in 1 .. n
    OBVIOUS
  <2> QED BY <1>1, <1>2, <2>1, <2>2, <2>3
<1>7. ASSUME NEW i \in 1 .. l + n
      PROVE  IF t[i] = NL THEN i > 1 /\ t[i - 1] # NL /\ t[i - 1].whole
             ELSE /\ t[i] \in Texts /\ t[i].conn = gw_fd
                  /\ i < l + n /\ t[i + 1] # NL => t[i].message.type = "NACK"
  <2>1. CASE i < l
    <3>1. i \in 1 .. l /\ i + 1 \in 1 .. l /\ (i > 1 => i - 1 \in 1 .. l) /\ i < l + n
      BY <1>1, <1>2, <2>1
    <3> QED BY <1>3, <1>6, <2>1, <3>1
  <2>2. CASE i = l
    <3>1. i \in 1 .. l /\ (i > 1 => i - 1 \in 1 .. l) /\ l # 0
      BY <1>1, <1>2, <2>2
    <3> QED BY <1>3, <1>6, <2>2, <3>1
  <2>3. CASE i = l + 1 /\ n >= 1
    <3>1. i < l + n => n = 2 /\ i + 1 = l + 2
      BY <1>1, <1>2, <2>3
    <3>2. i < l + n => t[i + 1] = NL
      BY <1>6, <3>1
    <3> QED BY <1>4, <1>6, <2>3, <3>2
  <2>4. CASE i = l + 2 /\ n = 2
    <3>1. i - 1 = l + 1 /\ i > 1
      BY <1>2, <2>4
    <3> QED BY <1>4, <1>5, <1>6, <2>4, <3>1
  <2>5. i < l \/ i = l \/ (i = l + 1 /\ n >= 1) \/ (i = l + 2 /\ n = 2)
    BY <1>1, <1>2
  <2> QED BY <2>1, <2>2, <2>3, <2>4, <2>5
<1>8. Framed(t, gw_fd)
  BY <1>2, <1>7 DEF Framed
<1>9. us[n] = NL \/ us = <<>> \/ m.type = "NACK" => GoesOn(t)
  <2>1. CASE n = 0
    <3>1. Len(t) = l /\ (l = 0 => t = <<>>) /\ (l # 0 => l \in 1 .. l)
      BY <1>2, <2>1
    <3> QED BY <1>3, <1>6, <3>1 DEF GoesOn
  <2>2. CASE n = 1
    <3>1. Len(t) = l + 1 /\ t[l + 1] = us[1]
      BY <1>2, <1>6, <2>2
    <3>2. us[1].message = m /\ us[n] # NL
      BY <1>4, <2>2
    <3>3. us = <<>> => n = 0
      BY DEF n
    <3> QED BY <2>2, <3>1, <3>2, <3>3 DEF GoesOn
  <2>3. CASE n = 2
    BY <1>2, <1>6, <2>3 DEF GoesOn
  <2> QED BY <1>1, <2>1, <2>2, <2>3
<1> QED BY <1>8, <1>9 DEF t, n

\* So does what is left when everything up to a line feed is taken.
LEMMA FramedEnds ==
    ASSUME NEW s \in Seq(Units), NEW k, Framed(s, k), NEW n \in 1 .. Len(s), s[n] = NL,
           NEW t \in Seq(Units), Len(t) = Len(s) - n,
           \A i \in 1 .. Len(s) - n : t[i] = s[i + n]
    PROVE  Framed(t, k) /\ (GoesOn(s) => GoesOn(t))
<1> DEFINE l == Len(s)
<1>1. l \in Nat /\ n \in Nat /\ n <= l /\ Len(t) = l - n
  BY LenProperties
<1>2. /\ \A i \in 1 .. l : IF s[i] = NL THEN i > 1 /\ s[i - 1] # NL /\ s[i - 1].whole
            ELSE /\ s[i] \in Texts /\ s[i].conn = k
                 /\ i < l /\ s[i + 1] # NL => s[i].message.type = "NACK"
      /\ GoesOn(s) => l = 0 \/ s[l] = NL \/ s[l].message.type = "NACK"
      /\ \A i \in 1 .. l - n : t[i] = s[i + n]
  BY DEF Framed, GoesOn
<1> HIDE DEF l
<1>3. ASSUME NEW i \in 1 .. l - n
      PROVE  IF t[i] = NL THEN i > 1 /\ t[i - 1] # NL /\ t[i - 1].whole
             ELSE /\ t[i] \in Texts /\ t[i].conn = k
                  /\ i < l - n /\ t[i + 1] # NL => t[i].message.type = "NACK"
  <2>1. i + n \in 1 .. l /\ t[i] = s[i + n]
    BY <1>1, <1>2
  <2>2. CASE t[i] = NL
    <3>1. s[i + n - 1] # NL /\ s[i + n - 1].whole
      BY <1>2, <2>1, <2>2
    <3>2. i = 1 => i + n - 1 = n
      BY <1>1
    <3>3. i > 1
      BY <3>1, <3>2
    <3>4. i - 1 \in 1 .. l - n /\ i - 1 + n = i + n - 1
      BY <1>1, <3>3
    <3>5. t[i - 1] = s[i + n - 1]
      BY <1>2, <3>4
    <3> QED BY <2>2, <3>1, <3>3, <3>5
  <2>3. CASE t[i] # NL
    <3>1. i < l - n => i + 1 \in 1 .. l - n /\ i + 1 + n = i + n + 1 /\ i + n < l
      BY <1>1
    <3>2. i < l - n => t[i + 1] = s[i + n + 1]
      BY <1>2, <3>1
    <3> QED BY <1>2, <2>1, <2>3, <3>1, <3>2
  <2> QED BY <2>2, <2>3
<1>4. Framed(t, k)
  BY <1>1, <1>3 DEF Framed
<1>5. ASSUME GoesOn(s) PROVE GoesOn(t)
  <2>1. CASE l - n = 0
    <3>1. t = <<>>
      BY <1>1, <2>1
    <3> QED BY <3>1 DEF GoesOn
  <2>2. CASE l - n # 0
    <3>1. l - n \in 1 .. l - n /\ l - n + n = l /\ l # 0
      BY <1>1, <2>2
    <3>2. t[Len(t)] = s[l]
      BY <1>1, <1>2, <3>1
    <3> QED BY <1>2, <1>5, <3>1, <3>2 DEF GoesOn
  <2> QED BY <2>1, <2>2
<1> QED BY <1>4, <1>5

\* The invariant of the next state, over the streams of the next state.
LEMMA StreamsNext ==
    ASSUME client_fd' = 0 => receive_buffer' = <<>>,
           \A k \in Connections :
              /\ Framed(Stream(k)', k)
              /\ state'[k] = "open" => k = gw_fd' /\ GoesOn(Stream(k)')
              /\ state'[k] = "none" => up'[k] = <<>>
    PROVE  StreamsInv'
<1>1. /\ \A k : Framed(Stream(k), k)' <=> Framed(Stream(k)', k)
      /\ \A k : GoesOn(Stream(k))' <=> GoesOn(Stream(k)')
  BY DEF Framed, GoesOn
<1> QED BY <1>1 DEF StreamsInv

LEMMA StreamIs ==
    ASSUME LoopTypes, LinkTypes, NEW k \in Connections
    PROVE  /\ up[k] \in Seq(Units) /\ receive_buffer \in Seq(Units)
           /\ receive_buffer \o up[k] \in Seq(Units) /\ Stream(k) \in Seq(Units)
<1>1. up[k] \in Seq(Units) /\ receive_buffer \in Seq(Units)
  BY DEF LoopTypes, LinkTypes
<1>2. receive_buffer \o up[k] \in Seq(Units)
  BY <1>1, ConcatProperties
<1> QED BY <1>1, <1>2 DEF Stream

\* Nothing is read or sent; connections close, or open.
LEMMA StreamsStay ==
    ASSUME StreamsInv, UNCHANGED <<client_fd, receive_buffer, up>>,
           \A k \in Connections :
              /\ state'[k] = "open" => gw_fd' = k /\ (state[k] = "open" \/ state[k] = "none")
              /\ state'[k] = "none" => state[k] = "none",
           client_fd # 0 => state[client_fd] # "none"
    PROVE  StreamsInv'
<1>1. \A k : Stream(k)' = Stream(k)
  BY DEF Stream
<1>2. \A k \in Connections : state[k] = "none" => GoesOn(Stream(k))
  <2> SUFFICES ASSUME NEW k \in Connections, state[k] = "none"
               PROVE  GoesOn(Stream(k))
    OBVIOUS
  <2>1. k # client_fd
    BY BoundsAssumption DEF Connections
  <2>2. Stream(k) = <<>>
    BY <2>1 DEF StreamsInv, Stream
  <2> QED BY <2>2 DEF GoesOn
<1>3. /\ client_fd = 0 => receive_buffer = <<>>
      /\ \A k \in Connections :
            /\ Framed(Stream(k), k)
            /\ state[k] = "open" => k = gw_fd /\ GoesOn(Stream(k))
            /\ state[k] = "none" => up[k] = <<>>
  BY DEF StreamsInv
<1> QED BY <1>1, <1>2, <1>3, StreamsNext

\* The gateway sends to its connection, all of a line or a part of it; but for a
\* NACK, a part is the last that it sends there.
LEMMA StreamsGrow ==
    ASSUME TypesInv, StreamsInv, gw_fd # 0, NEW m \in Messages,
           NEW us \in Wire(m), Arrives(us),
           UNCHANGED <<client_fd, receive_buffer>>,
           \A k \in Connections :
              /\ state'[k] = "open" => gw_fd' = k /\ state[k] = "open"
                                       /\ (us[Len(us)] = NL \/ m.type = "NACK")
              /\ state'[k] = "none" => state[k] = "none"
    PROVE  StreamsInv'
<1> USE DEF TypesInv
<1>1. gw_fd \in Connections /\ us \in Seq(Units)
  BY WireIs DEF LinkTypes
<1>2. \A j \in Connections :
         up'[j] = IF j = gw_fd /\ state[j] = "open" THEN up[j] \o us ELSE up[j]
  BY <1>1, ArrivesIs
<1>3. ASSUME NEW k \in Connections
      PROVE  Stream(k)' = IF k = gw_fd /\ state[k] = "open" THEN Stream(k) \o us
                          ELSE Stream(k)
  <2>1. up[k] \in Seq(Units) /\ receive_buffer \in Seq(Units)
    BY StreamIs
  <2>2. (receive_buffer \o up[k]) \o us = receive_buffer \o (up[k] \o us)
    <3>1. PICK v, b : v = up[k] /\ b = receive_buffer
      OBVIOUS
    <3>2. b \in Seq(Units) /\ v \in Seq(Units) /\ us \in Seq(Units)
      BY <1>1, <2>1, <3>1
    <3>3. (b \o v) \o us = b \o (v \o us)
      BY <3>2, ConcatAssociative
    <3> QED BY <3>1, <3>3
  <2>3. Stream(k)' = IF k = client_fd THEN receive_buffer \o up'[k] ELSE up'[k]
    BY DEF Stream
  <2>4. Stream(k) = IF k = client_fd THEN receive_buffer \o up[k] ELSE up[k]
    BY DEF Stream
  <2>5. CASE k = gw_fd /\ state[k] = "open"
    <3>1. up'[k] = up[k] \o us
      BY <1>2, <2>5
    <3> QED BY <2>2, <2>3, <2>4, <2>5, <3>1
  <2>6. CASE ~(k = gw_fd /\ state[k] = "open")
    <3>1. up'[k] = up[k]
      BY <1>2, <2>6
    <3> QED BY <2>3, <2>4, <2>6, <3>1
  <2> QED BY <2>5, <2>6
<1>4. ASSUME NEW k \in Connections
      PROVE  /\ Framed(Stream(k)', k)
             /\ state'[k] = "open" => k = gw_fd' /\ GoesOn(Stream(k)')
             /\ state'[k] = "none" => up'[k] = <<>>
  <2>1. /\ Framed(Stream(k), k)
        /\ state[k] = "open" => k = gw_fd /\ GoesOn(Stream(k))
        /\ state[k] = "none" => up[k] = <<>>
    BY DEF StreamsInv
  <2>2. CASE k = gw_fd /\ state[k] = "open"
    <3>1. PICK s : s = Stream(k)
      OBVIOUS
    <3>2. s \in Seq(Units) /\ Framed(s, gw_fd) /\ GoesOn(s)
      BY <2>1, <2>2, <3>1, StreamIs
    <3>3. /\ Framed(s \o us, gw_fd)
          /\ us[Len(us)] = NL \/ us = <<>> \/ m.type = "NACK" => GoesOn(s \o us)
      BY <3>2, FramedGrows
    <3>4. Stream(k)' = s \o us
      BY <1>3, <2>2, <3>1
    <3> QED BY <2>2, <3>3, <3>4
  <2>3. CASE ~(k = gw_fd /\ state[k] = "open")
    <3>1. Stream(k)' = Stream(k) /\ up'[k] = up[k]
      BY <1>2, <1>3, <2>3
    <3> QED BY <2>1, <2>3, <3>1
  <2> QED BY <2>2, <2>3
<1>5. client_fd' = 0 => receive_buffer' = <<>>
  BY DEF StreamsInv
<1> QED BY <1>4, <1>5, StreamsNext

LEMMA ReceiveKeepsStreams ==
    ASSUME TypesInv, LoopInv, StreamsInv, Receive
    PROVE  StreamsInv'
<1> USE DEF TypesInv
<1> DEFINE c == client_fd
           b == receive_buffer
           l == Len(b)
<1>1. c \in Connections /\ l \in Nat /\ c # 0
  BY ReceiveIs, LenProperties, BoundsAssumption DEF LoopTypes, Connections
<1>2. PICK k \in 1 .. Len(up[c]) :
         /\ b' \in Seq(Units)
         /\ Len(b') = l + k
         /\ \A i \in 1 .. l : b'[i] = b[i]
         /\ \A i \in 1 .. k : b'[l + i] = up[c][i]
         /\ up' \in [Connections -> Seq(Units)]
         /\ \A j \in Connections : j # c => up'[j] = up[j]
         /\ Len(up'[c]) = Len(up[c]) - k
         /\ \A i \in 1 .. Len(up[c]) - k : up'[c][i] = up[c][k + i]
  BY ReceiveIs
<1>3. PICK u, v, w : u = up[c] /\ v = up'[c] /\ w = b'
  OBVIOUS
<1>4. u \in Seq(Units) /\ v \in Seq(Units) /\ w \in Seq(Units) /\ b \in Seq(Units)
  BY <1>1, <1>2, <1>3, StreamIs
<1>5. UNCHANGED <<client_fd, state, gw_fd>>
  BY DEF Receive, gateway
<1>6. state[c] # "none"
  BY <1>1 DEF LoopInv
<1>7. PICK n : n = Len(u)
  OBVIOUS
<1>8. n \in Nat /\ k \in Nat /\ 1 <= k /\ k <= n
  BY <1>2, <1>3, <1>4, <1>7, LenProperties
<1> HIDE DEF c, b
<1>9. w \o v = b \o u
  <2>1. Len(w) = l + k /\ Len(v) = n - k /\ Len(b) = l /\ Len(u) = n
    BY <1>2, <1>3, <1>7
  <2> HIDE DEF l
  <2>2. /\ w \o v \in Seq(Units) /\ Len(w \o v) = (l + k) + (n - k)
        /\ \A i \in 1 .. l + k : (w \o v)[i] = w[i]
        /\ \A i \in 1 .. n - k : (w \o v)[(l + k) + i] = v[i]
    <3>1. PICK x, y : x = l + k /\ y = n - k
      OBVIOUS
    <3>2. x = Len(w) /\ y = Len(v)
      BY <2>1, <3>1
    <3>3. /\ w \o v \in Seq(Units) /\ Len(w \o v) = x + y
          /\ \A i \in 1 .. x : (w \o v)[i] = w[i]
          /\ \A i \in 1 .. y : (w \o v)[x + i] = v[i]
      BY <1>4, <3>2, Joined
    <3> QED BY <3>1, <3>3
  <2>3. /\ b \o u \in Seq(Units) /\ Len(b \o u) = l + n
        /\ \A i \in 1 .. l : (b \o u)[i] = b[i]
        /\ \A i \in 1 .. n : (b \o u)[l + i] = u[i]
    BY <1>4, <2>1, Joined
  <2>4. /\ \A i \in 1 .. l : w[i] = b[i]
        /\ \A i \in 1 .. k : w[l + i] = u[i]
        /\ \A i \in 1 .. n - k : v[i] = u[k + i]
    BY <1>2, <1>3, <1>7 DEF l
  <2>5. ASSUME NEW i \in 1 .. l + n PROVE (w \o v)[i] = (b \o u)[i]
    <3>1. CASE i <= l
      <4>1. i \in 1 .. l /\ i \in 1 .. l + k
        BY <1>1, <1>8, <3>1
      <4> QED BY <2>2, <2>3, <2>4, <4>1
    <3>2. CASE l < i /\ i <= l + k
      <4>1. PICK j : j = i - l
        OBVIOUS
      <4>2. j \in 1 .. k /\ j \in 1 .. n /\ l + j = i /\ i \in 1 .. l + k
        BY <1>1, <1>8, <3>2, <4>1
      <4> QED BY <2>2, <2>3, <2>4, <4>2
    <3>3. CASE l + k < i
      <4>1. PICK j : j = i - (l + k)
        OBVIOUS
      <4>2. j \in 1 .. n - k /\ k + j \in 1 .. n /\ (l + k) + j = i /\ l + (k + j) = i
        BY <1>1, <1>8, <3>3, <4>1
      <4> QED BY <2>2, <2>3, <2>4, <4>2
    <3>4. i \in Nat /\ l \in Nat /\ k \in Nat
      BY <1>1, <1>8
    <3>5. i <= l \/ (l < i /\ i <= l + k) \/ l + k < i
      BY <3>4
    <3> QED BY <3>1, <3>2, <3>3, <3>5
  <2>6. (l + k) + (n - k) = l + n
    BY <1>1, <1>8
  <2> QED BY <2>2, <2>3, <2>5, <2>6, SeqEqual
<1>10. ASSUME NEW j \in Connections
       PROVE  Stream(j)' = Stream(j) /\ (state[j] = "none" => up'[j] = up[j])
  <2>1. Stream(j)' = IF j = c THEN b' \o up'[j] ELSE up'[j]
    BY <1>5 DEF Stream, c, b
  <2>2. Stream(j) = IF j = c THEN b \o up[j] ELSE up[j]
    BY DEF Stream, c, b
  <2> QED BY <1>2, <1>3, <1>6, <1>9, <2>1, <2>2
<1>11. /\ client_fd' # 0
       /\ \A k1 \in Connections :
             /\ Framed(Stream(k1), k1)
             /\ state[k1] = "open" => k1 = gw_fd /\ GoesOn(Stream(k1))
             /\ state[k1] = "none" => up[k1] = <<>>
  BY <1>1, <1>5 DEF StreamsInv, c
<1> QED BY <1>5, <1>10, <1>11, StreamsNext

LEMMA OnLineKeepsStreams ==
    ASSUME TypesInv, LoopInv, StreamsInv, OnLine
    PROVE  StreamsInv'
<1> USE DEF TypesInv
<1> DEFINE c == client_fd
           b == receive_buffer
<1>1. c \in Connections /\ c # 0
  BY RestIs, BoundsAssumption DEF Connections
<1>2. PICK n \in 2 .. Len(b) : /\ b[n] = NL /\ Len(b') = Len(b) - n
                               /\ \A i \in 1 .. Len(b) - n : b'[i] = b[i + n]
  BY RestIs
<1>3. UNCHANGED <<client_fd, state, gw_fd, up>>
  BY DEF OnLine, links, gateway
<1>4. PICK u, w : u = up[c] /\ w = b'
  OBVIOUS
<1>5. u \in Seq(Units) /\ w \in Seq(Units) /\ b \in Seq(Units)
  BY <1>1, <1>4, StreamIs, RestIs
<1>6. PICK l, z : l = Len(b) /\ z = Len(u)
  OBVIOUS
<1>7. l \in Nat /\ z \in Nat /\ n \in Nat /\ n <= l /\ n >= 2
  BY <1>2, <1>5, <1>6, LenProperties
<1>8. /\ Framed(b \o u, c) /\ (state[c] = "open" => c = gw_fd /\ GoesOn(b \o u))
      /\ (state[c] = "none" => u = <<>>)
  BY <1>1, <1>4 DEF StreamsInv, Stream
<1>9. \A j \in Connections : j # c =>
         /\ Framed(up[j], j) /\ (state[j] = "open" => j = gw_fd /\ GoesOn(up[j]))
         /\ (state[j] = "none" => up[j] = <<>>)
  BY DEF StreamsInv, Stream
<1>10. \A j \in Connections : Stream(j)' = IF j = c THEN w \o u ELSE up[j]
  BY <1>3, <1>4 DEF Stream
<1> HIDE DEF b, c
<1>11. /\ b \o u \in Seq(Units) /\ Len(b \o u) = l + z
       /\ \A i \in 1 .. l : (b \o u)[i] = b[i]
       /\ \A i \in 1 .. z : (b \o u)[l + i] = u[i]
  BY <1>5, <1>6, Joined
<1>12. /\ w \o u \in Seq(Units) /\ Len(w \o u) = (l - n) + z
       /\ \A i \in 1 .. l - n : (w \o u)[i] = w[i]
       /\ \A i \in 1 .. z : (w \o u)[(l - n) + i] = u[i]
  <2>1. PICK x : x = l - n
    OBVIOUS
  <2>2. x = Len(w)
    BY <1>2, <1>4, <1>6, <2>1
  <2>3. /\ w \o u \in Seq(Units) /\ Len(w \o u) = x + z
        /\ \A i \in 1 .. x : (w \o u)[i] = w[i]
        /\ \A i \in 1 .. z : (w \o u)[x + i] = u[i]
    BY <1>5, <1>6, <2>2, Joined
  <2> QED BY <2>1, <2>3
<1>13. \A i \in 1 .. l - n : w[i] = b[i + n]
  BY <1>2, <1>4, <1>6
<1>14. PICK s, t : s = b \o u /\ t = w \o u
  OBVIOUS
<1>15. /\ s \in Seq(Units) /\ t \in Seq(Units) /\ Len(s) = l + z
       /\ Len(t) = Len(s) - n /\ n \in 1 .. Len(s) /\ s[n] = NL
  <2>1. (l - n) + z = l + z - n /\ n \in 1 .. l + z /\ n \in 1 .. l
    BY <1>7
  <2>2. b[n] = NL /\ (b \o u)[n] = b[n]
    BY <1>2, <1>11, <2>1
  <2>3. Len(s) = l + z /\ Len(t) = (l - n) + z
    BY <1>11, <1>12, <1>14
  <2>4. s \in Seq(Units) /\ t \in Seq(Units) /\ s[n] = NL
    BY <1>11, <1>12, <1>14, <2>2
  <2>5. (l - n) + z = (l + z) - n
    BY <1>7
  <2>6. Len(t) = Len(s) - n
    BY <2>3, <2>5, Zenon
  <2>7. n \in 1 .. Len(s)
    BY <2>1, <2>3
  <2> QED BY <2>3, <2>4, <2>6, <2>7
<1>16. ASSUME NEW i \in 1 .. Len(s) - n PROVE t[i] = s[i + n]
  <2>1. CASE i <= l - n
    <3>1. i \in 1 .. l - n /\ i + n \in 1 .. l
      BY <1>7, <1>15, <2>1
    <3> QED BY <1>11, <1>12, <1>13, <1>14, <3>1
  <2>2. CASE ~(i <= l - n)
    <3>1. PICK j : j = i - (l - n)
      OBVIOUS
    <3>2. j \in 1 .. z /\ (l - n) + j = i /\ l + j = i + n
      BY <1>7, <1>15, <2>2, <3>1
    <3> QED BY <1>11, <1>12, <1>14, <3>2
  <2> QED BY <2>1, <2>2
<1>17. Framed(t, c) /\ (GoesOn(s) => GoesOn(t))
  BY <1>8, <1>14, <1>15, <1>16, FramedEnds
<1>18. \A j \in Connections :
          /\ Framed(Stream(j)', j)
          /\ state'[j] = "open" => j = gw_fd' /\ GoesOn(Stream(j)')
          /\ state'[j] = "none" => up'[j] = <<>>
  BY <1>3, <1>4, <1>8, <1>9, <1>10, <1>14, <1>17
<1>19. client_fd' # 0
  BY <1>1, <1>3 DEF c
<1> QED BY <1>18, <1>19, StreamsNext

\* The served connection is closed: what was read of it goes with it.
LEMMA StreamsEnd ==
    ASSUME TypesInv, StreamsInv, receive_buffer' = <<>>, gw_fd' = gw_fd,
           IF client_fd # 0 THEN CloseClient ELSE UNCHANGED <<state, up>>
    PROVE  StreamsInv'
<1> USE DEF TypesInv
<1>1. \A j \in Connections : IF j = client_fd THEN state'[j] = "dead" /\ up'[j] = <<>>
                             ELSE state'[j] = state[j] /\ up'[j] = up[j]
  <2>1. client_fd # 0 => client_fd \in Connections
    BY FdIs DEF LoopTypes
  <2>2. CASE client_fd # 0
    BY <2>1, <2>2, CloseClientIs
  <2>3. CASE client_fd = 0
    BY <2>3, BoundsAssumption DEF Connections
  <2> QED BY <2>2, <2>3
<1>2. ASSUME NEW j \in Connections PROVE Stream(j)' = up'[j]
  <2>1. up[j] \in Seq(Units) /\ <<>> \in Seq(Units)
    BY StreamIs
  <2>2. up'[j] \in Seq(Units)
    BY <1>1, <2>1
  <2>3. <<>> \o up'[j] = up'[j]
    BY <2>2, ConcatEmptySeq
  <2>4. Stream(j)' = IF j = client_fd' THEN <<>> \o up'[j] ELSE up'[j]
    BY DEF Stream
  <2> QED BY <2>3, <2>4
<1>3. Framed(<<>>, client_fd)
  BY DEF Framed
<1>4. \A j \in Connections : j # client_fd =>
         /\ Framed(up[j], j) /\ (state[j] = "open" => j = gw_fd /\ GoesOn(up[j]))
         /\ (state[j] = "none" => up[j] = <<>>)
  BY DEF StreamsInv, Stream
<1> QED BY <1>1, <1>2, <1>3, <1>4, StreamsNext

LEMMA LinkKeepsStreams ==
    ASSUME TypesInv, LoopInv, StreamsInv, Link
    PROVE  StreamsInv'
<1> USE DEF TypesInv
<1>1. client_fd # 0 => state[client_fd] # "none"
  BY DEF LoopInv
<1>2. \A k \in Connections : state[k] = "open" => k = gw_fd
  BY DEF StreamsInv
<1>3. CASE Connect
  <2>1. PICK k \in Connections : /\ state[k] = "none" /\ gw_fd = 0 /\ gw_fd' = k
                                 /\ state' = [state EXCEPT ![k] = "open"]
    BY <1>3 DEF Connect
  <2>2. UNCHANGED <<client_fd, receive_buffer, up>>
    BY <1>3 DEF Connect, loop
  <2>3. \A j \in Connections : state'[j] = IF j = k THEN "open" ELSE state[j]
    BY <2>1 DEF LinkTypes
  <2>4. \A j \in Connections : state[j] # "open"
    BY <1>2, <2>1, BoundsAssumption DEF Connections
  <2> QED BY <1>1, <2>1, <2>2, <2>3, <2>4, StreamsStay
<1>4. CASE LinkSends
  <2>1. Head(queue) \in Messages
    BY <1>4 DEF LinkSends, SouthTypes
  <2>2. PICK us : us = <<Text(Head(queue)), NL>>
    OBVIOUS
  <2>3. us[Len(us)] = NL /\ us \in Wire(Head(queue))
    BY <2>2 DEF Wire
  <2>4. /\ gw_fd # 0 /\ Arrives(us)
        /\ UNCHANGED <<client_fd, receive_buffer, state, gw_fd>>
    BY <1>4, <2>2 DEF LinkSends, loop
  <2> HIDE DEF TypesInv
  <2> QED BY <1>2, <2>1, <2>3, <2>4, StreamsGrow
<1>5. CASE LinkRefuses
  <2> DEFINE m == Nack(Head(down[gw_fd]))
  <2>1. m \in Messages /\ m.type = "NACK"
    <3>1. gw_fd \in Connections
      BY <1>5, FdIs DEF LinkRefuses, LinkTypes
    <3>2. Head(down[gw_fd]) \in Commands
      BY <1>5, <3>1 DEF LinkRefuses, LinkTypes
    <3> QED BY <3>2, CommandFields
  <2>2. PICK us \in Wire(m) : Arrives(us)
    BY <1>5 DEF LinkRefuses, Wire, Parts
  <2>3. gw_fd # 0 /\ UNCHANGED <<client_fd, receive_buffer, state, gw_fd>>
    BY <1>5 DEF LinkRefuses, loop, gateway
  <2> HIDE DEF TypesInv, m
  <2> QED BY <1>2, <2>1, <2>2, <2>3, StreamsGrow
<1>6. ASSUME gw_fd # 0, LinkCloses
      PROVE  \A k \in Connections :
                /\ state'[k] # "open"
                /\ state'[k] = "none" => state[k] = "none"
  <2>1. /\ state'[gw_fd] \notin {"none", "open"}
        /\ \A j \in Connections : j # gw_fd => state'[j] = state[j]
    BY <1>6, LinkClosesIs
  <2> QED BY <1>2, <2>1
<1>7. CASE LinkSendFails
  <2>1. Head(queue) \in Messages
    BY <1>7 DEF LinkSendFails, SouthTypes
  <2>2. PICK us \in Wire(Head(queue)) : Arrives(us)
    BY <1>7 DEF LinkSendFails, Wire
  <2>3. gw_fd # 0 /\ UNCHANGED <<client_fd, receive_buffer>> /\ LinkCloses
    BY <1>7 DEF LinkSendFails, loop
  <2> HIDE DEF TypesInv
  <2> QED BY <1>6, <2>1, <2>2, <2>3, StreamsGrow
<1>8. CASE LinkDisconnects
  <2>1. /\ gw_fd # 0 /\ UNCHANGED <<client_fd, receive_buffer, up>> /\ LinkCloses
    BY <1>8 DEF LinkDisconnects, loop
  <2> QED BY <1>1, <1>6, <2>1, StreamsStay
<1>9. CASE LinkRoutes
  <2>1. UNCHANGED <<client_fd, receive_buffer, up, state, gw_fd>>
    BY <1>9 DEF LinkRoutes, loop
  <2> QED BY <1>1, <1>2, <2>1, StreamsStay
<1> QED BY <1>3, <1>4, <1>5, <1>7, <1>8, <1>9 DEF Link

LEMMA StreamsKept ==
    ASSUME TypesInv, LoopInv, StreamsInv, [Next]_vars
    PROVE  StreamsInv'
<1>1. ASSUME UNCHANGED <<client_fd, receive_buffer, up, state, gw_fd>>
      PROVE  StreamsInv'
  <2>1. \A k \in Connections : state[k] = "open" => k = gw_fd
    BY DEF StreamsInv
  <2> QED BY <1>1, <2>1, StreamsStay DEF LoopInv
<1>2. CASE Top \/ Poll \/ Stdin \/ AcceptFails \/ LinesDone
  BY <1>1, <1>2 DEF Top, Poll, Stdin, AcceptFails, LinesDone, links, gateway
<1>3. CASE Accept
  BY <1>3, StreamsEnd DEF Accept, Replace, gateway
<1>4. CASE ReceiveEnds \/ HangUp
  <2>1. client_fd # 0 /\ Drop
    BY <1>4 DEF ReceiveEnds, HangUp, At, LoopInv, NeverBlocks
  <2> QED BY <2>1, StreamsEnd DEF Drop, gateway
<1>5. CASE Link
  BY <1>5, LinkKeepsStreams
<1>6. ASSUME NEW n \in Nodes, South(n) PROVE StreamsInv'
  BY <1>1, <1>6 DEF South, Delivers, DeliveryFails, ConnectionEnds, NodeExecutes,
                    NodeRefuses, links, loop
<1>7. CASE Restart
  <2>1. /\ client_fd' = 0 /\ receive_buffer' = <<>>
        /\ \A k \in Connections : up'[k] = <<>> /\ state'[k] # "open"
    BY <1>7 DEF Restart
  <2>2. \A k \in Connections : Stream(k)' = <<>>
    BY <2>1, BoundsAssumption DEF Stream, Connections
  <2>3. \A k : Framed(<<>>, k)
    BY DEF Framed
  <2> QED BY <2>1, <2>2, <2>3, StreamsNext
<1>8. CASE Second \/ UNCHANGED vars
  BY <1>1, <1>8 DEF Second, vars, links, loop, gateway
<1> QED
  BY <1>2, <1>3, <1>4, <1>5, <1>6, <1>7, <1>8, ReceiveKeepsStreams, OnLineKeepsStreams
  DEF Next, Loop

LEMMA InitBase == Init => BaseInv
<1> SUFFICES ASSUME Init PROVE BaseInv
  OBVIOUS
<1>1. TypesInv
  BY BoundsAssumption DEF Init, TypesInv, LoopTypes, LinkTypes, SouthTypes
<1>2. LoopInv
  BY DEF Init, LoopInv, NeverBlocks
<1>3. StreamsInv
  <2>1. \A k \in Connections : Stream(k) = <<>>
    BY BoundsAssumption DEF Init, Stream, Connections
  <2>2. \A k : Framed(<<>>, k)
    BY DEF Framed
  <2>3. GoesOn(<<>>)
    BY DEF GoesOn
  <2> QED BY <2>1, <2>2, <2>3 DEF Init, StreamsInv
<1> QED BY <1>1, <1>2, <1>3, InitServerTable DEF BaseInv

LEMMA BaseKept == BaseInv /\ [Next]_vars => BaseInv'
  BY TypesKept, TableKept, LoopKept, StreamsKept DEF BaseInv

LEMMA BaseInvCorrect == Spec => []BaseInv
  BY InitBase, BaseKept, PTL DEF Spec

\* Every state of the server, of the connections and of the gateway is well
\* typed, whatever is lost and whenever the server is started again.
THEOREM TypeCorrect == Spec => []TypeOK
<1>1. BaseInv => TypeOK
  <2> SUFFICES ASSUME BaseInv PROVE TypeOK
    OBVIOUS
  <2>1. Tab!TypeOK
    <3>1. \A i \in Tab!Slots : copies[i] \in 0 .. MaxRetries + 1
      <4> SUFFICES ASSUME NEW i \in Tab!Slots PROVE copies[i] \in 0 .. MaxRetries + 1
        OBVIOUS
      <4>1. copies[i] \in Nat /\ copies[i] <= entries[i].retries + 1
        BY DEF BaseInv, TableInv, Tab!TableInv, Tab!Types, Tab!Paid
      <4>2. entries[i].retries \in 0 .. MaxRetries
        BY EntryIs DEF BaseInv, Tab!Entry
      <4> QED BY <4>1, <4>2, SizesAssumption
    <3> QED BY <3>1 DEF BaseInv, TableInv, Tab!TableInv, Tab!Types, Tab!TypeOK
  <2>2. CM!TypeOK
    BY <2>1, SameTable
  <2> QED BY <2>2 DEF BaseInv, TypesInv, LoopTypes, LinkTypes, SouthTypes, TypeOK, Units
<1> QED BY <1>1, BaseInvCorrect, PTL

\* Whatever connection replaces whatever other in the middle of a message, a line that
\* the server cuts out is of the connection it serves and ends with a whole message;
\* only a NACK of a command that could not be routed has its line run on in the next.
THEOREM LinesAreWhole == Spec => []WholeLines
<1>1. BaseInv => WholeLines
  <2> SUFFICES ASSUME BaseInv PROVE WholeLines
    OBVIOUS
  <2>1. client_fd = 0 => receive_buffer = <<>>
    BY DEF BaseInv, StreamsInv
  <2>2. CASE client_fd = 0
    <3>1. Incoming = <<>>
      BY <2>1, <2>2, ConcatEmptySeq DEF Incoming, BaseInv, TypesInv, LoopTypes
    <3> QED BY <2>1, <3>1 DEF WholeLines
  <2>3. CASE client_fd # 0
    <3>1. client_fd \in Connections
      BY <2>3, FdIs DEF BaseInv, TypesInv, LoopTypes
    <3>2. PICK s : s = Incoming
      OBVIOUS
    <3>3. s = Stream(client_fd)
      BY <2>3, <3>2 DEF Incoming, Stream
    <3>4. s \in Seq(Units) /\ Framed(s, client_fd)
      BY <3>1, <3>3, StreamIs DEF BaseInv, TypesInv, StreamsInv
    <3>5. DOMAIN s = 1 .. Len(s)
      BY <3>4, LenProperties
    <3> QED BY <2>3, <3>2, <3>4, <3>5 DEF WholeLines, Framed
  <2> QED BY <2>2, <2>3
<1> QED BY <1>1, BaseInvCorrect, PTL

\* The loop never calls recv when it would block, so that no peer can stop the
\* timeouts or the console.
THEOREM LoopNeverBlocks == Spec => []NeverBlocks
<1>1. BaseInv => NeverBlocks
  BY DEF BaseInv, LoopInv
<1> QED BY <1>1, BaseInvCorrect, PTL

-----------------------------------------------------------------------------
(* Counting copies *)

Positions(s, c) == {i \in 1 .. Len(s) : s[i] = c}

LEMMA PositionsAre ==
    ASSUME NEW S, NEW s \in Seq(S), NEW c
    PROVE  /\ IsFiniteSet(Positions(s, c)) /\ Count(s, c) = Cardinality(Positions(s, c))
           /\ Count(s, c) \in Nat
           /\ Count(s, c) = 0 <=> \A i \in 1 .. Len(s) : s[i] # c
<1>1. Len(s) \in Nat
  BY LenProperties
<1>2. Positions(s, c) \in SUBSET (1 .. Len(s)) /\ IsFiniteSet(1 .. Len(s))
  BY <1>1, FS_Interval DEF Positions
<1>3. IsFiniteSet(Positions(s, c))
  BY <1>2, FS_Subset
<1>4. Count(s, c) = Cardinality(Positions(s, c))
  BY DEF Count, Positions
<1>5. Cardinality(Positions(s, c)) = 0 <=> Positions(s, c) = {}
  BY <1>3, FS_EmptySet
<1>6. Cardinality(Positions(s, c)) \in Nat
  BY <1>3, FS_CardinalityType
<1> QED BY <1>3, <1>4, <1>5, <1>6 DEF Positions

LEMMA CountConcat ==
    ASSUME NEW S, NEW s \in Seq(S), NEW t \in Seq(S), NEW c
    PROVE  Count(s \o t, c) = Count(s, c) + Count(t, c)
<1> DEFINE a == Len(s)
           A == Positions(s, c)
           B == Positions(t, c)
           M == {i \in a + 1 .. a + Len(t) : t[i - a] = c}
<1>1. a \in Nat /\ Len(t) \in Nat
  BY LenProperties
<1>2. /\ s \o t \in Seq(S) /\ Len(s \o t) = a + Len(t)
      /\ \A i \in 1 .. a + Len(t) : (s \o t)[i] = IF i <= a THEN s[i] ELSE t[i - a]
  BY ConcatProperties
<1>3. Positions(s \o t, c) = A \cup M
  <2>1. ASSUME NEW i \in Positions(s \o t, c) PROVE i \in A \cup M
    <3>1. i \in 1 .. a + Len(t) /\ (s \o t)[i] = c
      BY <1>2 DEF Positions
    <3>2. CASE i <= a
      <4>1. i \in 1 .. a /\ s[i] = c
        BY <1>1, <1>2, <3>1, <3>2
      <4> QED BY <4>1 DEF Positions
    <3>3. CASE ~(i <= a)
      <4>1. i \in a + 1 .. a + Len(t) /\ t[i - a] = c
        BY <1>1, <1>2, <3>1, <3>3
      <4> QED BY <4>1
    <3> QED BY <3>2, <3>3
  <2>2. ASSUME NEW i \in A PROVE i \in Positions(s \o t, c)
    <3>1. i \in 1 .. a /\ s[i] = c
      BY DEF Positions
    <3>2. i \in 1 .. a + Len(t) /\ i <= a
      BY <1>1, <3>1
    <3> QED BY <1>2, <3>1, <3>2 DEF Positions
  <2>3. ASSUME NEW i \in M PROVE i \in Positions(s \o t, c)
    <3>1. i \in a + 1 .. a + Len(t) /\ t[i - a] = c
      OBVIOUS
    <3>2. i \in 1 .. a + Len(t) /\ ~(i <= a)
      BY <1>1, <3>1
    <3> QED BY <1>2, <3>1, <3>2 DEF Positions
  <2> QED BY <2>1, <2>2, <2>3
<1>4. IsFiniteSet(A) /\ IsFiniteSet(B)
  BY PositionsAre
<1>5. IsFiniteSet(M) /\ Cardinality(M) = Cardinality(B)
  <2> DEFINE f == [j \in B |-> a + j]
  <2>1. \A j \in B : j \in 1 .. Len(t) /\ t[j] = c
    BY DEF Positions
  <2>2. \A j \in B : f[j] \in M
    <3> SUFFICES ASSUME NEW j \in B PROVE a + j \in M
      OBVIOUS
    <3>1. a + j \in a + 1 .. a + Len(t) /\ (a + j) - a = j
      BY <1>1, <2>1
    <3> QED BY <2>1, <3>1
  <2>3. \A j, k \in B : f[j] = f[k] => j = k
    BY <1>1, <2>1
  <2>4. ASSUME NEW i \in M PROVE \E j \in B : f[j] = i
    <3>1. i \in a + 1 .. a + Len(t) /\ t[i - a] = c
      OBVIOUS
    <3>2. i - a \in 1 .. Len(t) /\ a + (i - a) = i
      BY <1>1, <3>1
    <3>3. i - a \in B
      BY <3>1, <3>2 DEF Positions
    <3> QED BY <3>2, <3>3
  <2>5. f \in [B -> M]
    BY <2>2
  <2>6. f \in Bijection(B, M)
    BY <2>3, <2>4, <2>5 DEF Bijection, Injection, Surjection, IsInjective
  <2> QED BY <1>4, <2>6, FS_Bijection DEF ExistsBijection
<1>6. A \cap M = {}
  BY <1>1 DEF Positions
<1>7. Cardinality(A \cup M) = Cardinality(A) + Cardinality(M)
  <2>1. Cardinality(A \cup M) = Cardinality(A) + Cardinality(M) - Cardinality(A \cap M)
    BY <1>4, <1>5, FS_Union
  <2>2. Cardinality(A \cap M) = 0
    BY <1>6, FS_EmptySet
  <2>3. Cardinality(A) \in Nat /\ Cardinality(M) \in Nat
    BY <1>4, <1>5, FS_CardinalityType
  <2> QED BY <2>1, <2>2, <2>3
<1>8. /\ Count(s \o t, c) = Cardinality(Positions(s \o t, c))
      /\ Count(s, c) = Cardinality(A) /\ Count(t, c) = Cardinality(B)
  BY <1>2, PositionsAre
<1> QED BY <1>3, <1>5, <1>7, <1>8

LEMMA CountOne ==
    ASSUME NEW S, NEW s \in Seq(S), Len(s) = 1, NEW c
    PROVE  Count(s, c) = IF s[1] = c THEN 1 ELSE 0
<1>1. Positions(s, c) = IF s[1] = c THEN {1} ELSE {}
  <2>1. 1 .. Len(s) = {1}
    OBVIOUS
  <2> QED BY <2>1 DEF Positions
<1>2. Cardinality({1}) = 1 /\ Cardinality({}) = 0
  BY FS_Singleton, FS_EmptySet
<1>3. Count(s, c) = Cardinality(Positions(s, c))
  BY PositionsAre
<1> QED BY <1>1, <1>2, <1>3

LEMMA CountAppend ==
    ASSUME NEW S, NEW x \in S, NEW s \in Seq(S), NEW c
    PROVE  Count(Append(s, x), c) = Count(s, c) + IF x = c THEN 1 ELSE 0
<1>1. PICK t : t = <<x>>
  OBVIOUS
<1>2. t \in Seq(S) /\ Len(t) = 1 /\ t[1] = x
  BY <1>1
<1>3. Append(s, x) = s \o t
  BY <1>1, AppendIsConcat
<1>4. Count(s \o t, c) = Count(s, c) + Count(t, c)
  BY <1>2, CountConcat
<1>5. Count(t, c) = IF x = c THEN 1 ELSE 0
  BY <1>2, CountOne
<1> QED BY <1>3, <1>4, <1>5

LEMMA CountTail ==
    ASSUME NEW S, NEW s \in Seq(S), s # <<>>, NEW c
    PROVE  Count(s, c) = Count(Tail(s), c) + IF Head(s) = c THEN 1 ELSE 0
<1>1. PICK t : t = <<Head(s)>>
  OBVIOUS
<1>2. Head(s) \in S /\ Tail(s) \in Seq(S)
  OBVIOUS
<1>3. t \in Seq(S) /\ Len(t) = 1 /\ t[1] = Head(s)
  BY <1>1, <1>2
<1>4. s = t \o Tail(s)
  <2>1. Len(s) \in Nat /\ Len(s) # 0 /\ Head(s) = s[1]
    BY EmptySeq, LenProperties
  <2>2. SubSeq(s, 1, Len(s)) = <<s[1]>> \o SubSeq(s, 1 + 1, Len(s))
    BY <2>1, SubSeqRecursiveFirst
  <2>3. SubSeq(s, 1, Len(s)) = s /\ Tail(s) = SubSeq(s, 2, Len(s))
    BY SubSeqFull, TailIsSubSeq
  <2> QED BY <1>1, <2>1, <2>2, <2>3
<1>5. Count(s, c) = Count(t, c) + Count(Tail(s), c)
  <2>1. Count(t \o Tail(s), c) = Count(t, c) + Count(Tail(s), c)
    BY <1>2, <1>3, CountConcat
  <2> QED BY <1>4, <2>1
<1>6. Count(t, c) = IF t[1] = c THEN 1 ELSE 0
  BY <1>3, CountOne
<1>7. Count(Tail(s), c) \in Nat
  BY <1>2, PositionsAre
<1> QED BY <1>3, <1>5, <1>6, <1>7

\* A sequence without repetition holds c at most once.
LEMMA CountDistinct ==
    ASSUME NEW S, NEW s \in Seq(S), NEW c,
           \A q, r \in 1 .. Len(s) : s[q] = s[r] => q = r
    PROVE  Count(s, c) <= 1
<1>1. CASE Positions(s, c) = {}
  BY <1>1, PositionsAre, FS_EmptySet
<1>2. CASE Positions(s, c) # {}
  <2>1. PICK r : r \in Positions(s, c)
    BY <1>2
  <2>2. Positions(s, c) = {r}
    BY <2>1 DEF Positions
  <2>3. Cardinality({r}) = 1
    BY FS_Singleton
  <2>4. Count(s, c) = Cardinality(Positions(s, c))
    BY PositionsAre
  <2> QED BY <2>2, <2>3, <2>4
<1> QED BY <1>1, <1>2

-----------------------------------------------------------------------------
(* The messages on their way to the server *)

LEMMA AnsweredHas ==
    ASSUME TypesInv
    PROVE  /\ \A i \in 1 .. Len(queue) : queue[i] \in Answered
           /\ \A i \in 1 .. Len(receive_buffer) :
                 receive_buffer[i] # NL => receive_buffer[i].message \in Answered
           /\ \A k \in Connections : \A i \in 1 .. Len(up[k]) :
                 up[k][i] # NL => up[k][i].message \in Answered
<1>1. \A t \in Units : t # NL => t.message \in Messages
  BY DEF Units, Texts
<1>2. \A i \in 1 .. Len(queue) : queue[i] \in Messages
  BY ElementOfSeq DEF TypesInv, SouthTypes
<1>3. \A i \in 1 .. Len(receive_buffer) : receive_buffer[i] \in Units
  BY ElementOfSeq DEF TypesInv, LoopTypes
<1>4. \A k \in Connections : \A i \in 1 .. Len(up[k]) : up[k][i] \in Units
  <2> SUFFICES ASSUME NEW k \in Connections
               PROVE  \A i \in 1 .. Len(up[k]) : up[k][i] \in Units
    OBVIOUS
  <2>1. up[k] \in Seq(Units)
    BY DEF TypesInv, LinkTypes
  <2> QED BY <2>1, ElementOfSeq
<1> QED BY <1>1, <1>2, <1>3, <1>4 DEF Answered, InText

\* What a step may add to the messages under way.
LEMMA AnsweredFrom ==
    ASSUME NEW X,
           \A i \in 1 .. Len(queue') : queue'[i] \in X,
           \A i \in 1 .. Len(receive_buffer') :
              receive_buffer'[i] # NL => receive_buffer'[i].message \in X,
           \A k \in Connections : \A i \in 1 .. Len(up'[k]) :
              up'[k][i] # NL => up'[k][i].message \in X
    PROVE  Answered' \subseteq X
  BY DEF Answered, InText

LEMMA AnsweredStays ==
    ASSUME UNCHANGED <<queue, receive_buffer, up>>
    PROVE  Answered' = Answered
  BY DEF Answered, InText

LEMMA AnsweredEnds ==
    ASSUME TypesInv, queue' = queue, receive_buffer' = <<>>,
           \A k \in Connections : up'[k] \in {up[k], <<>>}
    PROVE  Answered' \subseteq Answered
<1>1. \A k \in Connections : \A i \in 1 .. Len(up'[k]) :
         up'[k][i] # NL => up'[k][i].message \in Answered
  <2> SUFFICES ASSUME NEW k \in Connections, NEW i \in 1 .. Len(up'[k]), up'[k][i] # NL
               PROVE  up'[k][i].message \in Answered
    OBVIOUS
  <2>1. up'[k] = up[k]
    <3>1. up'[k] # <<>>
      OBVIOUS
    <3> QED BY <3>1
  <2> QED BY <2>1, AnsweredHas
<1>2. \A i \in 1 .. Len(queue') : queue'[i] \in Answered
  BY AnsweredHas
<1> QED BY <1>1, <1>2, AnsweredFrom

LEMMA AnsweredQueues ==
    ASSUME TypesInv, UNCHANGED <<receive_buffer, up>>, NEW X, Answered \subseteq X,
           \A i \in 1 .. Len(queue') : queue'[i] \in X
    PROVE  Answered' \subseteq X
<1>1. \A k \in Connections : \A i \in 1 .. Len(up'[k]) :
         up'[k][i] # NL => up'[k][i].message \in X
  BY AnsweredHas
<1>2. \A i \in 1 .. Len(receive_buffer') :
              receive_buffer'[i] # NL => receive_buffer'[i].message \in X
  BY AnsweredHas
<1> QED BY <1>1, <1>2, AnsweredFrom

\* A text that arrives is the one message it holds.
LEMMA AnsweredArrives ==
    ASSUME TypesInv, gw_fd # 0, NEW m \in Messages, NEW us \in Wire(m), Arrives(us),
           receive_buffer' = receive_buffer,
           \A i \in 1 .. Len(queue') : queue'[i] \in Answered
    PROVE  Answered' \subseteq Answered \cup {m}
<1>1. us \in Seq(Units) /\ \A i \in 1 .. Len(us) : us[i] # NL => us[i].message = m
  BY WireIs DEF TypesInv
<1>2. \A j \in Connections :
         up'[j] = IF j = gw_fd /\ state[j] = "open" THEN up[j] \o us ELSE up[j]
  BY <1>1, ArrivesIs DEF TypesInv
<1>3. ASSUME NEW k \in Connections, NEW i \in 1 .. Len(up'[k]), up'[k][i] # NL
      PROVE  up'[k][i].message \in Answered \cup {m}
  <2>1. up[k] \in Seq(Units)
    BY DEF TypesInv, LinkTypes
  <2>2. CASE up'[k] = up[k]
    BY <1>3, <2>2, AnsweredHas
  <2>3. CASE up'[k] = up[k] \o us
    <3>1. /\ Len(up[k] \o us) = Len(up[k]) + Len(us)
          /\ \A j \in 1 .. Len(up[k]) + Len(us) : (up[k] \o us)[j] =
                IF j <= Len(up[k]) THEN up[k][j] ELSE us[j - Len(up[k])]
          /\ Len(up[k]) \in Nat /\ Len(us) \in Nat
      BY <1>1, <2>1, ConcatProperties, LenProperties
    <3>2. i \in 1 .. Len(up[k]) + Len(us)
      BY <2>3, <3>1
    <3>3. CASE i <= Len(up[k])
      <4>1. i \in 1 .. Len(up[k]) /\ up'[k][i] = up[k][i]
        BY <2>3, <3>1, <3>2, <3>3
      <4> QED BY <1>3, <4>1, AnsweredHas
    <3>4. CASE ~(i <= Len(up[k]))
      <4>1. i - Len(up[k]) \in 1 .. Len(us) /\ up'[k][i] = us[i - Len(up[k])]
        BY <2>3, <3>1, <3>2, <3>4
      <4> QED BY <1>1, <1>3, <4>1
    <3> QED BY <3>3, <3>4
  <2> QED BY <1>2, <2>2, <2>3
<1>4. \A i \in 1 .. Len(receive_buffer') :
         receive_buffer'[i] # NL => receive_buffer'[i].message \in Answered \cup {m}
  BY AnsweredHas
<1>5. \A i \in 1 .. Len(queue') : queue'[i] \in Answered \cup {m}
  OBVIOUS
<1> QED BY <1>3, <1>4, <1>5, AnsweredFrom

LEMMA ReceiveAnswers ==
    ASSUME TypesInv, LoopInv, Receive
    PROVE  Answered' \subseteq Answered
<1> DEFINE c == client_fd
           l == Len(receive_buffer)
<1>1. c \in Connections /\ l \in Nat
  BY ReceiveIs, LenProperties DEF TypesInv, LoopTypes
<1>2. PICK k \in 1 .. Len(up[c]) :
         /\ Len(receive_buffer') = l + k
         /\ \A i \in 1 .. l : receive_buffer'[i] = receive_buffer[i]
         /\ \A i \in 1 .. k : receive_buffer'[l + i] = up[c][i]
         /\ \A j \in Connections : j # c => up'[j] = up[j]
         /\ Len(up'[c]) = Len(up[c]) - k
         /\ \A i \in 1 .. Len(up[c]) - k : up'[c][i] = up[c][k + i]
  BY ReceiveIs DEF TypesInv
<1>3. PICK n : n = Len(up[c])
  OBVIOUS
<1>4. n \in Nat /\ k \in Nat /\ 1 <= k /\ k <= n
  <2>1. up[c] \in Seq(Units)
    BY <1>1 DEF TypesInv, LinkTypes
  <2> QED BY <1>2, <1>3, <2>1, LenProperties
<1>5. /\ \A i \in 1 .. l : receive_buffer[i] # NL => receive_buffer[i].message \in Answered
      /\ \A j \in Connections : \A i \in 1 .. Len(up[j]) :
            up[j][i] # NL => up[j][i].message \in Answered
      /\ \A i \in 1 .. n : up[c][i] # NL => up[c][i].message \in Answered
  BY <1>1, <1>3, AnsweredHas
<1> HIDE DEF c, l
<1>6. ASSUME NEW i \in 1 .. l + k, receive_buffer'[i] # NL
      PROVE  receive_buffer'[i].message \in Answered
  <2>1. CASE i <= l
    <3>1. i \in 1 .. l
      BY <1>1, <2>1
    <3> QED BY <1>2, <1>5, <1>6, <3>1
  <2>2. CASE ~(i <= l)
    <3>1. PICK j : j = i - l
      OBVIOUS
    <3>2. j \in 1 .. k /\ j \in 1 .. n /\ l + j = i
      BY <1>1, <1>4, <2>2, <3>1
    <3>3. receive_buffer'[i] = up[c][j]
      BY <1>2, <3>2
    <3> QED BY <1>5, <1>6, <3>2, <3>3
  <2> QED BY <2>1, <2>2
<1>7. ASSUME NEW j \in Connections, NEW i \in 1 .. Len(up'[j]), up'[j][i] # NL
      PROVE  up'[j][i].message \in Answered
  <2>1. CASE j = c
    <3>1. i \in 1 .. n - k /\ k + i \in 1 .. n
      BY <1>2, <1>3, <1>4, <2>1
    <3>2. up'[c][i] = up[c][k + i]
      BY <1>2, <1>3, <3>1
    <3> QED BY <1>5, <1>7, <2>1, <3>1, <3>2
  <2>2. CASE j # c
    BY <1>2, <1>5, <1>7, <2>2
  <2> QED BY <2>1, <2>2
<1>8. queue' = queue
  BY DEF Receive, gateway
<1>9. \A i \in 1 .. Len(queue') : queue'[i] \in Answered
  BY <1>8, AnsweredHas
<1>10. \A i \in 1 .. Len(receive_buffer') :
          receive_buffer'[i] # NL => receive_buffer'[i].message \in Answered
  BY <1>2, <1>6
<1> QED BY <1>7, <1>9, <1>10, AnsweredFrom

LEMMA OnLineAnswers ==
    ASSUME TypesInv, StreamsInv, OnLine
    PROVE  Answered' \subseteq Answered /\ receive_buffer[1].message \in Answered
<1>1. PICK n \in 2 .. Len(receive_buffer) :
         /\ receive_buffer[1] # NL
         /\ Len(receive_buffer') = Len(receive_buffer) - n
         /\ \A i \in 1 .. Len(receive_buffer) - n : receive_buffer'[i] = receive_buffer[i + n]
  BY RestIs DEF TypesInv
<1>2. Len(receive_buffer) \in Nat
  BY LenProperties DEF TypesInv, LoopTypes
<1>3. 1 \in 1 .. Len(receive_buffer)
      /\ \A i \in 1 .. Len(receive_buffer) - n : i + n \in 1 .. Len(receive_buffer)
  BY <1>1, <1>2
<1>4. \A i \in 1 .. Len(receive_buffer') :
         receive_buffer'[i] # NL => receive_buffer'[i].message \in Answered
  BY <1>1, <1>3, AnsweredHas
<1>5. queue' = queue /\ up' = up
  BY DEF OnLine, gateway, links
<1> QED BY <1>1, <1>3, <1>4, <1>5, AnsweredHas, AnsweredFrom

LEMMA LoopAnswers ==
    ASSUME BaseInv, Loop
    PROVE  Answered' \subseteq Answered
<1> USE DEF BaseInv
<1>1. CASE Top \/ Poll \/ Stdin \/ AcceptFails \/ LinesDone
  BY <1>1, AnsweredStays DEF Top, Poll, Stdin, AcceptFails, LinesDone, links, gateway
<1>2. ASSUME queue' = queue, receive_buffer' = <<>>,
             IF client_fd # 0 THEN CloseClient ELSE UNCHANGED <<state, up>>
      PROVE  Answered' \subseteq Answered
  <2>1. client_fd # 0 => client_fd \in Connections
    BY FdIs DEF TypesInv, LoopTypes
  <2>2. CASE client_fd # 0
    BY <1>2, <2>1, <2>2, CloseClientIs, AnsweredEnds DEF TypesInv
  <2>3. CASE client_fd = 0
    BY <1>2, <2>3, AnsweredEnds
  <2> QED BY <2>2, <2>3
<1>3. CASE Accept
  BY <1>2, <1>3 DEF Accept, Replace, gateway
<1>4. CASE ReceiveEnds \/ HangUp
  <2>1. client_fd # 0 /\ Drop
    BY <1>4 DEF ReceiveEnds, HangUp, At, LoopInv, NeverBlocks
  <2> QED BY <1>2, <2>1 DEF Drop, gateway
<1> QED
  BY <1>1, <1>3, <1>4, ReceiveAnswers, OnLineAnswers DEF Loop

LEMMA LinkAnswers ==
    ASSUME TypesInv
    PROVE  /\ Connect \/ LinkSends \/ LinkSendFails \/ LinkDisconnects \/ LinkRoutes
                 => Answered' \subseteq Answered
           /\ LinkRefuses => Answered' \subseteq Answered \cup {Nack(Head(down[gw_fd]))}
<1>1. ASSUME Connect \/ LinkDisconnects \/ LinkRoutes
      PROVE  Answered' \subseteq Answered
  <2>1. Answered' = Answered
    BY <1>1, AnsweredStays DEF Connect, LinkDisconnects, LinkRoutes, loop
  <2> QED BY <2>1
<1>2. ASSUME LinkSends \/ LinkSendFails
      PROVE  Answered' \subseteq Answered
  <2>1. /\ Head(queue) \in Messages /\ queue \in Seq(Messages) /\ queue # <<>>
        /\ Head(queue) = queue[1] /\ 1 \in 1 .. Len(queue) /\ Len(queue) \in Nat
    BY <1>2 DEF LinkSends, LinkSendFails, TypesInv, SouthTypes
  <2>2. \A i \in 1 .. Len(queue') : queue'[i] \in Answered
    <3>1. CASE queue' = queue
      BY <3>1, AnsweredHas
    <3>2. CASE queue' = Tail(queue)
      <4>1. Len(queue') = Len(queue) - 1
            /\ \A i \in 1 .. Len(queue') : queue'[i] = queue[i + 1]
        BY <2>1, <3>2, HeadTailProperties
      <4>2. \A i \in 1 .. Len(queue) - 1 : i + 1 \in 1 .. Len(queue)
        BY <2>1
      <4> QED BY <4>1, <4>2, AnsweredHas
    <3> QED BY <1>2, <3>1, <3>2 DEF LinkSends, LinkSendFails
  <2>3. PICK us \in Wire(Head(queue)) : Arrives(us)
    BY <1>2 DEF LinkSends, LinkSendFails, Wire
  <2>4. gw_fd # 0 /\ receive_buffer' = receive_buffer
    BY <1>2 DEF LinkSends, LinkSendFails, loop
  <2>5. Answered' \subseteq Answered \cup {Head(queue)}
    BY <2>1, <2>2, <2>3, <2>4, AnsweredArrives
  <2>6. Head(queue) \in Answered
    BY <2>1, AnsweredHas
  <2> QED BY <2>5, <2>6
<1>3. ASSUME LinkRefuses
      PROVE  Answered' \subseteq Answered \cup {Nack(Head(down[gw_fd]))}
  <2> DEFINE m == Nack(Head(down[gw_fd]))
  <2>1. m \in Messages
    <3>1. gw_fd \in Connections
      BY <1>3, FdIs DEF LinkRefuses, TypesInv, LinkTypes
    <3>2. Head(down[gw_fd]) \in Commands
      BY <1>3, <3>1 DEF LinkRefuses, TypesInv, LinkTypes
    <3> QED BY <3>2, CommandFields
  <2>2. PICK us \in Wire(m) : Arrives(us)
    BY <1>3 DEF LinkRefuses, Wire, Parts
  <2>3. gw_fd # 0 /\ receive_buffer' = receive_buffer /\ queue' = queue
    BY <1>3 DEF LinkRefuses, loop, gateway
  <2>4. \A i \in 1 .. Len(queue') : queue'[i] \in Answered
    BY <2>3, AnsweredHas
  <2> HIDE DEF m
  <2>5. Answered' \subseteq Answered \cup {m}
    BY <2>1, <2>2, <2>3, <2>4, AnsweredArrives
  <2> QED BY <1>3, <2>5 DEF m
<1> QED BY <1>1, <1>2, <1>3

LEMMA SouthAnswers ==
    ASSUME TypesInv, NEW n \in Nodes
    PROVE  /\ Delivers(n) => Answered' = Answered
           /\ DeliveryFails(n) => Answered' \subseteq Answered \cup {Nack(Head(ring[n]))}
           /\ ConnectionEnds(n) =>
                 Answered' \subseteq Answered \cup {Nack(ring[n][i]) : i \in 1 .. Len(ring[n])}
           /\ NodeExecutes(n) => Answered' \subseteq Answered \cup {Ack(Head(toNode[n]))}
           /\ NodeRefuses(n) => Answered' \subseteq Answered \cup {Nack(Head(toNode[n]))}
<1>1. /\ queue \in Seq(Messages) /\ Len(queue) \in Nat
      /\ \A i \in 1 .. Len(queue) : queue[i] \in Answered
      /\ ring[n] \in Seq(Commands) /\ toNode[n] \in Seq(Commands)
      /\ ring[n] # <<>> => Head(ring[n]) \in Commands
      /\ toNode[n] # <<>> => Head(toNode[n]) \in Commands
  BY AnsweredHas, LenProperties DEF TypesInv, SouthTypes
<1>2. ASSUME NEW m \in Messages, UNCHANGED <<receive_buffer, up>>, Answers(m)
      PROVE  Answered' \subseteq Answered \cup {m}
  <2>1. \A i \in 1 .. Len(queue') :
           queue'[i] = m \/ \E j \in 1 .. Len(queue) : queue'[i] = queue[j]
    BY <1>1, <1>2, AnswersIs
  <2>2. \A i \in 1 .. Len(queue') : queue'[i] \in Answered \cup {m}
    BY <1>1, <2>1
  <2> QED BY <1>2, <2>2, AnsweredQueues
<1>3. ASSUME Delivers(n) PROVE Answered' = Answered
  BY <1>3, AnsweredStays DEF Delivers, loop, links
<1>4. ASSUME DeliveryFails(n)
      PROVE  Answered' \subseteq Answered \cup {Nack(Head(ring[n]))}
  <2>1. Nack(Head(ring[n])) \in Messages
    BY <1>1, <1>4, CommandFields DEF DeliveryFails
  <2> QED BY <1>2, <1>4, <2>1 DEF DeliveryFails, Answers, loop, links
<1>5. ASSUME ConnectionEnds(n)
      PROVE  Answered' \subseteq Answered \cup {Nack(ring[n][i]) : i \in 1 .. Len(ring[n])}
  <2> DEFINE X == Answered \cup {Nack(ring[n][i]) : i \in 1 .. Len(ring[n])}
  <2>1. PICK qs : qs = [i \in 1 .. Len(ring[n]) |-> Nack(ring[n][i])]
    OBVIOUS
  <2>2. qs \in Seq(Messages) /\ Len(qs) = Len(ring[n]) /\ Len(qs) \in Nat
        /\ \A i \in 1 .. Len(qs) : qs[i] \in X
    <3>1. \A i \in 1 .. Len(ring[n]) : Nack(ring[n][i]) \in Messages
      BY <1>1, CommandFields, ElementOfSeq
    <3>2. Len(ring[n]) \in Nat /\ qs \in [1 .. Len(ring[n]) -> Messages]
      BY <1>1, <2>1, <3>1, LenProperties
    <3>3. qs \in Seq(Messages) /\ Len(qs) = Len(ring[n])
      BY <3>2
    <3> QED BY <2>1, <3>2, <3>3
  <2>3. queue' = queue \o qs /\ UNCHANGED <<receive_buffer, up>>
    BY <1>5, <2>1 DEF ConnectionEnds, loop, links
  <2>4. /\ Len(queue') = Len(queue) + Len(qs)
        /\ \A i \in 1 .. Len(queue) + Len(qs) :
              queue'[i] = IF i <= Len(queue) THEN queue[i] ELSE qs[i - Len(queue)]
    BY <1>1, <2>2, <2>3, ConcatProperties
  <2>5. ASSUME NEW i \in 1 .. Len(queue) + Len(qs) PROVE queue'[i] \in X
    <3>1. CASE i <= Len(queue)
      <4>1. i \in 1 .. Len(queue)
        BY <1>1, <3>1
      <4> QED BY <1>1, <2>4, <3>1, <4>1
    <3>2. CASE ~(i <= Len(queue))
      <4>1. i - Len(queue) \in 1 .. Len(qs)
        BY <1>1, <2>2, <3>2
      <4> QED BY <2>2, <2>4, <3>2, <4>1
    <3> QED BY <3>1, <3>2
  <2>6. Answered \subseteq X
    OBVIOUS
  <2> HIDE DEF X
  <2>7. Answered' \subseteq X
    BY <2>3, <2>4, <2>5, <2>6, AnsweredQueues
  <2> QED BY <2>7 DEF X
<1>6. ASSUME NodeExecutes(n)
      PROVE  Answered' \subseteq Answered \cup {Ack(Head(toNode[n]))}
  <2>1. Ack(Head(toNode[n])) \in Messages
    BY <1>1, <1>6, CommandFields DEF NodeExecutes
  <2> QED BY <1>2, <1>6, <2>1 DEF NodeExecutes, loop, links
<1>7. ASSUME NodeRefuses(n)
      PROVE  Answered' \subseteq Answered \cup {Nack(Head(toNode[n]))}
  <2>1. Nack(Head(toNode[n])) \in Messages
    BY <1>1, <1>7, CommandFields DEF NodeRefuses
  <2> QED BY <1>2, <1>7, <2>1 DEF NodeRefuses, loop, links
<1> QED BY <1>3, <1>4, <1>5, <1>6, <1>7

-----------------------------------------------------------------------------
(* The commands on their way to the nodes *)

\* The heads of the places, and what they are for.
LEMMA RingsHold ==
    ASSUME TypesInv, PlacesInv, NEW n \in Nodes
    PROVE  /\ ring[n] \in Seq(Commands) /\ toNode[n] \in Seq(Commands)
           /\ ring[n] # <<>> => /\ Head(ring[n]) \in Commands /\ Head(ring[n]).node = n
                                /\ Tail(ring[n]) \in Seq(Commands)
           /\ toNode[n] # <<>> => /\ Head(toNode[n]) \in Commands
                                  /\ Head(toNode[n]).node = n
                                  /\ Tail(toNode[n]) \in Seq(Commands)
<1>1. ring[n] \in Seq(Commands) /\ toNode[n] \in Seq(Commands)
  BY DEF TypesInv, SouthTypes
<1>2. \A s \in Seq(Commands) : s # <<>> =>
         /\ Head(s) = s[1] /\ 1 \in 1 .. Len(s) /\ Head(s) \in Commands
         /\ Tail(s) \in Seq(Commands)
  OBVIOUS
<1> QED BY <1>1, <1>2 DEF PlacesInv

LEMMA TailHolds ==
    ASSUME NEW S, NEW s \in Seq(S), s # <<>>, NEW p \in 1 .. Len(Tail(s))
    PROVE  \E q \in 1 .. Len(s) : Tail(s)[p] = s[q]
<1>1. Len(Tail(s)) = Len(s) - 1 /\ Tail(s)[p] = s[p + 1] /\ Len(s) \in Nat
  BY HeadTailProperties, LenProperties
<1>2. p + 1 \in 1 .. Len(s)
  BY <1>1
<1> QED BY <1>1, <1>2

LEMMA AppendHolds ==
    ASSUME NEW S, NEW s \in Seq(S), NEW x \in S, NEW p \in 1 .. Len(Append(s, x))
    PROVE  Append(s, x)[p] = x \/ \E q \in 1 .. Len(s) : Append(s, x)[p] = s[q]
<1>1. /\ Len(Append(s, x)) = Len(s) + 1 /\ Append(s, x)[Len(s) + 1] = x
      /\ \A i \in 1 .. Len(s) : Append(s, x)[i] = s[i]
      /\ Len(s) \in Nat
  BY AppendProperties, LenProperties
<1>2. p = Len(s) + 1 \/ p \in 1 .. Len(s)
  BY <1>1
<1> QED BY <1>1, <1>2

LEMMA SendToKeepsPlaces ==
    ASSUME TypesInv, StreamsInv, PlacesInv, client_fd \in Connections,
           NEW cs \in Seq(Commands), SendTo(client_fd, cs)
    PROVE  \A k \in Connections :
              /\ k # gw_fd => down'[k] = <<>>
              /\ k = gw_fd => down'[k] \in {down[k], down[k] \o cs}
<1>1. \A j \in Connections : down'[j] = IF j = client_fd /\ state[client_fd] = "open"
                                        THEN down[j] \o cs ELSE down[j]
  BY SendToIs DEF TypesInv
<1>2. state[client_fd] = "open" => client_fd = gw_fd
  BY DEF StreamsInv
<1> QED BY <1>1, <1>2 DEF PlacesInv

LEMMA PlacesKept ==
    ASSUME BaseInv, PlacesInv, [Next]_vars
    PROVE  PlacesInv'
<1> USE DEF BaseInv
<1>1. ASSUME UNCHANGED <<ring, toNode>>, \A k \in Connections : k # gw_fd' => down'[k] = <<>>
      PROVE  PlacesInv'
  BY <1>1 DEF PlacesInv
<1>2. ASSUME UNCHANGED <<ring, toNode, down, gw_fd>> PROVE PlacesInv'
  BY <1>2 DEF PlacesInv
<1>3. client_fd # 0 => client_fd \in Connections
  BY FdIs DEF TypesInv, LoopTypes
<1>4. CASE Top
  <2>1. CASE client_fd = 0
    BY <1>2, <1>4, <2>1 DEF Top, gateway
  <2>2. CASE client_fd # 0
    <3>1. Tab!CheckTimeouts
      BY <1>4, SameTable DEF Top
    <3>2. Handed \in Seq(Commands)
      BY <3>1, TableChecks, HandedIs DEF TypesInv, LoopTypes
    <3> QED BY <1>1, <1>3, <1>4, <2>2, <3>2, SendToKeepsPlaces DEF Top, gateway
  <2> QED BY <2>1, <2>2
<1>5. CASE Stdin
  <2>1. CASE StdinRefused
    BY <1>2, <1>5, <2>1 DEF Stdin, StdinRefused, gateway
  <2>2. ASSUME NEW n \in Nodes, StdinSends(n) PROVE PlacesInv'
    <3>1. next_sequence \in CM!Sequences
      BY SameTable DEF TableInv, Tab!TableInv, Tab!Types
    <3>2. NewCommand(n) \in Commands
      BY <3>1 DEF NewCommand, Commands, TypesInv, LoopTypes
    <3>3. PICK cs : cs = <<NewCommand(n)>>
      OBVIOUS
    <3>4. cs \in Seq(Commands)
      BY <3>2, <3>3
    <3>5. SendTo(client_fd, cs) /\ client_fd # 0
      BY <2>2, <3>3 DEF StdinSends, NewCommand
    <3> QED BY <1>1, <1>3, <1>5, <3>4, <3>5, SendToKeepsPlaces DEF Stdin, gateway
  <2> QED BY <1>5, <2>1, <2>2 DEF Stdin
<1>6. CASE Poll \/ Accept \/ AcceptFails \/ Receive \/ ReceiveEnds \/ OnLine \/ LinesDone
           \/ HangUp \/ Restart \/ Second \/ UNCHANGED vars
  BY <1>2, <1>6 DEF Poll, Accept, Replace, AcceptFails, Receive, ReceiveEnds, OnLine,
                    LinesDone, HangUp, Drop, Restart, Second, vars, links, gateway
<1>7. CASE Connect
  <2>1. \A k \in Connections : down[k] = <<>>
    BY <1>7, BoundsAssumption DEF Connect, PlacesInv, Connections
  <2> QED BY <1>1, <1>7, <2>1 DEF Connect
<1>8. CASE LinkSends
  BY <1>2, <1>8 DEF LinkSends
<1>9. CASE LinkSendFails \/ LinkDisconnects
  <2>1. gw_fd # 0 /\ LinkCloses
    BY <1>9 DEF LinkSendFails, LinkDisconnects
  <2>2. \A k \in Connections : down'[k] = <<>>
    BY <2>1, LinkClosesIs DEF TypesInv, PlacesInv
  <2> QED BY <1>1, <1>9, <2>2 DEF LinkSendFails, LinkDisconnects
<1>10. ASSUME LinkRoutes \/ LinkRefuses
       PROVE  /\ \A k \in Connections : k # gw_fd' => down'[k] = <<>>
              /\ gw_fd \in Connections /\ Head(down[gw_fd]) \in Commands
  <2>1. gw_fd \in Connections
    BY <1>10, FdIs DEF LinkRoutes, LinkRefuses, TypesInv, LinkTypes
  <2> QED BY <1>10, <2>1 DEF LinkRoutes, LinkRefuses, TypesInv, LinkTypes, PlacesInv, gateway
<1>11. CASE LinkRefuses
  BY <1>1, <1>10, <1>11 DEF LinkRefuses, gateway
<1>12. CASE LinkRoutes
  <2>1. PICK c \in Commands : /\ c.node \in Nodes
                              /\ ring' = [ring EXCEPT ![c.node] = Append(ring[c.node], c)]
    BY <1>10, <1>12, CommandFields DEF LinkRoutes
  <2>2. ASSUME NEW n \in Nodes, NEW p \in 1 .. Len(ring'[n]) PROVE ring'[n][p].node = n
    <3>1. ring[n] \in Seq(Commands)
      BY DEF TypesInv, SouthTypes
    <3>2. CASE n = c.node
      <4>1. ring'[n] = Append(ring[n], c)
        BY <2>1, <3>2 DEF TypesInv, SouthTypes
      <4>2. ring'[n][p] = c \/ \E q \in 1 .. Len(ring[n]) : ring'[n][p] = ring[n][q]
        BY <3>1, <4>1, AppendHolds
      <4> QED BY <3>2, <4>2 DEF PlacesInv
    <3>3. CASE n # c.node
      BY <2>1, <2>2, <3>3 DEF TypesInv, SouthTypes, PlacesInv
    <3> QED BY <3>2, <3>3
  <2>3. toNode' = toNode
    BY <1>12 DEF LinkRoutes
  <2> QED BY <1>10, <1>12, <2>2, <2>3 DEF PlacesInv
<1>13. ASSUME NEW n \in Nodes, South(n) PROVE PlacesInv'
  <2>1. UNCHANGED <<down, gw_fd>>
    BY <1>13 DEF South, Delivers, DeliveryFails, ConnectionEnds, NodeExecutes,
                 NodeRefuses, links
  <2>2. /\ ring[n] # <<>> => \A p \in 1 .. Len(Tail(ring[n])) : Tail(ring[n])[p].node = n
        /\ toNode[n] # <<>> =>
              \A p \in 1 .. Len(Tail(toNode[n])) : Tail(toNode[n])[p].node = n
    <3>1. ASSUME ring[n] # <<>>, NEW p \in 1 .. Len(Tail(ring[n]))
          PROVE  Tail(ring[n])[p].node = n
      <4>1. \E q \in 1 .. Len(ring[n]) : Tail(ring[n])[p] = ring[n][q]
        BY <3>1, RingsHold, TailHolds
      <4> QED BY <4>1 DEF PlacesInv
    <3>2. ASSUME toNode[n] # <<>>, NEW p \in 1 .. Len(Tail(toNode[n]))
          PROVE  Tail(toNode[n])[p].node = n
      <4>1. \E q \in 1 .. Len(toNode[n]) : Tail(toNode[n])[p] = toNode[n][q]
        BY <3>2, RingsHold, TailHolds
      <4> QED BY <4>1 DEF PlacesInv
    <3> QED BY <3>1, <3>2
  <2>3. ASSUME ring[n] # <<>>, NEW p \in 1 .. Len(Append(toNode[n], Head(ring[n])))
        PROVE  Append(toNode[n], Head(ring[n]))[p].node = n
    <3>1. \/ Append(toNode[n], Head(ring[n]))[p] = Head(ring[n])
          \/ \E q \in 1 .. Len(toNode[n]) :
                Append(toNode[n], Head(ring[n]))[p] = toNode[n][q]
      BY <2>3, RingsHold, AppendHolds
    <3> QED BY <2>3, <3>1, RingsHold DEF PlacesInv
  <2>4. ring \in [Nodes -> Seq(Commands)] /\ toNode \in [Nodes -> Seq(Commands)]
    BY DEF TypesInv, SouthTypes
  <2>5. ASSUME \A k \in Nodes : k # n => ring'[k] = ring[k] /\ toNode'[k] = toNode[k],
               \A p \in 1 .. Len(ring'[n]) : ring'[n][p].node = n,
               \A p \in 1 .. Len(toNode'[n]) : toNode'[n][p].node = n
        PROVE  PlacesInv'
    BY <2>1, <2>5 DEF PlacesInv
  <2>6. CASE Delivers(n)
    <3>1. /\ ring[n] # <<>> /\ ring' = [ring EXCEPT ![n] = Tail(ring[n])]
          /\ toNode' = [toNode EXCEPT ![n] = Append(toNode[n], Head(ring[n]))]
      BY <2>6 DEF Delivers
    <3> QED BY <2>2, <2>3, <2>4, <2>5, <3>1
  <2>7. CASE DeliveryFails(n)
    <3>1. /\ ring[n] # <<>> /\ ring' = [ring EXCEPT ![n] = Tail(ring[n])]
          /\ toNode' = toNode
      BY <2>7 DEF DeliveryFails
    <3> QED BY <2>2, <2>4, <2>5, <3>1 DEF PlacesInv
  <2>8. CASE ConnectionEnds(n)
    <3>1. ring' = [ring EXCEPT ![n] = <<>>] /\ toNode' = [toNode EXCEPT ![n] = <<>>]
      BY <2>8 DEF ConnectionEnds
    <3> QED BY <2>4, <2>5, <3>1
  <2>9. CASE NodeExecutes(n) \/ NodeRefuses(n)
    <3>1. /\ toNode[n] # <<>> /\ toNode' = [toNode EXCEPT ![n] = Tail(toNode[n])]
          /\ ring' = ring
      BY <2>9 DEF NodeExecutes, NodeRefuses
    <3> QED BY <2>2, <2>4, <2>5, <3>1 DEF PlacesInv
  <2> QED BY <1>13, <2>6, <2>7, <2>8, <2>9 DEF South
<1> QED
  BY <1>4, <1>5, <1>6, <1>7, <1>8, <1>9, <1>11, <1>12, <1>13 DEF Next, Loop, Link

-----------------------------------------------------------------------------
(* The weight of a command *)

LEMMA UnreadIs ==
    ASSUME TypesInv
    PROVE  ToGateway \in Seq(Commands)
<1>1. gw_fd # 0 => gw_fd \in Connections
  BY FdIs DEF TypesInv, LinkTypes
<1> QED BY <1>1 DEF ToGateway, TypesInv, LinkTypes

LEMMA WeightIs ==
    ASSUME TypesInv, NEW c \in Commands
    PROVE  /\ Unread(c) \in Nat /\ InRing(c) \in Nat /\ AtNode(c) \in Nat
           /\ executed[c] \in Nat /\ Nacked(c) \in {0, 1}
           /\ Weight(c) = Unread(c) + InRing(c) + AtNode(c) + executed[c] + Nacked(c)
           /\ Weight(c) \in Nat
<1>1. c.node \in Nodes
  BY CommandFields
<1>2. /\ ToGateway \in Seq(Commands) /\ ring[c.node] \in Seq(Commands)
      /\ toNode[c.node] \in Seq(Commands) /\ executed[c] \in Nat
  BY <1>1, UnreadIs DEF TypesInv, SouthTypes
<1>3. Unread(c) \in Nat
  BY <1>2, PositionsAre DEF Unread
<1>4. InRing(c) \in Nat
  BY <1>2, PositionsAre DEF InRing
<1>5. AtNode(c) \in Nat
  BY <1>2, PositionsAre DEF AtNode
<1>6. Nacked(c) \in {0, 1}
  BY DEF Nacked
<1>7. Weight(c) = Unread(c) + InRing(c) + AtNode(c) + executed[c] + Nacked(c)
  BY DEF Weight
<1> QED BY <1>2, <1>3, <1>4, <1>5, <1>6, <1>7

\* The same at the next state.
LEMMA WeightIsNext ==
    ASSUME TypesInv', NEW c \in Commands
    PROVE  /\ Unread(c)' \in Nat /\ InRing(c)' \in Nat /\ AtNode(c)' \in Nat
           /\ executed'[c] \in Nat /\ Nacked(c)' \in {0, 1}
           /\ Weight(c)' = Unread(c)' + InRing(c)' + AtNode(c)' + executed'[c] + Nacked(c)'
           /\ Weight(c)' \in Nat
<1>1. c.node \in Nodes
  BY CommandFields
<1>2. gw_fd' # 0 => gw_fd' \in Connections
  BY FdIs DEF TypesInv, LinkTypes
<1>3. /\ ToGateway' \in Seq(Commands) /\ ring'[c.node] \in Seq(Commands)
      /\ toNode'[c.node] \in Seq(Commands) /\ executed'[c] \in Nat
  BY <1>1, <1>2 DEF ToGateway, TypesInv, LinkTypes, SouthTypes
<1>4. Unread(c)' \in Nat
  <2>1. PICK s \in Seq(Commands) : s = ToGateway'
    BY <1>3
  <2>2. Count(s, c) \in Nat
    BY <2>1, PositionsAre
  <2> QED BY <2>1, <2>2 DEF Unread
<1>5. InRing(c)' \in Nat
  <2>1. PICK s \in Seq(Commands) : s = ring'[c.node]
    BY <1>3
  <2>2. Count(s, c) \in Nat
    BY <2>1, PositionsAre
  <2> QED BY <2>1, <2>2 DEF InRing
<1>6. AtNode(c)' \in Nat
  <2>1. PICK s \in Seq(Commands) : s = toNode'[c.node]
    BY <1>3
  <2>2. Count(s, c) \in Nat
    BY <2>1, PositionsAre
  <2> QED BY <2>1, <2>2 DEF AtNode
<1>7. Nacked(c)' \in {0, 1}
  BY DEF Nacked
<1>8. Weight(c)' = Unread(c)' + InRing(c)' + AtNode(c)' + executed'[c] + Nacked(c)'
  BY DEF Weight
<1> QED BY <1>3, <1>4, <1>5, <1>6, <1>7, <1>8

\* An answer under way makes the command one that was sent.
LEMMA NackedStays ==
    ASSUME NEW c \in Commands, Answered' \subseteq Answered,
           NackTaken(c)' => NackTaken(c) \/ Nack(c) \in Answered
    PROVE  Nacked(c)' = 1 => Nacked(c) = 1
<1>1. Nacked(c)' = 1 => Nack(c) \in Answered' \/ NackTaken(c)'
  BY DEF Nacked
<1>2. Nack(c) \in Answered \/ NackTaken(c) => Nacked(c) = 1
  BY DEF Nacked
<1> QED BY <1>1, <1>2

\* When a command that leaves one place arrives at most at one other, there are
\* no more copies of it.
LEMMA WeightStays ==
    ASSUME TypesInv, TypesInv', NEW c \in Commands,
           Unread(c)' = Unread(c), InRing(c)' = InRing(c), AtNode(c)' = AtNode(c),
           executed'[c] = executed[c], Nacked(c)' = 1 => Nacked(c) = 1
    PROVE  Weight(c)' <= Weight(c)
<1>1. Nacked(c)' <= Nacked(c)
  BY WeightIs, WeightIsNext
<1> QED BY <1>1, WeightIs, WeightIsNext

\* The commands of the entries a step keeps are the same as before.
LEMMA CommandStays ==
    ASSUME Kept, run' = run, NEW i \in Tab!Slots, Tab!Used(i)
    PROVE  Tab!Used(i)' /\ Command(i)' = Command(i)
  BY DEF Kept, Command

LEMMA PlacesStay ==
    ASSUME UNCHANGED <<gw_fd, down, ring, toNode, executed>>, NEW c \in Commands
    PROVE  /\ Unread(c)' = Unread(c) /\ InRing(c)' = InRing(c) /\ AtNode(c)' = AtNode(c)
           /\ executed'[c] = executed[c]
  BY DEF Unread, InRing, AtNode, ToGateway, Count

\* No step but one that takes a NACK, or ends the run, changes which NACKs have
\* been taken.
LEMMA TakenStays ==
    ASSUME TableInv, Kept, run' = run, NEW c \in Commands,
           \A i \in Tab!Slots :
              entries'[i].state = "NACKED" => entries[i].state = "NACKED"
    PROVE  NackTaken(c)' => NackTaken(c)
<1> SUFFICES ASSUME NackTaken(c)' PROVE NackTaken(c)
  OBVIOUS
<1>1. PICK i \in Tab!Slots : run' = 0 /\ entries'[i].state = "NACKED" /\ Command(i)' = c
  BY DEF NackTaken
<1>2. entries[i].state = "NACKED" /\ Tab!Used(i)
  BY <1>1 DEF Tab!Used
<1>3. Command(i)' = Command(i)
  BY <1>2, CommandStays
<1> QED BY <1>1, <1>2, <1>3 DEF NackTaken

LEMMA AnsweredEntry ==
    ASSUME TypesInv, CopiesInv, NEW c \in Commands, Nack(c) \in Answered
    PROVE  Sent(c)
<1>1. Nacked(c) = 1
  BY DEF Nacked
<1>2. Weight(c) > 0
  BY <1>1, WeightIs
<1> QED BY <1>2 DEF CopiesInv

\* A NACK that decides a command of the first run is that command's.
LEMMA OnLineTakes ==
    ASSUME BaseInv, CopiesInv, OnLine, NEW c \in Commands
    PROVE  NackTaken(c)' => NackTaken(c) \/ Nack(c) \in Answered
<1> USE DEF BaseInv
<1> SUFFICES ASSUME NackTaken(c)', ~NackTaken(c) PROVE Nack(c) \in Answered
  OBVIOUS
<1>1. PICK i \in Tab!Slots : run' = 0 /\ entries'[i].state = "NACKED" /\ Command(i)' = c
  BY DEF NackTaken
<1>2. run' = run /\ Kept /\ \A j \in Tab!Slots : Tab!Used(j)' <=> Tab!Used(j)
  BY OnLineTable DEF OnLine, TypesInv
<1>3. Tab!Used(i)
  BY <1>1, <1>2 DEF Tab!Used
<1>4. Command(i) = c /\ run = 0
  BY <1>1, <1>2, <1>3, CommandStays
<1>5. entries[i].state # "NACKED"
  BY <1>4 DEF NackTaken
<1>6. PICK m \in Messages, e \in Tab!Slots :
         /\ m = receive_buffer[1].message
         /\ Tab!Used(e)
         /\ entries[e].sequence = m.command.seq
         /\ entries[e].target = m.command.node
         /\ entries' = [entries EXCEPT
                ![e].state = IF m.type = "ACK" THEN "ACKED" ELSE "NACKED"]
  BY <1>1, <1>5, OnLineTable DEF TypesInv
<1>7. i = e /\ m.type = "NACK"
  <2>1. entries \in [Tab!Slots -> Tab!Entry] /\ entries[e] \in Tab!Entry
    BY EntryIs
  <2>2. i = e
    BY <1>1, <1>5, <1>6, <2>1
  <2>3. entries'[e].state = IF m.type = "ACK" THEN "ACKED" ELSE "NACKED"
    BY <1>6, <2>1 DEF Tab!Entry
  <2> QED BY <1>1, <2>2, <2>3, MessageFields
<1>8. PICK d \in Commands : d = m.command
  BY MessageFields
<1>9. m = Nack(d)
  BY <1>7, <1>8 DEF Messages, Nack
<1>10. m \in Answered
  BY <1>6, OnLineAnswers
<1>11. Sent(d)
  BY <1>9, <1>10, AnsweredEntry
<1>12. d = c
  <2>1. ~(d.run < run)
    BY <1>4, CommandFields
  <2>2. PICK j \in Tab!Slots : Tab!Used(j) /\ Command(j) = d
    BY <1>11, <2>1 DEF Sent
  <2>3. run \in 0 .. MaxRestarts
    BY DEF TypesInv, LoopTypes
  <2>4. Command(j).seq = j /\ entries[e].sequence = e
    BY <1>6, <2>2, <2>3, CommandIs, EntryIs
  <2>5. j = e
    BY <1>6, <1>8, <2>2, <2>4
  <2> QED BY <1>4, <1>7, <2>2, <2>5
<1> QED BY <1>9, <1>10, <1>12

\* A loop step that sends nothing makes no more copies of anything.
LEMMA QuietWeight ==
    ASSUME BaseInv, CopiesInv, TypesInv', NEW c \in Commands,
           \/ Poll \/ Accept \/ AcceptFails \/ Receive \/ ReceiveEnds \/ OnLine
           \/ LinesDone \/ HangUp \/ Second \/ UNCHANGED vars
    PROVE  Weight(c)' <= Weight(c)
<1> USE DEF BaseInv
<1>1. UNCHANGED <<gw_fd, down, ring, toNode, executed>> /\ run' = run
  BY DEF Poll, Accept, Replace, AcceptFails, Receive, ReceiveEnds, OnLine, LinesDone,
         HangUp, Drop, Second, vars, links, gateway, loop
<1>2. Answered' \subseteq Answered
  <2>1. CASE Second \/ UNCHANGED vars
    BY <2>1, AnsweredStays DEF Second, vars, links, gateway, loop
  <2>2. CASE Poll \/ Accept \/ AcceptFails \/ Receive \/ ReceiveEnds \/ OnLine
             \/ LinesDone \/ HangUp
    BY <2>2, LoopAnswers DEF Loop
  <2> QED BY <2>1, <2>2
<1>3. NackTaken(c)' => NackTaken(c) \/ Nack(c) \in Answered
  <2>1. CASE OnLine
    BY <2>1, OnLineTakes
  <2>2. CASE Second
    <3>1. Tab!Tick
      BY <2>2, SameTable DEF Second
    <3> QED BY <1>1, <3>1, TableTicks, TakenStays
  <2>3. CASE Poll \/ Accept \/ AcceptFails \/ Receive \/ ReceiveEnds \/ LinesDone \/ HangUp
             \/ UNCHANGED vars
    <3>1. UNCHANGED table
      BY <2>3 DEF Poll, Accept, Replace, AcceptFails, Receive, ReceiveEnds, LinesDone,
                  HangUp, Drop, vars
    <3> QED BY <1>1, <3>1, TableStays, TakenStays
  <2> QED BY <2>1, <2>2, <2>3
<1>4. Nacked(c)' = 1 => Nacked(c) = 1
  BY <1>2, <1>3, NackedStays
<1> QED BY <1>1, <1>4, PlacesStay, WeightStays

LEMMA SentWeight ==
    ASSUME TypesInv, StreamsInv, PlacesInv, TypesInv', client_fd \in Connections,
           NEW cs \in Seq(Commands), SendTo(client_fd, cs),
           UNCHANGED <<gw_fd, ring, toNode, executed>>, NEW c \in Commands,
           Nacked(c)' = 1 => Nacked(c) = 1
    PROVE  Weight(c)' <= Weight(c) + Count(cs, c)
<1>1. Unread(c)' <= Unread(c) + Count(cs, c)
  <2>1. ToGateway \in Seq(Commands) /\ Count(cs, c) \in Nat /\ Unread(c) \in Nat
    BY UnreadIs, PositionsAre, WeightIs
  <2>2. ToGateway' = ToGateway \/ ToGateway' = ToGateway \o cs
    <3>1. CASE gw_fd = 0
      BY <3>1 DEF ToGateway
    <3>2. CASE gw_fd # 0
      <4>1. gw_fd \in Connections
        BY <3>2, FdIs DEF TypesInv, LinkTypes
      <4> QED BY <3>2, <4>1, SendToKeepsPlaces DEF ToGateway
    <3> QED BY <3>1, <3>2
  <2>3. Count(ToGateway \o cs, c) = Unread(c) + Count(cs, c)
    BY <2>1, CountConcat DEF Unread
  <2>4. PICK s : s = ToGateway'
    OBVIOUS
  <2>5. Unread(c)' = Count(s, c)
    BY <2>4 DEF Unread, Count
  <2>6. Count(s, c) = Unread(c) \/ Count(s, c) = Unread(c) + Count(cs, c)
    BY <2>2, <2>3, <2>4 DEF Unread
  <2> QED BY <2>1, <2>5, <2>6
<1>2. InRing(c)' = InRing(c) /\ AtNode(c)' = AtNode(c) /\ executed'[c] = executed[c]
  BY DEF InRing, AtNode, Count
<1>3. Nacked(c)' <= Nacked(c)
  BY WeightIs, WeightIsNext
<1>4. PICK x \in Nat : x = Count(cs, c)
  BY PositionsAre
<1>5. /\ Unread(c) \in Nat /\ InRing(c) \in Nat /\ AtNode(c) \in Nat
      /\ executed[c] \in Nat /\ Nacked(c) \in {0, 1}
      /\ Weight(c) = Unread(c) + InRing(c) + AtNode(c) + executed[c] + Nacked(c)
  BY WeightIs
<1>6. /\ Unread(c)' \in Nat /\ Nacked(c)' \in {0, 1}
      /\ Weight(c)' = Unread(c)' + InRing(c)' + AtNode(c)' + executed'[c] + Nacked(c)'
  BY WeightIsNext
<1> QED BY <1>1, <1>2, <1>3, <1>4, <1>5, <1>6

LEMMA RestartWeight ==
    ASSUME TypesInv, TypesInv', Restart, NEW c \in Commands
    PROVE  Weight(c)' <= Weight(c)
<1>1. UNCHANGED <<gw_fd, down, ring, toNode, executed>> /\ run' = run + 1
      /\ queue' = queue /\ receive_buffer' = <<>> /\ \A k \in Connections : up'[k] = <<>>
  BY DEF Restart, gateway
<1>2. Answered' \subseteq Answered
  BY <1>1, AnsweredEnds
<1>3. ~NackTaken(c)'
  BY TableRestarts DEF NackTaken
<1>4. Nacked(c)' = 1 => Nacked(c) = 1
  BY <1>2, <1>3, NackedStays
<1> QED BY <1>1, <1>4, PlacesStay, WeightStays

\* What the gateway's link does: a command goes on, or its NACK does.
LEMMA LinkWeight ==
    ASSUME BaseInv, PlacesInv, TypesInv', Link, NEW c \in Commands
    PROVE  Weight(c)' <= Weight(c)
<1> USE DEF BaseInv
<1>1. UNCHANGED <<entries, run, toNode, executed>>
  BY DEF Link, Connect, LinkSends, LinkSendFails, LinkDisconnects, LinkRoutes,
         LinkRefuses, table, loop, gateway
<1>2. NackTaken(c)' => NackTaken(c)
  BY <1>1 DEF NackTaken, Command
<1>now. /\ Unread(c) \in Nat /\ InRing(c) \in Nat /\ AtNode(c) \in Nat
      /\ executed[c] \in Nat /\ Nacked(c) \in {0, 1}
      /\ Weight(c) = Unread(c) + InRing(c) + AtNode(c) + executed[c] + Nacked(c)
  BY WeightIs
<1>then. /\ Unread(c)' \in Nat /\ InRing(c)' \in Nat /\ AtNode(c)' \in Nat
       /\ executed'[c] \in Nat /\ Nacked(c)' \in {0, 1}
       /\ Weight(c)' = Unread(c)' + InRing(c)' + AtNode(c)' + executed'[c] + Nacked(c)'
  BY WeightIsNext
<1>3. ASSUME Connect \/ LinkSends \/ LinkSendFails \/ LinkDisconnects \/ LinkRoutes
      PROVE  Nacked(c)' <= Nacked(c)
  <2>1. Answered' \subseteq Answered
    BY <1>3, LinkAnswers
  <2>2. Nacked(c)' = 1 => Nacked(c) = 1
    BY <1>2, <2>1, NackedStays
  <2> QED BY <1>now, <1>then, <2>2
<1>4. AtNode(c)' = AtNode(c) /\ executed'[c] = executed[c]
  BY <1>1 DEF AtNode, Count
<1>5. ring' = ring => InRing(c)' = InRing(c)
  BY DEF InRing, Count
<1>6. ToGateway' = <<>> => Unread(c)' = 0
  <2>1. <<>> \in Seq(Commands) /\ \A i \in 1 .. Len(<<>>) : <<>>[i] # c
    OBVIOUS
  <2>2. Count(<<>>, c) = 0
    BY <2>1, PositionsAre
  <2> QED BY <2>2 DEF Unread
<1>7. CASE Connect \/ LinkSendFails \/ LinkDisconnects
  <2>1. ToGateway' = <<>>
    <3>1. CASE Connect
      <4>1. gw_fd = 0 /\ gw_fd' \in Connections /\ down' = down
        BY <3>1 DEF Connect
      <4>2. gw_fd' # 0
        BY <4>1, BoundsAssumption DEF Connections
      <4>3. down[gw_fd'] = <<>>
        BY <4>1, <4>2 DEF PlacesInv
      <4> QED BY <4>1, <4>2, <4>3 DEF ToGateway
    <3>2. CASE LinkSendFails \/ LinkDisconnects
      BY <3>2 DEF LinkSendFails, LinkDisconnects, LinkCloses, ToGateway
    <3> QED BY <1>7, <3>1, <3>2
  <2>2. ring' = ring
    BY <1>7 DEF Connect, LinkSendFails, LinkDisconnects
  <2>3. Nacked(c)' <= Nacked(c) /\ Unread(c)' = 0 /\ InRing(c)' = InRing(c)
    BY <1>3, <1>5, <1>6, <1>7, <2>1, <2>2
  <2> QED BY <1>now, <1>then, <1>4, <2>3
<1>8. CASE LinkSends
  <2>1. UNCHANGED <<gw_fd, down, ring>>
    BY <1>8 DEF LinkSends
  <2>2. Unread(c)' = Unread(c)
    BY <2>1 DEF Unread, ToGateway, Count
  <2>3. Nacked(c)' <= Nacked(c) /\ InRing(c)' = InRing(c)
    BY <1>3, <1>5, <1>8, <2>1
  <2> QED BY <1>now, <1>then, <1>4, <2>2, <2>3
<1>9. ASSUME LinkRoutes \/ LinkRefuses
      PROVE  /\ ToGateway \in Seq(Commands) /\ ToGateway # <<>>
             /\ Head(ToGateway) \in Commands /\ Head(ToGateway).node \in Nodes
             /\ Head(ToGateway) = Head(down[gw_fd])
             /\ Unread(c) = Unread(c)' + IF Head(ToGateway) = c THEN 1 ELSE 0
  <2>1. gw_fd # 0 /\ gw_fd' = gw_fd /\ down[gw_fd] # <<>>
        /\ down' = [down EXCEPT ![gw_fd] = Tail(down[gw_fd])]
    BY <1>9 DEF LinkRoutes, LinkRefuses, gateway
  <2>2. gw_fd \in Connections
    BY <2>1, FdIs DEF TypesInv, LinkTypes
  <2>3. ToGateway = down[gw_fd] /\ ToGateway' = Tail(ToGateway) /\ ToGateway # <<>>
    BY <2>1, <2>2 DEF ToGateway, TypesInv, LinkTypes
  <2>4. ToGateway \in Seq(Commands)
    BY UnreadIs
  <2>5. Head(ToGateway) \in Commands
    BY <2>3, <2>4
  <2>6. Count(ToGateway, c) = Count(Tail(ToGateway), c) + IF Head(ToGateway) = c THEN 1 ELSE 0
    BY <2>3, <2>4, CountTail
  <2>7. Unread(c)' = Count(Tail(ToGateway), c)
    BY <2>3 DEF Unread, Count
  <2> QED BY <2>3, <2>4, <2>5, <2>6, <2>7, CommandFields DEF Unread
<1>10. CASE LinkRefuses
  <2>1. ring' = ring
    BY <1>10 DEF LinkRefuses, gateway
  <2>2. Nacked(c)' <= Nacked(c) + IF Head(ToGateway) = c THEN 1 ELSE 0
    <3>1. Answered' \subseteq Answered \cup {Nack(Head(ToGateway))}
      BY <1>9, <1>10, LinkAnswers
    <3>2. CASE Head(ToGateway) = c
      BY <1>now, <1>then, <3>2
    <3>3. CASE Head(ToGateway) # c
      <4>1. Nack(c) # Nack(Head(ToGateway))
        BY <1>9, <1>10, <3>3, CommandFields
      <4>2. Nacked(c)' = 1 => Nacked(c) = 1
        BY <1>2, <3>1, <4>1 DEF Nacked
      <4> QED BY <1>now, <1>then, <3>3, <4>2
    <3> QED BY <3>2, <3>3
  <2>3. PICK x \in {0, 1} : x = IF Head(ToGateway) = c THEN 1 ELSE 0
    OBVIOUS
  <2>4. /\ Unread(c) = Unread(c)' + x /\ Nacked(c)' <= Nacked(c) + x
        /\ InRing(c)' = InRing(c)
    BY <1>5, <1>9, <1>10, <2>1, <2>2, <2>3
  <2> QED BY <1>now, <1>then, <1>4, <2>4
<1>11. CASE LinkRoutes
  <2> DEFINE d == Head(ToGateway)
  <2>1. ring' = [ring EXCEPT ![d.node] = Append(ring[d.node], d)]
    BY <1>9, <1>11 DEF LinkRoutes
  <2>2. d \in Commands /\ d.node \in Nodes /\ ring \in [Nodes -> Seq(Commands)]
        /\ c.node \in Nodes
    BY <1>9, <1>11, CommandFields DEF TypesInv, SouthTypes
  <2> HIDE DEF d
  <2>3. InRing(c)' = InRing(c) + IF d = c THEN 1 ELSE 0
    <3>1. CASE d.node = c.node
      <4>1. ring'[c.node] = Append(ring[c.node], d)
        BY <2>1, <2>2, <3>1
      <4>2. Count(Append(ring[c.node], d), c) = Count(ring[c.node], c) + IF d = c THEN 1 ELSE 0
        BY <2>2, CountAppend
      <4>3. InRing(c)' = Count(Append(ring[c.node], d), c)
        BY <4>1 DEF InRing, Count
      <4> QED BY <4>2, <4>3 DEF InRing
    <3>2. CASE d.node # c.node
      <4>1. ring'[c.node] = ring[c.node] /\ d # c
        BY <2>1, <2>2, <3>2
      <4>2. InRing(c)' = InRing(c)
        BY <4>1 DEF InRing, Count
      <4> QED BY <1>now, <4>1, <4>2
    <3> QED BY <3>1, <3>2
  <2>4. PICK x \in {0, 1} : x = IF d = c THEN 1 ELSE 0
    OBVIOUS
  <2>5. /\ Unread(c) = Unread(c)' + x /\ InRing(c)' = InRing(c) + x
        /\ Nacked(c)' <= Nacked(c)
    BY <1>3, <1>9, <1>11, <2>3, <2>4 DEF d
  <2> QED BY <1>now, <1>then, <1>4, <2>5
<1> QED BY <1>7, <1>8, <1>10, <1>11 DEF Link

\* What the workers and the nodes do: a command goes on, or it is executed, or
\* its NACK is under way.
LEMMA SouthWeight ==
    ASSUME BaseInv, PlacesInv, TypesInv', NEW n \in Nodes, South(n), NEW c \in Commands
    PROVE  Weight(c)' <= Weight(c)
<1>base. TypesInv
  BY DEF BaseInv
<1>now. /\ Unread(c) \in Nat /\ InRing(c) \in Nat /\ AtNode(c) \in Nat
        /\ executed[c] \in Nat /\ Nacked(c) \in {0, 1}
        /\ Weight(c) = Unread(c) + InRing(c) + AtNode(c) + executed[c] + Nacked(c)
  BY <1>base, WeightIs
<1>then. /\ Unread(c)' \in Nat /\ InRing(c)' \in Nat /\ AtNode(c)' \in Nat
         /\ executed'[c] \in Nat /\ Nacked(c)' \in {0, 1}
         /\ Weight(c)' = Unread(c)' + InRing(c)' + AtNode(c)' + executed'[c] + Nacked(c)'
  BY WeightIsNext
<1>1. UNCHANGED <<entries, run, gw_fd, down>>
  BY DEF South, Delivers, DeliveryFails, ConnectionEnds, NodeExecutes, NodeRefuses,
         table, loop, links
<1>2. NackTaken(c)' => NackTaken(c)
  BY <1>1 DEF NackTaken, Command
<1>3. Unread(c)' = Unread(c)
  BY <1>1 DEF Unread, ToGateway, Count
<1>4. /\ ring' = ring => InRing(c)' = InRing(c)
      /\ toNode' = toNode => AtNode(c)' = AtNode(c)
  BY DEF InRing, AtNode, Count
<1>5. ring \in [Nodes -> Seq(Commands)] /\ toNode \in [Nodes -> Seq(Commands)]
      /\ executed \in [Commands -> Nat] /\ c.node \in Nodes
  BY <1>base, CommandFields DEF TypesInv, SouthTypes
\* A command that leaves a ring, or a node's hands, is counted there no more.
<1>6. ASSUME ring[n] # <<>>, ring' = [ring EXCEPT ![n] = Tail(ring[n])]
      PROVE  InRing(c) = InRing(c)' + IF Head(ring[n]) = c THEN 1 ELSE 0
  <2>1. CASE c.node = n
    <3>1. InRing(c)' = Count(Tail(ring[n]), c) /\ InRing(c) = Count(ring[n], c)
      BY <1>5, <1>6, <2>1 DEF InRing, Count
    <3> QED BY <1>5, <1>6, <3>1, CountTail
  <2>2. CASE c.node # n
    <3>1. ring'[c.node] = ring[c.node] /\ Head(ring[n]) # c
      BY <1>base, <1>5, <1>6, <2>2, RingsHold
    <3>2. InRing(c)' = InRing(c)
      BY <3>1 DEF InRing, Count
    <3> QED BY <1>now, <3>1, <3>2
  <2> QED BY <2>1, <2>2
<1>7. ASSUME toNode[n] # <<>>, toNode' = [toNode EXCEPT ![n] = Tail(toNode[n])]
      PROVE  AtNode(c) = AtNode(c)' + IF Head(toNode[n]) = c THEN 1 ELSE 0
  <2>1. CASE c.node = n
    <3>1. AtNode(c)' = Count(Tail(toNode[n]), c) /\ AtNode(c) = Count(toNode[n], c)
      BY <1>5, <1>7, <2>1 DEF AtNode, Count
    <3> QED BY <1>5, <1>7, <3>1, CountTail
  <2>2. CASE c.node # n
    <3>1. toNode'[c.node] = toNode[c.node] /\ Head(toNode[n]) # c
      BY <1>base, <1>5, <1>7, <2>2, RingsHold
    <3>2. AtNode(c)' = AtNode(c)
      BY <3>1 DEF AtNode, Count
    <3> QED BY <1>now, <3>1, <3>2
  <2> QED BY <2>1, <2>2
\* A NACK that is added is counted for its command alone.
<1>8. ASSUME NEW d \in Commands, Answered' \subseteq Answered \cup {Nack(d)}
      PROVE  Nacked(c)' <= Nacked(c) + IF d = c THEN 1 ELSE 0
  <2>1. CASE d = c
    BY <1>now, <1>then, <2>1
  <2>2. CASE d # c
    <3>1. Nack(c) # Nack(d)
      BY <2>2, CommandFields
    <3>2. Nacked(c)' = 1 => Nacked(c) = 1
      BY <1>2, <1>8, <3>1 DEF Nacked
    <3> QED BY <1>now, <1>then, <2>2, <3>2
  <2> QED BY <2>1, <2>2
<1>9. Answered' \subseteq Answered => Nacked(c)' <= Nacked(c)
  <2> SUFFICES ASSUME Answered' \subseteq Answered PROVE Nacked(c)' <= Nacked(c)
    OBVIOUS
  <2>1. Nacked(c)' = 1 => Nacked(c) = 1
    BY <1>2, NackedStays
  <2> QED BY <1>now, <1>then, <2>1
<1>10. CASE Delivers(n)
  <2>1. /\ ring[n] # <<>> /\ ring' = [ring EXCEPT ![n] = Tail(ring[n])]
        /\ toNode' = [toNode EXCEPT ![n] = Append(toNode[n], Head(ring[n]))]
        /\ executed' = executed
    BY <1>10 DEF Delivers
  <2>2. PICK d \in Commands : d = Head(ring[n]) /\ d.node = n
    BY <1>base, <2>1, RingsHold
  <2>3. PICK x \in {0, 1} : x = IF d = c THEN 1 ELSE 0
    OBVIOUS
  <2>4. AtNode(c)' = AtNode(c) + x
    <3>1. CASE c.node = n
      <4>1. AtNode(c)' = Count(Append(toNode[n], d), c) /\ AtNode(c) = Count(toNode[n], c)
        BY <1>5, <2>1, <2>2, <3>1 DEF AtNode, Count
      <4>2. toNode[n] \in Seq(Commands)
        BY <1>5
      <4> QED BY <2>3, <4>1, <4>2, CountAppend
    <3>2. CASE c.node # n
      <4>1. toNode'[c.node] = toNode[c.node] /\ d # c
        BY <1>5, <2>1, <2>2, <3>2
      <4>2. AtNode(c)' = AtNode(c)
        BY <4>1 DEF AtNode, Count
      <4> QED BY <1>now, <2>3, <4>1, <4>2
    <3> QED BY <3>1, <3>2
  <2>5. InRing(c) = InRing(c)' + x
    BY <1>6, <2>1, <2>2, <2>3
  <2>6. Nacked(c)' <= Nacked(c)
    BY <1>base, <1>9, <1>10, SouthAnswers
  <2>7. executed'[c] = executed[c]
    BY <2>1
  <2> QED BY <1>now, <1>then, <1>3, <2>4, <2>5, <2>6, <2>7, SMTT(30)
<1>11. CASE DeliveryFails(n)
  <2>1. /\ ring[n] # <<>> /\ ring' = [ring EXCEPT ![n] = Tail(ring[n])]
        /\ toNode' = toNode /\ executed' = executed
    BY <1>11 DEF DeliveryFails
  <2>2. PICK d \in Commands : d = Head(ring[n])
    BY <1>base, <2>1, RingsHold
  <2>3. PICK x \in {0, 1} : x = IF d = c THEN 1 ELSE 0
    OBVIOUS
  <2>4. InRing(c) = InRing(c)' + x
    BY <1>6, <2>1, <2>2, <2>3
  <2>5. Nacked(c)' <= Nacked(c) + x
    BY <1>base, <1>8, <1>11, <2>2, <2>3, SouthAnswers
  <2>6. AtNode(c)' = AtNode(c) /\ executed'[c] = executed[c]
    BY <1>4, <2>1
  <2> QED BY <1>now, <1>then, <1>3, <2>4, <2>5, <2>6, SMTT(30)
<1>12. CASE NodeRefuses(n)
  <2>1. /\ toNode[n] # <<>> /\ toNode' = [toNode EXCEPT ![n] = Tail(toNode[n])]
        /\ ring' = ring /\ executed' = executed
    BY <1>12 DEF NodeRefuses
  <2>2. PICK d \in Commands : d = Head(toNode[n])
    BY <1>base, <2>1, RingsHold
  <2>3. PICK x \in {0, 1} : x = IF d = c THEN 1 ELSE 0
    OBVIOUS
  <2>4. AtNode(c) = AtNode(c)' + x
    BY <1>7, <2>1, <2>2, <2>3
  <2>5. Nacked(c)' <= Nacked(c) + x
    BY <1>base, <1>8, <1>12, <2>2, <2>3, SouthAnswers
  <2>6. InRing(c)' = InRing(c) /\ executed'[c] = executed[c]
    BY <1>4, <2>1
  <2> QED BY <1>now, <1>then, <1>3, <2>4, <2>5, <2>6, SMTT(30)
<1>13. CASE NodeExecutes(n)
  <2>1. /\ toNode[n] # <<>> /\ toNode' = [toNode EXCEPT ![n] = Tail(toNode[n])]
        /\ ring' = ring
        /\ executed' = [executed EXCEPT ![Head(toNode[n])] = executed[Head(toNode[n])] + 1]
    BY <1>13 DEF NodeExecutes
  <2>2. PICK d \in Commands : d = Head(toNode[n])
    BY <1>base, <2>1, RingsHold
  <2>3. PICK x \in {0, 1} : x = IF d = c THEN 1 ELSE 0
    OBVIOUS
  <2>4. AtNode(c) = AtNode(c)' + x
    BY <1>7, <2>1, <2>2, <2>3
  <2>5. executed'[c] = executed[c] + x
    <3>1. executed'[c] = IF c = d THEN executed[c] + 1 ELSE executed[c]
      BY <1>5, <2>1, <2>2
    <3> QED BY <1>now, <2>3, <3>1
  <2>6. Nacked(c)' <= Nacked(c)
    <3>1. Answered' \subseteq Answered \cup {Ack(d)}
      BY <1>base, <1>13, <2>2, SouthAnswers
    <3>2. Nack(c) # Ack(d)
      BY CommandFields
    <3>3. Nacked(c)' = 1 => Nacked(c) = 1
      BY <1>2, <3>1, <3>2 DEF Nacked
    <3> QED BY <1>now, <1>then, <3>3
  <2>7. InRing(c)' = InRing(c)
    BY <1>4, <2>1
  <2> QED BY <1>now, <1>then, <1>3, <2>4, <2>5, <2>6, <2>7, SMTT(30)
\* The ring is emptied: a NACK that was not under way before is of a command
\* that was in it.
<1>14. CASE ConnectionEnds(n)
  <2>1. /\ ring' = [ring EXCEPT ![n] = <<>>] /\ toNode' = [toNode EXCEPT ![n] = <<>>]
        /\ executed' = executed
    BY <1>14 DEF ConnectionEnds
  <2>2. CASE c.node # n
    <3>1. InRing(c)' = InRing(c) /\ AtNode(c)' = AtNode(c)
      <4>1. ring'[c.node] = ring[c.node] /\ toNode'[c.node] = toNode[c.node]
        BY <1>5, <2>1, <2>2
      <4> QED BY <4>1 DEF InRing, AtNode, Count
    <3>2. Nacked(c)' = 1 => Nacked(c) = 1
      <4>1. Answered' \subseteq Answered \cup {Nack(ring[n][i]) : i \in 1 .. Len(ring[n])}
        BY <1>base, <1>14, SouthAnswers
      <4>2. ASSUME NEW i \in 1 .. Len(ring[n]) PROVE Nack(c) # Nack(ring[n][i])
        <5>1. ring[n][i].node = n /\ ring[n][i] # c
          BY <2>2 DEF PlacesInv
        <5>2. ring[n] \in Seq(Commands)
          BY <1>5
        <5>3. ring[n][i] \in Commands
          BY <5>2, ElementOfSeq
        <5> QED BY <5>1, <5>3, CommandFields
      <4> QED BY <1>2, <4>1, <4>2 DEF Nacked
    <3>3. executed'[c] = executed[c]
      BY <2>1
    <3> QED BY <1>now, <1>then, <1>3, <3>1, <3>2, <3>3, SMTT(30)
  <2>3. CASE c.node = n
    <3>1. Count(<<>>, c) = 0
      <4>1. <<>> \in Seq(Commands) /\ \A i \in 1 .. Len(<<>>) : <<>>[i] # c
        OBVIOUS
      <4> QED BY <4>1, PositionsAre
    <3>2. InRing(c)' = 0 /\ AtNode(c)' = 0
      <4>1. ring'[c.node] = <<>> /\ toNode'[c.node] = <<>>
        BY <1>5, <2>1, <2>3
      <4> QED BY <3>1, <4>1 DEF InRing, AtNode, Count
    <3>3. CASE Nacked(c)' = 1 => Nacked(c) = 1
      <4>1. executed'[c] = executed[c]
        BY <2>1
      <4> QED BY <1>now, <1>then, <1>3, <3>2, <3>3, <4>1, SMTT(30)
    <3>4. CASE Nacked(c)' = 1 /\ Nacked(c) # 1
      <4>1. Answered' \subseteq Answered \cup {Nack(ring[n][i]) : i \in 1 .. Len(ring[n])}
        BY <1>base, <1>14, SouthAnswers
      <4>2. PICK i \in 1 .. Len(ring[n]) : Nack(c) = Nack(ring[n][i])
        BY <1>2, <3>4, <4>1 DEF Nacked
      <4>3. ring[n] \in Seq(Commands)
        BY <1>5
      <4>4. ring[n][i] = c
        <5>1. ring[n][i] \in Commands
          BY <4>3, ElementOfSeq
        <5> QED BY <4>2, <5>1, CommandFields
      <4>5. Count(ring[n], c) # 0
        BY <4>3, <4>4, PositionsAre
      <4>6. InRing(c) # 0
        BY <2>3, <4>5 DEF InRing
      <4>7. executed'[c] = executed[c]
        BY <2>1
      <4> QED BY <1>now, <1>then, <1>3, <3>2, <3>4, <4>6, <4>7, SMTT(30)
    <3> QED BY <3>3, <3>4
  <2> QED BY <2>2, <2>3
<1> QED BY <1>10, <1>11, <1>12, <1>13, <1>14 DEF South

-----------------------------------------------------------------------------
(* Copies *)

LEMMA SentStays ==
    ASSUME Kept, run' = run, NEW c \in Commands, Sent(c)
    PROVE  Sent(c)'
<1>1. CASE c.run < run
  BY <1>1 DEF Sent
<1>2. ASSUME NEW i \in Tab!Slots, Tab!Used(i), Command(i) = c PROVE Sent(c)'
  BY <1>2, CommandStays DEF Sent
<1> QED BY <1>1, <1>2 DEF Sent

\* With the same commands in the table, and no more copies of any.
LEMMA CopiesStay ==
    ASSUME BaseInv, TypesInv', CopiesInv, Kept, run' = run, copies' = copies,
           \A i \in Tab!Slots : Tab!Used(i)' => Tab!Used(i),
           \A c \in Commands : Weight(c)' <= Weight(c)
    PROVE  CopiesInv'
<1>1. \A c \in Commands : Weight(c) \in Nat /\ Weight(c)' \in Nat
  BY WeightIs, WeightIsNext DEF BaseInv
<1>2. ASSUME NEW c \in Commands, Weight(c)' > 0 PROVE Sent(c)'
  <2>1. Weight(c) > 0
    BY <1>1, <1>2
  <2> QED BY <2>1, SentStays DEF CopiesInv
<1>3. ASSUME NEW i \in Tab!Slots, Tab!Used(i)' PROVE Weight(Command(i))' <= copies'[i]
  <2>1. Tab!Used(i) /\ Command(i)' = Command(i)
    BY <1>3, CommandStays
  <2>2. Command(i) \in Commands /\ copies[i] \in Nat
    BY <2>1, CommandIs, EntryIs DEF BaseInv, TypesInv, LoopTypes
  <2>3. PICK c \in Commands : c = Command(i)
    BY <2>2
  <2>4. Weight(c) <= copies[i] /\ Weight(c)' <= Weight(c)
    BY <2>1, <2>3 DEF CopiesInv
  <2>5. Weight(c)' <= copies'[i]
    BY <1>1, <2>2, <2>4
  <2>6. Command(i)' = c
    BY <2>1, <2>3
  <2> QED BY <2>5, <2>6 DEF Weight, Unread, InRing, AtNode, Nacked, NackTaken, Count
<1> QED BY <1>2, <1>3 DEF CopiesInv

\* The entries a check hands out were each counted one transmission more.
LEMMA TopCopies ==
    ASSUME BaseInv, PlacesInv, CopiesInv, TypesInv', Top
    PROVE  CopiesInv'
<1> USE DEF BaseInv
<1>1. /\ Kept /\ Tab!Emitted \subseteq Tab!Slots /\ \A i \in Tab!Emitted : Tab!Used(i)
      /\ \A i \in Tab!Slots :
            /\ copies'[i] = IF i \in Tab!Emitted THEN copies[i] + 1 ELSE copies[i]
            /\ Tab!Used(i)' <=> Tab!Used(i)
            /\ entries'[i].state \in {entries[i].state, "TIMEOUT"}
  <2>1. Tab!CheckTimeouts
    BY SameTable DEF Top
  <2> QED BY <2>1, TableChecks
<1>2. UNCHANGED <<run, gw_fd, ring, toNode, executed, queue, receive_buffer, up>>
  BY DEF Top, gateway
<1>3. /\ Handed \in Seq(Commands)
      /\ \A r \in 1 .. Len(Handed) : \E i \in Tab!Emitted : Handed[r] = Command(i)
      /\ \A q, r \in 1 .. Len(Handed) : Handed[q] = Handed[r] => q = r
  BY <1>1, HandedIs DEF TypesInv, LoopTypes
<1>4. ASSUME NEW c \in Commands
      PROVE  /\ Count(Handed, c) \in {0, 1}
             /\ Count(Handed, c) = 1 => \E i \in Tab!Emitted : c = Command(i)
  <2>1. Count(Handed, c) \in Nat /\ Count(Handed, c) <= 1
    BY <1>3, PositionsAre, CountDistinct
  <2>2. Count(Handed, c) # 0 => \E r \in 1 .. Len(Handed) : Handed[r] = c
    BY <1>3, PositionsAre
  <2> QED BY <1>3, <2>1, <2>2
<1>5. ASSUME NEW c \in Commands PROVE Weight(c)' <= Weight(c) + Count(Handed, c)
  <2>1. Answered' = Answered
    BY <1>2, AnsweredStays
  <2>2. NackTaken(c)' => NackTaken(c)
    BY <1>1, <1>2, TakenStays
  <2>3. Nacked(c)' = 1 => Nacked(c) = 1
    BY <2>1, <2>2, NackedStays
  <2>4. CASE client_fd = 0
    <3>1. down' = down
      BY <2>4 DEF Top
    <3>2. Weight(c)' <= Weight(c)
      BY <1>2, <2>3, <3>1, PlacesStay, WeightStays
    <3>3. Weight(c) \in Nat /\ Weight(c)' \in Nat
      BY WeightIs, WeightIsNext
    <3> QED BY <1>4, <3>2, <3>3
  <2>5. CASE client_fd # 0
    <3>1. client_fd \in Connections /\ SendTo(client_fd, Handed)
      BY <2>5, FdIs DEF Top, TypesInv, LoopTypes
    <3> QED BY <1>2, <1>3, <2>3, <3>1, SentWeight
  <2> QED BY <2>4, <2>5
<1>6. \A c \in Commands : Weight(c) \in Nat /\ Weight(c)' \in Nat
  BY WeightIs, WeightIsNext
<1>7. ASSUME NEW c \in Commands, Weight(c)' > 0 PROVE Sent(c)'
  <2>1. Weight(c) > 0 \/ Count(Handed, c) = 1
    BY <1>4, <1>5, <1>6, <1>7
  <2>2. Sent(c)
    <3>1. CASE Weight(c) > 0
      BY <3>1 DEF CopiesInv
    <3>2. CASE Count(Handed, c) = 1
      BY <1>1, <1>4, <3>2 DEF Sent
    <3> QED BY <2>1, <3>1, <3>2
  <2> QED BY <1>1, <1>2, <2>2, SentStays
<1>8. ASSUME NEW i \in Tab!Slots, Tab!Used(i)' PROVE Weight(Command(i))' <= copies'[i]
  <2>1. Tab!Used(i) /\ Command(i)' = Command(i)
    BY <1>1, <1>2, <1>8, CommandStays
  <2>2. run \in 0 .. MaxRestarts
    BY DEF TypesInv, LoopTypes
  <2>3. Command(i) \in Commands /\ Command(i).seq = i /\ copies[i] \in Nat
    BY <2>1, <2>2, CommandIs, EntryIs
  <2>4. PICK c \in Commands : c = Command(i)
    BY <2>3
  <2>5. Weight(c) <= copies[i]
    BY <2>1, <2>4 DEF CopiesInv
  <2>6. Count(Handed, c) = 1 => i \in Tab!Emitted
    <3> SUFFICES ASSUME Count(Handed, c) = 1 PROVE i \in Tab!Emitted
      OBVIOUS
    <3>1. PICK j \in Tab!Emitted : c = Command(j)
      BY <1>4
    <3>2. Command(j).seq = j
      BY <1>1, <2>2, <3>1, CommandIs
    <3> QED BY <2>3, <2>4, <3>1, <3>2
  <2>7. Weight(c)' <= copies'[i]
    <3>1. Weight(c)' <= Weight(c) + Count(Handed, c) /\ Count(Handed, c) \in {0, 1}
          /\ Weight(c) \in Nat /\ Weight(c)' \in Nat
      BY <1>4, <1>5, <1>6
    <3>2. copies'[i] = IF i \in Tab!Emitted THEN copies[i] + 1 ELSE copies[i]
      BY <1>1
    <3>3. CASE Count(Handed, c) = 1
      BY <2>3, <2>5, <2>6, <3>1, <3>2, <3>3
    <3>4. CASE Count(Handed, c) = 0
      BY <2>3, <2>5, <3>1, <3>2, <3>4
    <3> QED BY <3>1, <3>3, <3>4
  <2>8. Command(i)' = c
    BY <2>1, <2>4
  <2> QED BY <2>7, <2>8 DEF Weight, Unread, InRing, AtNode, Nacked, NackTaken, Count
<1> QED BY <1>7, <1>8 DEF CopiesInv

\* A new command has a number that no command of this run has.
LEMMA StdinCopies ==
    ASSUME BaseInv, PlacesInv, CopiesInv, TypesInv', Stdin
    PROVE  CopiesInv'
<1> USE DEF BaseInv
<1>1. UNCHANGED <<run, gw_fd, ring, toNode, executed, queue, receive_buffer, up>>
  BY DEF Stdin, gateway
<1>2. Answered' = Answered
  BY <1>1, AnsweredStays
<1>3. \A c \in Commands : Weight(c) \in Nat /\ Weight(c)' \in Nat
  BY WeightIs, WeightIsNext
<1>4. CASE StdinRefused
  <2>1. UNCHANGED table /\ down' = down
    BY <1>4 DEF StdinRefused
  <2>2. /\ Kept /\ copies' = copies /\ entries' = entries
        /\ \A i \in Tab!Slots : Tab!Used(i)' <=> Tab!Used(i)
    BY <2>1, TableStays
  <2>3. ASSUME NEW c \in Commands PROVE Weight(c)' <= Weight(c)
    <3>1. NackTaken(c)' => NackTaken(c)
      BY <1>1, <2>2, TakenStays
    <3>2. Nacked(c)' = 1 => Nacked(c) = 1
      BY <1>2, <3>1, NackedStays
    <3> QED BY <1>1, <2>1, <3>2, PlacesStay, WeightStays
  <2> QED BY <1>1, <2>2, <2>3, CopiesStay
<1>5. ASSUME NEW n \in Nodes, StdinSends(n) PROVE CopiesInv'
  <2>0. PICK q : q = next_sequence
    OBVIOUS
  <2>1. Tab!Send(n)
    BY <1>5, SameTable DEF StdinSends
  <2>2. TableInv' /\ Kept
    BY <2>1, TableSends
  <2>3. /\ q \in Tab!Slots /\ ~Tab!Used(q)
        /\ entries' = [entries EXCEPT
                ![q] = [state |-> "WAITING", sequence |-> q,
                        target |-> n, age |-> 0, retries |-> 0]]
        /\ copies' = [copies EXCEPT ![q] = 1]
    BY <2>0, <2>1, TableConstants, Tab!SendTakes DEF TableInv
  <2>4. /\ entries \in [Tab!Slots -> Tab!Entry] /\ copies \in [Tab!Slots -> Nat]
        /\ run \in 0 .. MaxRestarts /\ run \in Nat
    BY <2>3, EntryIs, BoundsAssumption DEF TypesInv, LoopTypes
  <2>5. PICK d \in Commands : d = [run |-> run, seq |-> q, node |-> n]
    <3>1. q \in CM!Sequences
      BY <2>0, SameTable DEF TableInv, Tab!TableInv, Tab!Types
    <3> QED BY <2>4, <3>1 DEF Commands
  <2>6. d.run = run /\ d.seq = q
    BY <2>5
  <2>7. ~Sent(d)
    <3>1. ~(d.run < run)
      BY <2>4, <2>6
    <3>2. \A i \in Tab!Slots : Tab!Used(i) => Command(i).seq = i
      BY <2>4, CommandIs
    <3> QED BY <2>3, <2>6, <3>1, <3>2 DEF Sent
  <2>8. Weight(d) = 0
    BY <1>3, <2>7 DEF CopiesInv
  <2>9. PICK cs : cs = <<d>>
    OBVIOUS
  <2>10. cs \in Seq(Commands) /\ Len(cs) = 1 /\ cs[1] = d
    BY <2>9
  <2>11. client_fd \in Connections /\ SendTo(client_fd, cs)
    <3>1. client_fd # 0 /\ SendTo(client_fd, cs)
      BY <1>5, <2>0, <2>5, <2>9 DEF StdinSends
    <3> QED BY <3>1, FdIs DEF TypesInv, LoopTypes
  <2>12. ASSUME NEW c \in Commands
         PROVE  /\ c # d => Weight(c)' <= Weight(c)
                /\ c = d => Weight(c)' <= 1
    <3>1. NackTaken(c)' => NackTaken(c)
      <4>1. \A i \in Tab!Slots :
               entries'[i].state = "NACKED" => entries[i].state = "NACKED"
        BY <2>3, <2>4
      <4> QED BY <1>1, <2>2, <4>1, TakenStays
    <3>2. Nacked(c)' = 1 => Nacked(c) = 1
      BY <1>2, <3>1, NackedStays
    <3>3. Weight(c)' <= Weight(c) + Count(cs, c)
      BY <1>1, <2>10, <2>11, <3>2, SentWeight
    <3>4. Count(cs, c) = IF d = c THEN 1 ELSE 0
      BY <2>10, CountOne
    <3>5. Weight(c) \in Nat /\ Weight(c)' \in Nat
      BY <1>3
    <3>6. CASE c # d
      BY <3>3, <3>4, <3>5, <3>6
    <3>7. CASE c = d
      <4>1. Weight(c) = 0 /\ Count(cs, c) = 1
        BY <2>8, <3>4, <3>7
      <4> QED BY <3>3, <3>7, <4>1
    <3> QED BY <3>6, <3>7
  <2>13. Tab!Used(q)' /\ Command(q)' = d /\ copies'[q] = 1
    BY <1>1, <2>3, <2>4, <2>5 DEF Tab!Used, Command
  <2>14. ASSUME NEW c \in Commands, Weight(c)' > 0 PROVE Sent(c)'
    <3>1. CASE c = d
      BY <2>3, <2>13, <3>1 DEF Sent
    <3>2. CASE c # d
      <4>1. Weight(c) > 0
        BY <1>3, <2>12, <2>14, <3>2
      <4> QED BY <1>1, <2>2, <4>1, SentStays DEF CopiesInv
    <3> QED BY <3>1, <3>2
  <2>15. ASSUME NEW i \in Tab!Slots, Tab!Used(i)' PROVE Weight(Command(i))' <= copies'[i]
    <3>1. CASE i = q
      <4>1. Weight(d)' <= copies'[i]
        BY <2>12, <2>13, <3>1
      <4>2. Command(i)' = d
        BY <2>13, <3>1
      <4> QED BY <4>1, <4>2
              DEF Weight, Unread, InRing, AtNode, Nacked, NackTaken, Count
    <3>2. CASE i # q
      <4>1. entries'[i] = entries[i] /\ copies'[i] = copies[i]
        BY <2>3, <2>4, <3>2
      <4>2. Tab!Used(i)
        BY <2>15, <4>1 DEF Tab!Used
      <4>3. Command(i)' = Command(i)
        BY <1>1, <2>2, <4>2, CommandStays
      <4>4. Command(i) \in Commands /\ Command(i).seq = i
        BY <2>4, <4>2, CommandIs
      <4>5. PICK c \in Commands : c = Command(i)
        BY <4>4
      <4>6. c # d
        BY <2>6, <3>2, <4>4, <4>5
      <4>7. Weight(c) <= copies[i]
        BY <4>2, <4>5 DEF CopiesInv
      <4>8. Weight(c)' <= copies'[i]
        BY <1>3, <2>4, <2>12, <4>1, <4>6, <4>7
      <4>9. Command(i)' = c
        BY <4>3, <4>5
      <4> QED BY <4>8, <4>9
              DEF Weight, Unread, InRing, AtNode, Nacked, NackTaken, Count
    <3> QED BY <3>1, <3>2
  <2> QED BY <2>14, <2>15 DEF CopiesInv
<1> QED BY <1>4, <1>5 DEF Stdin

\* What the earlier run has sent stays sent, and the new table is empty.
LEMMA RestartCopies ==
    ASSUME BaseInv, CopiesInv, TypesInv', Restart
    PROVE  CopiesInv'
<1> USE DEF BaseInv
<1>1. run' = run + 1 /\ run \in 0 .. MaxRestarts /\ MaxRestarts \in Nat
  BY BoundsAssumption DEF Restart, TypesInv, LoopTypes
<1>2. \A i \in Tab!Slots : ~Tab!Used(i)'
  BY TableRestarts
<1>3. ASSUME NEW c \in Commands, Weight(c)' > 0 PROVE Sent(c)'
  <2>1. Weight(c)' <= Weight(c) /\ Weight(c) \in Nat /\ Weight(c)' \in Nat
    BY RestartWeight, WeightIs, WeightIsNext
  <2>2. Weight(c) > 0
    BY <1>3, <2>1
  <2>3. Sent(c)
    BY <2>2 DEF CopiesInv
  <2>4. c.run < run \/ c.run = run
    <3>1. CASE c.run < run
      BY <3>1
    <3>2. ASSUME NEW i \in Tab!Slots, Tab!Used(i), Command(i) = c PROVE c.run = run
      BY <1>1, <3>2, CommandIs
    <3> QED BY <2>3, <3>1, <3>2 DEF Sent
  <2>5. c.run < run'
    BY <1>1, <2>4, CommandFields
  <2> QED BY <2>5 DEF Sent
<1> QED BY <1>2, <1>3 DEF CopiesInv

LEMMA CopiesKept ==
    ASSUME BaseInv, PlacesInv, CopiesInv, BaseInv', [Next]_vars
    PROVE  CopiesInv'
<1> USE DEF BaseInv
<1>1. CASE Top
  BY <1>1, TopCopies
<1>2. CASE Stdin
  BY <1>2, StdinCopies
<1>3. CASE Restart
  BY <1>3, RestartCopies
<1>4. CASE \/ Poll \/ Accept \/ AcceptFails \/ Receive \/ ReceiveEnds \/ OnLine
           \/ LinesDone \/ HangUp \/ Second \/ UNCHANGED vars
  <2>1. \A c \in Commands : Weight(c)' <= Weight(c)
    BY <1>4, QuietWeight
  <2>2. run' = run
    BY <1>4 DEF Poll, Accept, Replace, AcceptFails, Receive, ReceiveEnds, OnLine,
                LinesDone, HangUp, Drop, Second, vars, loop
  <2>3. Kept /\ copies' = copies /\ \A i \in Tab!Slots : Tab!Used(i)' => Tab!Used(i)
    <3>1. CASE OnLine
      BY <3>1, OnLineTable DEF TypesInv
    <3>2. CASE Second
      <4>1. Tab!Tick
        BY <3>2, SameTable DEF Second
      <4> QED BY <4>1, TableTicks DEF Tab!Used
    <3>3. CASE Poll \/ Accept \/ AcceptFails \/ Receive \/ ReceiveEnds \/ LinesDone
               \/ HangUp \/ UNCHANGED vars
      <4>1. UNCHANGED table
        BY <3>3 DEF Poll, Accept, Replace, AcceptFails, Receive, ReceiveEnds, LinesDone,
                    HangUp, Drop, vars
      <4> QED BY <4>1, TableStays
    <3> QED BY <1>4, <3>1, <3>2, <3>3
  <2> QED BY <2>1, <2>2, <2>3, CopiesStay
<1>5. CASE Link \/ \E n \in Nodes : South(n)
  <2>1. \A c \in Commands : Weight(c)' <= Weight(c)
    BY <1>5, LinkWeight, SouthWeight
  <2>2. run' = run /\ UNCHANGED table
    BY <1>5 DEF Link, Connect, LinkSends, LinkSendFails, LinkDisconnects, LinkRoutes,
                LinkRefuses, South, Delivers, DeliveryFails, ConnectionEnds,
                NodeExecutes, NodeRefuses, loop
  <2>3. Kept /\ copies' = copies /\ \A i \in Tab!Slots : Tab!Used(i)' => Tab!Used(i)
    BY <2>2, TableStays
  <2> QED BY <2>1, <2>2, <2>3, CopiesStay
<1> QED BY <1>1, <1>2, <1>3, <1>4, <1>5 DEF Next, Loop

-----------------------------------------------------------------------------
(* Acknowledgements *)

LEMMA ExecutedGrows ==
    ASSUME TypesInv, [Next]_vars, NEW c \in Commands
    PROVE  executed[c] \in Nat /\ executed'[c] \in Nat /\ executed'[c] >= executed[c]
<1>1. executed \in [Commands -> Nat]
  BY DEF TypesInv, SouthTypes
<1>2. CASE \E n \in Nodes : NodeExecutes(n)
  <2>1. PICK n \in Nodes : NodeExecutes(n)
    BY <1>2
  <2>2. PICK d : executed' = [executed EXCEPT ![d] = executed[d] + 1]
    BY <2>1 DEF NodeExecutes
  <2> QED BY <1>1, <2>2
<1>3. CASE ~\E n \in Nodes : NodeExecutes(n)
  <2>1. CASE Loop
    <3>1. executed' = executed
      BY <2>1, SMTT(30) DEF Loop, Top, Poll, Stdin, Accept, Replace, AcceptFails, Receive,
                            ReceiveEnds, OnLine, LinesDone, HangUp, Drop
    <3> QED BY <1>1, <3>1
  <2>2. CASE Link
    <3>1. executed' = executed
      BY <2>2 DEF Link, Connect, LinkSends, LinkSendFails, LinkDisconnects,
                  LinkRoutes, LinkRefuses
    <3> QED BY <1>1, <3>1
  <2>3. ASSUME NEW n \in Nodes, South(n) PROVE executed' = executed
    BY <1>3, <2>3 DEF South, Delivers, DeliveryFails, ConnectionEnds, NodeRefuses
  <2>4. CASE Restart \/ Second \/ UNCHANGED vars
    BY <1>1, <2>4 DEF Restart, Second, vars
  <2> QED BY <1>1, <2>1, <2>2, <2>3, <2>4 DEF Next
<1> QED BY <1>2, <1>3

\* Where an acknowledgement under way comes from.
LEMMA AcksUnderWay ==
    ASSUME BaseInv, AcksInv, [Next]_vars, NEW m \in Answered', m.type = "ACK"
    PROVE  executed'[m.command] > 0
<1> USE DEF BaseInv
<1>1. m \in Messages /\ m.command \in Commands
  BY MessageFields DEF Answered
<1>2. ASSUME m \in Answered PROVE executed'[m.command] > 0
  <2>1. executed[m.command] > 0
    BY <1>2 DEF AcksInv
  <2> QED BY <1>1, <2>1, ExecutedGrows
<1>3. CASE Loop
  BY <1>2, <1>3, LoopAnswers
<1>4. CASE Restart
  <2>1. Answered' \subseteq Answered
    BY <1>4, AnsweredEnds DEF Restart, gateway
  <2> QED BY <1>2, <2>1
<1>5. CASE Second \/ UNCHANGED vars
  <2>1. Answered' = Answered
    BY <1>5, AnsweredStays DEF Second, vars, links, gateway, loop
  <2> QED BY <1>2, <2>1
<1>6. ASSUME NEW d PROVE m # Nack(d)
  BY DEF Nack
<1>7. CASE Link
  <2>1. Answered' \subseteq Answered \cup {Nack(Head(down[gw_fd]))}
    BY <1>7, LinkAnswers DEF Link
  <2> QED BY <1>2, <1>6, <2>1
<1>8. ASSUME NEW n \in Nodes, South(n) PROVE executed'[m.command] > 0
  <2>1. CASE Delivers(n) \/ DeliveryFails(n) \/ NodeRefuses(n)
    BY <1>2, <1>6, <2>1, SouthAnswers
  <2>2. CASE ConnectionEnds(n)
    <3>1. Answered' \subseteq Answered \cup {Nack(ring[n][i]) : i \in 1 .. Len(ring[n])}
      BY <2>2, SouthAnswers
    <3> QED BY <1>2, <1>6, <3>1
  <2>3. CASE NodeExecutes(n)
    <3>1. toNode[n] # <<>>
          /\ executed' = [executed EXCEPT ![Head(toNode[n])] = executed[Head(toNode[n])] + 1]
      BY <2>3 DEF NodeExecutes
    <3>2. PICK d \in Commands : d = Head(toNode[n])
      <4>1. toNode[n] \in Seq(Commands)
        BY DEF TypesInv, SouthTypes
      <4> QED BY <3>1, <4>1
    <3>3. executed'[d] > 0
      BY <3>1, <3>2 DEF TypesInv, SouthTypes
    <3>4. m \in Answered \/ m = Ack(d)
      BY <2>3, <3>2, SouthAnswers
    <3> QED BY <1>2, <3>2, <3>3, <3>4, CommandFields
  <2> QED BY <1>8, <2>1, <2>2, <2>3 DEF South
<1> QED BY <1>3, <1>4, <1>5, <1>7, <1>8 DEF Next

\* A command, as an earlier run may have issued it.
LEMMA EarlierIs ==
    ASSUME NEW c \in Commands, NEW r \in 0 .. c.run
    PROVE  [c EXCEPT !.run = r] \in Commands
  BY BoundsAssumption DEF Commands

\* An acknowledgement that decides a command is of it, or of its number and
\* node in an earlier run.
LEMMA OnLineAcks ==
    ASSUME BaseInv, CopiesInv, AcksInv, OnLine, NEW i \in Tab!Slots,
           entries'[i].state = "ACKED", entries[i].state # "ACKED"
    PROVE  \E r \in 0 .. run : executed[[Command(i) EXCEPT !.run = r]] > 0
<1> USE DEF BaseInv
<1>1. PICK m \in Messages, e \in Tab!Slots :
         /\ m = receive_buffer[1].message
         /\ Tab!Used(e)
         /\ entries[e].sequence = m.command.seq
         /\ entries[e].target = m.command.node
         /\ entries' = [entries EXCEPT
                ![e].state = IF m.type = "ACK" THEN "ACKED" ELSE "NACKED"]
  BY OnLineTable DEF TypesInv
<1>2. i = e /\ m.type = "ACK"
  <2>1. entries \in [Tab!Slots -> Tab!Entry] /\ entries[e] \in Tab!Entry
    BY EntryIs
  <2>2. i = e
    BY <1>1, <2>1
  <2>3. entries'[e].state = IF m.type = "ACK" THEN "ACKED" ELSE "NACKED"
    BY <1>1, <2>1 DEF Tab!Entry
  <2> QED BY <2>2, <2>3
<1>3. PICK d \in Commands : d = m.command
  BY MessageFields
<1>4. executed[d] > 0
  BY <1>1, <1>2, <1>3, OnLineAnswers DEF AcksInv
<1>5. run \in 0 .. MaxRestarts /\ run \in Nat
  BY BoundsAssumption DEF TypesInv, LoopTypes
<1>6. d.run \in 0 .. run
  <2>1. Weight(d) > 0
    BY <1>4, WeightIs
  <2>2. Sent(d)
    BY <2>1 DEF CopiesInv
  <2>3. d.run < run \/ d.run = run
    <3>1. ASSUME NEW j \in Tab!Slots, Tab!Used(j), Command(j) = d PROVE d.run = run
      BY <1>5, <3>1, CommandIs
    <3> QED BY <2>2, <3>1 DEF Sent
  <2> QED BY <1>5, <2>3, CommandFields
<1>7. [Command(i) EXCEPT !.run = d.run] = d
  <2>1. Command(i).seq = d.seq /\ Command(i).node = d.node
    BY <1>1, <1>2, <1>3 DEF Command
  <2>2. Command(i) \in Commands
    BY <1>1, <1>2, <1>5, CommandIs
  <2> QED BY <2>1, <2>2 DEF Commands
<1> QED BY <1>4, <1>6, <1>7

LEMMA AcksKept ==
    ASSUME BaseInv, CopiesInv, AcksInv, [Next]_vars
    PROVE  AcksInv'
<1> USE DEF BaseInv
<1>1. run \in 0 .. MaxRestarts /\ run \in Nat
  BY BoundsAssumption DEF TypesInv, LoopTypes
\* A decision that stays is still true.
<1>2. ASSUME NEW i \in Tab!Slots, Kept, run' = run, Tab!Used(i),
             \E r \in 0 .. run : executed[[Command(i) EXCEPT !.run = r]] > 0
      PROVE  \E r \in 0 .. run' : executed'[[Command(i)' EXCEPT !.run = r]] > 0
  <2>1. PICK r \in 0 .. run : executed[[Command(i) EXCEPT !.run = r]] > 0
    BY <1>2
  <2>2. PICK c \in Commands : c = Command(i) /\ c.run = run
    BY <1>1, <1>2, CommandIs
  <2>3. PICK d \in Commands : d = [c EXCEPT !.run = r]
    BY <2>2, EarlierIs
  <2>4. executed'[d] > 0
    BY <2>1, <2>2, <2>3, ExecutedGrows
  <2>5. Command(i)' = c
    BY <1>2, <2>2, CommandStays
  <2> QED BY <1>2, <2>3, <2>4, <2>5
<1>3. ASSUME NEW i \in Tab!Slots, entries'[i].state = "ACKED"
      PROVE  \E r \in 0 .. run' : executed'[[Command(i)' EXCEPT !.run = r]] > 0
  <2>1. ASSUME Kept, run' = run, entries[i].state = "ACKED"
        PROVE  \E r \in 0 .. run' : executed'[[Command(i)' EXCEPT !.run = r]] > 0
    <3>1. Tab!Used(i)
      BY <2>1 DEF Tab!Used
    <3> QED BY <1>2, <2>1, <3>1 DEF AcksInv
  <2>2. ASSUME UNCHANGED table, run' = run
        PROVE  \E r \in 0 .. run' : executed'[[Command(i)' EXCEPT !.run = r]] > 0
    <3>1. Kept /\ entries[i].state = "ACKED"
      BY <1>3, <2>2, TableStays
    <3> QED BY <2>1, <2>2, <3>1
  <2>3. CASE Top
    <3>1. Tab!CheckTimeouts
      BY <2>3, SameTable DEF Top
    <3>2. Kept /\ entries[i].state = "ACKED"
      BY <1>3, <3>1, TableChecks
    <3>3. run' = run
      BY <2>3 DEF Top
    <3> QED BY <2>1, <3>2, <3>3
  <2>4. CASE Stdin
    <3>1. CASE StdinRefused
      BY <2>2, <2>4, <3>1 DEF Stdin, StdinRefused
    <3>2. ASSUME NEW n \in Nodes, StdinSends(n)
          PROVE  \E r \in 0 .. run' : executed'[[Command(i)' EXCEPT !.run = r]] > 0
      <4>1. Tab!Send(n)
        BY <3>2, SameTable DEF StdinSends
      <4>2. /\ next_sequence \in Tab!Slots
            /\ entries' = [entries EXCEPT
                    ![next_sequence] = [state |-> "WAITING", sequence |-> next_sequence,
                                        target |-> n, age |-> 0, retries |-> 0]]
        BY <4>1, TableConstants, Tab!SendTakes DEF TableInv
      <4>3. entries[i].state = "ACKED"
        BY <1>3, <4>2, EntryIs
      <4>4. Kept /\ run' = run
        BY <2>4, <4>1, TableSends DEF Stdin
      <4> QED BY <2>1, <4>3, <4>4
    <3> QED BY <2>4, <3>1, <3>2 DEF Stdin
  <2>5. CASE OnLine
    <3>1. Kept /\ run' = run /\ (Tab!Used(i)' <=> Tab!Used(i))
      BY <2>5, OnLineTable DEF OnLine, TypesInv
    <3>2. CASE entries[i].state = "ACKED"
      BY <2>1, <3>1, <3>2
    <3>3. CASE entries[i].state # "ACKED"
      <4>1. Tab!Used(i)
        BY <1>3, <3>1 DEF Tab!Used
      <4> QED BY <1>2, <1>3, <2>5, <3>1, <3>3, <4>1, OnLineAcks
    <3> QED BY <3>2, <3>3
  <2>6. CASE Second
    <3>1. Tab!Tick /\ run' = run
      BY <2>6, SameTable DEF Second, loop
    <3>2. Kept /\ entries[i].state = "ACKED"
      BY <1>3, <3>1, TableTicks
    <3> QED BY <2>1, <3>1, <3>2
  <2>7. CASE Restart
    BY <1>3, <2>7, TableRestarts
  <2>8. CASE Poll \/ Accept \/ AcceptFails \/ Receive \/ ReceiveEnds \/ LinesDone \/ HangUp
             \/ UNCHANGED vars
    <3>1. UNCHANGED table /\ run' = run
      BY <2>8 DEF Poll, Accept, Replace, AcceptFails, Receive, ReceiveEnds, LinesDone,
                  HangUp, Drop, vars, loop
    <3> QED BY <2>2, <3>1
  <2>9. CASE Link \/ \E n \in Nodes : South(n)
    <3>1. UNCHANGED table /\ run' = run
      BY <2>9 DEF Link, Connect, LinkSends, LinkSendFails, LinkDisconnects, LinkRoutes,
                  LinkRefuses, South, Delivers, DeliveryFails, ConnectionEnds,
                  NodeExecutes, NodeRefuses, loop
    <3> QED BY <2>2, <3>1
  <2> QED BY <2>3, <2>4, <2>5, <2>6, <2>7, <2>8, <2>9 DEF Next, Loop
<1>4. \A m \in Answered' : m.type = "ACK" => executed'[m.command] > 0
  BY AcksUnderWay
<1>5. \A i \in Tab!Slots : entries'[i].state = "ACKED" =>
         \E r \in 0 .. run' : executed'[[Command(i)' EXCEPT !.run = r]] > 0
  BY <1>3
<1> QED BY <1>4, <1>5 DEF AcksInv

-----------------------------------------------------------------------------
(* What the answers mean *)

\* The whole inductive invariant.
ServerInv == BaseInv /\ PlacesInv /\ CopiesInv /\ AcksInv

LEMMA InitServer == Init => ServerInv
<1> SUFFICES ASSUME Init PROVE ServerInv
  OBVIOUS
<1>1. BaseInv
  BY InitBase
<1>2. /\ run = 0 /\ gw_fd = 0 /\ queue = <<>> /\ receive_buffer = <<>>
      /\ \A k \in Connections : up[k] = <<>> /\ down[k] = <<>>
      /\ \A n \in Nodes : ring[n] = <<>> /\ toNode[n] = <<>>
      /\ \A c \in Commands : executed[c] = 0
  BY DEF Init
<1>3. \A i \in Tab!Slots : entries[i].state = "FREE"
  BY SameTable DEF Init, Tab!Init
<1>4. PlacesInv
  BY <1>2 DEF PlacesInv
<1>5. Answered = {}
  BY <1>2 DEF Answered, InText
<1>6. ASSUME NEW c \in Commands PROVE Weight(c) = 0
  <2>1. Count(<<>>, c) = 0
    <3>1. <<>> \in Seq(Commands) /\ \A i \in 1 .. Len(<<>>) : <<>>[i] # c
      OBVIOUS
    <3> QED BY <3>1, PositionsAre
  <2>2. Unread(c) = 0 /\ InRing(c) = 0 /\ AtNode(c) = 0
    BY <1>2, <2>1, CommandFields DEF Unread, ToGateway, InRing, AtNode
  <2>3. Nacked(c) = 0
    BY <1>3, <1>5 DEF Nacked, NackTaken
  <2> QED BY <1>2, <2>2, <2>3 DEF Weight
<1>7. CopiesInv
  BY <1>3, <1>6 DEF CopiesInv, Tab!Used
<1>8. AcksInv
  BY <1>3, <1>5 DEF AcksInv
<1> QED BY <1>1, <1>4, <1>7, <1>8 DEF ServerInv

LEMMA ServerInvCorrect == Spec => []ServerInv
<1>1. ServerInv /\ [Next]_vars => ServerInv'
  BY BaseKept, PlacesKept, CopiesKept, AcksKept DEF ServerInv
<1> QED BY InitServer, <1>1, PTL DEF Spec

\* Connections, queues and rings may lose a command, and the server may send it
\* again; but a node never executes it more often than the server sent it.
THEOREM NeverMultiplied == Spec => []ExecutedNoMoreThanSent
<1>1. ServerInv => ExecutedNoMoreThanSent
  <2> SUFFICES ASSUME ServerInv, NEW i \in Tab!Slots, Tab!Used(i)
               PROVE  executed[Command(i)] <= copies[i]
    BY SameTable DEF ExecutedNoMoreThanSent
  <2>1. Command(i) \in Commands /\ copies[i] \in Nat
    BY CommandIs, EntryIs DEF ServerInv, BaseInv, TypesInv, LoopTypes
  <2>2. PICK c \in Commands : c = Command(i)
    BY <2>1
  <2>3. Weight(c) <= copies[i]
    BY <2>2 DEF ServerInv, CopiesInv
  <2>4. /\ Unread(c) \in Nat /\ InRing(c) \in Nat /\ AtNode(c) \in Nat
        /\ executed[c] \in Nat /\ Nacked(c) \in {0, 1}
        /\ Weight(c) = Unread(c) + InRing(c) + AtNode(c) + executed[c] + Nacked(c)
    BY WeightIs DEF ServerInv, BaseInv
  <2>5. executed[c] <= copies[i]
    BY <2>1, <2>3, <2>4
  <2> QED BY <2>2, <2>5
<1> QED BY <1>1, ServerInvCorrect, PTL

\* A command that is reported as failed and was executed all the same had been
\* sent a second time: the NACK that decided it stands for another copy.
THEOREM NackIsOfACopy == Spec => []NackedYetExecutedOnlyIfResent
<1>1. ServerInv => NackedYetExecutedOnlyIfResent
  <2> SUFFICES ASSUME ServerInv, NEW i \in Tab!Slots, entries[i].state = "NACKED",
                      executed[Command(i)] > 0, run = 0
               PROVE  copies[i] > 1
    BY SameTable DEF NackedYetExecutedOnlyIfResent
  <2>1. Tab!Used(i)
    BY DEF Tab!Used
  <2>2. Command(i) \in Commands /\ copies[i] \in Nat
    BY <2>1, CommandIs, EntryIs DEF ServerInv, BaseInv, TypesInv, LoopTypes
  <2>3. PICK c \in Commands : c = Command(i)
    BY <2>2
  <2>4. Nacked(c) = 1
    BY <2>3 DEF Nacked, NackTaken
  <2>5. Weight(c) <= copies[i]
    BY <2>1, <2>3 DEF ServerInv, CopiesInv
  <2>6. /\ Unread(c) \in Nat /\ InRing(c) \in Nat /\ AtNode(c) \in Nat
        /\ executed[c] \in Nat
        /\ Weight(c) = Unread(c) + InRing(c) + AtNode(c) + executed[c] + Nacked(c)
    BY WeightIs DEF ServerInv, BaseInv
  <2>7. executed[c] > 0
    BY <2>3
  <2> QED BY <2>2, <2>4, <2>5, <2>6, <2>7
<1> QED BY <1>1, ServerInvCorrect, PTL

\* An ACK that decides a command is of that command, or, after a restart, of
\* one with the same number and node: one of the two was executed.
THEOREM AckIsOfAnExecution == Spec => []FalseAckOnlyAfterRestart
<1>1. ServerInv => FalseAckOnlyAfterRestart
  BY SameTable DEF ServerInv, AcksInv, FalseAckOnlyAfterRestart
<1> QED BY <1>1, ServerInvCorrect, PTL
=============================================================================
