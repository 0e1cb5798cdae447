------------------------ MODULE CommandManagerProofs ------------------------
(***************************************************************************)
(* Proofs about CommandManager for tables of any size, any timeout and any *)
(* number of retries: types, unique sequence numbers, final states that    *)
(* stay final, and timeouts that are not early, and come after all the     *)
(* retries there was room for.                                             *)
(***************************************************************************)
EXTENDS CommandManager, FiniteSetTheorems, WellFoundedInduction, TLAPS

\* How long a command must have waited, from its retries and its age.
Waited(i) == entries[i].retries * TimeoutSec + entries[i].age

\* Entries are filled in order and never freed, so that the i-th one carries
\* the sequence number i and the numbers do not come round.
Numbered == /\ next_sequence \in 1 .. MaxCommands + 1
            /\ \A i \in Slots : /\ Used(i) <=> i < next_sequence
                                /\ Used(i) => entries[i].sequence = i

\* The time that passed pays for the retries, and each of them was counted.
Paid == \A i \in Slots :
    /\ Waiting(i) => elapsed[i] >= Waited(i)
    /\ entries[i].state = "TIMEOUT" => elapsed[i] >= Allowance
    /\ copies[i] <= entries[i].retries + 1

\* The types but for copies, which Paid bounds.
Types == /\ entries \in [Slots -> Entry]
         /\ next_sequence \in Sequences \ {0}
         /\ copies \in [Slots -> Nat]
         /\ elapsed \in [Slots -> 0 .. Allowance]

\* The inductive invariant.
TableInv == Types /\ Numbered /\ Paid

-----------------------------------------------------------------------------
LEMMA AllowanceIs ==
    /\ Allowance \in Nat
    /\ Allowance = MaxRetries * TimeoutSec + TimeoutSec
    /\ \A r \in 0 .. MaxRetries : /\ r * TimeoutSec \in Nat
                                  /\ (r + 1) * TimeoutSec = r * TimeoutSec + TimeoutSec
                                  /\ r * TimeoutSec <= MaxRetries * TimeoutSec
<1>1. MaxRetries \in Nat /\ TimeoutSec \in Nat
  BY SizesAssumption
<1>2. \A r, t \in Nat : /\ r * t \in Nat
                        /\ (r + 1) * t = r * t + t
  OBVIOUS
<1>3. \A r, s, t \in Nat : r <= s => r * t <= s * t
  OBVIOUS
<1> QED
  BY <1>1, <1>2, <1>3 DEF Allowance

\* The fields of an entry.
LEMMA Fields ==
    ASSUME Types, NEW i \in Slots
    PROVE  /\ entries[i] \in Entry
           /\ entries[i].age \in Nat /\ entries[i].age <= TimeoutSec
           /\ entries[i].retries \in Nat /\ entries[i].retries <= MaxRetries
           /\ copies[i] \in Nat
           /\ elapsed[i] \in Nat /\ elapsed[i] <= Allowance
           /\ TimeoutSec \in Nat /\ MaxRetries \in Nat /\ Allowance \in Nat
<1>1. entries[i] \in Entry /\ copies[i] \in Nat /\ elapsed[i] \in 0 .. Allowance
  BY DEF Types
<1>2. TimeoutSec \in Nat /\ MaxRetries \in Nat /\ Allowance \in Nat
  BY SizesAssumption, AllowanceIs
<1>3. entries[i].age \in 0 .. TimeoutSec /\ entries[i].retries \in 0 .. MaxRetries
  BY <1>1 DEF Entry
<1> QED
  BY <1>1, <1>2, <1>3

LEMMA AtMostIs ==
    ASSUME NEW b \in Nat, NEW v \in Nat
    PROVE  /\ AtMost(b, v) \in 0 .. b
           /\ AtMost(b, v) = v \/ (AtMost(b, v) = b /\ b <= v)
  BY DEF AtMost

\* The table is as the proofs take it at the start.
LEMMA InitTable == Init => TableInv
<1> SUFFICES ASSUME Init PROVE TableInv
  OBVIOUS
<1>1. Types
  BY SizesAssumption, AllowanceIs
     DEF Init, Types, Entry, Sequences, States
<1>2. Numbered
  BY SizesAssumption DEF Init, Numbered, Used, Slots
<1>3. Paid
  BY SizesAssumption DEF Init, Paid, Waiting
<1> QED
  BY <1>1, <1>2, <1>3 DEF TableInv

\* A command takes the entry whose index is the next sequence number.
LEMMA SendTakes ==
    ASSUME TableInv, NEW n \in Nodes, Send(n)
    PROVE  /\ next_sequence \in Slots /\ ~Used(next_sequence)
           /\ entries' = [entries EXCEPT
                   ![next_sequence] = [state |-> "WAITING", sequence |-> next_sequence,
                                       target |-> n, age |-> 0, retries |-> 0]]
           /\ copies' = [copies EXCEPT ![next_sequence] = 1]
           /\ elapsed' = [elapsed EXCEPT ![next_sequence] = 0]
<1> USE DEF TableInv
<1>1. PICK i \in Slots :
         /\ FirstFree(i)
         /\ entries' = [entries EXCEPT
                          ![i] = [state |-> "WAITING", sequence |-> next_sequence,
                                  target |-> n, age |-> 0, retries |-> 0]]
         /\ copies' = [copies EXCEPT ![i] = 1]
         /\ elapsed' = [elapsed EXCEPT ![i] = 0]
  BY DEF Send
<1>2. i = next_sequence
  <2>1. i \in Nat /\ i <= MaxCommands /\ MaxCommands \in Nat
    BY SizesAssumption DEF Slots
  <2>2. ~(i < next_sequence)
    BY <1>1 DEF FirstFree, Numbered
  <2>3. ~(next_sequence < i)
    <3> SUFFICES ASSUME next_sequence < i PROVE FALSE
      OBVIOUS
    <3>1. next_sequence \in 1 .. i - 1 /\ next_sequence \in Slots
      BY <2>1 DEF Numbered, Slots
    <3>2. Used(next_sequence)
      BY <1>1, <3>1 DEF FirstFree
    <3> QED
      BY <3>1, <3>2 DEF Numbered
  <2> QED
    BY <2>1, <2>2, <2>3 DEF Numbered
<1> QED
  BY <1>1, <1>2 DEF FirstFree

LEMMA SendKeeps ==
    ASSUME TableInv, NEW n \in Nodes, Send(n)
    PROVE  TableInv'
<1> USE DEF TableInv
<1> DEFINE i == next_sequence
<1>1. /\ i \in Slots
      /\ entries' = [entries EXCEPT
                       ![i] = [state |-> "WAITING", sequence |-> next_sequence,
                               target |-> n, age |-> 0, retries |-> 0]]
      /\ copies' = [copies EXCEPT ![i] = 1]
      /\ elapsed' = [elapsed EXCEPT ![i] = 0]
  BY SendTakes
<1>2. i = next_sequence
  OBVIOUS
<1> HIDE DEF i
<1>3. next_sequence' = next_sequence + 1 /\ next_sequence + 1 \in Sequences \ {0}
  <2>1. next_sequence + 1 \in 1 .. SequenceModulus - 1
    BY <1>1, <1>2, SizesAssumption DEF Slots
  <2>2. (next_sequence + 1) % SequenceModulus = next_sequence + 1
    BY <2>1, SizesAssumption
  <2> QED
    BY <2>1, <2>2 DEF Send, Successor, Sequences
<1>4. Types'
  <2>1. [state |-> "WAITING", sequence |-> next_sequence, target |-> n,
         age |-> 0, retries |-> 0] \in Entry
    BY SizesAssumption DEF Types, Entry, States
  <2> QED
    BY <1>1, <1>3, <2>1, AllowanceIs DEF Types
<1>5. Numbered'
  BY <1>1, <1>2, <1>3, SizesAssumption DEF Numbered, Used, Types, Slots
<1>6. Paid'
  <2> SUFFICES ASSUME NEW j \in Slots
               PROVE  /\ Waiting(j)' => elapsed'[j] >= Waited(j)'
                      /\ entries'[j].state = "TIMEOUT" => elapsed'[j] >= Allowance
                      /\ copies'[j] <= entries'[j].retries + 1
    BY DEF Paid
  <2>1. CASE j = i
    BY <1>1, <2>1, SizesAssumption DEF Types, Waiting, Waited
  <2>2. CASE j # i
    BY <1>1, <2>2 DEF Types, Paid, Waiting, Waited
  <2> QED
    BY <2>1, <2>2
<1> QED
  BY <1>4, <1>5, <1>6

\* The entry that is found carries the number that was looked for.
LEMMA FoundIs ==
    ASSUME TableInv, NEW s, NEW n, Accepts(s, n)
    PROVE  LET e == FindEntry(s)
           IN  /\ e \in Slots /\ Waiting(e) /\ Used(e)
               /\ entries[e].sequence = s /\ entries[e].target = n
<1> USE DEF TableInv
<1>1. PICK i \in Slots : Used(i) /\ entries[i].sequence = s
  BY DEF Accepts, Found
<1>2. \A j \in 1 .. i - 1 : ~(Used(j) /\ entries[j].sequence = s)
  <2> SUFFICES ASSUME NEW j \in 1 .. i - 1, Used(j), entries[j].sequence = s
               PROVE  FALSE
    OBVIOUS
  <2>1. j \in Slots /\ j # i
    BY SizesAssumption DEF Slots
  <2> QED
    BY <1>1, <2>1 DEF Numbered
<1>3. FindEntry(s) \in Slots /\ Used(FindEntry(s)) /\ entries[FindEntry(s)].sequence = s
  BY <1>1, <1>2 DEF FindEntry
<1> QED
  BY <1>3 DEF Accepts

\* An answer decides a command that waits.
LEMMA AnswerKeeps ==
    ASSUME TableInv, NEW s \in Sequences, NEW n \in Nodes,
           NEW result \in {"ACKED", "NACKED"}, Answer(s, n, result)
    PROVE  TableInv'
<1> USE DEF TableInv
<1> DEFINE e == FindEntry(s)
<1>1. e \in Slots /\ Waiting(e)
  BY FoundIs DEF Answer
<1>2. /\ entries' = [entries EXCEPT ![e].state = result]
      /\ UNCHANGED <<next_sequence, copies, elapsed>>
  BY DEF Answer
<1> HIDE DEF e
<1>3. Types'
  BY <1>1, <1>2 DEF Types, Entry, States
<1>4. Numbered'
  BY <1>1, <1>2 DEF Types, Entry, Numbered, Used, Waiting
<1>5. Paid'
  BY <1>1, <1>2 DEF Types, Entry, Paid, Waiting, Waited
<1> QED
  BY <1>3, <1>4, <1>5

\* A check charges a retry with one timeout of the time waited.
LEMMA CheckKeeps ==
    ASSUME TableInv, CheckTimeouts
    PROVE  TableInv'
<1> USE DEF TableInv
<1>1. /\ Retry \subseteq Due /\ Due \subseteq Slots /\ Emitted \subseteq Retry
      /\ \A i \in Due : Waiting(i) /\ entries[i].age >= TimeoutSec
      /\ \A i \in Due : i \in Retry <=> entries[i].retries < MaxRetries
  BY DEF Retry, Due, Emitted
<1>2. /\ entries' = [i \in Slots |->
            IF i \in Retry
            THEN [entries[i] EXCEPT !.retries = @ + 1, !.age = 0]
            ELSE IF i \in Due THEN [entries[i] EXCEPT !.state = "TIMEOUT"]
                              ELSE entries[i]]
      /\ copies' = [i \in Slots |-> IF i \in Emitted THEN copies[i] + 1 ELSE copies[i]]
      /\ UNCHANGED <<next_sequence, elapsed>>
  BY DEF CheckTimeouts
<1>3. ASSUME NEW i \in Retry
      PROVE  /\ entries'[i] = [entries[i] EXCEPT !.retries = entries[i].retries + 1,
                                                 !.age = 0]
             /\ Waiting(i) /\ entries[i].age >= TimeoutSec
             /\ entries[i].retries < MaxRetries
  BY <1>1, <1>2
<1>4. ASSUME NEW i \in Due, i \notin Retry
      PROVE  /\ entries'[i] = [entries[i] EXCEPT !.state = "TIMEOUT"]
             /\ Waiting(i) /\ entries[i].age >= TimeoutSec
             /\ ~(entries[i].retries < MaxRetries)
  BY <1>1, <1>2, <1>4
<1>5. ASSUME NEW i \in Slots, i \notin Due
      PROVE  entries'[i] = entries[i]
  BY <1>1, <1>2, <1>5
<1>6. ASSUME NEW i \in Slots
      PROVE  copies'[i] = copies[i] \/ (i \in Retry /\ copies'[i] = copies[i] + 1)
  BY <1>1, <1>2
<1>7. Types'
  <2>1. ASSUME NEW i \in Slots PROVE entries'[i] \in Entry
    <3>1. entries[i] \in Entry
      BY Fields
    <3>2. CASE i \in Retry
      <4>1. entries[i].retries + 1 \in 0 .. MaxRetries /\ 0 \in 0 .. TimeoutSec
        <5>1. entries[i].retries \in Nat /\ TimeoutSec \in Nat /\ MaxRetries \in Nat
          BY Fields
        <5>2. entries[i].retries < MaxRetries
          BY <1>3, <3>2
        <5> QED
          BY <5>1, <5>2
      <4> QED
        BY <1>3, <3>1, <3>2, <4>1 DEF Entry
    <3>3. CASE i \in Due /\ i \notin Retry
      BY <1>4, <3>1, <3>3 DEF Entry, States
    <3> QED
      BY <1>1, <1>5, <3>1, <3>2, <3>3
  <2>2. ASSUME NEW i \in Slots PROVE copies'[i] \in Nat
    BY <1>6, Fields
  <2> QED
    BY <1>2, <2>1, <2>2 DEF Types
<1>8. Numbered'
  <2>1. ASSUME NEW i \in Slots
        PROVE  entries'[i].sequence = entries[i].sequence /\ (Used(i)' <=> Used(i))
    <3>1. entries[i] \in Entry
      BY Fields
    <3>2. CASE i \in Retry
      BY <1>3, <3>1, <3>2 DEF Entry, Used, Waiting
    <3>3. CASE i \in Due /\ i \notin Retry
      BY <1>4, <3>1, <3>3 DEF Entry, Used, Waiting
    <3> QED
      BY <1>1, <1>5, <3>2, <3>3 DEF Used
  <2> QED
    BY <1>2, <2>1 DEF Numbered
<1>9. Paid'
  <2> SUFFICES ASSUME NEW i \in Slots
               PROVE  /\ Waiting(i)' => elapsed'[i] >= Waited(i)'
                      /\ entries'[i].state = "TIMEOUT" => elapsed'[i] >= Allowance
                      /\ copies'[i] <= entries'[i].retries + 1
    BY DEF Paid
  <2>1. /\ entries[i] \in Entry /\ elapsed'[i] = elapsed[i]
        /\ Waiting(i) => elapsed[i] >= Waited(i)
        /\ entries[i].state = "TIMEOUT" => elapsed[i] >= Allowance
        /\ copies[i] <= entries[i].retries + 1
    BY <1>2, Fields DEF Paid
  <2>2. CASE i \in Retry
    <3>1. /\ entries'[i].retries = entries[i].retries + 1
          /\ entries'[i].age = 0 /\ entries'[i].state = "WAITING"
      BY <1>3, <2>1, <2>2 DEF Entry, Waiting
    <3>2. Waiting(i) /\ entries[i].age = TimeoutSec /\ entries[i].retries \in 0 .. MaxRetries
      <4>1. /\ entries[i].age \in Nat /\ entries[i].age <= TimeoutSec
            /\ entries[i].retries \in Nat /\ entries[i].retries <= MaxRetries
            /\ TimeoutSec \in Nat /\ MaxRetries \in Nat
        BY Fields
      <4>2. Waiting(i) /\ entries[i].age >= TimeoutSec
        BY <1>3, <2>2
      <4> QED
        BY <4>1, <4>2
    <3> DEFINE spent == entries[i].retries * TimeoutSec
    <3>3. spent \in Nat /\ (entries[i].retries + 1) * TimeoutSec = spent + TimeoutSec
      BY <3>2, AllowanceIs
    <3>4. Waited(i)' = spent + TimeoutSec /\ Waited(i) = spent + TimeoutSec
      BY <3>1, <3>2, <3>3, Fields DEF Waited
    <3>5. copies'[i] <= entries'[i].retries + 1
      BY <1>6, <2>1, <3>1, Fields
    <3> QED
      BY <2>1, <3>1, <3>2, <3>4, <3>5
  <2>3. CASE i \in Due /\ i \notin Retry
    <3>1. /\ entries'[i].retries = entries[i].retries /\ entries'[i].state = "TIMEOUT"
          /\ copies'[i] = copies[i]
      BY <1>4, <1>6, <2>1, <2>3 DEF Entry
    <3>2. Waiting(i) /\ entries[i].age = TimeoutSec /\ entries[i].retries = MaxRetries
      <4>1. /\ entries[i].age \in Nat /\ entries[i].age <= TimeoutSec
            /\ entries[i].retries \in Nat /\ entries[i].retries <= MaxRetries
            /\ TimeoutSec \in Nat /\ MaxRetries \in Nat
        BY Fields
      <4>2. Waiting(i) /\ entries[i].age >= TimeoutSec /\ ~(entries[i].retries < MaxRetries)
        BY <1>4, <2>3
      <4> QED
        BY <4>1, <4>2
    <3>3. Waited(i) = Allowance
      BY <3>2, AllowanceIs DEF Waited
    <3> QED
      BY <2>1, <3>1, <3>2, <3>3 DEF Waiting
  <2>4. CASE i \notin Due
    BY <1>1, <1>5, <1>6, <2>1, <2>4 DEF Waiting, Waited
  <2> QED
    BY <2>2, <2>3, <2>4
<1> QED
  BY <1>7, <1>8, <1>9

\* A second makes a command one older and its waiting one longer.
LEMMA TickKeeps ==
    ASSUME TableInv, Tick
    PROVE  TableInv'
<1> USE DEF TableInv
<1>1. /\ entries' = [i \in Slots |->
            IF Waiting(i) THEN [entries[i] EXCEPT !.age = AtMost(TimeoutSec, @ + 1)]
                          ELSE entries[i]]
      /\ elapsed' = [i \in Slots |->
            IF Waiting(i) THEN AtMost(Allowance, elapsed[i] + 1) ELSE elapsed[i]]
      /\ UNCHANGED <<next_sequence, copies>>
  BY DEF Tick
<1>2. \A i \in Slots : /\ entries[i] \in Entry /\ elapsed[i] \in 0 .. Allowance
                       /\ AtMost(TimeoutSec, entries[i].age + 1) \in 0 .. TimeoutSec
                       /\ AtMost(TimeoutSec, entries[i].age + 1) <= entries[i].age + 1
                       /\ AtMost(Allowance, elapsed[i] + 1) \in 0 .. Allowance
  BY AllowanceIs, SizesAssumption DEF Types, Entry, AtMost
<1>3. Types'
  BY <1>1, <1>2 DEF Types, Entry
<1>4. Numbered'
  BY <1>1, <1>2 DEF Entry, Numbered, Used, Waiting
<1>5. Paid'
  <2> SUFFICES ASSUME NEW i \in Slots
               PROVE  /\ Waiting(i)' => elapsed'[i] >= Waited(i)'
                      /\ entries'[i].state = "TIMEOUT" => elapsed'[i] >= Allowance
                      /\ copies'[i] <= entries'[i].retries + 1
    BY DEF Paid
  <2>1. /\ Waiting(i) => elapsed[i] >= Waited(i)
        /\ entries[i].state = "TIMEOUT" => elapsed[i] >= Allowance
        /\ copies[i] <= entries[i].retries + 1
    BY DEF Paid
  <2>2. CASE Waiting(i)
    <3>1. /\ entries'[i].state = "WAITING" /\ entries'[i].retries = entries[i].retries
          /\ entries'[i].age = AtMost(TimeoutSec, entries[i].age + 1)
          /\ elapsed'[i] = AtMost(Allowance, elapsed[i] + 1)
          /\ copies'[i] = copies[i]
      BY <1>1, <1>2, <2>2 DEF Entry, Waiting
    <3> DEFINE spent == entries[i].retries * TimeoutSec
    <3>2. spent \in Nat /\ spent <= MaxRetries * TimeoutSec
      BY <1>2, AllowanceIs DEF Entry
    <3>3. Waited(i) = spent + entries[i].age
          /\ Waited(i)' = spent + AtMost(TimeoutSec, entries[i].age + 1)
      BY <3>1 DEF Waited
    <3>4. Allowance = MaxRetries * TimeoutSec + TimeoutSec /\ Allowance \in Nat
          /\ MaxRetries * TimeoutSec \in Nat
      BY AllowanceIs, SizesAssumption
    <3>5. entries[i].age \in Nat /\ elapsed[i] \in Nat /\ TimeoutSec \in Nat
      BY Fields
    <3>6. elapsed[i] >= spent + entries[i].age
      BY <2>1, <2>2, <3>3
    <3> HIDE DEF spent
    <3>7. AtMost(Allowance, elapsed[i] + 1)
             >= spent + AtMost(TimeoutSec, entries[i].age + 1)
      BY <3>2, <3>4, <3>5, <3>6 DEF AtMost
    <3> QED
      BY <2>1, <3>1, <3>3, <3>7
  <2>3. CASE ~Waiting(i)
    BY <1>1, <2>1, <2>3 DEF Waiting, Waited
  <2> QED
    BY <2>2, <2>3
<1> QED
  BY <1>3, <1>4, <1>5

LEMMA StepKeeps == TableInv /\ [Next]_vars => TableInv'
<1> SUFFICES ASSUME TableInv, [Next]_vars PROVE TableInv'
  OBVIOUS
<1>1. CASE UNCHANGED vars
  BY <1>1 DEF vars, TableInv, Types, Numbered, Paid, Used, Waiting, Waited
<1>2. ASSUME NEW n \in Nodes, Send(n) PROVE TableInv'
  BY <1>2, SendKeeps
<1>3. ASSUME NEW s \in Sequences, NEW n \in Nodes, OnAck(s, n) \/ OnNack(s, n)
      PROVE  TableInv'
  BY <1>3, AnswerKeeps DEF OnAck, OnNack
<1>4. CASE CheckTimeouts
  BY <1>4, CheckKeeps
<1>5. CASE Tick
  BY <1>5, TickKeeps
<1> QED
  BY <1>1, <1>2, <1>3, <1>4, <1>5 DEF Next, SendRefused, AnswerIgnored

LEMMA TableInvCorrect == Spec => []TableInv
  BY InitTable, StepKeeps, PTL DEF Spec

-----------------------------------------------------------------------------
(* Results *)

\* Every state of the table is well typed; in particular no command is retried
\* more often than allowed, whatever answers arrive.
THEOREM TypeCorrect == Spec => []TypeOK
<1>1. TableInv => TypeOK
  <2> SUFFICES ASSUME TableInv PROVE TypeOK
    OBVIOUS
  <2>1. \A i \in Slots : copies[i] \in 0 .. MaxRetries + 1
    BY SizesAssumption DEF TableInv, Types, Paid, Entry
  <2> QED
    BY <2>1 DEF TableInv, Types, TypeOK
<1> QED
  BY <1>1, TableInvCorrect, PTL

\* No two commands of the table share a number, and none has the next one or zero,
\* for any size of the table.  Since no entry is ever freed, the counter stops with
\* the table: the numbers never come round, and nothing is said of a wrap.
THEOREM SequencesAreUnique == Spec => []UniqueSequences
<1>1. TableInv => UniqueSequences
  BY DEF TableInv, Numbered, UniqueSequences, Slots
<1> QED
  BY <1>1, TableInvCorrect, PTL

\* No command is given up before (retries + 1) timeouts have passed, whatever
\* the timeout and the number of retries.
THEOREM TimeoutsAreNotEarly == Spec => []TimeoutNotEarly
<1>1. TableInv => TimeoutNotEarly
  BY DEF TableInv, Paid, TimeoutNotEarly
<1> QED
  BY <1>1, TableInvCorrect, PTL

\* A final state stays, whatever arrives and however late.
THEOREM FinalStaysFinal == Spec => FinalIsFinal
<1>1. TableInv /\ [Next]_vars
        => [\A i \in Slots : entries[i].state \in Final => entries'[i] = entries[i]]_vars
  <2> SUFFICES ASSUME TableInv, [Next]_vars, NEW i \in Slots, entries[i].state \in Final
               PROVE  entries'[i] = entries[i]
    OBVIOUS
  <2>1. Used(i) /\ ~Waiting(i) /\ entries \in [Slots -> Entry]
    BY DEF TableInv, Types, Used, Waiting, Final
  <2>2. ASSUME NEW n \in Nodes, Send(n) PROVE entries'[i] = entries[i]
    BY <2>1, <2>2 DEF Send, FirstFree
  <2>3. ASSUME NEW s \in Sequences, NEW n \in Nodes, OnAck(s, n) \/ OnNack(s, n)
        PROVE  entries'[i] = entries[i]
    BY <2>1, <2>3 DEF OnAck, OnNack, Answer, Accepts
  <2>4. CASE CheckTimeouts
    BY <2>1, <2>4 DEF CheckTimeouts, Retry, Due
  <2>5. CASE Tick
    BY <2>1, <2>5 DEF Tick
  <2> QED
    BY <2>2, <2>3, <2>4, <2>5 DEF Next, SendRefused, AnswerIgnored, vars
<1> QED
  BY <1>1, TableInvCorrect, PTL DEF Spec, FinalIsFinal

-----------------------------------------------------------------------------
(* Retries *)

\* The entries before the i-th one that were sent again.
SentAgain(i) == {j \in 1 .. i - 1 : copies[j] > 1}

\* Every transmission that was counted was handed out, but for a command behind as
\* many that were sent again as the arrays hold.
HandedOut == \A i \in Slots :
    /\ Used(i) => /\ copies[i] >= 1
                  /\ \/ copies[i] = entries[i].retries + 1
                     \/ Cardinality(SentAgain(i)) >= RetryCapacity
    /\ entries[i].state = "TIMEOUT" => entries[i].retries = MaxRetries

\* A set of natural numbers has a least one: the initial segments that they bound
\* are ordered by inclusion, which is well founded on finite sets.
LEMMA Least ==
    ASSUME NEW S \in SUBSET Nat, S # {}
    PROVE  \E m \in S : \A i \in S : m <= i
<1> DEFINE U == {0 .. i : i \in S}
<1>1. \A i \in Nat : IsFiniteSet(0 .. i) /\ 0 .. i \in SUBSET Nat
  BY FS_Interval
<1>2. U \subseteq FiniteSubsetsOf(Nat)
  BY <1>1 DEF FiniteSubsetsOf
<1>3. U # {}
  OBVIOUS
<1>4. IsWellFoundedOn(StrictSubsetOrdering(Nat), FiniteSubsetsOf(Nat))
  BY FS_StrictSubsetOrderingWellFounded
<1> HIDE DEF U
<1>5. PICK x \in U : \A y \in U : <<y, x>> \notin StrictSubsetOrdering(Nat)
  BY <1>2, <1>3, <1>4, WFMin
<1>6. PICK m \in S : x = 0 .. m
  BY DEF U
<1>7. ASSUME NEW i \in S, i < m PROVE FALSE
  <2>1. 0 .. i \subseteq 0 .. m /\ m \in 0 .. m /\ m \notin 0 .. i
    BY <1>7
  <2>2. <<0 .. i, x>> \in StrictSubsetOrdering(Nat)
    BY <2>1, <1>1, <1>6 DEF StrictSubsetOrdering
  <2> QED BY <2>2, <1>5, <1>7 DEF U
<1> QED BY <1>7

\* What is counted only grows with the set it is counted over.
LEMMA CountGrows ==
    ASSUME NEW i \in Nat, NEW T \in SUBSET (1 .. i - 1), NEW S \in SUBSET T
    PROVE  Cardinality(S) \in Nat /\ Cardinality(T) \in Nat
           /\ Cardinality(S) <= Cardinality(T)
<1>1. IsFiniteSet(1 .. i - 1)
  BY FS_Interval
<1>2. IsFiniteSet(T)
  BY <1>1, FS_Subset
<1>3. IsFiniteSet(S) /\ Cardinality(S) <= Cardinality(T)
  BY <1>2, FS_Subset
<1> QED BY <1>2, <1>3, FS_CardinalityType

\* A retry that does not fit stands behind as many that do as the arrays hold: the
\* first one that does not fit has no others before it.
LEMMA FullBefore ==
    ASSUME NEW i \in Retry, i \notin Emitted
    PROVE  Cardinality({j \in 1 .. i - 1 : j \in Emitted}) >= RetryCapacity
<1>1. Retry \subseteq Slots /\ Slots \subseteq Nat /\ RetryCapacity \in Nat
      /\ \A j \in Retry : j \in Nat /\ j >= 1
  BY SizesAssumption DEF Retry, Due, Slots
<1> DEFINE Lost == Retry \ Emitted
<1>2. Lost \in SUBSET Nat /\ i \in Lost
  BY <1>1
<1>3. PICK m \in Lost : \A j \in Lost : m <= j
  BY <1>2, Least
<1>4. m \in Retry /\ m \in Nat /\ i \in Nat /\ m <= i
  BY <1>1, <1>2, <1>3
<1> DEFINE B == {j \in Retry : j < m}
           E == {j \in 1 .. i - 1 : j \in Emitted}
<1>5. Cardinality(B) \in Nat /\ ~(Cardinality(B) < RetryCapacity)
  <2>1. B \in SUBSET (1 .. m - 1)
    <3> SUFFICES ASSUME NEW j \in Retry, j < m PROVE j \in 1 .. m - 1
      OBVIOUS
    <3>1. j \in Nat /\ j >= 1
      BY <1>1
    <3> QED BY <1>4, <3>1
  <2>2. Cardinality(B) \in Nat
    BY <1>4, <2>1, CountGrows
  <2> QED BY <1>3, <2>2 DEF Emitted
<1>6. B \in SUBSET E
  <2> SUFFICES ASSUME NEW j \in B PROVE j \in E
    OBVIOUS
  <2>1. j \in Retry /\ j \in Nat /\ j >= 1 /\ j < m
    BY <1>1
  <2>2. j \in Emitted
    BY <1>3, <1>4, <2>1
  <2> QED BY <1>4, <2>1, <2>2
<1>7. E \in SUBSET (1 .. i - 1)
  OBVIOUS
<1>8. Cardinality(E) \in Nat /\ Cardinality(B) <= Cardinality(E)
  BY <1>4, <1>6, <1>7, CountGrows
<1> QED BY <1>1, <1>5, <1>8

\* Where every command that was sent again still was, no excuse is lost.
LEMMA ExcuseStays ==
    ASSUME TableInv, NEW i \in Slots, RetryCapacity \in Nat,
           Cardinality(SentAgain(i)) >= RetryCapacity,
           SentAgain(i) \subseteq SentAgain(i)'
    PROVE  Cardinality(SentAgain(i)') >= RetryCapacity
<1>1. i \in Nat /\ SentAgain(i)' \in SUBSET (1 .. i - 1)
  BY SizesAssumption DEF SentAgain, Slots
<1>2. /\ Cardinality(SentAgain(i)) \in Nat /\ Cardinality(SentAgain(i)') \in Nat
      /\ Cardinality(SentAgain(i)) <= Cardinality(SentAgain(i)')
  BY <1>1, CountGrows
<1> QED BY <1>2

LEMMA StepHandsOut ==
    ASSUME TableInv, HandedOut, [Next]_vars
    PROVE  HandedOut'
<1> SUFFICES ASSUME NEW i \in Slots
             PROVE  /\ Used(i)' => /\ copies'[i] >= 1
                                   /\ \/ copies'[i] = entries'[i].retries + 1
                                      \/ Cardinality(SentAgain(i)') >= RetryCapacity
                    /\ entries'[i].state = "TIMEOUT" => entries'[i].retries = MaxRetries
  BY DEF HandedOut
<1>1. /\ Used(i) => /\ copies[i] >= 1
                    /\ \/ copies[i] = entries[i].retries + 1
                       \/ Cardinality(SentAgain(i)) >= RetryCapacity
      /\ entries[i].state = "TIMEOUT" => entries[i].retries = MaxRetries
  BY DEF HandedOut
<1>2. /\ entries \in [Slots -> Entry] /\ entries[i] \in Entry
      /\ copies \in [Slots -> Nat] /\ copies[i] \in Nat
      /\ entries[i].retries \in Nat /\ entries[i].retries <= MaxRetries
      /\ MaxRetries \in Nat /\ RetryCapacity \in Nat
      /\ i \in Nat /\ i >= 1 /\ \A j \in 1 .. i - 1 : j \in Slots
  BY Fields, SizesAssumption DEF TableInv, Types, Slots
<1>3. ASSUME copies' = copies
      PROVE  /\ copies'[i] = copies[i]
             /\ Cardinality(SentAgain(i)) >= RetryCapacity
                   => Cardinality(SentAgain(i)') >= RetryCapacity
  BY <1>3 DEF SentAgain
<1>4. CASE UNCHANGED vars
  BY <1>1, <1>3, <1>4 DEF vars, Used
<1>5. ASSUME NEW n \in Nodes, Send(n)
      PROVE  /\ Used(i)' => /\ copies'[i] >= 1
                            /\ \/ copies'[i] = entries'[i].retries + 1
                               \/ Cardinality(SentAgain(i)') >= RetryCapacity
             /\ entries'[i].state = "TIMEOUT" => entries'[i].retries = MaxRetries
  <2> DEFINE k == next_sequence
  <2>1. /\ k \in Slots /\ ~Used(k)
        /\ entries' = [entries EXCEPT
                         ![k] = [state |-> "WAITING", sequence |-> next_sequence,
                                 target |-> n, age |-> 0, retries |-> 0]]
        /\ copies' = [copies EXCEPT ![k] = 1]
    BY <1>5, SendTakes
  <2>2. \A j \in Slots : Used(j) <=> j < k
    BY DEF TableInv, Numbered
  <2>3. k \in Nat
    BY DEF TableInv, Numbered
  <2> HIDE DEF k
  <2>4. CASE i = k
    <3>1. entries'[i].retries = 0 /\ entries'[i].state = "WAITING" /\ copies'[i] = 1
      BY <1>2, <2>1, <2>4
    <3> QED BY <3>1
  <2>5. CASE i # k
    <3>1. entries'[i] = entries[i] /\ copies'[i] = copies[i] /\ (Used(i)' <=> Used(i))
      BY <1>2, <2>1, <2>5 DEF Used
    <3>2. Used(i) => SentAgain(i) \subseteq SentAgain(i)'
      <4> SUFFICES ASSUME Used(i), NEW j \in 1 .. i - 1, copies[j] > 1
                   PROVE  copies'[j] > 1
        BY DEF SentAgain
      <4>1. i < k /\ j \in Slots /\ j < i /\ j \in Nat
        BY <1>2, <2>2
      <4>2. j # k
        BY <1>2, <2>3, <4>1
      <4> QED BY <1>2, <2>1, <4>1, <4>2
    <3> QED BY <1>1, <1>2, <3>1, <3>2, ExcuseStays
  <2> QED BY <2>4, <2>5
<1>6. ASSUME NEW s \in Sequences, NEW n \in Nodes, NEW r \in {"ACKED", "NACKED"},
             Answer(s, n, r)
      PROVE  /\ Used(i)' => /\ copies'[i] >= 1
                            /\ \/ copies'[i] = entries'[i].retries + 1
                               \/ Cardinality(SentAgain(i)') >= RetryCapacity
             /\ entries'[i].state = "TIMEOUT" => entries'[i].retries = MaxRetries
  <2>1. entries' = [entries EXCEPT ![FindEntry(s)].state = r]
        /\ copies' = copies /\ Waiting(FindEntry(s))
    BY <1>6 DEF Answer, Accepts
  <2>2. CASE i = FindEntry(s)
    <3>1. Used(i) /\ entries'[i].retries = entries[i].retries
          /\ entries'[i].state # "TIMEOUT"
      BY <1>2, <2>1, <2>2 DEF Used, Waiting, Entry
    <3> QED BY <1>1, <1>3, <2>1, <3>1
  <2>3. CASE i # FindEntry(s)
    <3>1. entries'[i] = entries[i]
      BY <1>2, <2>1, <2>3
    <3> QED BY <1>1, <1>3, <2>1, <3>1 DEF Used
  <2> QED BY <2>2, <2>3
<1>7. CASE CheckTimeouts
  <2>1. \A j \in Slots : copies'[j] = IF j \in Emitted THEN copies[j] + 1 ELSE copies[j]
    BY <1>7 DEF CheckTimeouts
  <2>2. entries' = [j \in Slots |->
            IF j \in Retry
            THEN [entries[j] EXCEPT !.retries = @ + 1, !.age = 0]
            ELSE IF j \in Due THEN [entries[j] EXCEPT !.state = "TIMEOUT"]
                              ELSE entries[j]]
    BY <1>7 DEF CheckTimeouts
  <2>3. /\ Emitted \subseteq Retry /\ Retry \subseteq Due /\ Due \subseteq Slots
        /\ \A j \in Due : Waiting(j) /\ Used(j)
    BY DEF Emitted, Retry, Due, Waiting, Used
  <2>4. SentAgain(i) \subseteq SentAgain(i)'
    <3> SUFFICES ASSUME NEW j \in 1 .. i - 1, copies[j] > 1 PROVE copies'[j] > 1
      BY DEF SentAgain
    <3>1. j \in Slots /\ copies[j] \in Nat
      BY <1>2
    <3> QED BY <2>1, <3>1
  <2>5. CASE i \in Retry
    <3>1. entries'[i] = [entries[i] EXCEPT !.retries = entries[i].retries + 1, !.age = 0]
      BY <2>2, <2>5
    <3>2. /\ Used(i) /\ entries'[i].retries = entries[i].retries + 1
          /\ entries'[i].state # "TIMEOUT"
      BY <1>2, <2>3, <2>5, <3>1 DEF Entry, Waiting
    <3>3. CASE i \in Emitted
      <4>1. copies'[i] = copies[i] + 1
        BY <2>1, <3>3
      <4>2. Cardinality(SentAgain(i)) >= RetryCapacity
              => Cardinality(SentAgain(i)') >= RetryCapacity
        BY <1>2, <2>4, ExcuseStays
      <4> QED BY <1>1, <1>2, <3>2, <4>1, <4>2
    <3>4. CASE i \notin Emitted
      <4> DEFINE E == {j \in 1 .. i - 1 : j \in Emitted}
      <4>1. E \subseteq SentAgain(i)'
        <5> SUFFICES ASSUME NEW j \in 1 .. i - 1, j \in Emitted PROVE copies'[j] > 1
          BY DEF SentAgain
        <5>1. j \in Slots /\ copies[j] \in Nat /\ copies[j] >= 1
          BY <1>2, <2>3 DEF HandedOut
        <5> QED BY <2>1, <5>1
      <4>2. Cardinality(E) >= RetryCapacity
        BY <2>5, <3>4, FullBefore
      <4>3. SentAgain(i)' \in SUBSET (1 .. i - 1)
        BY DEF SentAgain
      <4>4. /\ Cardinality(E) \in Nat /\ Cardinality(SentAgain(i)') \in Nat
            /\ Cardinality(E) <= Cardinality(SentAgain(i)')
        BY <1>2, <4>1, <4>3, CountGrows
      <4>5. copies'[i] = copies[i]
        BY <2>1, <3>4
      <4> HIDE DEF E
      <4> QED BY <1>1, <1>2, <3>2, <4>2, <4>4, <4>5
    <3> QED BY <3>3, <3>4
  <2>6. CASE i \in Due /\ i \notin Retry
    <3>1. entries'[i] = [entries[i] EXCEPT !.state = "TIMEOUT"] /\ copies'[i] = copies[i]
      BY <2>1, <2>2, <2>3, <2>6
    <3>2. Used(i) /\ ~(entries[i].retries < MaxRetries)
      BY <2>3, <2>6 DEF Retry
    <3>3. entries'[i].retries = entries[i].retries /\ entries[i].retries = MaxRetries
      BY <1>2, <3>1, <3>2 DEF Entry
    <3> QED BY <1>1, <1>2, <2>4, <3>1, <3>2, <3>3, ExcuseStays
  <2>7. CASE i \notin Due
    <3>1. entries'[i] = entries[i] /\ copies'[i] = copies[i]
      BY <2>1, <2>2, <2>3, <2>7
    <3> QED BY <1>1, <1>2, <2>4, <3>1, ExcuseStays DEF Used
  <2> QED BY <2>5, <2>6, <2>7
<1>8. CASE Tick
  <2>1. copies' = copies
    BY <1>8 DEF Tick
  <2>2. entries'[i] = IF Waiting(i)
                      THEN [entries[i] EXCEPT !.age = AtMost(TimeoutSec, @ + 1)]
                      ELSE entries[i]
    BY <1>8 DEF Tick
  <2>3. entries'[i].retries = entries[i].retries /\ entries'[i].state = entries[i].state
    BY <1>2, <2>2 DEF Entry
  <2> QED BY <1>1, <1>3, <2>1, <2>3 DEF Used
<1> QED
  BY <1>4, <1>5, <1>6, <1>7, <1>8 DEF Next, OnAck, OnNack, SendRefused, AnswerIgnored

\* What the code keeps of the header's promise about retries, whatever the sizes of
\* the arrays and of the table (the server's are 16 and 64): only a command behind
\* a full array of others that were sent again times out with retries missing.
THEOREM RetriesThatFitAreHandedOut == Spec => []TimeoutAfterTheRetriesThatFit
<1>1. Init => HandedOut
  BY DEF Init, HandedOut, Used
<1>2. TableInv /\ HandedOut /\ [Next]_vars => HandedOut'
  BY StepHandsOut
<1>3. HandedOut => TimeoutAfterTheRetriesThatFit
  BY DEF HandedOut, TimeoutAfterTheRetriesThatFit, Used, SentAgain
<1> QED
  BY <1>1, <1>2, <1>3, TableInvCorrect, PTL DEF Spec
=============================================================================
