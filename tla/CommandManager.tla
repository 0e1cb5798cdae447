--------------------------- MODULE CommandManager ---------------------------
(***************************************************************************)
(* The server's table of the commands it issued (server/command_manager.c) *)
(* under the server's main loop, which calls send for a typed command,     *)
(* on_ack and on_nack for the answers it receives and check_timeouts on    *)
(* every turn.  One thread, no locks: an operation is an action.           *)
(*                                                                         *)
(* sent_time is kept as the age of the last transmission in seconds, which *)
(* is all check_timeouts looks at; it stops at the threshold.  An answer   *)
(* may carry any sequence number and any node: answers are late, repeated, *)
(* or from a node that was not asked.                                      *)
(***************************************************************************)
EXTENDS Integers, FiniteSets

CONSTANTS Nodes, NoNode,
          MaxCommands,       \* COMMAND_MANAGER_MAX_COMMANDS
          SequenceModulus,   \* 2^32, the width of a sequence number
          TimeoutSec,        \* CMD_TIMEOUT_SEC
          MaxRetries,        \* CMD_MAX_RETRIES
          RetryCapacity      \* CMD_RETRY_TABLE

ASSUME NoNodeAssumption == NoNode \notin Nodes
ASSUME SizesAssumption  == /\ MaxCommands \in Nat \ {0}
                           /\ SequenceModulus \in Nat
                           /\ MaxCommands < SequenceModulus - 1
                           /\ TimeoutSec \in Nat \ {0}
                           /\ MaxRetries \in Nat
                           /\ RetryCapacity \in Nat

VARIABLES entries, next_sequence,
          copies,     \* history: transmissions asked for, per entry
          elapsed     \* history: seconds since the first, up to the allowance

vars == <<entries, next_sequence, copies, elapsed>>

Slots     == 1 .. MaxCommands
Sequences == 0 .. SequenceModulus - 1
States    == {"FREE", "WAITING", "ACKED", "NACKED", "TIMEOUT"}
Final     == {"ACKED", "NACKED", "TIMEOUT"}

\* The time a command is given before it is declared lost.
Allowance == (MaxRetries + 1) * TimeoutSec

Entry == [state : States, sequence : Sequences, target : Nodes \cup {NoNode},
          age : 0 .. TimeoutSec, retries : 0 .. MaxRetries]

Used(i)    == entries[i].state # "FREE"
Waiting(i) == entries[i].state = "WAITING"

\* The entry that carries a sequence number, whatever became of its command.
Found(s)      == \E i \in Slots : Used(i) /\ entries[i].sequence = s
FindEntry(s) == CHOOSE i \in Slots :
                   /\ Used(i) /\ entries[i].sequence = s
                   /\ \A j \in 1 .. i - 1 : ~(Used(j) /\ entries[j].sequence = s)

-----------------------------------------------------------------------------
Init == /\ entries = [i \in Slots |-> [state |-> "FREE", sequence |-> 0,
                                       target |-> NoNode, age |-> 0, retries |-> 0]]
        /\ next_sequence = 1
        /\ copies = [i \in Slots |-> 0]
        /\ elapsed = [i \in Slots |-> 0]

\* Fault: the number of a slot is used again.
SuccessorReused(s) == (s % MaxCommands) + 1

\* Zero is reserved for an unknown sequence number.
Successor(s) == IF (s + 1) % SequenceModulus = 0 THEN 1 ELSE s + 1

FirstFree(i) == ~Used(i) /\ \A j \in 1 .. i - 1 : Used(j)

Send(n) ==
    /\ \E i \in Slots :
          /\ FirstFree(i)
          /\ entries' = [entries EXCEPT
                           ![i] = [state |-> "WAITING", sequence |-> next_sequence,
                                   target |-> n, age |-> 0, retries |-> 0]]
          /\ copies' = [copies EXCEPT ![i] = 1]
          /\ elapsed' = [elapsed EXCEPT ![i] = 0]
    /\ next_sequence' = Successor(next_sequence)

SendRefused == (\A i \in Slots : Used(i)) /\ UNCHANGED vars

\* Fault: a late answer is taken too.
AcceptsLate(s, n) == Found(s) /\ entries[FindEntry(s)].target = n

\* An answer counts when it comes from the command's target, and the first does.
Accepts(s, n) == /\ Found(s)
                 /\ entries[FindEntry(s)].target = n
                 /\ Waiting(FindEntry(s))

Answer(s, n, result) ==
    /\ Accepts(s, n)
    /\ entries' = [entries EXCEPT ![FindEntry(s)].state = result]
    /\ UNCHANGED <<next_sequence, copies, elapsed>>

OnAck(s, n)  == Answer(s, n, "ACKED")
OnNack(s, n) == Answer(s, n, "NACKED")

AnswerIgnored(s, n) == ~Accepts(s, n) /\ UNCHANGED vars

Due   == {i \in Slots : Waiting(i) /\ entries[i].age >= TimeoutSec}
Retry == {i \in Due : entries[i].retries < MaxRetries}

\* Fault: the last place of the arrays is not used.
EmittedOneShort ==
    {i \in Retry : Cardinality({j \in Retry : j < i}) + 1 < RetryCapacity}

\* The retries that fit into the caller's arrays: the first ones of the table.
Emitted == {i \in Retry : Cardinality({j \in Retry : j < i}) < RetryCapacity}

\* Fault: the time of the last transmission is not renewed.
CheckTimeoutsKeepsAge ==
    /\ entries' = [i \in Slots |->
          IF i \in Retry THEN [entries[i] EXCEPT !.retries = @ + 1]
          ELSE IF i \in Due THEN [entries[i] EXCEPT !.state = "TIMEOUT"]
                            ELSE entries[i]]
    /\ copies' = [i \in Slots |-> IF i \in Emitted THEN copies[i] + 1 ELSE copies[i]]
    /\ UNCHANGED <<next_sequence, elapsed>>

\* Fault: a command whose retries are exhausted gets no verdict.
CheckTimeoutsNoVerdict ==
    /\ entries' = [i \in Slots |->
          IF i \in Retry
          THEN [entries[i] EXCEPT !.retries = @ + 1, !.age = 0] ELSE entries[i]]
    /\ copies' = [i \in Slots |-> IF i \in Emitted THEN copies[i] + 1 ELSE copies[i]]
    /\ UNCHANGED <<next_sequence, elapsed>>

CheckTimeouts ==
    /\ entries' = [i \in Slots |->
          IF i \in Retry
          THEN [entries[i] EXCEPT !.retries = @ + 1, !.age = 0]
          ELSE IF i \in Due THEN [entries[i] EXCEPT !.state = "TIMEOUT"]
                            ELSE entries[i]]
    /\ copies' = [i \in Slots |-> IF i \in Emitted THEN copies[i] + 1 ELSE copies[i]]
    /\ UNCHANGED <<next_sequence, elapsed>>

AtMost(bound, v) == IF v < bound THEN v ELSE bound

\* A second passes.
Tick ==
    /\ entries' = [i \in Slots |->
          IF Waiting(i) THEN [entries[i] EXCEPT !.age = AtMost(TimeoutSec, @ + 1)]
                        ELSE entries[i]]
    /\ elapsed' = [i \in Slots |->
          IF Waiting(i) THEN AtMost(Allowance, elapsed[i] + 1) ELSE elapsed[i]]
    /\ UNCHANGED <<next_sequence, copies>>

Next == \/ \E n \in Nodes : Send(n)
        \/ SendRefused
        \/ \E s \in Sequences, n \in Nodes : \/ OnAck(s, n)
                                             \/ OnNack(s, n)
                                             \/ AnswerIgnored(s, n)
        \/ CheckTimeouts
        \/ Tick

Spec == Init /\ [][Next]_vars

\* The main loop comes round at least once a second, and time passes.
FairSpec == Spec /\ WF_vars(CheckTimeouts) /\ WF_vars(Tick)

-----------------------------------------------------------------------------
(* Properties *)

\* The types of the table and of the history variables.
TypeOK == /\ entries \in [Slots -> Entry]
          /\ next_sequence \in Sequences \ {0}
          /\ copies \in [Slots -> 0 .. MaxRetries + 1]
          /\ elapsed \in [Slots -> 0 .. Allowance]

\* No two commands share a sequence number, and none has the next one or zero:
\* an answer can only match the command it was sent for.
UniqueSequences ==
    /\ \A i, j \in Slots : Used(i) /\ Used(j) /\ entries[i].sequence = entries[j].sequence
          => i = j
    /\ \A i \in Slots : Used(i) => entries[i].sequence \notin {0, next_sequence}

\* What is decided stays decided: an answer after the timeout, a second answer
\* or a later check never changes a final state, nor whose command it was.
FinalIsFinal == [][\A i \in Slots : entries[i].state \in Final
                     => entries'[i] = entries[i]]_vars

\* No command is declared lost before its full allowance of (retries + 1)
\* timeouts has passed, and none is transmitted more than 1 + retries times.
TimeoutNotEarly == \A i \in Slots :
    /\ entries[i].state = "TIMEOUT" => elapsed[i] >= Allowance
    /\ copies[i] <= entries[i].retries + 1

\* "Retries not exhausted: sent again, with number, target and fields in the
\* retry arrays": a command that timed out was handed out for every retry.
TimeoutAfterAllRetries == \A i \in Slots :
    entries[i].state = "TIMEOUT" => copies[i] = MaxRetries + 1

\* What the code keeps of that promise with arrays smaller than the table: a
\* command that timed out was handed out for every retry, unless as many commands
\* as the arrays hold, all of them before it in the table, were sent again too.
\* The commands of the first RetryCapacity slots always get all their retries.
TimeoutAfterTheRetriesThatFit == \A i \in Slots :
    entries[i].state = "TIMEOUT" =>
        \/ copies[i] = MaxRetries + 1
        \/ Cardinality({j \in 1 .. i - 1 : copies[j] > 1}) >= RetryCapacity

\* "Up to 64 commands in flight, beyond that send fails": when there is no free
\* slot, all commands of the table are in flight.
FullMeansInFlight == (\A i \in Slots : Used(i)) => \A i \in Slots : Waiting(i)

\* Every command gets a verdict although no answer ever comes.
EveryCommandDecided == \A i \in Slots : Waiting(i) ~> entries[i].state \in Final
=============================================================================
