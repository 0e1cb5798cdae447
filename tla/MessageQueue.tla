---------------------------- MODULE MessageQueue ----------------------------
(***************************************************************************)
(* The bounded queue between the gateway's node workers and its server     *)
(* link (gateway/message_queue.c): a ring, one mutex, two condition        *)
(* variables and a shutdown flag.                                          *)
(*                                                                         *)
(* A step is what a thread does from one acquisition of the mutex to the   *)
(* next release, by unlock or by pthread_cond_wait.  A thread inside a     *)
(* call is in the wait set of a condition variable, or it is woken and on  *)
(* its way back to the test of its while loop.                             *)
(***************************************************************************)
EXTENDS Integers, Sequences, FiniteSets

CONSTANTS Producers, Consumers,   \* threads that push, threads that pop
          Messages,
          Capacity,               \* MESSAGE_QUEUE_CAPACITY
          NoMessage               \* contents of a slot never written

ASSUME ThreadsAssumption  == /\ Producers \cap Consumers = {}
                             /\ IsFiniteSet(Producers) /\ IsFiniteSet(Consumers)
ASSUME CapacityAssumption == Capacity \in Nat \ {0}
ASSUME NoMessageAssumption == NoMessage \notin Messages

VARIABLES items, head, tail, count,   \* the ring
          shutting_down,
          not_full,                   \* producers waiting for a slot
          not_empty,                  \* consumers waiting for a message
          woken,                      \* threads about to test their loop again
          arg                         \* the message each producer is pushing

ring == <<items, head, tail, count>>
vars == <<ring, shutting_down, not_full, not_empty, woken, arg>>

Slots == 0 .. Capacity - 1

\* pthread_cond_signal wakes one waiter, if there is one.
Signalled(waiters) == IF waiters = {} THEN {{}} ELSE {{t} : t \in waiters}

-----------------------------------------------------------------------------
Init == /\ items = [s \in Slots |-> NoMessage]
        /\ head = 0 /\ tail = 0 /\ count = 0
        /\ shutting_down = FALSE
        /\ not_full = {} /\ not_empty = {} /\ woken = {}
        /\ arg = [p \in Producers |-> NoMessage]

\* A producer calls push with m, or comes back from waiting with its message.
AtPush(p, m) == /\ p \notin not_full
                /\ p \in woken => arg[p] = m

PushWaits(p, m) ==
    /\ AtPush(p, m)
    /\ count = Capacity /\ ~shutting_down
    /\ not_full' = not_full \cup {p}
    /\ woken' = woken \ {p}
    /\ arg' = [arg EXCEPT ![p] = m]
    /\ UNCHANGED <<ring, shutting_down, not_empty>>

\* Fault: shutdown is not tested again after the wait.
PushOKAfterShutdown(p, m) ==
    /\ AtPush(p, m)
    /\ count # Capacity
    /\ items' = [items EXCEPT ![tail] = m]
    /\ tail' = (tail + 1) % Capacity
    /\ count' = count + 1
    /\ \E w \in Signalled(not_empty) :
          /\ not_empty' = not_empty \ w
          /\ woken' = (woken \ {p}) \cup w
    /\ arg' = [arg EXCEPT ![p] = NoMessage]
    /\ UNCHANGED <<head, shutting_down, not_full>>

PushOK(p, m) ==
    /\ AtPush(p, m)
    /\ count # Capacity /\ ~shutting_down
    /\ items' = [items EXCEPT ![tail] = m]
    /\ tail' = (tail + 1) % Capacity
    /\ count' = count + 1
    /\ \E w \in Signalled(not_empty) :
          /\ not_empty' = not_empty \ w
          /\ woken' = (woken \ {p}) \cup w
    /\ arg' = [arg EXCEPT ![p] = NoMessage]
    /\ UNCHANGED <<head, shutting_down, not_full>>

\* Nothing is accepted after shutdown.
PushShutdown(p, m) ==
    /\ AtPush(p, m)
    /\ shutting_down
    /\ woken' = woken \ {p}
    /\ arg' = [arg EXCEPT ![p] = NoMessage]
    /\ UNCHANGED <<ring, shutting_down, not_full, not_empty>>

Push(p, m) == PushWaits(p, m) \/ PushOK(p, m) \/ PushShutdown(p, m)

-----------------------------------------------------------------------------
AtPop(c) == c \notin not_empty

\* Fault: a producer is signalled only when the queue stops being full.
TakeSignalsWhenFull(c) ==
    /\ head' = (head + 1) % Capacity
    /\ count' = count - 1
    /\ \E w \in IF count = Capacity THEN Signalled(not_full) ELSE {{}} :
          /\ not_full' = not_full \ w
          /\ woken' = (woken \ {c}) \cup w
    /\ UNCHANGED <<items, tail, shutting_down, not_empty, arg>>

\* The oldest message leaves the ring and one waiting producer is signalled.
Take(c) ==
    /\ head' = (head + 1) % Capacity
    /\ count' = count - 1
    /\ \E w \in Signalled(not_full) :
          /\ not_full' = not_full \ w
          /\ woken' = (woken \ {c}) \cup w
    /\ UNCHANGED <<items, tail, shutting_down, not_empty, arg>>

PopWaits(c) ==
    /\ AtPop(c)
    /\ count = 0 /\ ~shutting_down
    /\ not_empty' = not_empty \cup {c}
    /\ woken' = woken \ {c}
    /\ UNCHANGED <<ring, shutting_down, not_full, arg>>

PopOK(c) == AtPop(c) /\ count # 0 /\ Take(c)

PopShutdown(c) ==
    /\ AtPop(c)
    /\ count = 0 /\ shutting_down
    /\ woken' = woken \ {c}
    /\ UNCHANGED <<ring, shutting_down, not_full, not_empty, arg>>

Pop(c) == PopWaits(c) \/ PopOK(c) \/ PopShutdown(c)

\* try_pop never waits: EMPTY and SHUTDOWN leave the queue as it is.
TryPop(c) == /\ AtPop(c) /\ c \notin woken
             /\ \/ count # 0 /\ Take(c)
                \/ count = 0 /\ UNCHANGED vars

-----------------------------------------------------------------------------
\* Fault: the producers are not woken.
ShutdownConsumersOnly ==
    /\ shutting_down' = TRUE
    /\ woken' = woken \cup not_empty
    /\ not_empty' = {}
    /\ UNCHANGED <<ring, not_full, arg>>

\* Fault: one producer is signalled where all must be.
ShutdownSignalsOne ==
    /\ shutting_down' = TRUE
    /\ \E w \in Signalled(not_full) :
          /\ woken' = woken \cup not_empty \cup w
          /\ not_full' = not_full \ w
    /\ not_empty' = {}
    /\ UNCHANGED <<ring, arg>>

\* Both condition variables are broadcast.
Shutdown ==
    /\ shutting_down' = TRUE
    /\ woken' = woken \cup not_empty \cup not_full
    /\ not_empty' = {} /\ not_full' = {}
    /\ UNCHANGED <<ring, arg>>

\* POSIX lets pthread_cond_wait return without a signal.
SpuriousWakeup(t) ==
    /\ t \in not_full \cup not_empty
    /\ not_full' = not_full \ {t}
    /\ not_empty' = not_empty \ {t}
    /\ woken' = woken \cup {t}
    /\ UNCHANGED <<ring, shutting_down, arg>>

Next == \/ \E p \in Producers, m \in Messages : Push(p, m)
        \/ \E c \in Consumers : Pop(c) \/ TryPop(c)
        \/ Shutdown
        \/ \E t \in Producers \cup Consumers : SpuriousWakeup(t)

\* A woken thread gets the mutex and tests its loop again.
Resume(t) == /\ t \in woken
             /\ \/ t \in Producers /\ \E m \in Messages : Push(t, m)
                \/ t \in Consumers /\ Pop(t)

Spec == Init /\ [][Next]_vars

FairSpec == Spec /\ \A t \in Producers \cup Consumers : WF_vars(Resume(t))

-----------------------------------------------------------------------------
(* Properties *)

\* The types of the queue's state.
TypeOK == /\ items \in [Slots -> Messages \cup {NoMessage}]
          /\ head \in Slots /\ tail \in Slots /\ count \in 0 .. Capacity
          /\ shutting_down \in BOOLEAN
          /\ not_full \in SUBSET Producers
          /\ not_empty \in SUBSET Consumers
          /\ woken \in SUBSET (Producers \cup Consumers)
          /\ arg \in [Producers -> Messages \cup {NoMessage}]

\* The messages in the ring, oldest first.
Contents == [i \in 1 .. count |-> items[(head + i - 1) % Capacity]]

\* The queue is a bounded FIFO, however pushes, pops, waits, wakeups and the
\* shutdown interleave.
Fifo == INSTANCE BoundedFifo WITH fifo <- Contents, closed <- shutting_down
ImplementsFifo == Fifo!Spec

\* No wakeup is lost: while a producer waits and the queue is open, each free
\* slot is matched by a producer that is awake and about to test its loop, and
\* while a consumer waits each message is matched by an awake consumer.
NoLostWakeup ==
    /\ not_full # {} /\ ~shutting_down
          => Capacity - count <= Cardinality(woken \cap Producers)
    /\ not_empty # {} /\ ~shutting_down
          => count <= Cardinality(woken \cap Consumers)

\* Nobody waits on a queue that is shut down; a call that comes later, or that
\* was already waiting, does not block.
NobodyWaitsAfterShutdown == shutting_down => not_full = {} /\ not_empty = {}

\* Shutdown sends every thread out of the queue for good, however many were
\* waiting: the workers can be joined.
ShutdownReleases == \A t \in Producers \cup Consumers :
    shutting_down ~> [](t \notin not_full \cup not_empty \cup woken)
=============================================================================
