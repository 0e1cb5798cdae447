------------------------- MODULE MessageQueueProofs -------------------------
(***************************************************************************)
(* Proofs about MessageQueue for any number of threads and any capacity:   *)
(* its types, that no wakeup is lost, and that nobody is left waiting on a *)
(* queue that was shut down.                                               *)
(***************************************************************************)
EXTENDS MessageQueue, FiniteSetTheorems, SequenceTheorems, TLAPS

\* The next index of a ring stays in the ring.
LEMMA RingIndex ==
    ASSUME NEW c \in Nat \ {0}, NEW i \in Int
    PROVE  i % c \in 0 .. c - 1
  OBVIOUS

\* A signal wakes one of those who wait, nobody if none does.
LEMMA SignalWakesOne ==
    ASSUME NEW S, NEW w \in Signalled(S)
    PROVE  /\ S = {} => w = {}
           /\ S # {} => \E t \in S : w = {t}
           /\ w \subseteq S
  BY DEF Signalled

-----------------------------------------------------------------------------
(* Types *)

\* Every state of the queue is well typed: the indices stay in the ring and the
\* count within the capacity, however push, pop, waits and shutdown interleave.
THEOREM TypeCorrect == Spec => []TypeOK
<1>1. Init => TypeOK
  <2> SUFFICES ASSUME Init PROVE TypeOK
    OBVIOUS
  <2>1. 0 \in Slots /\ count \in 0 .. Capacity
    BY CapacityAssumption DEF Init, Slots
  <2> QED
    BY <2>1 DEF Init, TypeOK
<1>2. TypeOK /\ [Next]_vars => TypeOK'
  <2> SUFFICES ASSUME TypeOK, [Next]_vars PROVE TypeOK'
    OBVIOUS
  <2> USE CapacityAssumption DEF TypeOK, ring, Slots
  <2>1. ASSUME NEW p \in Producers, NEW m \in Messages, PushWaits(p, m)
        PROVE  TypeOK'
    BY <2>1 DEF PushWaits
  <2>2. ASSUME NEW p \in Producers, NEW m \in Messages, PushOK(p, m)
        PROVE  TypeOK'
    <3>1. PICK w \in Signalled(not_empty) : /\ not_empty' = not_empty \ w
                                            /\ woken' = (woken \ {p}) \cup w
      BY <2>2 DEF PushOK
    <3>2. w \subseteq Consumers
      BY <3>1, SignalWakesOne
    <3>3. tail' \in 0 .. Capacity - 1
      BY <2>2, RingIndex DEF PushOK
    <3>4. QED
      BY <2>2, <3>1, <3>2, <3>3 DEF PushOK
  <2>3. ASSUME NEW p \in Producers, NEW m \in Messages, PushShutdown(p, m)
        PROVE  TypeOK'
    BY <2>3 DEF PushShutdown
  <2>4. ASSUME NEW c \in Consumers, Take(c), count # 0
        PROVE  TypeOK'
    <3>1. PICK w \in Signalled(not_full) : /\ not_full' = not_full \ w
                                           /\ woken' = (woken \ {c}) \cup w
      BY <2>4 DEF Take
    <3>2. w \subseteq Producers
      BY <3>1, SignalWakesOne
    <3>3. head' \in 0 .. Capacity - 1
      BY <2>4, RingIndex DEF Take
    <3>4. QED
      BY <2>4, <3>1, <3>2, <3>3 DEF Take
  <2>5. ASSUME NEW c \in Consumers, PopWaits(c) \/ PopShutdown(c)
        PROVE  TypeOK'
    BY <2>5 DEF PopWaits, PopShutdown
  <2>6. CASE Shutdown
    BY <2>6 DEF Shutdown
  <2>7. ASSUME NEW t \in Producers \cup Consumers, SpuriousWakeup(t)
        PROVE  TypeOK'
    BY <2>7 DEF SpuriousWakeup
  <2>8. CASE UNCHANGED vars
    BY <2>8 DEF vars
  <2> QED
    BY <2>1, <2>2, <2>3, <2>4, <2>5, <2>6, <2>7, <2>8
       DEF Next, Push, Pop, PopOK, TryPop
<1> QED
  BY <1>1, <1>2, PTL DEF Spec

-----------------------------------------------------------------------------
(* Waiting *)

\* Nobody is both waiting and on its way back from waiting.
Apart == woken \cap (not_full \cup not_empty) = {}

\* The inductive invariant.
WaitInv == TypeOK /\ Apart /\ NoLostWakeup /\ NobodyWaitsAfterShutdown

\* One waiter more is awake.
LEMMA OneMore ==
    ASSUME NEW A, IsFiniteSet(A), NEW x, x \notin A
    PROVE  Cardinality(A \cup {x}) = Cardinality(A) + 1
  BY FS_AddElement

\* At most one is awake no longer.
LEMMA OneLess ==
    ASSUME NEW A, IsFiniteSet(A), NEW x
    PROVE  /\ Cardinality(A \ {x}) >= Cardinality(A) - 1
           /\ Cardinality(A) \in Nat
  BY FS_RemoveElement, FS_CardinalityType

\* The threads that are awake are finitely many.
LEMMA AwakeFinite ==
    ASSUME TypeOK
    PROVE  IsFiniteSet(woken \cap Producers) /\ IsFiniteSet(woken \cap Consumers)
  BY ThreadsAssumption, FS_Subset, woken \cap Producers \subseteq Producers,
     woken \cap Consumers \subseteq Consumers

\* A push that finds room: a consumer that waited is awake for the new message,
\* and the slot that is gone was this producer's to take.
LEMMA PushKeepsWaitInv ==
    ASSUME WaitInv, TypeOK', NEW p \in Producers, NEW m \in Messages, PushOK(p, m)
    PROVE  WaitInv'
<1>1. PICK w \in Signalled(not_empty) : /\ not_empty' = not_empty \ w
                                        /\ woken' = (woken \ {p}) \cup w
  BY DEF PushOK
<1>2. /\ not_empty = {} => w = {}
      /\ not_empty # {} => \E t \in not_empty : w = {t}
      /\ w \subseteq not_empty
  BY SignalWakesOne
<1>3. /\ not_full' = not_full /\ count' = count + 1 /\ p \notin not_full
      /\ ~shutting_down /\ ~shutting_down' /\ count \in Nat
  BY DEF PushOK, AtPush, WaitInv, TypeOK
<1>4. Apart'
  BY <1>1, <1>2, <1>3, ThreadsAssumption DEF Apart, WaitInv, TypeOK
<1>5. p \notin Consumers /\ w \subseteq Consumers /\ w \cap Producers = {}
  BY <1>2, ThreadsAssumption DEF WaitInv, TypeOK
<1>6. not_full' # {} => Capacity - count' <= Cardinality(woken' \cap Producers)
  <2>1. woken' \cap Producers = (woken \cap Producers) \ {p}
    BY <1>1, <1>5
  <2>2. /\ Cardinality((woken \cap Producers) \ {p})
             >= Cardinality(woken \cap Producers) - 1
        /\ Cardinality(woken \cap Producers) \in Nat
        /\ Cardinality((woken \cap Producers) \ {p}) \in Nat
    BY AwakeFinite, OneLess, FS_RemoveElement, FS_CardinalityType DEF WaitInv
  <2>3. not_full # {} => Capacity - count <= Cardinality(woken \cap Producers)
    BY <1>3 DEF WaitInv, NoLostWakeup
  <2> DEFINE awake == Cardinality(woken \cap Producers)
             left  == Cardinality((woken \cap Producers) \ {p})
  <2>4. Capacity - count <= awake => Capacity - (count + 1) <= left
    <3> HIDE DEF awake, left
    <3> QED
      BY <1>3, <2>2, CapacityAssumption DEF awake, left
  <2> QED
    BY <1>3, <2>1, <2>3, <2>4
<1>7. not_empty' # {} => count' <= Cardinality(woken' \cap Consumers)
  <2> SUFFICES ASSUME not_empty' # {}
               PROVE  count' <= Cardinality(woken' \cap Consumers)
    OBVIOUS
  <2>1. PICK t \in not_empty : w = {t}
    BY <1>1, <1>2
  <2>2. t \notin woken /\ t \in Consumers
    BY <1>2 DEF WaitInv, Apart, TypeOK
  <2>3. woken' \cap Consumers = (woken \cap Consumers) \cup {t}
    BY <1>1, <1>5, <2>1, <2>2
  <2>4. Cardinality(woken' \cap Consumers) = Cardinality(woken \cap Consumers) + 1
    BY <2>2, <2>3, AwakeFinite, OneMore DEF WaitInv
  <2>5. count <= Cardinality(woken \cap Consumers)
    BY <1>3, <2>1 DEF WaitInv, NoLostWakeup
  <2> QED
    BY <1>3, <2>4, <2>5, AwakeFinite, FS_CardinalityType DEF WaitInv
<1> QED
  BY <1>3, <1>4, <1>6, <1>7
     DEF WaitInv, NoLostWakeup, NobodyWaitsAfterShutdown

\* A pop that finds a message, the mirror image.
LEMMA TakeKeepsWaitInv ==
    ASSUME WaitInv, TypeOK', NEW c \in Consumers, c \notin not_empty, count # 0, Take(c)
    PROVE  WaitInv'
<1>1. PICK w \in Signalled(not_full) : /\ not_full' = not_full \ w
                                       /\ woken' = (woken \ {c}) \cup w
  BY DEF Take
<1>2. /\ not_full = {} => w = {}
      /\ not_full # {} => \E t \in not_full : w = {t}
      /\ w \subseteq not_full
  BY SignalWakesOne
<1>3. /\ not_empty' = not_empty /\ count' = count - 1
      /\ shutting_down' = shutting_down /\ count \in Nat
  BY DEF Take, WaitInv, TypeOK
<1>4. Apart'
  BY <1>1, <1>2, <1>3, ThreadsAssumption DEF Apart, WaitInv, TypeOK
<1>5. c \notin Producers /\ w \subseteq Producers /\ w \cap Consumers = {}
  BY <1>2, ThreadsAssumption DEF WaitInv, TypeOK
<1>6. not_empty' # {} /\ ~shutting_down'
        => count' <= Cardinality(woken' \cap Consumers)
  <2>1. woken' \cap Consumers = (woken \cap Consumers) \ {c}
    BY <1>1, <1>5
  <2>2. /\ Cardinality((woken \cap Consumers) \ {c})
             >= Cardinality(woken \cap Consumers) - 1
        /\ Cardinality(woken \cap Consumers) \in Nat
        /\ Cardinality((woken \cap Consumers) \ {c}) \in Nat
    BY AwakeFinite, OneLess, FS_RemoveElement, FS_CardinalityType DEF WaitInv
  <2>3. not_empty # {} /\ ~shutting_down
          => count <= Cardinality(woken \cap Consumers)
    BY DEF WaitInv, NoLostWakeup
  <2> QED
    BY <1>3, <2>1, <2>2, <2>3
<1>7. not_full' # {} /\ ~shutting_down'
        => Capacity - count' <= Cardinality(woken' \cap Producers)
  <2> SUFFICES ASSUME not_full' # {}, ~shutting_down'
               PROVE  Capacity - count' <= Cardinality(woken' \cap Producers)
    OBVIOUS
  <2>1. PICK t \in not_full : w = {t}
    BY <1>1, <1>2
  <2>2. t \notin woken /\ t \in Producers
    BY <1>2 DEF WaitInv, Apart, TypeOK
  <2>3. woken' \cap Producers = (woken \cap Producers) \cup {t}
    BY <1>1, <1>5, <2>1, <2>2
  <2>4. Cardinality(woken' \cap Producers) = Cardinality(woken \cap Producers) + 1
    BY <2>2, <2>3, AwakeFinite, OneMore DEF WaitInv
  <2>5. Capacity - count <= Cardinality(woken \cap Producers)
    BY <1>3, <2>1 DEF WaitInv, NoLostWakeup
  <2> QED
    BY <1>3, <2>4, <2>5, AwakeFinite, FS_CardinalityType, CapacityAssumption DEF WaitInv
<1> QED
  <2>1. NobodyWaitsAfterShutdown'
    BY <1>1, <1>3 DEF WaitInv, NobodyWaitsAfterShutdown
  <2> QED
    BY <1>4, <1>6, <1>7, <2>1 DEF WaitInv, NoLostWakeup

\* Every step keeps the invariant: a thread that starts to wait finds the queue
\* full or empty, and a shutdown leaves nobody waiting.
LEMMA StepKeepsWaitInv ==
    ASSUME WaitInv, TypeOK', [Next]_vars
    PROVE  WaitInv'
<1> USE DEF WaitInv, TypeOK
<1>1. ASSUME NEW p \in Producers, NEW m \in Messages, PushWaits(p, m)
      PROVE  WaitInv'
  <2>1. Apart' /\ NobodyWaitsAfterShutdown'
    BY <1>1, ThreadsAssumption
       DEF PushWaits, AtPush, Apart, NobodyWaitsAfterShutdown, ring
  <2>2. count' = count /\ count = Capacity /\ not_empty' = not_empty
        /\ shutting_down' = shutting_down
    BY <1>1 DEF PushWaits, ring
  <2>3. woken' \cap Consumers = woken \cap Consumers
    BY <1>1, ThreadsAssumption DEF PushWaits
  <2>4. Cardinality(woken' \cap Producers) \in Nat
    BY ThreadsAssumption, FS_Subset, FS_CardinalityType,
       woken' \cap Producers \subseteq Producers
  <2>5. NoLostWakeup'
    <3>1. Capacity - count' <= Cardinality(woken' \cap Producers)
      BY <2>2, <2>4, CapacityAssumption
    <3>2. not_empty' # {} /\ ~shutting_down'
            => count' <= Cardinality(woken' \cap Consumers)
      BY <2>2, <2>3 DEF NoLostWakeup
    <3> QED
      BY <3>1, <3>2 DEF NoLostWakeup
  <2> QED
    BY <2>1, <2>5
<1>2. ASSUME NEW p \in Producers, NEW m \in Messages, PushOK(p, m)
      PROVE  WaitInv'
  BY <1>2, PushKeepsWaitInv
<1>3. ASSUME NEW t \in Producers \cup Consumers, shutting_down,
             woken' = woken \ {t},
             UNCHANGED <<count, shutting_down, not_full, not_empty>>
      PROVE  WaitInv'
  BY <1>3 DEF Apart, NoLostWakeup, NobodyWaitsAfterShutdown
<1>4. ASSUME NEW p \in Producers, NEW m \in Messages, PushShutdown(p, m)
      PROVE  WaitInv'
  BY <1>3, <1>4 DEF PushShutdown, ring
<1>5. ASSUME NEW c \in Consumers, PopWaits(c)
      PROVE  WaitInv'
  <2>1. Apart' /\ NobodyWaitsAfterShutdown'
    BY <1>5, ThreadsAssumption
       DEF PopWaits, AtPop, Apart, NobodyWaitsAfterShutdown, ring
  <2>2. count' = count /\ count = 0 /\ not_full' = not_full
        /\ shutting_down' = shutting_down
    BY <1>5 DEF PopWaits, ring
  <2>3. woken' \cap Producers = woken \cap Producers
    BY <1>5, ThreadsAssumption DEF PopWaits
  <2>4. Cardinality(woken' \cap Consumers) \in Nat
    BY ThreadsAssumption, FS_Subset, FS_CardinalityType,
       woken' \cap Consumers \subseteq Consumers
  <2>5. NoLostWakeup'
    <3>1. count' <= Cardinality(woken' \cap Consumers)
      BY <2>2, <2>4
    <3>2. not_full' # {} /\ ~shutting_down'
            => Capacity - count' <= Cardinality(woken' \cap Producers)
      BY <2>2, <2>3 DEF NoLostWakeup
    <3> QED
      BY <3>1, <3>2 DEF NoLostWakeup
  <2> QED
    BY <2>1, <2>5
<1>6. ASSUME NEW c \in Consumers, PopOK(c)
      PROVE  WaitInv'
  BY <1>6, TakeKeepsWaitInv DEF PopOK, AtPop
<1>7. ASSUME NEW c \in Consumers, PopShutdown(c)
      PROVE  WaitInv'
  BY <1>3, <1>7 DEF PopShutdown, ring
<1>8. CASE UNCHANGED vars
  BY <1>8 DEF vars, ring, Apart, NoLostWakeup, NobodyWaitsAfterShutdown
<1>9. ASSUME NEW c \in Consumers, TryPop(c)
      PROVE  WaitInv'
  <2>1. CASE count # 0 /\ Take(c)
    BY <1>9, <2>1, TakeKeepsWaitInv DEF TryPop, AtPop
  <2>2. CASE UNCHANGED vars
    BY <1>8, <2>2
  <2> QED
    BY <1>9, <2>1, <2>2 DEF TryPop
<1>10. CASE Shutdown
  BY <1>10 DEF Shutdown, Apart, NoLostWakeup, NobodyWaitsAfterShutdown
<1>11. ASSUME NEW t \in Producers \cup Consumers, SpuriousWakeup(t)
       PROVE  WaitInv'
  <2>1. /\ count' = count /\ shutting_down' = shutting_down
        /\ not_full' \subseteq not_full /\ not_empty' \subseteq not_empty
        /\ woken' = woken \cup {t}
    BY <1>11 DEF SpuriousWakeup, ring
  <2>2. Apart' /\ NobodyWaitsAfterShutdown'
    BY <1>11, <2>1 DEF SpuriousWakeup, Apart, NobodyWaitsAfterShutdown
  <2>3. /\ Cardinality(woken \cap Producers) <= Cardinality(woken' \cap Producers)
        /\ Cardinality(woken \cap Consumers) <= Cardinality(woken' \cap Consumers)
        /\ Cardinality(woken \cap Producers) \in Nat
        /\ Cardinality(woken' \cap Producers) \in Nat
        /\ Cardinality(woken \cap Consumers) \in Nat
        /\ Cardinality(woken' \cap Consumers) \in Nat
    <3>1. /\ woken \cap Producers \subseteq woken' \cap Producers
          /\ woken \cap Consumers \subseteq woken' \cap Consumers
          /\ woken' \cap Producers \subseteq Producers
          /\ woken' \cap Consumers \subseteq Consumers
      BY <2>1
    <3>2. IsFiniteSet(woken' \cap Producers) /\ IsFiniteSet(woken' \cap Consumers)
      BY <3>1, ThreadsAssumption, FS_Subset
    <3> QED
      BY <3>1, <3>2, AwakeFinite, FS_Subset, FS_CardinalityType
  <2>4. NoLostWakeup'
    <3>1. not_full' # {} /\ ~shutting_down'
            => Capacity - count <= Cardinality(woken \cap Producers)
      BY <2>1 DEF NoLostWakeup
    <3>2. not_empty' # {} /\ ~shutting_down'
            => count <= Cardinality(woken \cap Consumers)
      BY <2>1 DEF NoLostWakeup
    <3>3. not_full' # {} /\ ~shutting_down'
            => Capacity - count' <= Cardinality(woken' \cap Producers)
      BY <2>1, <2>3, <3>1, CapacityAssumption
    <3>4. not_empty' # {} /\ ~shutting_down'
            => count' <= Cardinality(woken' \cap Consumers)
      BY <2>1, <2>3, <3>2
    <3> QED
      BY <3>3, <3>4 DEF NoLostWakeup
  <2> QED
    BY <2>2, <2>4
<1> QED
  BY <1>1, <1>2, <1>4, <1>5, <1>6, <1>7, <1>8, <1>9, <1>10, <1>11
     DEF Next, Push, Pop

LEMMA WaitInvCorrect == Spec => []WaitInv
<1>1. Init => WaitInv
  <2> SUFFICES ASSUME Init PROVE Apart /\ NoLostWakeup /\ NobodyWaitsAfterShutdown /\ TypeOK
    BY DEF WaitInv
  <2>1. 0 \in Slots /\ count \in 0 .. Capacity
    BY CapacityAssumption DEF Init, Slots
  <2> QED
    BY <2>1 DEF Init, TypeOK, Apart, NoLostWakeup, NobodyWaitsAfterShutdown
<1>2. WaitInv /\ TypeOK' /\ [Next]_vars => WaitInv'
  BY StepKeepsWaitInv
<1> QED
  BY <1>1, <1>2, TypeCorrect, PTL DEF Spec

\* pthread_cond_signal after every push and every pop is enough: no thread can
\* sleep through a message, or through a free slot, meant for it.
THEOREM NoWakeupIsLost == Spec => []NoLostWakeup
<1>1. WaitInv => NoLostWakeup
  BY DEF WaitInv
<1> QED
  BY <1>1, WaitInvCorrect, PTL

\* message_queue_shutdown leaves nobody in a wait, and nobody starts one later.
THEOREM ShutdownEndsWaiting == Spec => []NobodyWaitsAfterShutdown
<1>1. WaitInv => NobodyWaitsAfterShutdown
  BY DEF WaitInv
<1> QED
  BY <1>1, WaitInvCorrect, PTL

-----------------------------------------------------------------------------
(* Refinement *)

\* head, tail and count describe the same queue.
RingInv == TypeOK /\ tail = (head + count) % Capacity

\* An index that left the ring once is brought back by one subtraction.
LEMMA Wrapped ==
    ASSUME NEW c \in Nat \ {0}, NEW x \in 0 .. 2 * c
    PROVE  x % c = IF x < c THEN x ELSE IF x < 2 * c THEN x - c ELSE 0
  OBVIOUS

\* Wrapping at every step or once at the end gives the same index.
LEMMA NextIndex ==
    ASSUME NEW c \in Nat \ {0}, NEW h \in 0 .. c - 1, NEW k \in 0 .. c
    PROVE  /\ (((h + k) % c) + 1) % c = (h + k + 1) % c
           /\ (((h + 1) % c) + k) % c = (h + 1 + k) % c
  OBVIOUS

\* Two places of the queue are two slots of the ring.
LEMMA OtherIndex ==
    ASSUME NEW c \in Nat \ {0}, NEW h \in 0 .. c - 1,
           NEW n \in 0 .. c - 1, NEW k \in 0 .. c - 1, k < n
    PROVE  (h + k) % c # (h + n) % c
  OBVIOUS

LEMMA RingCorrect == Spec => []RingInv
<1>1. Init => tail = (head + count) % Capacity
  BY CapacityAssumption, Wrapped DEF Init
<1>2. RingInv /\ TypeOK' /\ [Next]_vars => RingInv'
  <2> SUFFICES ASSUME RingInv, TypeOK', [Next]_vars
               PROVE  tail' = (head' + count') % Capacity
    BY DEF RingInv
  <2> USE CapacityAssumption DEF RingInv, TypeOK, Slots
  <2>1. ASSUME NEW p \in Producers, NEW m \in Messages, PushOK(p, m)
        PROVE  tail' = (head' + count') % Capacity
    BY <2>1, NextIndex DEF PushOK
  <2>2. ASSUME NEW c \in Consumers, count # 0, Take(c)
        PROVE  tail' = (head' + count') % Capacity
    <3>1. count - 1 \in 0 .. Capacity
      BY <2>2
    <3>2. (((head + 1) % Capacity) + (count - 1)) % Capacity
             = (head + 1 + (count - 1)) % Capacity
      BY <3>1, NextIndex
    <3> QED
      BY <2>2, <3>2 DEF Take
  <2>3. CASE UNCHANGED <<head, tail, count>>
    BY <2>3
  <2> QED
    BY <2>1, <2>2, <2>3
       DEF Next, Push, PushWaits, PushShutdown, Pop, PopWaits, PopOK, PopShutdown,
           TryPop, Shutdown, SpuriousWakeup, vars, ring
<1> QED
  BY <1>1, <1>2, TypeCorrect, PTL DEF Spec, RingInv

\* The places of the queue are slots of the ring.
LEMMA RowIndex ==
    ASSUME NEW h \in Slots, NEW i \in Nat
    PROVE  (h + i - 1) % Capacity \in Slots
<1>1. h + i - 1 \in Int
  BY CapacityAssumption DEF Slots
<1> QED
  BY <1>1, CapacityAssumption, RingIndex DEF Slots

\* What is in the ring is a sequence, now and after the step.
LEMMA ContentsType ==
    ASSUME TypeOK
    PROVE  /\ Contents \in Seq(Messages \cup {NoMessage})
           /\ Len(Contents) = count
           /\ \A i \in 1 .. count :
                 Contents[i] = items[(head + i - 1) % Capacity]
<1>1. /\ items \in [Slots -> Messages \cup {NoMessage}]
      /\ head \in Slots /\ count \in 0 .. Capacity /\ count \in Nat
  BY CapacityAssumption DEF TypeOK
<1>2. \A i \in 1 .. count : (head + i - 1) % Capacity \in Slots
  BY <1>1, RowIndex
<1>3. Contents = [i \in 1 .. count |-> items[(head + i - 1) % Capacity]]
  BY DEF Contents
<1>4. Contents \in [1 .. count -> Messages \cup {NoMessage}]
  BY <1>1, <1>2, <1>3
<1>5. Contents \in Seq(Messages \cup {NoMessage}) /\ Len(Contents) = count
  BY <1>1, <1>4
<1> QED
  BY <1>3, <1>5

LEMMA NextContentsType ==
    ASSUME TypeOK'
    PROVE  /\ Contents' \in Seq(Messages \cup {NoMessage})
           /\ Len(Contents') = count'
           /\ \A i \in 1 .. count' :
                 Contents'[i] = items'[(head' + i - 1) % Capacity]
<1>1. /\ items' \in [Slots -> Messages \cup {NoMessage}]
      /\ head' \in Slots /\ count' \in 0 .. Capacity /\ count' \in Nat
  BY CapacityAssumption DEF TypeOK
<1>2. \A i \in 1 .. count' : (head' + i - 1) % Capacity \in Slots
  BY <1>1, RowIndex
<1>3. Contents' = [i \in 1 .. count' |-> items'[(head' + i - 1) % Capacity]]
  BY DEF Contents
<1>4. Contents' \in [1 .. count' -> Messages \cup {NoMessage}]
  BY <1>1, <1>2, <1>3
<1>5. Contents' \in Seq(Messages \cup {NoMessage}) /\ Len(Contents') = count'
  BY <1>1, <1>4
<1> QED
  BY <1>3, <1>5

\* A push that succeeds appends, the tail being the first slot after the queue.
LEMMA PushAppends ==
    ASSUME RingInv, RingInv', NEW p \in Producers, NEW m \in Messages, PushOK(p, m)
    PROVE  Contents' = Append(Contents, m)
<1> DEFINE M == Messages \cup {NoMessage}
<1>1. /\ Contents \in Seq(M) /\ Len(Contents) = count
      /\ \A i \in 1 .. count : Contents[i] = items[(head + i - 1) % Capacity]
  BY ContentsType DEF RingInv
<1>2. /\ Contents' \in Seq(M) /\ Len(Contents') = count'
      /\ \A i \in 1 .. count' : Contents'[i] = items'[(head' + i - 1) % Capacity]
  BY NextContentsType DEF RingInv
<1>3. /\ count \in 0 .. Capacity - 1 /\ count' = count + 1
      /\ head \in 0 .. Capacity - 1 /\ head' = head
      /\ tail = (head + count) % Capacity /\ tail \in Slots
      /\ items' = [items EXCEPT ![tail] = m]
      /\ items \in [Slots -> M]
  BY CapacityAssumption DEF PushOK, RingInv, TypeOK, Slots
<1>4. ASSUME NEW i \in 1 .. count
      PROVE  Contents'[i] = Contents[i]
  <2>1. (head + (i - 1)) % Capacity # (head + count) % Capacity
    BY <1>3, CapacityAssumption, OtherIndex
  <2>2. head + i - 1 = head + (i - 1)
    BY <1>3
  <2>3. (head + i - 1) % Capacity \in Slots
    <3>1. head + i - 1 \in Int
      BY <1>3, CapacityAssumption
    <3> QED
      BY <3>1, RingIndex, CapacityAssumption DEF Slots
  <2> QED
    BY <1>1, <1>2, <1>3, <2>1, <2>2, <2>3
<1>5. Contents'[count + 1] = m
  <2>1. head' + (count + 1) - 1 = head + count
    BY <1>3
  <2> QED
    BY <1>2, <1>3, <2>1
<1>6. /\ Append(Contents, m) \in Seq(M) /\ Len(Append(Contents, m)) = count + 1
      /\ \A i \in 1 .. count : Append(Contents, m)[i] = Contents[i]
      /\ Append(Contents, m)[count + 1] = m
  BY <1>1, AppendProperties
<1>7. \A i \in 1 .. count + 1 : Contents'[i] = Append(Contents, m)[i]
  <2> TAKE i \in 1 .. count + 1
  <2>1. i \in 1 .. count \/ i = count + 1
    BY <1>3
  <2> QED
    BY <1>4, <1>5, <1>6, <2>1
<1> QED
  BY <1>2, <1>3, <1>6, <1>7, SeqEqual

\* A pop that succeeds removes the oldest message.
LEMMA TakeRemovesHead ==
    ASSUME RingInv, RingInv', NEW c \in Consumers, count # 0, Take(c)
    PROVE  Contents # <<>> /\ Contents' = Tail(Contents)
<1> DEFINE M == Messages \cup {NoMessage}
<1>1. /\ Contents \in Seq(M) /\ Len(Contents) = count
      /\ \A i \in 1 .. count : Contents[i] = items[(head + i - 1) % Capacity]
  BY ContentsType DEF RingInv
<1>2. /\ Contents' \in Seq(M) /\ Len(Contents') = count'
      /\ \A i \in 1 .. count' : Contents'[i] = items'[(head' + i - 1) % Capacity]
  BY NextContentsType DEF RingInv
<1>3. /\ count \in 1 .. Capacity /\ count' = count - 1
      /\ head \in 0 .. Capacity - 1 /\ head' = (head + 1) % Capacity
      /\ items' = items
  BY CapacityAssumption DEF Take, RingInv, TypeOK, Slots
<1>4. Contents # <<>>
  BY <1>1, <1>3
<1>5. /\ Tail(Contents) \in Seq(M) /\ Len(Tail(Contents)) = count - 1
      /\ \A i \in 1 .. count - 1 : Tail(Contents)[i] = Contents[i + 1]
  BY <1>1, <1>4, HeadTailProperties
<1>6. \A i \in 1 .. count - 1 : Contents'[i] = Tail(Contents)[i]
  <2> TAKE i \in 1 .. count - 1
  <2>1. i - 1 \in 0 .. Capacity /\ i + 1 \in 1 .. count /\ i \in 1 .. count'
    BY <1>3, CapacityAssumption
  <2>2. (((head + 1) % Capacity) + (i - 1)) % Capacity
           = (head + 1 + (i - 1)) % Capacity
    BY <1>3, <2>1, CapacityAssumption, NextIndex
  <2>3. /\ ((head + 1) % Capacity) + i - 1 = ((head + 1) % Capacity) + (i - 1)
        /\ head + (i + 1) - 1 = head + 1 + (i - 1)
    BY <1>3, CapacityAssumption, RingIndex
  <2>4. Contents'[i] = items[(((head + 1) % Capacity) + i - 1) % Capacity]
    BY <1>2, <1>3, <2>1
  <2>5. Tail(Contents)[i] = items[(head + (i + 1) - 1) % Capacity]
    BY <1>1, <1>5, <2>1
  <2> QED
    BY <2>2, <2>3, <2>4, <2>5
<1> QED
  BY <1>2, <1>3, <1>4, <1>5, <1>6, SeqEqual

\* The ring with its condition variables implements the bounded FIFO: every push
\* and pop that succeeds, whoever waited or was woken before it, is a Put or a
\* Get of BoundedFifo, shutdown is its Close, and nothing else changes it.
THEOREM QueueIsFifo == Spec => ImplementsFifo
<1>1. Init => Fifo!Init
  <2> SUFFICES ASSUME Init PROVE Contents = <<>> /\ shutting_down = FALSE
    BY DEF Fifo!Init
  <2> QED
    BY DEF Init, Contents
<1>2. RingInv /\ RingInv' /\ [Next]_vars => [Fifo!Next]_<<Contents, shutting_down>>
  <2> SUFFICES ASSUME RingInv, RingInv', [Next]_vars
               PROVE  Fifo!Next \/ UNCHANGED <<Contents, shutting_down>>
    OBVIOUS
  <2>1. ASSUME NEW p \in Producers, NEW m \in Messages, PushOK(p, m)
        PROVE  Fifo!Put(m)
    <3>1. Len(Contents) < Capacity
      BY <2>1, ContentsType, CapacityAssumption DEF PushOK, RingInv, TypeOK
    <3> QED
      BY <2>1, <3>1, PushAppends DEF Fifo!Put, PushOK
  <2>2. ASSUME NEW c \in Consumers, count # 0, Take(c)
        PROVE  Fifo!Get
    BY <2>2, TakeRemovesHead DEF Fifo!Get, Take
  <2>3. CASE Shutdown
    BY <2>3 DEF Shutdown, Fifo!Next, Fifo!Close, Contents, ring
  <2>4. ASSUME UNCHANGED <<ring, shutting_down>>
        PROVE  UNCHANGED <<Contents, shutting_down>>
    BY <2>4 DEF Contents, ring
  <2> QED
    BY <2>1, <2>2, <2>3, <2>4
       DEF Next, Push, PushWaits, PushShutdown, Pop, PopWaits, PopOK, PopShutdown,
           TryPop, SpuriousWakeup, vars, Fifo!Next
<1> QED
  BY <1>1, <1>2, RingCorrect, PTL DEF Spec, ImplementsFifo, Fifo!Spec

=============================================================================
