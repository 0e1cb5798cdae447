------------------------- MODULE FrameParserProofs -------------------------
(***************************************************************************)
(* Proofs about FrameParser, for any length of a frame, any CRC and any    *)
(* stream: whatever is cut, damaged or inserted, the frames handed over    *)
(* are exactly the intact ones.                                            *)
(***************************************************************************)
EXTENDS FrameParser, FiniteSetTheorems, TLAPS

N == Len(received)
B == Len(buffer)

\* While a frame is collected the buffer is the end of the stream, and holds no
\* other start and no end of a frame; else it is empty.
BufferIsTheEnd ==
    /\ ~collecting => buffer = <<>>
    /\ collecting =>
          /\ B \in 1 .. N
          /\ \A k \in 1 .. B : buffer[k] = received[N - B + k]
          /\ buffer[1] = AT
          /\ \A k \in 2 .. B : buffer[k] \notin {AT, LF}

\* A start of a frame is over: another start or an end came, or it was too long.
Over(i) == \/ \E k \in i + 1 .. N : received[k] \in {AT, LF}
           \/ N - i + 1 >= FrameMaxLen

\* No frame was begun and forgotten.
NothingForgotten == ~collecting => \A i \in DOMAIN received : received[i] = AT => Over(i)

\* The inductive invariant.
ParserInv == TypeOK /\ BufferIsTheEnd /\ NothingForgotten /\ DeliversExactlyTheIntact

-----------------------------------------------------------------------------
\* One more unit leaves what was received before as it is.
LEMMA Grown ==
    ASSUME NEW s \in Seq(Units), NEW u \in Units
    PROVE  /\ Append(s, u) \in Seq(Units)
           /\ Len(Append(s, u)) = Len(s) + 1
           /\ Len(s) \in Nat
           /\ DOMAIN s = 1 .. Len(s)
           /\ DOMAIN Append(s, u) = 1 .. Len(s) + 1
           /\ \A i \in 1 .. Len(s) : Append(s, u)[i] = s[i]
           /\ Append(s, u)[Len(s) + 1] = u
OBVIOUS

\* What stands between two places does not change.
LEMMA SamePart ==
    ASSUME NEW s \in Seq(Units), NEW u \in Units,
           NEW i \in 1 .. Len(s), NEW j \in 1 .. Len(s)
    PROVE  SubSeq(Append(s, u), i, j) = SubSeq(s, i, j)
<1> DEFINE t == Append(s, u)
<1>1. t \in Seq(Units) /\ Len(t) = Len(s) + 1 /\ \A k \in 1 .. Len(s) : t[k] = s[k]
  BY Grown
<1> HIDE DEF t
<1>2. /\ SubSeq(t, i, j) \in Seq(Units)
      /\ Len(SubSeq(t, i, j)) = IF i <= j THEN j - i + 1 ELSE 0
      /\ \A k \in 1 .. j - i + 1 : SubSeq(t, i, j)[k] = t[i + k - 1]
  BY <1>1
<1>3. /\ SubSeq(s, i, j) \in Seq(Units)
      /\ Len(SubSeq(s, i, j)) = IF i <= j THEN j - i + 1 ELSE 0
      /\ \A k \in 1 .. j - i + 1 : SubSeq(s, i, j)[k] = s[i + k - 1]
  OBVIOUS
<1>4. \A k \in 1 .. j - i + 1 : i + k - 1 \in 1 .. Len(s)
  OBVIOUS
<1> DEFINE a == SubSeq(t, i, j)  b == SubSeq(s, i, j)
<1> HIDE DEF a, b
<1>5. a \in Seq(Units) /\ b \in Seq(Units) /\ Len(a) = Len(b)
      /\ \A k \in 1 .. Len(a) : a[k] = b[k]
  BY <1>1, <1>2, <1>3, <1>4 DEF a, b
<1>6. a = b
  BY <1>5
<1> QED BY <1>6 DEF a, b, t

\* Nor does what is intact between them.
LEMMA SameIntact ==
    ASSUME NEW s \in Seq(Units), NEW u \in Units,
           NEW i \in 1 .. Len(s), NEW j \in 1 .. Len(s)
    PROVE  Intact(Append(s, u), i, j) <=> Intact(s, i, j)
<1> DEFINE t == Append(s, u)
<1>1. /\ Len(s) \in Nat /\ DOMAIN s = 1 .. Len(s) /\ DOMAIN t = 1 .. Len(s) + 1
      /\ \A k \in 1 .. Len(s) : t[k] = s[k]
  BY Grown
<1>2. SubSeq(t, i, j) = SubSeq(s, i, j)
  BY SamePart
<1> HIDE DEF t
<1>3. \A k \in i .. j : t[k] = s[k]
  BY <1>1
<1>4. t[i] = s[i] /\ t[j] = s[j]
  BY <1>1
<1>5. /\ (\A k \in i + 1 .. j : t[k] # AT) <=> (\A k \in i + 1 .. j : s[k] # AT)
      /\ (\A k \in i .. j - 1 : t[k] # LF) <=> (\A k \in i .. j - 1 : s[k] # LF)
  BY <1>3
<1>6. i \in DOMAIN s /\ j \in DOMAIN s /\ i \in DOMAIN t /\ j \in DOMAIN t
  BY <1>1
<1>7. Intact(t, i, j) <=> Intact(s, i, j)
  BY <1>2, <1>4, <1>5, <1>6 DEF Intact
<1> QED BY <1>7 DEF t

\* The parts of the definition.
LEMMA IntactMeans ==
    ASSUME NEW s, NEW i, NEW j
    PROVE  Intact(s, i, j) <=> /\ i \in DOMAIN s /\ j \in DOMAIN s /\ i < j
                               /\ s[i] = AT /\ s[j] = LF
                               /\ \A k \in i + 1 .. j : s[k] # AT
                               /\ \A k \in i .. j - 1 : s[k] # LF
                               /\ j - i + 1 < FrameMaxLen
                               /\ Valid(SubSeq(s, i, j))
BY Zenon DEF Intact

\* An intact frame starts before its end.
LEMMA IntactPlaces ==
    ASSUME NEW s \in Seq(Units), NEW u \in Units, NEW i, NEW j,
           Intact(Append(s, u), i, j)
    PROVE  i \in 1 .. Len(s) /\ j \in 1 .. Len(s) + 1
<1>1. i \in 1 .. Len(s) + 1 /\ j \in 1 .. Len(s) + 1 /\ i < j /\ Len(s) \in Nat
  BY Grown DEF Intact
<1> QED BY <1>1

\* What it is to be one of the intact frames.
LEMMA FrameBetween ==
    ASSUME NEW s, NEW i \in DOMAIN s, NEW j \in DOMAIN s, Intact(s, i, j)
    PROVE  [at |-> j, frame |-> SubSeq(s, i, j)] \in IntactFrames(s)
<1> DEFINE p == <<i, j>>
           S == {q \in (DOMAIN s) \X (DOMAIN s) : Intact(s, q[1], q[2])}
<1>1. p[1] = i /\ p[2] = j
  OBVIOUS
<1>2. p \in (DOMAIN s) \X (DOMAIN s)
  OBVIOUS
<1> HIDE DEF p
<1>3. p \in S
  BY <1>1, <1>2
<1>4. IntactFrames(s) = {[at |-> q[2], frame |-> SubSeq(s, q[1], q[2])] : q \in S}
  BY DEF IntactFrames
<1> HIDE DEF S
<1>5. [at |-> p[2], frame |-> SubSeq(s, p[1], p[2])] \in IntactFrames(s)
  BY <1>3, <1>4, Zenon
<1> QED BY <1>1, <1>5

\* A unit that ends no frame adds none.
LEMMA NoneEnds ==
    ASSUME NEW s \in Seq(Units), NEW u \in Units,
           \A i \in 1 .. Len(s) : ~Intact(Append(s, u), i, Len(s) + 1)
    PROVE  IntactFrames(Append(s, u)) = IntactFrames(s)
<1> DEFINE t == Append(s, u)
<1>1. \A i, j : Intact(t, i, j) => i \in 1 .. Len(s) /\ j \in 1 .. Len(s)
  <2> SUFFICES ASSUME NEW i, NEW j, Intact(t, i, j)
               PROVE  i \in 1 .. Len(s) /\ j \in 1 .. Len(s)
    OBVIOUS
  <2>1. i \in 1 .. Len(s) /\ j \in 1 .. Len(s) + 1 /\ Len(s) \in Nat
    BY IntactPlaces, Grown
  <2>2. j # Len(s) + 1
    BY <2>1
  <2> QED BY <2>1, <2>2
<1>2. \A i, j \in 1 .. Len(s) : Intact(t, i, j) <=> Intact(s, i, j)
  BY SameIntact
<1>3. \A i, j : Intact(s, i, j) => i \in 1 .. Len(s) /\ j \in 1 .. Len(s)
  BY Grown DEF Intact
<1>4. \A i, j \in 1 .. Len(s) : SubSeq(t, i, j) = SubSeq(s, i, j)
  BY SamePart
<1>5. DOMAIN s = 1 .. Len(s) /\ DOMAIN t = 1 .. Len(s) + 1 /\ Len(s) \in Nat
  BY Grown
<1>6. 1 .. Len(s) \subseteq 1 .. Len(s) + 1
  BY <1>5
<1> HIDE DEF t
<1>7. ASSUME NEW f \in IntactFrames(t) PROVE f \in IntactFrames(s)
  <2>1. PICK i \in DOMAIN t, j \in DOMAIN t :
           Intact(t, i, j) /\ f = [at |-> j, frame |-> SubSeq(t, i, j)]
    BY <1>7 DEF IntactFrames
  <2>2. i \in DOMAIN s /\ j \in DOMAIN s
    BY <2>1, <1>1, <1>5
  <2>3. Intact(s, i, j) /\ f = [at |-> j, frame |-> SubSeq(s, i, j)]
    BY <2>1, <2>2, <1>2, <1>4, <1>5
  <2> QED BY <2>2, <2>3, FrameBetween
<1>8. ASSUME NEW f \in IntactFrames(s) PROVE f \in IntactFrames(t)
  <2>1. PICK i \in DOMAIN s, j \in DOMAIN s :
           Intact(s, i, j) /\ f = [at |-> j, frame |-> SubSeq(s, i, j)]
    BY <1>8 DEF IntactFrames
  <2>2. i \in DOMAIN t /\ j \in DOMAIN t
    BY <2>1, <1>5, <1>6
  <2>3. Intact(t, i, j) /\ f = [at |-> j, frame |-> SubSeq(t, i, j)]
    BY <2>1, <1>2, <1>4, <1>5
  <2> QED BY <2>2, <2>3, FrameBetween
<1>9. IntactFrames(t) = IntactFrames(s)
  BY <1>7, <1>8
<1> QED BY <1>9 DEF t

\* One that ends a frame, which can only have one start, adds that frame.
LEMMA OneEnds ==
    ASSUME NEW s \in Seq(Units), NEW u \in Units, NEW b \in 1 .. Len(s),
           Intact(Append(s, u), b, Len(s) + 1),
           \A i \in 1 .. Len(s) : Intact(Append(s, u), i, Len(s) + 1) => i = b
    PROVE  IntactFrames(Append(s, u)) = IntactFrames(s) \cup
              {[at |-> Len(s) + 1, frame |-> SubSeq(Append(s, u), b, Len(s) + 1)]}
<1> DEFINE t == Append(s, u)
           n == Len(s)
           e == [at |-> n + 1, frame |-> SubSeq(t, b, n + 1)]
<1>1. \A i, j : Intact(t, i, j) => i \in 1 .. n /\ j \in 1 .. n + 1
  BY IntactPlaces
<1>2. \A i, j \in 1 .. n : Intact(t, i, j) <=> Intact(s, i, j)
  BY SameIntact
<1>4. \A i, j \in 1 .. n : SubSeq(t, i, j) = SubSeq(s, i, j)
  BY SamePart
<1>5. DOMAIN s = 1 .. n /\ DOMAIN t = 1 .. n + 1 /\ n \in Nat
  BY Grown
<1>6. 1 .. n \subseteq 1 .. n + 1 /\ n + 1 \in 1 .. n + 1
      /\ \A j \in 1 .. n + 1 : j \in 1 .. n \/ j = n + 1
  BY <1>5
<1>7. Intact(t, b, n + 1) /\ (\A i \in 1 .. n : Intact(t, i, n + 1) => i = b)
      /\ b \in 1 .. n
  OBVIOUS
<1> HIDE DEF t, n
<1>8. ASSUME NEW f \in IntactFrames(t) PROVE f \in IntactFrames(s) \cup {e}
  <2>1. PICK i \in DOMAIN t, j \in DOMAIN t :
           Intact(t, i, j) /\ f = [at |-> j, frame |-> SubSeq(t, i, j)]
    BY <1>8 DEF IntactFrames
  <2>2. CASE j = n + 1
    <3>1. i = b
      BY <2>1, <2>2, <1>1, <1>7
    <3> QED BY <3>1, <2>1, <2>2
  <2>3. CASE j # n + 1
    <3>1. i \in DOMAIN s /\ j \in DOMAIN s
      BY <2>1, <2>3, <1>1, <1>5, <1>6
    <3>2. Intact(s, i, j) /\ f = [at |-> j, frame |-> SubSeq(s, i, j)]
      BY <2>1, <3>1, <1>2, <1>4, <1>5
    <3> QED BY <3>1, <3>2, FrameBetween
  <2> QED BY <2>2, <2>3
<1>9. ASSUME NEW f \in IntactFrames(s) PROVE f \in IntactFrames(t)
  <2>1. PICK i \in DOMAIN s, j \in DOMAIN s :
           Intact(s, i, j) /\ f = [at |-> j, frame |-> SubSeq(s, i, j)]
    BY <1>9 DEF IntactFrames
  <2>2. i \in DOMAIN t /\ j \in DOMAIN t
    BY <2>1, <1>5, <1>6
  <2>3. Intact(t, i, j) /\ f = [at |-> j, frame |-> SubSeq(t, i, j)]
    BY <2>1, <1>2, <1>4, <1>5
  <2> QED BY <2>2, <2>3, FrameBetween
<1>10. e \in IntactFrames(t)
  BY <1>5, <1>6, <1>7, FrameBetween
<1>11. IntactFrames(t) = IntactFrames(s) \cup {e}
  BY <1>8, <1>9, <1>10
<1> QED BY <1>11 DEF t, n

-----------------------------------------------------------------------------
\* The history after a unit.
LEMMA Received ==
    ASSUME TypeOK, NEW u \in Units, Feed(u)
    PROVE  /\ received' \in Seq(Units)
           /\ N \in Nat /\ N' = N + 1
           /\ DOMAIN received = 1 .. N /\ DOMAIN received' = 1 .. N + 1
           /\ \A i \in 1 .. N : received'[i] = received[i]
           /\ received'[N + 1] = u
<1>1. received \in Seq(Units) /\ received' = Append(received, u)
  BY DEF TypeOK, Feed
<1> QED BY <1>1, Grown DEF N

\* Every step keeps the types.
LEMMA TypeStep ==
    ASSUME Sizes, TypeOK, NEW u \in Units, Feed(u)
    PROVE  TypeOK'
<1>1. received' \in Seq(Units)
  BY Received
<1>2. buffer \in Seq(Units) /\ Len(buffer) < FrameMaxLen /\ FrameMaxLen \in Nat /\ FrameMaxLen > 1
      /\ AT \in Units /\ <<>> \in Seq(Units) /\ Len(<<>>) = 0
  BY DEF TypeOK, Sizes, Units
<1>3. \A c \in Counters : Count(c) => stats' \in [Counters -> Nat]
  BY DEF TypeOK, Count
<1>4. /\ buffer' \in Seq(Units) /\ Len(buffer') < FrameMaxLen /\ collecting' \in BOOLEAN
      /\ stats' \in [Counters -> Nat]
      /\ \A d \in delivered' : d.frame \in Seq(Units)
  <2>1. CASE Discard(u)
    BY <2>1, <1>2, <1>3 DEF Discard, TypeOK, Counters
  <2>2. CASE Begin(u)
    BY <2>2, <1>2 DEF Begin, TypeOK
  <2>3. CASE BeginAgain(u)
    BY <2>3, <1>2, <1>3 DEF BeginAgain, TypeOK, Counters
  <2>4. CASE Overflow(u)
    <3>1. buffer' = <<>> /\ collecting' = FALSE
      BY <2>4 DEF Overflow, Reset
    <3>2. buffer' \in Seq(Units) /\ Len(buffer') < FrameMaxLen
      BY <3>1, <1>2
    <3> QED BY <2>4, <3>1, <3>2, <1>3 DEF Overflow, TypeOK, Counters
  <2>5. CASE Collect(u)
    BY <2>5, <1>2 DEF Collect, Room, TypeOK
  <2>6. CASE End(u)
    <3>1. buffer' = <<>> /\ collecting' = FALSE
      BY <2>6 DEF End, Reset
    <3>2. Append(buffer, u) \in Seq(Units)
      BY <1>2
    <3>3. stats' \in [Counters -> Nat]
      BY <2>6, <1>3 DEF End, Counters
    <3>4. delivered' \in {delivered, delivered \cup
                          {[at |-> Len(received) + 1, frame |-> Append(buffer, u)]}}
      BY <2>6 DEF End
    <3>5. \A d \in delivered' : d.frame \in Seq(Units)
      <4> DEFINE new == [at |-> Len(received) + 1, frame |-> Append(buffer, u)]
      <4>1. new.frame \in Seq(Units) /\ \A d \in delivered : d.frame \in Seq(Units)
        BY <3>2 DEF TypeOK
      <4>2. delivered' = delivered \/ delivered' = delivered \cup {new}
        BY <3>4
      <4> HIDE DEF new
      <4>3. \A d \in delivered' : d \in delivered \/ d = new
        BY <4>2
      <4> QED BY <4>1, <4>3
    <3>6. buffer' \in Seq(Units) /\ Len(buffer') < FrameMaxLen
      BY <3>1, <1>2
    <3> QED BY <3>1, <3>3, <3>5, <3>6
  <2> QED BY <2>1, <2>2, <2>3, <2>4, <2>5, <2>6 DEF Feed
<1> QED BY <1>1, <1>4 DEF TypeOK

\* Every step leaves the end of the stream in the buffer.
LEMMA BufferStep ==
    ASSUME Sizes, TypeOK, BufferIsTheEnd, NEW u \in Units, Feed(u)
    PROVE  BufferIsTheEnd'
<1>1. /\ N \in Nat /\ N' = N + 1 /\ received'[N + 1] = u
      /\ \A i \in 1 .. N : received'[i] = received[i]
  BY Received
<1>2. buffer \in Seq(Units) /\ AT \in Units /\ B \in Nat
  BY DEF TypeOK, Units, B
<1>3. ASSUME buffer' = <<AT>>, u = AT, collecting' = TRUE
      PROVE  BufferIsTheEnd'
  <2>1. B' = 1 /\ buffer'[1] = AT
    BY <1>3 DEF B
  <2> QED BY <2>1, <1>1, <1>3 DEF BufferIsTheEnd
<1>4. CASE Discard(u)
  BY <1>4 DEF Discard, BufferIsTheEnd
<1>5. CASE Begin(u)
  BY <1>3, <1>5 DEF Begin
<1>6. CASE BeginAgain(u)
  BY <1>3, <1>6 DEF BeginAgain, TypeOK
<1>7. CASE Overflow(u)
  BY <1>7 DEF Overflow, Reset, BufferIsTheEnd
<1>8. CASE Collect(u)
  <2>1. collecting /\ collecting' = collecting /\ u # AT /\ u # LF
        /\ buffer' = Append(buffer, u)
    BY <1>8 DEF Collect, Room
  <2>2. /\ B' = B + 1 /\ buffer'[B + 1] = u
        /\ \A k \in 1 .. B : buffer'[k] = buffer[k]
    BY <2>1, <1>2 DEF B
  <2>3. /\ B \in 1 .. N /\ buffer[1] = AT
        /\ \A k \in 1 .. B : buffer[k] = received[N - B + k]
        /\ \A k \in 2 .. B : buffer[k] \notin {AT, LF}
    BY <2>1 DEF BufferIsTheEnd
  <2>4. B' \in 1 .. N' /\ buffer'[1] = AT
    BY <1>1, <2>2, <2>3
  <2>5. \A k \in 1 .. B + 1 : buffer'[k] = received'[((N + 1) - (B + 1)) + k]
    <3> SUFFICES ASSUME NEW k \in 1 .. B + 1
                 PROVE  buffer'[k] = received'[((N + 1) - (B + 1)) + k]
      OBVIOUS
    <3>1. ((N + 1) - (B + 1)) + k = N - B + k
      BY <1>1, <1>2
    <3>2. CASE k = B + 1
      <4>1. N - B + k = N + 1
        BY <3>2, <1>1, <1>2
      <4> QED BY <3>1, <3>2, <4>1, <1>1, <2>2
    <3>3. CASE k # B + 1
      <4>1. k \in 1 .. B /\ N - B + k \in 1 .. N
        BY <3>3, <1>1, <1>2, <2>3
      <4> QED BY <3>1, <4>1, <1>1, <2>2, <2>3
    <3> QED BY <3>2, <3>3
  <2>6. \A k \in 2 .. B + 1 : buffer'[k] \notin {AT, LF}
    <3> SUFFICES ASSUME NEW k \in 2 .. B + 1 PROVE buffer'[k] \notin {AT, LF}
      OBVIOUS
    <3>1. CASE k = B + 1
      BY <3>1, <2>1, <2>2
    <3>2. CASE k # B + 1
      <4>1. k \in 2 .. B /\ k \in 1 .. B
        BY <3>2, <1>2
      <4> QED BY <4>1, <2>2, <2>3
    <3> QED BY <3>1, <3>2
  <2>7. \A k \in 1 .. B' : buffer'[k] = received'[N' - B' + k]
    <3>1. B' = B + 1 /\ N' = N + 1
      BY <1>1, <2>2
    <3> QED BY <3>1, <2>5, Zenon
  <2>8. \A k \in 2 .. B' : buffer'[k] \notin {AT, LF}
    BY <2>2, <2>6
  <2> QED BY <2>1, <2>4, <2>7, <2>8 DEF BufferIsTheEnd
<1>9. CASE End(u)
  BY <1>9 DEF End, Reset, BufferIsTheEnd
<1> QED BY <1>4, <1>5, <1>6, <1>7, <1>8, <1>9 DEF Feed

\* Every step ends or goes on with what was begun.
LEMMA ForgottenStep ==
    ASSUME Sizes, TypeOK, BufferIsTheEnd, NothingForgotten, NEW u \in Units, Feed(u)
    PROVE  NothingForgotten'
<1> USE DEF NothingForgotten
<1>1. /\ N \in Nat /\ N' = N + 1 /\ received'[N + 1] = u
      /\ DOMAIN received = 1 .. N /\ DOMAIN received' = 1 .. N + 1
      /\ \A i \in 1 .. N : received'[i] = received[i]
  BY Received
<1>2. FrameMaxLen \in Nat
  BY DEF Sizes
<1>3. ASSUME NEW i \in 1 .. N, Over(i) PROVE Over(i)'
  <2>1. CASE N - i + 1 >= FrameMaxLen
    <3>1. N' - i + 1 >= FrameMaxLen
      BY <2>1, <1>1, <1>2
    <3> QED BY <3>1 DEF Over
  <2>2. CASE \E k \in i + 1 .. N : received[k] \in {AT, LF}
    <3>1. PICK k \in i + 1 .. N : received[k] \in {AT, LF}
      BY <2>2
    <3>2. k \in i + 1 .. N + 1 /\ k \in 1 .. N
      BY <1>1
    <3>3. received'[k] \in {AT, LF}
      BY <3>1, <3>2, <1>1
    <3> QED BY <3>2, <3>3, <1>1 DEF Over
  <2> QED BY <1>3, <2>1, <2>2 DEF Over
<1>4. ASSUME u # AT, \A i \in 1 .. N : received[i] = AT => Over(i)'
      PROVE  NothingForgotten'
  <2> SUFFICES ASSUME NEW i \in 1 .. N + 1, received'[i] = AT PROVE Over(i)'
    BY <1>1
  <2>1. i \in 1 .. N
    BY <1>1, <1>4
  <2> QED BY <2>1, <1>1, <1>4
<1>5. ASSUME collecting, NEW i \in 1 .. N, received[i] = AT
      PROVE  i = N - B + 1 \/ (i < N - B + 1 /\ Over(i)')
  <2>1. /\ B \in 1 .. N
        /\ \A k \in 1 .. B : buffer[k] = received[N - B + k]
        /\ buffer[1] = AT
        /\ \A k \in 2 .. B : buffer[k] \notin {AT, LF}
    BY <1>5 DEF BufferIsTheEnd
  <2>2. CASE i > N - B + 1
    <3>1. /\ i - (N - B) \in 2 .. B /\ i - (N - B) \in 1 .. B
          /\ N - B + (i - (N - B)) = i
      BY <2>1, <2>2, <1>1
    <3>2. buffer[i - (N - B)] = received[i]
      BY <2>1, <3>1
    <3> QED BY <1>5, <2>1, <3>1, <3>2
  <2>3. CASE i < N - B + 1
    <3>1. N - B + 1 \in i + 1 .. N + 1 /\ N - B + 1 \in 1 .. N /\ 1 \in 1 .. B
      BY <2>1, <2>3, <1>1
    <3>2. received'[N - B + 1] = AT
      BY <1>1, <2>1, <3>1
    <3> QED BY <2>3, <3>1, <3>2, <1>1 DEF Over
  <2>4. CASE i = N - B + 1
    BY <2>4
  <2>5. i \in Int /\ N - B + 1 \in Int
    BY <2>1, <1>1
  <2> QED BY <2>2, <2>3, <2>4, <2>5
<1>6. CASE Discard(u)
  <2>1. u # AT /\ ~collecting
    BY <1>6 DEF Discard
  <2> QED BY <2>1, <1>1, <1>3, <1>4
<1>7. CASE Begin(u)
  BY <1>7 DEF Begin
<1>8. CASE BeginAgain(u)
  BY <1>8 DEF BeginAgain
<1>9. CASE Overflow(u)
  <2>1. collecting /\ u # AT /\ B >= FrameMaxLen - 1 /\ B \in 1 .. N
    BY <1>9, <1>2 DEF Overflow, Room, B, TypeOK, BufferIsTheEnd
  <2>2. ASSUME NEW i \in 1 .. N, i = N - B + 1 PROVE Over(i)'
    <3>1. N' - i + 1 >= FrameMaxLen
      BY <1>1, <1>2, <2>1, <2>2
    <3> QED BY <3>1 DEF Over
  <2> QED BY <2>1, <2>2, <1>4, <1>5
<1>10. CASE Collect(u)
  BY <1>10 DEF Collect, Room
<1>11. CASE End(u)
  <2>1. collecting /\ u # AT /\ u = LF
    BY <1>11 DEF End, Room, Sizes
  <2>2. ASSUME NEW i \in 1 .. N PROVE Over(i)'
    <3>1. N + 1 \in i + 1 .. N'
      BY <1>1
    <3> QED BY <3>1, <2>1, <1>1 DEF Over
  <2> QED BY <2>1, <2>2, <1>4
<1> QED BY <1>6, <1>7, <1>8, <1>9, <1>10, <1>11 DEF Feed

\* What a line feed can end: the frame in the buffer, when it has room for it.
LEMMA OnlyTheBuffer ==
    ASSUME Sizes, TypeOK, BufferIsTheEnd, NothingForgotten, NEW u \in Units,
           NEW i \in 1 .. N, Intact(Append(received, u), i, N + 1)
    PROVE  /\ collecting /\ B \in 1 .. N /\ i = N - B + 1
           /\ Room(u) /\ u = LF
<1> DEFINE t == Append(received, u)
<1>1. /\ N \in Nat /\ t[N + 1] = u /\ DOMAIN received = 1 .. N
      /\ \A k \in 1 .. N : t[k] = received[k]
  BY Grown DEF TypeOK, N
<1>2. FrameMaxLen \in Nat /\ AT # LF
  BY DEF Sizes
<1> HIDE DEF t
<1>3. /\ t[i] = AT /\ t[N + 1] = LF
      /\ \A k \in i + 1 .. N + 1 : t[k] # AT
      /\ \A k \in i .. N : t[k] # LF
      /\ (N + 1) - i + 1 < FrameMaxLen
  <2>1. (N + 1) - 1 = N
    BY <1>1
  <2>2. Intact(t, i, N + 1)
    BY DEF t
  <2>3. /\ t[i] = AT /\ t[N + 1] = LF
        /\ \A k \in i + 1 .. N + 1 : t[k] # AT
        /\ \A k \in i .. (N + 1) - 1 : t[k] # LF
        /\ (N + 1) - i + 1 < FrameMaxLen
    BY <2>2, IntactMeans, Zenon
  <2> QED BY <2>1, <2>3
<1>4. received[i] = AT /\ u = LF
  BY <1>1, <1>3
<1>5. ~Over(i)
  <2>1. ~(N - i + 1 >= FrameMaxLen)
    BY <1>1, <1>2, <1>3
  <2>2. ASSUME NEW k \in i + 1 .. N PROVE received[k] \notin {AT, LF}
    <3>1. k \in 1 .. N /\ k \in i + 1 .. N + 1 /\ k \in i .. N
      BY <1>1
    <3> QED BY <3>1, <1>1, <1>3
  <2> QED BY <2>1, <2>2 DEF Over
<1>6. collecting
  BY <1>1, <1>4, <1>5 DEF NothingForgotten
<1>7. /\ B \in 1 .. N
      /\ \A k \in 1 .. B : buffer[k] = received[N - B + k]
      /\ buffer[1] = AT
      /\ \A k \in 2 .. B : buffer[k] \notin {AT, LF}
  BY <1>6 DEF BufferIsTheEnd
<1>8. i = N - B + 1
  <2>1. CASE i > N - B + 1
    <3>1. /\ i - (N - B) \in 2 .. B /\ i - (N - B) \in 1 .. B
          /\ N - B + (i - (N - B)) = i
      BY <1>1, <1>7, <2>1
    <3>2. buffer[i - (N - B)] = received[i]
      BY <1>7, <3>1
    <3> QED BY <1>4, <1>7, <3>1, <3>2
  <2>2. CASE i < N - B + 1
    <3>1. /\ N - B + 1 \in i + 1 .. N + 1 /\ N - B + 1 \in 1 .. N /\ 1 \in 1 .. B
      BY <1>1, <1>7, <2>2
    <3>2. t[N - B + 1] = AT
      BY <1>1, <1>7, <3>1
    <3> QED BY <3>1, <3>2, <1>3
  <2>3. i \in Int /\ N - B + 1 \in Int
    BY <1>1, <1>7
  <2> QED BY <2>1, <2>2, <2>3
<1>9. B < FrameMaxLen - 1
  BY <1>1, <1>2, <1>3, <1>7, <1>8
<1>10. Room(u)
  BY <1>2, <1>4, <1>6, <1>9 DEF Room, B
<1> QED BY <1>4, <1>6, <1>7, <1>8, <1>10

\* The frame that ends is the one in the buffer.
LEMMA BufferEnds ==
    ASSUME Sizes, TypeOK, BufferIsTheEnd, NEW u \in Units, Room(u), u = LF
    PROVE  /\ B \in 1 .. N /\ N \in Nat /\ N - B + 1 \in 1 .. N
           /\ SubSeq(Append(received, u), N - B + 1, N + 1) = Append(buffer, u)
           /\ Valid(Append(buffer, u))
                 => Intact(Append(received, u), N - B + 1, N + 1)
<1> DEFINE t == Append(received, u)  b == N - B + 1  f == Append(buffer, u)
<1>1. /\ N \in Nat /\ t[N + 1] = u /\ DOMAIN t = 1 .. N + 1
      /\ t \in Seq(Units) /\ Len(t) = N + 1
      /\ \A k \in 1 .. N : t[k] = received[k]
  BY Grown DEF TypeOK, N
<1>2. /\ B \in 1 .. N
      /\ \A k \in 1 .. B : buffer[k] = received[N - B + k]
      /\ buffer[1] = AT
      /\ \A k \in 2 .. B : buffer[k] \notin {AT, LF}
  BY DEF Room, BufferIsTheEnd
<1>3. /\ f \in Seq(Units) /\ Len(f) = B + 1 /\ f[B + 1] = u
      /\ \A k \in 1 .. B : f[k] = buffer[k]
  BY Grown DEF TypeOK, B
<1>4. b \in 1 .. N /\ B \in Nat /\ (N + 1) - b + 1 = B + 1
  BY <1>1, <1>2
<1>5. B < FrameMaxLen - 1 /\ FrameMaxLen \in Nat /\ AT # LF
  BY DEF Room, Sizes, B
<1> HIDE DEF t, f
<1>6. \A k \in 1 .. B : b + k - 1 \in 1 .. N /\ b + k - 1 = N - B + k
  BY <1>1, <1>4
<1>7. \A k \in 1 .. B : t[b + k - 1] = f[k]
  BY <1>1, <1>2, <1>3, <1>6
<1>8. t[b + (B + 1) - 1] = f[B + 1]
  <2>1. b + (B + 1) - 1 = N + 1
    BY <1>1, <1>4
  <2> QED BY <2>1, <1>1, <1>3
<1>9. \A k \in 1 .. B + 1 : t[b + k - 1] = f[k]
  <2> SUFFICES ASSUME NEW k \in 1 .. B + 1 PROVE t[b + k - 1] = f[k]
    OBVIOUS
  <2>1. k \in 1 .. B \/ k = B + 1
    BY <1>4
  <2> QED BY <2>1, <1>7, <1>8
<1>10. SubSeq(t, b, N + 1) = f
  <2> DEFINE a == SubSeq(t, b, N + 1)
  <2>1. /\ a \in Seq(Units) /\ Len(a) = B + 1
        /\ \A k \in 1 .. B + 1 : a[k] = t[b + k - 1]
    <3>1. b \in 1 .. N + 1 /\ N + 1 \in 1 .. N + 1 /\ b <= N + 1
      BY <1>1, <1>4
    <3> HIDE DEF b
    <3>2. /\ a \in Seq(Units) /\ Len(a) = (N + 1) - b + 1
          /\ \A k \in 1 .. (N + 1) - b + 1 : a[k] = t[b + k - 1]
      BY <3>1, <1>1
    <3> QED BY <3>2, <1>4
  <2> HIDE DEF a, b
  <2>2. a = f
    BY <2>1, <1>3, <1>9
  <2> QED BY <2>2 DEF a
<1>11. ASSUME Valid(f) PROVE Intact(t, b, N + 1)
  <2>1. b \in DOMAIN t /\ N + 1 \in DOMAIN t /\ b < N + 1
        /\ (N + 1) - b + 1 < FrameMaxLen
    BY <1>1, <1>4, <1>5, SMTT(30)
  <2>2. t[b] = AT /\ t[N + 1] = LF
    <3>1. b + 1 - 1 = b /\ 1 \in 1 .. B + 1 /\ 1 \in 1 .. B
      BY <1>2, <1>4
    <3>2. t[b] = f[1]
      BY <1>9, <3>1
    <3> QED BY <3>1, <3>2, <1>1, <1>2, <1>3
  <2>3. ASSUME NEW k \in b + 1 .. N PROVE t[k] \notin {AT, LF}
    <3>1. k - b + 1 \in 2 .. B /\ k - b + 1 \in 1 .. B /\ b + (k - b + 1) - 1 = k
      BY <1>1, <1>4
    <3>2. t[k] = f[k - b + 1]
      BY <1>7, <3>1
    <3> QED BY <3>1, <3>2, <1>2, <1>3
  <2>4. \A k \in b + 1 .. N + 1 : t[k] # AT
    <3>1. \A k \in b + 1 .. N + 1 : k \in b + 1 .. N \/ k = N + 1
      BY <1>1, <1>4
    <3> QED BY <3>1, <2>2, <2>3, <1>5
  <2>5. \A k \in b .. (N + 1) - 1 : t[k] # LF
    <3>1. \A k \in b .. (N + 1) - 1 : k \in b + 1 .. N \/ k = b
      BY <1>1, <1>4
    <3> QED BY <3>1, <2>2, <2>3, <1>5
  <2>6. Valid(SubSeq(t, b, N + 1))
    BY <1>10, <1>11
  <2> HIDE DEF b
  <2> QED BY <2>1, <2>2, <2>4, <2>5, <2>6, IntactMeans, Zenon
<1> QED BY <1>1, <1>2, <1>4, <1>10, <1>11 DEF t, f

\* Every step hands over what is intact, and only that.
LEMMA DeliverStep ==
    ASSUME Sizes, ParserInv, NEW u \in Units, Feed(u)
    PROVE  DeliversExactlyTheIntact'
<1>1. /\ received \in Seq(Units) /\ received' = Append(received, u)
      /\ delivered = IntactFrames(received)
  BY DEF ParserInv, TypeOK, Feed, DeliversExactlyTheIntact
<1>2. ASSUME ~(Room(u) /\ u = LF /\ Valid(Append(buffer, u)))
      PROVE  IntactFrames(received') = IntactFrames(received)
  <2>1. ASSUME NEW i \in 1 .. N, Intact(Append(received, u), i, N + 1) PROVE FALSE
    <3>1. Room(u) /\ u = LF /\ i = N - B + 1
      BY <2>1, OnlyTheBuffer DEF ParserInv
    <3>2. SubSeq(Append(received, u), i, N + 1) = Append(buffer, u)
      BY <3>1, BufferEnds DEF ParserInv
    <3>3. Valid(Append(buffer, u))
      BY <2>1, <3>2 DEF Intact
    <3> QED BY <1>2, <3>1, <3>3
  <2> QED BY <1>1, <2>1, NoneEnds DEF N
<1>3. ASSUME Room(u), u = LF, Valid(Append(buffer, u))
      PROVE  IntactFrames(received') = IntactFrames(received) \cup
                {[at |-> N + 1, frame |-> Append(buffer, u)]}
  <2> DEFINE b == N - B + 1
  <2>1. /\ b \in 1 .. N /\ Intact(Append(received, u), b, N + 1)
        /\ SubSeq(Append(received, u), b, N + 1) = Append(buffer, u)
    BY <1>3, BufferEnds DEF ParserInv
  <2>2. \A i \in 1 .. N : Intact(Append(received, u), i, N + 1) => i = b
    BY OnlyTheBuffer DEF ParserInv
  <2> HIDE DEF b
  <2> QED BY <1>1, <2>1, <2>2, OneEnds DEF N
<1>4. CASE End(u) /\ Valid(Append(buffer, u))
  <2>1. Room(u) /\ u = LF
    BY <1>4 DEF End
  <2>2. delivered' = delivered \cup {[at |-> N + 1, frame |-> Append(buffer, u)]}
    BY <1>4 DEF End, N, Valid
  <2> QED BY <1>1, <1>3, <1>4, <2>1, <2>2 DEF DeliversExactlyTheIntact
<1>5. CASE End(u) /\ ~Valid(Append(buffer, u))
  <2>1. delivered' = delivered
    BY <1>5 DEF End
  <2> QED BY <1>1, <1>2, <1>5, <2>1 DEF DeliversExactlyTheIntact
<1>6. CASE Discard(u) \/ Begin(u) \/ BeginAgain(u) \/ Overflow(u) \/ Collect(u)
  <2>1. delivered' = delivered /\ ~(Room(u) /\ u = LF)
    BY <1>6 DEF Discard, Begin, BeginAgain, Overflow, Collect, Room
  <2> QED BY <1>1, <1>2, <2>1 DEF DeliversExactlyTheIntact
<1> QED BY <1>4, <1>5, <1>6 DEF Feed

-----------------------------------------------------------------------------
\* The starts of frames in a stream.
Starts(s) == {i \in DOMAIN s : s[i] = AT}

Counted == stats["valid_frames"] + stats["crc_errors"] + stats["format_errors"]
              + stats["overflow_errors"]

\* One more unit is one more start, or none.
LEMMA StartsGrow ==
    ASSUME NEW s \in Seq(Units), NEW u \in Units
    PROVE  /\ Cardinality(Starts(s)) \in Nat
           /\ Cardinality(Starts(Append(s, u)))
                 = Cardinality(Starts(s)) + IF u = AT THEN 1 ELSE 0
<1> DEFINE n == Len(s)
<1>1. /\ n \in Nat /\ DOMAIN s = 1 .. n /\ DOMAIN Append(s, u) = 1 .. n + 1
      /\ \A i \in 1 .. n : Append(s, u)[i] = s[i]
      /\ Append(s, u)[n + 1] = u
  BY Grown
<1>2. \A i \in 1 .. n + 1 : i \in 1 .. n \/ i = n + 1
  BY <1>1
<1>3. n + 1 \in 1 .. n + 1 /\ n + 1 \notin 1 .. n /\ 1 .. n \subseteq 1 .. n + 1
  BY <1>1
<1> HIDE DEF n
<1>4. IsFiniteSet(Starts(s)) /\ Cardinality(Starts(s)) \in Nat
  <2>1. IsFiniteSet(1 .. n)
    BY <1>1, FS_Interval
  <2> QED BY <1>1, <2>1, FS_Subset, FS_CardinalityType DEF Starts
<1>5. CASE u = AT
  <2>1. Starts(Append(s, u)) = Starts(s) \cup {n + 1} /\ n + 1 \notin Starts(s)
    BY <1>1, <1>2, <1>3, <1>5 DEF Starts
  <2> QED BY <1>4, <1>5, <2>1, FS_AddElement
<1>6. CASE u # AT
  <2>1. Starts(Append(s, u)) = Starts(s)
    BY <1>1, <1>2, <1>3, <1>6 DEF Starts
  <2> QED BY <1>4, <1>6, <2>1
<1> QED BY <1>4, <1>5, <1>6

\* Counting one more.
LEMMA CountsOne ==
    ASSUME TypeOK, NEW c \in Counters, Count(c)
    PROVE  /\ Counted \in Nat
           /\ Counted' = Counted + IF c = "discarded_bytes" THEN 0 ELSE 1
<1>1. /\ stats["valid_frames"] \in Nat /\ stats["crc_errors"] \in Nat
      /\ stats["format_errors"] \in Nat /\ stats["overflow_errors"] \in Nat
  BY DEF TypeOK, Counters
<1>2. \A d \in Counters : stats'[d] = IF d = c THEN stats[d] + 1 ELSE stats[d]
  BY DEF Count, TypeOK
<1>3. c \in {"valid_frames", "crc_errors", "format_errors", "overflow_errors",
             "discarded_bytes"}
  BY DEF Counters
<1>4. /\ stats'["valid_frames"] = IF c = "valid_frames" THEN stats["valid_frames"] + 1
                                  ELSE stats["valid_frames"]
      /\ stats'["crc_errors"] = IF c = "crc_errors" THEN stats["crc_errors"] + 1
                                ELSE stats["crc_errors"]
      /\ stats'["format_errors"] = IF c = "format_errors" THEN stats["format_errors"] + 1
                                   ELSE stats["format_errors"]
      /\ stats'["overflow_errors"] = IF c = "overflow_errors"
                                     THEN stats["overflow_errors"] + 1
                                     ELSE stats["overflow_errors"]
  BY <1>2 DEF Counters
<1> QED BY <1>1, <1>3, <1>4 DEF Counted

\* Every step counts the start it comes to an end with.
LEMMA StatsStep ==
    ASSUME Sizes, TypeOK, StatsAccountForFrames, NEW u \in Units, Feed(u)
    PROVE  StatsAccountForFrames'
<1> DEFINE open == IF collecting THEN 1 ELSE 0
           starts == Cardinality(Starts(received))
<1>1. /\ starts \in Nat /\ starts' = starts + IF u = AT THEN 1 ELSE 0
  BY StartsGrow DEF TypeOK, Feed
<1>2. starts = Counted + open
  BY DEF StatsAccountForFrames, Starts, Counted
<1>3. StatsAccountForFrames' <=> starts' = Counted' + open'
  BY DEF StatsAccountForFrames, Starts, Counted
<1>4. Counted \in Nat
  BY DEF Counted, TypeOK, Counters
<1> HIDE DEF starts
<1>5. CASE Discard(u)
  <2>1. Counted' = Counted /\ u # AT /\ collecting' = collecting
    BY <1>5, CountsOne, <1>4 DEF Discard, Counters
  <2> QED BY <1>1, <1>2, <1>3, <1>4, <2>1
<1>6. CASE Begin(u)
  <2>1. Counted' = Counted /\ u = AT /\ ~collecting /\ collecting'
    BY <1>6 DEF Begin, Counted
  <2> QED BY <1>1, <1>2, <1>3, <1>4, <2>1
<1>7. CASE BeginAgain(u)
  <2>1. Counted' = Counted + 1 /\ u = AT /\ collecting' = collecting
    BY <1>7, CountsOne DEF BeginAgain, Counters
  <2> QED BY <1>1, <1>2, <1>3, <1>4, <2>1
<1>8. CASE Overflow(u)
  <2>1. Counted' = Counted + 1 /\ u # AT /\ collecting /\ ~collecting'
    BY <1>8, CountsOne DEF Overflow, Reset, Counters
  <2> QED BY <1>1, <1>2, <1>3, <1>4, <2>1
<1>9. CASE Collect(u)
  <2>1. Counted' = Counted /\ u # AT /\ collecting' = collecting
    BY <1>9 DEF Collect, Room, Counted
  <2> QED BY <1>1, <1>2, <1>3, <1>4, <2>1
<1>10. CASE End(u)
  <2>1. Count("valid_frames") \/ Count("crc_errors") \/ Count("format_errors")
    BY <1>10 DEF End
  <2>2. Counted' = Counted + 1
    BY <2>1, CountsOne DEF Counters
  <2>3. u # AT /\ collecting /\ ~collecting'
    BY <1>10 DEF End, Room, Reset
  <2> QED BY <1>1, <1>2, <1>3, <1>4, <2>2, <2>3
<1> QED BY <1>5, <1>6, <1>7, <1>8, <1>9, <1>10 DEF Feed

-----------------------------------------------------------------------------
\* The invariant holds before anything is received.
LEMMA InitInv == Sizes /\ Init => ParserInv
<1> SUFFICES ASSUME Sizes, Init PROVE ParserInv
  OBVIOUS
<1>1. received = <<>> /\ DOMAIN received = {} /\ buffer = <<>> /\ Len(buffer) = 0
      /\ collecting = FALSE /\ delivered = {}
  BY DEF Init
<1>2. TypeOK
  <2>1. <<>> \in Seq(Units) /\ FrameMaxLen \in Nat /\ FrameMaxLen > 0
    BY DEF Sizes
  <2>2. buffer \in Seq(Units) /\ Len(buffer) < FrameMaxLen /\ received \in Seq(Units)
    BY <1>1, <2>1
  <2>3. stats \in [Counters -> Nat]
    BY DEF Init
  <2> QED BY <1>1, <2>2, <2>3 DEF TypeOK
<1>3. IntactFrames(received) = {}
  BY <1>1 DEF IntactFrames
<1> QED BY <1>1, <1>2, <1>3 DEF ParserInv, BufferIsTheEnd, NothingForgotten,
                                DeliversExactlyTheIntact

\* Every step keeps it.
LEMMA NextInv == Sizes /\ ParserInv /\ [Next]_vars => ParserInv'
<1> SUFFICES ASSUME Sizes, ParserInv, [Next]_vars PROVE ParserInv'
  OBVIOUS
<1>1. ASSUME NEW u \in Units, Feed(u) PROVE ParserInv'
  BY <1>1, TypeStep, BufferStep, ForgottenStep, DeliverStep DEF ParserInv
<1>2. CASE UNCHANGED vars
  BY <1>2 DEF vars, ParserInv, TypeOK, BufferIsTheEnd, NothingForgotten, Over, N, B,
              DeliversExactlyTheIntact
<1> QED BY <1>1, <1>2 DEF Next

\* Nothing is counted before anything is received.
LEMMA InitStats == Init => StatsAccountForFrames
<1> SUFFICES ASSUME Init PROVE StatsAccountForFrames
  OBVIOUS
<1>1. /\ {i \in DOMAIN received : received[i] = AT} = {}
      /\ \A c \in Counters : stats[c] = 0
      /\ ~collecting
  BY DEF Init
<1>2. /\ stats["valid_frames"] = 0 /\ stats["crc_errors"] = 0
      /\ stats["format_errors"] = 0 /\ stats["overflow_errors"] = 0
  BY <1>1 DEF Counters
<1> QED BY <1>1, <1>2, FS_EmptySet DEF StatsAccountForFrames

\* Whatever is cut, damaged, overlong or inserted, the parser hands over exactly
\* the intact frames of the stream, with its buffer within its bounds.
THEOREM FramesSurvive ==
    ASSUME Sizes PROVE Spec => [](TypeOK /\ DeliversExactlyTheIntact)
<1>1. Init => ParserInv
  BY InitInv
<1>2. ParserInv /\ [Next]_vars => ParserInv'
  BY NextInv
<1>3. ParserInv => TypeOK /\ DeliversExactlyTheIntact
  BY DEF ParserInv
<1> QED BY <1>1, <1>2, <1>3, PTL DEF Spec

\* Every start of a frame is counted once: the statistics miss no error.
THEOREM StatisticsAreComplete ==
    ASSUME Sizes PROVE Spec => []StatsAccountForFrames
<1>1. Init => TypeOK /\ StatsAccountForFrames
  BY InitInv, InitStats DEF ParserInv
<1>2. TypeOK /\ StatsAccountForFrames /\ [Next]_vars => (TypeOK /\ StatsAccountForFrames)'
  <2> SUFFICES ASSUME TypeOK, StatsAccountForFrames, [Next]_vars
               PROVE  (TypeOK /\ StatsAccountForFrames)'
    OBVIOUS
  <2>1. ASSUME NEW u \in Units, Feed(u) PROVE (TypeOK /\ StatsAccountForFrames)'
    BY <2>1, TypeStep, StatsStep
  <2>2. CASE UNCHANGED vars
    BY <2>2 DEF vars, TypeOK, StatsAccountForFrames
  <2> QED BY <2>1, <2>2 DEF Next
<1> QED BY <1>1, <1>2, PTL DEF Spec
=============================================================================
