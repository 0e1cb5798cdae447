------------------------- MODULE MessagePathProofs -------------------------
(***************************************************************************)
(* Proofs about MessagePath, for any courses, sizes and CRC: the frames    *)
(* and the lines handed over are those of the stream, whatever is cut,     *)
(* damaged or chopped, and what the other end takes of them is what was    *)
(* sent.  The lemmas on the receive buffer in front of the line parser and *)
(* on the round trips of the codecs are here; those on the byte machine    *)
(* are FrameParserProofs'.                                                 *)
(***************************************************************************)
EXTENDS MessagePath, FiniteSetTheorems, SequenceTheorems, TLAPS

\* The lemmas on the byte machine, for the CRC of the codec.
FPP == INSTANCE FrameParserProofs WITH Crc <- C!Crc, CrcTexts <- CrcUnits,
                                       Plain <- Ordinary \cup CrcUnits

-----------------------------------------------------------------------------
(* The receive buffer (LineReader) *)
Typed == pending \in Seq(LR!Units) /\ arrived \in Seq(LR!Units)

\* The buffer is the end of what arrived, and starts where a line starts or where
\* everything before was thrown away.
PendingIsTheEnd ==
    /\ LR!Before \in Nat
    /\ \A k \in 1 .. Len(pending) : pending[k] = arrived[LR!Before + k]
    /\ LR!StartsLine(LR!Before + 1) \/ LR!Before \in drops

\* The inductive invariant.
ReaderInv == Typed /\ PendingIsTheEnd /\ LR!LinesAreGenuine /\ LR!ShortLinesArrive

-----------------------------------------------------------------------------
\* A set of natural numbers has a least one: the initial segments that they bound
\* are ordered by inclusion, which is well founded on finite sets.
LEMMA Least ==
    ASSUME NEW S \in SUBSET Nat, S # {}
    PROVE  \E m \in S : \A i \in S : m <= i
<1> DEFINE U == {0 .. i : i \in S}
<1>1. \A i \in Nat : IsFiniteSet(0 .. i) /\ 0 .. i \in SUBSET Nat
  BY FS_Interval
<1>2. U \subseteq FiniteSubsetsOf(Nat)
  BY <1>1 DEF FiniteSubsetsOf
<1>3. U # {}
  OBVIOUS
<1>4. IsWellFoundedOn(StrictSubsetOrdering(Nat), FiniteSubsetsOf(Nat))
  BY FS_StrictSubsetOrderingWellFounded
<1> HIDE DEF U
<1>5. PICK x \in U : \A y \in U : <<y, x>> \notin StrictSubsetOrdering(Nat)
  BY <1>2, <1>3, <1>4, WFMin
<1>6. PICK m \in S : x = 0 .. m
  BY DEF U
<1>7. ASSUME NEW i \in S, i < m PROVE FALSE
  <2>1. 0 .. i \subseteq 0 .. m /\ m \in 0 .. m /\ m \notin 0 .. i
    BY <1>7
  <2>2. <<0 .. i, x>> \in StrictSubsetOrdering(Nat)
    BY <2>1, <1>1, <1>6 DEF StrictSubsetOrdering
  <2> QED BY <2>2, <1>5, <1>7 DEF U
<1> QED BY <1>7

\* FlattenSeq is a recursive function: what it says of itself.  A first place up to
\* which there would be no such function, or where its value would be no sequence,
\* has a place before it.
LEMMA JoinedTurns ==
    ASSUME NEW S, NEW seqs \in Seq(Seq(S)), Len(seqs) # 0
    PROVE  \E f : /\ FlattenSeq(seqs) = f[Len(seqs)]
                  /\ \A i \in 1 .. Len(seqs) :
                        /\ f[i] \in Seq(S)
                        /\ f[i] = IF i = 1 THEN seqs[1] ELSE f[i - 1] \o seqs[i]
<1> DEFINE n == Len(seqs)
           Turn(f, i) == IF i = 1 THEN seqs[i] ELSE f[i - 1] \o seqs[i]
           Step(f) == [i \in 1 .. Len(seqs) |-> IF i = 1 THEN seqs[i]
                                                ELSE f[i - 1] \o seqs[i]]
           joined == CHOOSE f : f = Step(f)
           Reaches(m) == \E f \in [1 .. m -> Seq(S)] : \A i \in 1 .. m : f[i] = Turn(f, i)
<1>0. n # 0
  OBVIOUS
<1>1. n \in Nat \ {0} /\ \A i \in 1 .. n : seqs[i] \in Seq(S)
  BY <1>0
<1>2. FlattenSeq(seqs) = joined[n]
  BY <1>0 DEF FlattenSeq
<1>3. Reaches(1)
  <2> DEFINE f == [i \in 1 .. 1 |-> seqs[1]]
  <2>1. f \in [1 .. 1 -> Seq(S)] /\ \A i \in 1 .. 1 : i = 1 /\ f[i] = seqs[1]
    BY <1>1
  <2> QED BY <2>1
<1>4. ASSUME NEW m \in 1 .. n, m > 1, Reaches(m - 1) PROVE Reaches(m)
  <2>1. PICK f \in [1 .. m - 1 -> Seq(S)] : \A i \in 1 .. m - 1 : f[i] = Turn(f, i)
    BY <1>4
  <2> DEFINE g == [i \in 1 .. m |-> IF i = m THEN f[m - 1] \o seqs[m] ELSE f[i]]
  <2>2. m - 1 \in 1 .. m - 1 /\ f[m - 1] \in Seq(S) /\ seqs[m] \in Seq(S)
    BY <1>1, <1>4
  <2>3. f[m - 1] \o seqs[m] \in Seq(S)
    BY <2>2
  <2>4. \A i \in 1 .. m : i = m \/ i \in 1 .. m - 1
    BY <1>1, <1>4
  <2>5. g \in [1 .. m -> Seq(S)]
    BY <2>3, <2>4
  <2>6. ASSUME NEW i \in 1 .. m PROVE g[i] = Turn(g, i)
    <3>1. CASE i = m
      <4>1. i # 1 /\ i - 1 \in 1 .. m /\ i - 1 # m
        BY <1>1, <1>4, <3>1
      <4> QED BY <3>1, <4>1
    <3>2. CASE i # m
      <4>1. i \in 1 .. m - 1 /\ (i # 1 => i - 1 \in 1 .. m /\ i - 1 # m)
        BY <1>1, <1>4, <2>4, <3>2
      <4> QED BY <2>1, <3>2, <4>1
    <3> QED BY <3>1, <3>2
  <2> HIDE DEF g
  <2> QED BY <2>5, <2>6
<1> HIDE DEF n, Turn
<1>5. Reaches(n)
  <2> HIDE DEF Reaches
  <2> DEFINE missed == {m \in 1 .. n : ~Reaches(m)}
  <2> SUFFICES ASSUME ~Reaches(n) PROVE FALSE
    OBVIOUS
  <2>1. missed \in SUBSET Nat /\ n \in missed
    BY <1>1
  <2>2. PICK m \in missed : \A i \in missed : m <= i
    BY <2>1, Least
  <2>3. m # 1 /\ m \in 1 .. n /\ ~Reaches(m)
    BY <2>2, <1>3
  <2>4. m > 1 /\ m - 1 \in 1 .. n /\ ~(m <= m - 1)
    BY <2>3, <1>1
  <2>5. Reaches(m - 1)
    BY <2>2, <2>4
  <2> QED BY <1>4, <2>3, <2>4, <2>5
<1>6. PICK f \in [1 .. n -> Seq(S)] : \A i \in 1 .. n : f[i] = Turn(f, i)
  BY <1>5
<1>7. f = Step(f)
  BY <1>6 DEF Turn, n
<1>8. joined = Step(joined)
  BY <1>7
<1>9. \A i \in 1 .. n : joined[i] = Turn(joined, i)
  BY <1>8 DEF Turn, n
<1> HIDE DEF joined
<1>10. \A i \in 1 .. n : joined[i] \in Seq(S)
  <2> DEFINE missed == {i \in 1 .. n : joined[i] \notin Seq(S)}
  <2> SUFFICES ASSUME missed # {} PROVE FALSE
    OBVIOUS
  <2>1. missed \in SUBSET Nat
    BY <1>1
  <2>2. PICK m \in missed : \A i \in missed : m <= i
    BY <2>1, Least
  <2>3. m \in 1 .. n /\ joined[m] \notin Seq(S) /\ seqs[m] \in Seq(S)
    BY <2>2, <1>1
  <2>4. m # 1
    BY <1>9, <2>3 DEF Turn
  <2>5. m - 1 \in 1 .. n /\ ~(m <= m - 1)
    BY <2>3, <2>4, <1>1
  <2>6. joined[m - 1] \in Seq(S)
    BY <2>2, <2>5
  <2>7. joined[m] = joined[m - 1] \o seqs[m]
    BY <1>9, <2>3, <2>4 DEF Turn
  <2> QED BY <2>3, <2>6, <2>7
<1>11. \A i \in 1 .. n : joined[i] = IF i = 1 THEN seqs[1] ELSE joined[i - 1] \o seqs[i]
  BY <1>9 DEF Turn
<1> QED BY <1>2, <1>10, <1>11 DEF n

\* Sequences joined are a sequence.
LEMMA JoinedIsSequence ==
    ASSUME NEW S, NEW seqs \in Seq(Seq(S))
    PROVE  FlattenSeq(seqs) \in Seq(S)
<1>1. CASE Len(seqs) = 0
  <2>1. seqs = <<>> /\ <<>> \in Seq(S)
    BY <1>1
  <2>2. FlattenSeq(seqs) = seqs
    BY <1>1 DEF FlattenSeq
  <2> QED BY <2>1, <2>2
<1>2. CASE Len(seqs) # 0
  <2>1. Len(seqs) \in 1 .. Len(seqs)
    BY <1>2
  <2> QED BY <1>2, <2>1, JoinedTurns
<1> QED BY <1>1, <1>2

\* One more of them is joined at the end.
LEMMA JoinedAppend ==
    ASSUME NEW S, NEW seqs \in Seq(Seq(S)), NEW last \in Seq(S)
    PROVE  FlattenSeq(Append(seqs, last)) = FlattenSeq(seqs) \o last
<1> DEFINE more == Append(seqs, last)
           n == Len(seqs)
<1>1. /\ more \in Seq(Seq(S)) /\ n \in Nat /\ Len(more) = n + 1
      /\ more[n + 1] = last /\ \A i \in 1 .. n : more[i] = seqs[i]
  OBVIOUS
<1> HIDE DEF more
<1>2. PICK g : /\ FlattenSeq(more) = g[n + 1]
               /\ \A i \in 1 .. n + 1 :
                     /\ g[i] \in Seq(S)
                     /\ g[i] = IF i = 1 THEN more[1] ELSE g[i - 1] \o more[i]
  <2>1. more \in Seq(Seq(S)) /\ Len(more) # 0
    BY <1>1
  <2>2. \E g : /\ FlattenSeq(more) = g[Len(more)]
               /\ \A i \in 1 .. Len(more) :
                     /\ g[i] \in Seq(S)
                     /\ g[i] = IF i = 1 THEN more[1] ELSE g[i - 1] \o more[i]
    BY <2>1, JoinedTurns, SMTT(40), ZenonT(40)
  <2> QED BY <1>1, <2>2
<1>3. CASE n = 0
  <2>1. FlattenSeq(seqs) = <<>>
    <3>1. seqs = <<>>
      BY <1>3
    <3>2. FlattenSeq(seqs) = seqs
      BY <1>3 DEF FlattenSeq
    <3> QED BY <3>1, <3>2
  <2>2. g[n + 1] = last
    BY <1>1, <1>2, <1>3
  <2>3. <<>> \o last = last
    BY ConcatEmptySeq
  <2> QED BY <1>2, <2>1, <2>2, <2>3 DEF more
<1>4. CASE n # 0
  <2>1. PICK f : /\ FlattenSeq(seqs) = f[n]
                 /\ \A i \in 1 .. n :
                       /\ f[i] \in Seq(S)
                       /\ f[i] = IF i = 1 THEN seqs[1] ELSE f[i - 1] \o seqs[i]
    BY <1>4, JoinedTurns
  <2> HIDE DEF n
  <2>2. \A i \in 1 .. n : g[i] = f[i]
    <3> DEFINE other == {i \in 1 .. n : g[i] # f[i]}
    <3> SUFFICES ASSUME other # {} PROVE FALSE
      OBVIOUS
    <3>1. other \in SUBSET Nat
      BY <1>1
    <3>2. PICK m \in other : \A i \in other : m <= i
      BY <3>1, Least
    <3>3. m \in 1 .. n /\ g[m] # f[m] /\ m \in 1 .. n + 1 /\ more[m] = seqs[m]
      BY <3>2, <1>1
    <3>4. CASE m = 1
      BY <3>3, <3>4, <2>1, <1>2
    <3>5. CASE m # 1
      <4>1. m - 1 \in 1 .. n /\ ~(m <= m - 1)
        BY <3>3, <3>5, <1>1
      <4>2. g[m - 1] = f[m - 1]
        BY <4>1, <3>2
      <4> QED BY <3>3, <3>5, <4>2, <2>1, <1>2
    <3> QED BY <3>4, <3>5
  <2>3. n \in 1 .. n /\ n + 1 \in 1 .. n + 1 /\ n + 1 # 1 /\ (n + 1) - 1 = n
    BY <1>1, <1>4
  <2>4. g[n + 1] = g[n] \o last
    BY <1>1, <1>2, <2>3
  <2> QED BY <1>2, <2>1, <2>2, <2>3, <2>4 DEF more
<1> QED BY <1>3, <1>4

\* What line_parser_feed finds is the first line feed of the buffer.
LEMMA FirstNewline ==
    ASSUME NEW b \in Seq(LR!Units), LR!LP!HasLine(b)
    PROVE  /\ LR!LP!NewlineAt(b) \in 1 .. Len(b)
           /\ b[LR!LP!NewlineAt(b)] = LF
           /\ \A j \in 1 .. LR!LP!NewlineAt(b) - 1 : b[j] # LF
<1> DEFINE S == {i \in DOMAIN b : b[i] = LF}
<1>1. DOMAIN b = 1 .. Len(b) /\ Len(b) \in Nat
  OBVIOUS
<1>2. S \in SUBSET Nat /\ S # {}
  BY <1>1 DEF LR!LP!HasLine
<1>3. PICK m \in S : \A i \in S : m <= i
  BY <1>2, Least
<1>4. \A j \in 1 .. m - 1 : b[j] # LF
  <2> SUFFICES ASSUME NEW j \in 1 .. m - 1, b[j] = LF PROVE FALSE
    OBVIOUS
  <2>1. j \in S
    BY <1>1
  <2> QED BY <2>1, <1>1, <1>3
<1>5. m \in DOMAIN b /\ b[m] = LF
  BY <1>3
<1>6. /\ LR!LP!NewlineAt(b) \in DOMAIN b /\ b[LR!LP!NewlineAt(b)] = LF
      /\ \A j \in 1 .. LR!LP!NewlineAt(b) - 1 : b[j] # LF
  BY <1>4, <1>5 DEF LR!LP!NewlineAt
<1> QED BY <1>1, <1>6

\* What is received later leaves the stream before it as it is.
LEMMA Longer ==
    ASSUME NEW s \in Seq(LR!Units), NEW c \in Seq(LR!Units)
    PROVE  /\ s \o c \in Seq(LR!Units) /\ Len(s \o c) = Len(s) + Len(c)
           /\ Len(s) \in Nat /\ Len(c) \in Nat
           /\ DOMAIN s = 1 .. Len(s) /\ DOMAIN (s \o c) = 1 .. Len(s) + Len(c)
           /\ \A i \in 1 .. Len(s) : (s \o c)[i] = s[i]
           /\ \A i \in 1 .. Len(c) : (s \o c)[Len(s) + i] = c[i]
OBVIOUS

\* A stretch of what there was is the same when more comes behind.
LEMMA SameStretch ==
    ASSUME NEW s \in Seq(LR!Units), NEW c \in Seq(LR!Units),
           NEW i \in 1 .. Len(s), NEW j \in Int, j <= Len(s)
    PROVE  SubSeq(s \o c, i, j) = SubSeq(s, i, j)
<1>1. CASE j < i
  BY <1>1, SubSeqEmpty
<1>2. CASE j >= i
  BY <1>2, SubSeqOfConcat1
<1> QED BY <1>1, <1>2

\* Neither do the lines handed over.
LEMMA StillGenuine ==
    ASSUME Typed, LR!LinesAreGenuine, NEW c \in Seq(LR!Units), arrived' = arrived \o c,
           lines' = lines, drops \subseteq drops'
    PROVE  LR!LinesAreGenuine'
<1>1. /\ arrived \in Seq(LR!Units) /\ Len(arrived) \in Nat
      /\ DOMAIN arrived = 1 .. Len(arrived)
      /\ Len(c) \in Nat /\ DOMAIN arrived' = 1 .. Len(arrived) + Len(c)
      /\ \A i \in 1 .. Len(arrived) : arrived'[i] = arrived[i]
  BY Longer DEF Typed
<1> SUFFICES ASSUME NEW l \in lines
             PROVE  /\ l.at \in DOMAIN arrived' /\ l.from \in 1 .. l.at
                    /\ arrived'[l.at] = LF
                    /\ \A k \in l.from .. l.at - 1 : arrived'[k] # LF
                    /\ l.text \in {SubSeq(arrived', l.from, l.at - 1),
                                   SubSeq(arrived', l.from, l.at - 2)}
                    /\ LR!StartsLine(l.from)' \/ l.from - 1 \in drops'
  BY DEF LR!LinesAreGenuine, LR!StartsLine
<1>2. /\ l.at \in 1 .. Len(arrived) /\ l.from \in 1 .. l.at
      /\ arrived[l.at] = LF
      /\ \A k \in l.from .. l.at - 1 : arrived[k] # LF
      /\ l.text \in {SubSeq(arrived, l.from, l.at - 1), SubSeq(arrived, l.from, l.at - 2)}
      /\ LR!StartsLine(l.from) \/ l.from - 1 \in drops
  BY <1>1 DEF LR!LinesAreGenuine
<1>3. l.at \in DOMAIN arrived' /\ arrived'[l.at] = LF
  BY <1>1, <1>2
<1>4. \A k \in l.from .. l.at - 1 : k \in 1 .. Len(arrived)
  BY <1>1, <1>2
<1>5. /\ SubSeq(arrived', l.from, l.at - 1) = SubSeq(arrived, l.from, l.at - 1)
      /\ SubSeq(arrived', l.from, l.at - 2) = SubSeq(arrived, l.from, l.at - 2)
  <2>1. /\ l.from \in 1 .. Len(arrived) /\ l.at - 1 \in Int /\ l.at - 2 \in Int
        /\ l.at - 1 <= Len(arrived) /\ l.at - 2 <= Len(arrived)
    BY <1>1, <1>2, SMTT(30)
  <2> QED BY <1>1, <2>1, SameStretch
<1>6. LR!StartsLine(l.from) => LR!StartsLine(l.from)'
  <2>1. l.from = 1 \/ l.from - 1 \in 1 .. Len(arrived)
    BY <1>1, <1>2
  <2> QED BY <1>1, <2>1 DEF LR!StartsLine
<1> QED BY <1>1, <1>2, <1>3, <1>4, <1>5, <1>6

\* A stream without long pieces had none before.
LEMMA NoneLongerBefore ==
    ASSUME Typed, NEW c \in Seq(LR!Units), arrived' = arrived \o c,
           NEW n \in Int, LR!NoneLonger(n)'
    PROVE  LR!NoneLonger(n)
<1>1. /\ Len(arrived) \in Nat /\ DOMAIN arrived = 1 .. Len(arrived)
      /\ Len(c) \in Nat /\ DOMAIN arrived' = 1 .. Len(arrived) + Len(c)
      /\ \A i \in 1 .. Len(arrived) : arrived'[i] = arrived[i]
  BY Longer DEF Typed
<1> SUFFICES ASSUME NEW i \in 1 .. Len(arrived), NEW j \in 1 .. Len(arrived),
                    \A k \in i .. j : arrived[k] # LF
             PROVE  j + 1 <= i + n
  BY <1>1 DEF LR!NoneLonger
<1>2. \A k \in i .. j : k \in 1 .. Len(arrived)
  BY <1>1
<1>3. \A k \in i .. j : arrived'[k] # LF
  BY <1>1, <1>2
<1>4. i \in DOMAIN arrived' /\ j \in DOMAIN arrived'
  BY <1>1
<1> QED BY <1>3, <1>4 DEF LR!NoneLonger

\* A line of the part that was there before was a line before.
LEMMA WholeBefore ==
    ASSUME Typed, NEW c \in Seq(LR!Units), arrived' = arrived \o c,
           NEW p \in LR!WholeLines', p[2] <= Len(arrived)
    PROVE  p \in LR!WholeLines
<1>1. /\ Len(arrived) \in Nat /\ DOMAIN arrived = 1 .. Len(arrived)
      /\ Len(c) \in Nat /\ DOMAIN arrived' = 1 .. Len(arrived) + Len(c)
      /\ \A i \in 1 .. Len(arrived) : arrived'[i] = arrived[i]
  BY Longer DEF Typed
<1>2. /\ p \in (DOMAIN arrived') \X (DOMAIN arrived')
      /\ p[1] <= p[2] /\ arrived'[p[2]] = LF /\ LR!StartsLine(p[1])'
      /\ \A k \in p[1] .. p[2] - 1 : arrived'[k] # LF
  BY DEF LR!WholeLines, LR!StartsLine
<1>3. p[1] \in 1 .. Len(arrived) /\ p[2] \in 1 .. Len(arrived)
  BY <1>1, <1>2
<1>4. p \in (DOMAIN arrived) \X (DOMAIN arrived)
  BY <1>1, <1>2, <1>3
<1>5. \A k \in p[1] .. p[2] - 1 : k \in 1 .. Len(arrived)
  BY <1>1, <1>3
<1>6. LR!StartsLine(p[1])
  <2>1. p[1] = 1 \/ p[1] - 1 \in 1 .. Len(arrived)
    BY <1>1, <1>3
  <2> QED BY <1>1, <1>2, <2>1 DEF LR!StartsLine
<1>7. arrived[p[2]] = LF /\ \A k \in p[1] .. p[2] - 1 : arrived[k] # LF
  BY <1>1, <1>2, <1>3, <1>5
<1> QED BY <1>2, <1>4, <1>6, <1>7 DEF LR!WholeLines

-----------------------------------------------------------------------------
\* A read that fits.
LEMMA ReadsStep ==
    ASSUME LR!Sizes, ReaderInv, NEW c \in LR!Chunks, LR!Reads(c)
    PROVE  ReaderInv'
<1>1. /\ c \in Seq(LR!Units) /\ pending' = pending \o c /\ arrived' = arrived \o c
      /\ lines' = lines /\ drops' = drops
  BY DEF LR!Chunks, LR!Reads
<1>2. Typed /\ Typed'
  BY <1>1, Longer DEF ReaderInv, Typed
<1>3. /\ Len(arrived) \in Nat /\ Len(pending) \in Nat /\ Len(c) \in Nat
      /\ Len(arrived') = Len(arrived) + Len(c)
      /\ Len(pending') = Len(pending) + Len(c)
      /\ \A i \in 1 .. Len(arrived) : arrived'[i] = arrived[i]
      /\ \A i \in 1 .. Len(c) : arrived'[Len(arrived) + i] = c[i]
      /\ \A i \in 1 .. Len(pending) : pending'[i] = pending[i]
      /\ \A i \in 1 .. Len(c) : pending'[Len(pending) + i] = c[i]
  BY <1>1, <1>2, Longer DEF Typed
<1>4. /\ LR!Before' = LR!Before /\ LR!Before \in Nat
      /\ LR!Before + Len(pending) = Len(arrived)
  BY <1>3 DEF LR!Before, ReaderInv, PendingIsTheEnd
<1>5. PendingIsTheEnd'
  <2>1. ASSUME NEW k \in 1 .. Len(pending') PROVE pending'[k] = arrived'[LR!Before + k]
    <3>1. CASE k <= Len(pending)
      <4>1. k \in 1 .. Len(pending) /\ LR!Before + k \in 1 .. Len(arrived)
        BY <1>3, <1>4, <3>1
      <4>2. pending[k] = arrived[LR!Before + k]
        BY <4>1 DEF ReaderInv, PendingIsTheEnd
      <4> QED BY <1>3, <4>1, <4>2
    <3>2. CASE k > Len(pending)
      <4> DEFINE i == k - Len(pending)
      <4>1. i \in 1 .. Len(c) /\ k = Len(pending) + i /\ LR!Before + k = Len(arrived) + i
        <5>1. k \in 1 .. Len(pending) + Len(c) /\ Len(pending) \in Nat /\ Len(c) \in Nat
          BY <1>3
        <5> HIDE DEF LR!Before
        <5>2. LR!Before \in Nat /\ LR!Before + Len(pending) = Len(arrived)
          BY <1>4
        <5> QED BY <5>1, <5>2, <3>2
      <4> HIDE DEF i
      <4> QED BY <1>3, <4>1
    <3> QED BY <1>3, <3>1, <3>2
  <2>2. LR!StartsLine(LR!Before + 1)' \/ LR!Before \in drops'
    <3>1. LR!StartsLine(LR!Before + 1) \/ LR!Before \in drops
      BY DEF ReaderInv, PendingIsTheEnd
    <3>2. LR!StartsLine(LR!Before + 1) <=> LR!Before = 0 \/ arrived[LR!Before] = LF
      <4>1. (LR!Before + 1) - 1 = LR!Before /\ (LR!Before + 1 = 1 <=> LR!Before = 0)
        BY <1>4
      <4> QED BY <4>1 DEF LR!StartsLine
    <3>3. LR!StartsLine(LR!Before + 1)' <=> LR!Before = 0 \/ arrived'[LR!Before] = LF
      <4>1. (LR!Before' + 1) - 1 = LR!Before /\ (LR!Before' + 1 = 1 <=> LR!Before = 0)
        BY <1>4
      <4> QED BY <4>1 DEF LR!StartsLine
    <3>4. LR!Before = 0 \/ LR!Before \in 1 .. Len(arrived)
      BY <1>3, <1>4
    <3> QED BY <1>1, <1>3, <3>1, <3>2, <3>3, <3>4
  <2>3. \A k \in 1 .. Len(pending') : pending'[k] = arrived'[LR!Before' + k]
    BY <1>4, <2>1
  <2>4. LR!Before' \in Nat /\ (LR!StartsLine(LR!Before + 1)' \/ LR!Before' \in drops')
    BY <1>4, <2>2
  <2> QED BY <2>3, <2>4 DEF PendingIsTheEnd
<1>6. LR!LinesAreGenuine'
  BY <1>1, <1>2, StillGenuine DEF ReaderInv
<1>7. LR!ShortLinesArrive'
  <2> SUFFICES ASSUME LR!NoneLonger(BufferSize - ReadSize)'
               PROVE  /\ drops' = {}
                      /\ \A p \in LR!WholeLines' : p[2] <= LR!Before' =>
                            \E l \in lines' : l.from = p[1] /\ l.at = p[2]
    BY DEF LR!ShortLinesArrive
  <2>1. LR!NoneLonger(BufferSize - ReadSize)
    <3>1. BufferSize - ReadSize \in Int
      BY DEF LR!Sizes
    <3> QED BY <1>1, <1>2, <3>1, NoneLongerBefore
  <2>2. /\ drops = {}
        /\ \A p \in LR!WholeLines : p[2] <= LR!Before =>
              \E l \in lines : l.from = p[1] /\ l.at = p[2]
    BY <2>1 DEF ReaderInv, LR!ShortLinesArrive
  <2>3. ASSUME NEW p \in LR!WholeLines', p[2] <= LR!Before PROVE p \in LR!WholeLines
    <3>1. p[2] <= Len(arrived)
      <4>1. p[2] \in Nat
        BY <1>2 DEF LR!WholeLines, Typed
      <4> QED BY <1>3, <1>4, <2>3, <4>1
    <3> QED BY <1>1, <1>2, <3>1, WholeBefore
  <2> QED BY <1>1, <1>4, <2>2, <2>3
<1> QED BY <1>2, <1>5, <1>6, <1>7 DEF ReaderInv

\* Without a line feed a buffer that overflows is a long piece.
LEMMA OverflowIsLong ==
    ASSUME LR!Sizes, ReaderInv, NEW c \in LR!Chunks, ~LR!LP!HasLine(pending),
           Len(pending) + Len(c) > BufferSize
    PROVE  ~LR!NoneLonger(BufferSize - ReadSize)
<1>1. /\ Len(arrived) \in Nat /\ Len(pending) \in Nat
      /\ DOMAIN arrived = 1 .. Len(arrived) /\ DOMAIN pending = 1 .. Len(pending)
  BY DEF ReaderInv, Typed
<1>2. Len(c) \in 1 .. ReadSize /\ BufferSize \in Nat /\ ReadSize \in 1 .. BufferSize
  BY DEF LR!Chunks, LR!Sizes
<1>3. Len(pending) > BufferSize - ReadSize /\ Len(pending) >= 1
  BY <1>1, <1>2
<1>4. LR!Before \in Nat /\ LR!Before + Len(pending) = Len(arrived)
  BY <1>1 DEF LR!Before, ReaderInv, PendingIsTheEnd
<1>5. ASSUME NEW k \in LR!Before + 1 .. Len(arrived) PROVE arrived[k] # LF
  <2>1. k - LR!Before \in 1 .. Len(pending) /\ LR!Before + (k - LR!Before) = k
    BY <1>1, <1>4
  <2>2. pending[k - LR!Before] = arrived[k]
    BY <2>1 DEF ReaderInv, PendingIsTheEnd
  <2> QED BY <1>1, <2>1, <2>2 DEF LR!LP!HasLine
<1>6. LR!Before + 1 \in DOMAIN arrived /\ Len(arrived) \in DOMAIN arrived
  BY <1>1, <1>3, <1>4
<1>7. ~(Len(arrived) + 1 <= LR!Before + 1 + (BufferSize - ReadSize))
  BY <1>1, <1>2, <1>3, <1>4
<1> QED BY <1>5, <1>6, <1>7 DEF LR!NoneLonger

\* A read that does not fit.
LEMMA OverflowsStep ==
    ASSUME LR!Sizes, ReaderInv, NEW c \in LR!Chunks, LR!Overflows(c)
    PROVE  ReaderInv'
<1>1. /\ c \in Seq(LR!Units) /\ pending' = <<>> /\ arrived' = arrived \o c
      /\ lines' = lines /\ drops' = drops \cup {Len(arrived')}
  BY DEF LR!Chunks, LR!Overflows
<1>2. Typed /\ Typed' /\ Len(pending') = 0 /\ Len(arrived') \in Nat
  BY <1>1, Longer DEF ReaderInv, Typed
<1>3. PendingIsTheEnd'
  <2>1. LR!Before' = Len(arrived')
    BY <1>2 DEF LR!Before
  <2> QED BY <1>1, <1>2, <2>1 DEF PendingIsTheEnd
<1>4. LR!LinesAreGenuine'
  BY <1>1, <1>2, StillGenuine DEF ReaderInv
<1>5. ~LR!NoneLonger(BufferSize - ReadSize)'
  <2>1. ~LR!NoneLonger(BufferSize - ReadSize)
    BY OverflowIsLong DEF LR!Overflows
  <2>2. BufferSize - ReadSize \in Int
    BY DEF LR!Sizes
  <2> QED BY <1>1, <1>2, <2>1, <2>2, NoneLongerBefore
<1>6. LR!ShortLinesArrive'
  BY <1>5 DEF LR!ShortLinesArrive
<1> QED BY <1>2, <1>3, <1>4, <1>6 DEF ReaderInv

\* A line is taken off the buffer.
LEMMA TakesStep ==
    ASSUME LR!Sizes, ReaderInv, LR!TakesLine
    PROVE  ReaderInv'
<1> DEFINE n == LR!LP!NewlineAt(pending)
           f == LR!Before + 1
           e == LR!Before + n
<1>1. /\ pending \in Seq(LR!Units) /\ arrived \in Seq(LR!Units)
      /\ Len(arrived) \in Nat /\ Len(pending) \in Nat
      /\ DOMAIN arrived = 1 .. Len(arrived) /\ DOMAIN pending = 1 .. Len(pending)
  BY DEF ReaderInv, Typed
<1>2. /\ n \in 1 .. Len(pending) /\ pending[n] = LF
      /\ \A j \in 1 .. n - 1 : pending[j] # LF
  BY <1>1, FirstNewline DEF LR!TakesLine
<1>3. /\ LR!Before \in Nat /\ LR!Before + Len(pending) = Len(arrived)
      /\ \A k \in 1 .. Len(pending) : pending[k] = arrived[LR!Before + k]
      /\ LR!StartsLine(f) \/ LR!Before \in drops
  BY <1>1 DEF LR!Before, ReaderInv, PendingIsTheEnd
<1>4. /\ pending' = SubSeq(pending, n + 1, Len(pending)) /\ arrived' = arrived
      /\ drops' = drops
      /\ lines' = lines \cup {[from |-> f, at |-> e, text |-> LR!LP!Line(pending)]}
  BY DEF LR!TakesLine, LR!LP!Rest
<1> HIDE DEF n
<1>5. /\ pending' \in Seq(LR!Units) /\ Len(pending') = Len(pending) - n
      /\ \A k \in 1 .. Len(pending) - n : pending'[k] = pending[n + k]
  <2> DEFINE q == SubSeq(pending, n + 1, Len(pending))
  <2>1. /\ n + 1 \in Int /\ Len(pending) \in Int
        /\ \A i \in n + 1 .. Len(pending) : pending[i] \in LR!Units
    BY <1>1, <1>2
  <2>2. /\ q \in Seq(LR!Units)
        /\ Len(q) = IF n + 1 <= Len(pending) THEN Len(pending) - (n + 1) + 1 ELSE 0
        /\ \A i \in 1 .. Len(pending) - (n + 1) + 1 : q[i] = pending[n + 1 + i - 1]
    BY <2>1, SubSeqProperties
  <2>3. Len(q) = Len(pending) - n
    <3>1. n \in 1 .. Len(pending) /\ Len(pending) \in Nat
      BY <1>1, <1>2
    <3>2. Len(q) = IF n + 1 <= Len(pending) THEN Len(pending) - (n + 1) + 1 ELSE 0
      BY <2>2
    <3> HIDE DEF q
    <3> QED BY <3>1, <3>2
  <2>4. ASSUME NEW k \in 1 .. Len(pending) - n PROVE q[k] = pending[n + k]
    <3>1. k \in 1 .. Len(pending) - (n + 1) + 1 /\ n + 1 + k - 1 = n + k
      BY <1>1, <1>2
    <3> QED BY <2>2, <3>1
  <2> QED BY <1>4, <2>2, <2>3, <2>4
<1>6. LR!Before' = e /\ e \in 1 .. Len(arrived) /\ f \in 1 .. e
  <2>1. LR!Before' = Len(arrived) - (Len(pending) - n)
    BY <1>4, <1>5 DEF LR!Before
  <2>2. n \in 1 .. Len(pending) /\ Len(pending) \in Nat /\ Len(arrived) \in Nat
    BY <1>1, <1>2
  <2>3. LR!Before \in Nat /\ LR!Before + Len(pending) = Len(arrived)
    BY <1>3
  <2> QED BY <2>1, <2>2, <2>3
<1>7. arrived[e] = LF
  BY <1>2, <1>3
<1>8. ASSUME NEW k \in f .. e - 1 PROVE arrived[k] # LF
  <2>1. k - LR!Before \in 1 .. n - 1 /\ k - LR!Before \in 1 .. Len(pending)
        /\ LR!Before + (k - LR!Before) = k
    BY <1>1, <1>2, <1>3
  <2> QED BY <1>2, <1>3, <2>1
<1>9. Typed'
  BY <1>1, <1>4, <1>5 DEF Typed
<1>10. PendingIsTheEnd'
  <2>1. ASSUME NEW k \in 1 .. Len(pending') PROVE pending'[k] = arrived'[LR!Before' + k]
    <3>1. k \in 1 .. Len(pending) - n
      BY <1>5
    <3>2. n + k \in 1 .. Len(pending) /\ LR!Before + (n + k) = e + k
      BY <1>1, <1>2, <1>3, <3>1
    <3>3. pending'[k] = arrived[e + k]
      BY <1>3, <1>5, <3>1, <3>2
    <3> QED BY <1>4, <1>6, <3>3
  <2>2. LR!StartsLine(LR!Before + 1)'
    <3>1. (e + 1) - 1 = e
      BY <1>1, <1>6
    <3> QED BY <1>4, <1>6, <1>7, <3>1 DEF LR!StartsLine
  <2> QED BY <1>6, <2>1, <2>2 DEF PendingIsTheEnd
<1>11. LR!LP!Line(pending) \in {SubSeq(arrived, f, e - 1), SubSeq(arrived, f, e - 2)}
  <2>1. ASSUME NEW l \in Nat, l <= n - 1
        PROVE  SubSeq(pending, 1, l) = SubSeq(arrived, f, LR!Before + l)
    <3> DEFINE a == SubSeq(pending, 1, l)
               b == SubSeq(arrived, f, LR!Before + l)
    <3>1. /\ f \in Int /\ LR!Before + l \in Int /\ l \in Int /\ 1 \in Int
          /\ \A i \in 1 .. l : i \in 1 .. Len(pending)
          /\ \A i \in f .. LR!Before + l : i \in 1 .. Len(arrived)
      BY <1>1, <1>2, <1>3, <2>1
    <3>2. /\ \A i \in 1 .. l : pending[i] \in LR!Units
          /\ \A i \in f .. LR!Before + l : arrived[i] \in LR!Units
      BY <1>1, <3>1
    <3>3. /\ a \in Seq(LR!Units) /\ Len(a) = IF 1 <= l THEN l - 1 + 1 ELSE 0
          /\ \A i \in 1 .. l - 1 + 1 : a[i] = pending[1 + i - 1]
      BY <3>1, <3>2, SubSeqProperties
    <3>4. /\ b \in Seq(LR!Units)
          /\ Len(b) = IF f <= LR!Before + l THEN (LR!Before + l) - f + 1 ELSE 0
          /\ \A i \in 1 .. (LR!Before + l) - f + 1 : b[i] = arrived[f + i - 1]
      BY <3>1, <3>2, SubSeqProperties
    <3>5. Len(a) = l /\ Len(b) = l
      BY <1>3, <2>1, <3>3, <3>4
    <3>6. ASSUME NEW i \in 1 .. l PROVE a[i] = b[i]
      <4>1. /\ i \in 1 .. l - 1 + 1 /\ 1 + i - 1 = i
            /\ i \in 1 .. (LR!Before + l) - f + 1 /\ f + i - 1 = LR!Before + i
        BY <1>3, <2>1
      <4> QED BY <1>3, <3>1, <3>3, <3>4, <4>1
    <3> HIDE DEF a, b
    <3>7. a = b
      BY <3>3, <3>4, <3>5, <3>6, SeqEqual
    <3> QED BY <3>7 DEF a, b
  <2>2. LR!Before + (n - 1) = e - 1 /\ n - 1 \in Nat /\ n - 1 <= n - 1
    BY <1>1, <1>2, <1>3
  <2>3. n > 1 => LR!Before + (n - 2) = e - 2 /\ n - 2 \in Nat /\ n - 2 <= n - 1
    BY <1>1, <1>2, <1>3
  <2>4. \/ LR!LP!Line(pending) = SubSeq(pending, 1, n - 1)
        \/ n > 1 /\ LR!LP!Line(pending) = SubSeq(pending, 1, n - 2)
    BY DEF LR!LP!Line, n
  <2>5. SubSeq(pending, 1, n - 1) = SubSeq(arrived, f, e - 1)
    <3> HIDE DEF f, e
    <3> QED BY <2>1, <2>2
  <2>6. n > 1 => SubSeq(pending, 1, n - 2) = SubSeq(arrived, f, e - 2)
    <3> HIDE DEF f, e
    <3> QED BY <2>1, <2>3
  <2> QED BY <2>4, <2>5, <2>6
<1>12. LR!LinesAreGenuine'
  <2>1. f - 1 = LR!Before
    BY <1>3
  <2> HIDE DEF f, e
  <2> SUFFICES ASSUME NEW l \in lines'
               PROVE  /\ l.at \in DOMAIN arrived /\ l.from \in 1 .. l.at
                      /\ arrived[l.at] = LF
                      /\ \A k \in l.from .. l.at - 1 : arrived[k] # LF
                      /\ l.text \in {SubSeq(arrived, l.from, l.at - 1),
                                     SubSeq(arrived, l.from, l.at - 2)}
                      /\ LR!StartsLine(l.from) \/ l.from - 1 \in drops
    BY <1>4 DEF LR!LinesAreGenuine, LR!StartsLine
  <2>2. CASE l \in lines
    BY <2>2 DEF ReaderInv, LR!LinesAreGenuine
  <2>3. CASE l = [from |-> f, at |-> e, text |-> LR!LP!Line(pending)]
    <3>1. l.from = f /\ l.at = e /\ l.text = LR!LP!Line(pending)
      BY <2>3
    <3> QED BY <3>1, <1>1, <1>3, <1>6, <1>7, <1>8, <1>11, <2>1
  <2> QED BY <1>4, <2>2, <2>3
<1>13. LR!ShortLinesArrive'
  <2> SUFFICES ASSUME LR!NoneLonger(BufferSize - ReadSize)'
               PROVE  /\ drops' = {}
                      /\ \A p \in LR!WholeLines' : p[2] <= LR!Before' =>
                            \E l \in lines' : l.from = p[1] /\ l.at = p[2]
    BY DEF LR!ShortLinesArrive
  <2>1. LR!NoneLonger(BufferSize - ReadSize)
    BY <1>4 DEF LR!NoneLonger
  <2>2. /\ drops = {}
        /\ \A p \in LR!WholeLines : p[2] <= LR!Before =>
              \E l \in lines : l.from = p[1] /\ l.at = p[2]
    BY <2>1 DEF ReaderInv, LR!ShortLinesArrive
  <2>3. ASSUME NEW p \in LR!WholeLines, p[2] <= e, ~(p[2] <= LR!Before)
        PROVE  p[1] = f /\ p[2] = e
    <3>1. /\ p[1] \in 1 .. Len(arrived) /\ p[2] \in 1 .. Len(arrived) /\ p[1] <= p[2]
          /\ arrived[p[2]] = LF /\ LR!StartsLine(p[1])
          /\ \A k \in p[1] .. p[2] - 1 : arrived[k] # LF
      BY <1>1 DEF LR!WholeLines
    <3>2. p[2] = e
      <4>1. p[2] \in f .. e - 1 \/ p[2] = e
        BY <1>1, <1>3, <1>6, <2>3, <3>1
      <4> QED BY <4>1, <1>8, <3>1
    <3>3. ~(p[1] > f)
      <4> SUFFICES ASSUME p[1] > f PROVE FALSE
        OBVIOUS
      <4>1. p[1] # 1 /\ p[1] - 1 \in f .. e - 1
        BY <1>1, <1>3, <1>6, <3>1, <3>2
      <4> QED BY <4>1, <1>8, <3>1 DEF LR!StartsLine
    <3>4. ~(p[1] < f)
      <4> SUFFICES ASSUME p[1] < f PROVE FALSE
        OBVIOUS
      <4>1. LR!Before \in p[1] .. p[2] - 1 /\ f - 1 = LR!Before /\ f # 1
        BY <1>1, <1>2, <1>3, <3>1, <3>2
      <4>2. LR!StartsLine(f)
        BY <1>3, <2>2
      <4> QED BY <4>1, <4>2, <3>1 DEF LR!StartsLine
    <3> QED BY <1>3, <3>1, <3>2, <3>3, <3>4
  <2>4. LR!WholeLines' = LR!WholeLines
    BY <1>4 DEF LR!WholeLines, LR!StartsLine
  <2>5. [from |-> f, at |-> e, text |-> LR!LP!Line(pending)] \in lines'
    BY <1>4
  <2> HIDE DEF f, e
  <2>6. ASSUME NEW p \in LR!WholeLines, p[2] <= e
        PROVE  \E l \in lines' : l.from = p[1] /\ l.at = p[2]
    <3>1. CASE p[2] <= LR!Before
      BY <3>1, <2>2, <1>4
    <3>2. CASE ~(p[2] <= LR!Before)
      BY <3>2, <2>3, <2>5, <2>6
    <3> QED BY <3>1, <3>2
  <2> QED BY <1>4, <1>6, <2>2, <2>4, <2>6
<1> QED BY <1>9, <1>10, <1>12, <1>13 DEF ReaderInv

-----------------------------------------------------------------------------
\* Before anything is received.
LEMMA ReaderInit == LR!Init => ReaderInv
<1> SUFFICES ASSUME LR!Init PROVE ReaderInv
  OBVIOUS
<1>1. /\ pending = <<>> /\ arrived = <<>> /\ lines = {} /\ drops = {}
      /\ Len(pending) = 0 /\ Len(arrived) = 0 /\ DOMAIN arrived = {}
  BY DEF LR!Init
<1>2. Typed
  BY <1>1 DEF Typed
<1>3. LR!Before = 0
  BY <1>1 DEF LR!Before
<1>4. PendingIsTheEnd
  BY <1>1, <1>3 DEF PendingIsTheEnd, LR!StartsLine
<1>5. LR!LinesAreGenuine
  BY <1>1 DEF LR!LinesAreGenuine
<1>6. LR!ShortLinesArrive
  BY <1>1 DEF LR!ShortLinesArrive, LR!WholeLines
<1> QED BY <1>2, <1>4, <1>5, <1>6 DEF ReaderInv

\* What leaves the reader alone leaves its invariant.
LEMMA ReaderStutters == ReaderInv /\ UNCHANGED texts => ReaderInv'
<1> SUFFICES ASSUME ReaderInv, UNCHANGED texts PROVE ReaderInv'
  OBVIOUS
<1>1. Typed' /\ PendingIsTheEnd'
  BY DEF texts, ReaderInv, Typed, PendingIsTheEnd, LR!Before, LR!StartsLine
<1>2. LR!LinesAreGenuine'
  BY DEF texts, ReaderInv, LR!LinesAreGenuine, LR!StartsLine
<1>3. LR!ShortLinesArrive'
  BY DEF texts, ReaderInv, LR!ShortLinesArrive, LR!NoneLonger, LR!WholeLines,
         LR!StartsLine, LR!Before
<1> QED BY <1>1, <1>2, <1>3 DEF ReaderInv

-----------------------------------------------------------------------------
(* The byte machine (FrameParser) *)

\* Its invariant and its statistics.
FramesInv == FPP!ParserInv /\ FPP!StatsAccountForFrames

\* FrameParserProofs speaks of the same machine.
LEMMA SameMachine ==
    /\ FPP!Sizes <=> FP!Sizes
    /\ FPP!Init <=> FP!Init
    /\ \A u : FPP!Feed(u) <=> FP!Feed(u)
    /\ FPP!Units = FP!Units
<1>1. /\ FPP!Sizes <=> FP!Sizes
      /\ FPP!Init <=> FP!Init
      /\ FPP!Units = FP!Units
  BY DEF FPP!Sizes, FP!Sizes, FPP!Init, FP!Init, FPP!Counters, FP!Counters,
         FPP!Units, FP!Units
<1>2. /\ \A f : FPP!Valid(f) <=> FP!Valid(f)
      /\ \A f : FPP!WellFormed(f) <=> FP!WellFormed(f)
  BY DEF FPP!Valid, FP!Valid, FPP!WellFormed, FP!WellFormed, FPP!LastStar, FP!LastStar,
         FPP!Payload, FP!Payload
<1>3. /\ \A u : FPP!Discard(u) <=> FP!Discard(u)
      /\ \A u : FPP!Begin(u) <=> FP!Begin(u)
      /\ \A u : FPP!BeginAgain(u) <=> FP!BeginAgain(u)
  BY DEF FPP!Discard, FP!Discard, FPP!Begin, FP!Begin, FPP!BeginAgain, FP!BeginAgain,
         FPP!Count, FP!Count
<1>4. /\ \A u : FPP!Overflow(u) <=> FP!Overflow(u)
      /\ \A u : FPP!Collect(u) <=> FP!Collect(u)
  BY DEF FPP!Overflow, FP!Overflow, FPP!Collect, FP!Collect, FPP!Room, FP!Room,
         FPP!Count, FP!Count, FPP!Reset, FP!Reset
<1>5. \A u : FPP!End(u) <=> FP!End(u)
  BY <1>2 DEF FPP!End, FP!End, FPP!Room, FP!Room, FPP!Count, FP!Count, FPP!Reset, FP!Reset
<1> QED BY <1>1, <1>3, <1>4, <1>5 DEF FPP!Feed, FP!Feed

\* What FramesSurvive says is part of the invariant.
LEMMA SameClaims ==
    /\ FPP!DeliversExactlyTheIntact <=> FP!DeliversExactlyTheIntact
    /\ FPP!StatsAccountForFrames <=> FP!StatsAccountForFrames
<1>1. \A f : FPP!Valid(f) <=> FP!Valid(f)
  BY DEF FPP!Valid, FP!Valid, FPP!WellFormed, FP!WellFormed, FPP!LastStar, FP!LastStar,
         FPP!Payload, FP!Payload
<1>2. \A s, i, j : FPP!Intact(s, i, j) <=> FP!Intact(s, i, j)
  BY <1>1 DEF FPP!Intact, FP!Intact
<1>3. FPP!IntactFrames(received) = FP!IntactFrames(received)
  BY <1>2 DEF FPP!IntactFrames, FP!IntactFrames
<1>4. FPP!DeliversExactlyTheIntact <=> FP!DeliversExactlyTheIntact
  BY <1>3 DEF FPP!DeliversExactlyTheIntact, FP!DeliversExactlyTheIntact
<1>5. FPP!StatsAccountForFrames <=> FP!StatsAccountForFrames
  BY DEF FPP!StatsAccountForFrames, FP!StatsAccountForFrames,
         FPP!Cardinality, FP!Cardinality
<1> QED BY <1>4, <1>5

\* Before anything is received.
LEMMA FramesInit == FP!Init => FramesInv
<1> SUFFICES ASSUME FP!Init PROVE FramesInv
  OBVIOUS
<1>1. FPP!Sizes /\ FPP!Init
  BY ReadersAssumption, SameMachine
<1>2. FPP!ParserInv
  BY <1>1, FPP!InitInv
<1>3. FPP!StatsAccountForFrames
  BY <1>1, FPP!InitStats
<1> QED BY <1>2, <1>3 DEF FramesInv

\* A unit keeps it.
LEMMA FramesStep ==
    ASSUME FramesInv, NEW u \in FP!Units, FP!Feed(u)
    PROVE  FramesInv'
<1>1. FPP!Sizes /\ u \in FPP!Units /\ FPP!Feed(u)
  BY ReadersAssumption, SameMachine
<1>2. FPP!ParserInv'
  <2>1. [FPP!Next]_(FPP!vars)
    BY <1>1 DEF FPP!Next
  <2> QED BY <1>1, <2>1, FPP!NextInv DEF FramesInv
<1>3. FPP!StatsAccountForFrames'
  BY <1>1, FPP!StatsStep DEF FramesInv, FPP!ParserInv
<1> QED BY <1>2, <1>3 DEF FramesInv

\* What leaves the parser alone leaves its invariant.
LEMMA FramesStutter == FramesInv /\ UNCHANGED frames => FramesInv'
<1> SUFFICES ASSUME FramesInv, UNCHANGED frames PROVE FramesInv'
  OBVIOUS
<1>1. FPP!Sizes /\ UNCHANGED FPP!vars
  BY ReadersAssumption, SameMachine DEF frames, FPP!vars
<1>2. FPP!ParserInv'
  BY <1>1, FPP!NextInv DEF FramesInv
<1>3. FPP!StatsAccountForFrames'
  BY DEF FramesInv, frames, FPP!StatsAccountForFrames
<1> QED BY <1>2, <1>3 DEF FramesInv

-----------------------------------------------------------------------------
(* The stream *)

\* The units on the line, for both readers.
OnLineUnits == Ordinary \cup Specials

\* They are units of the byte machine, and those of the lines.
LEMMA UnitsOfReaders == OnLineUnits \subseteq FP!Units /\ OnLineUnits = LR!Units
BY DEF OnLineUnits, Specials, FP!Units, LR!Units

\* What is left of a segment is a sequence.
LEMMA PartIsSequence ==
    ASSUME NEW seg, NEW S, NEW b \in Seq(S), seg.from \in Nat \ {0}, seg.to \in Nat
    PROVE  Part(seg, b) \in Seq(S \cup {Garbled})
<1> DEFINE h == IF seg.hit \in DOMAIN b THEN [b EXCEPT ![seg.hit] = Garbled] ELSE b
           to == IF seg.to < Len(b) THEN seg.to ELSE Len(b)
<1>1. /\ Len(b) \in Nat /\ DOMAIN b = 1 .. Len(b)
      /\ b = [i \in 1 .. Len(b) |-> b[i]] /\ \A i \in 1 .. Len(b) : b[i] \in S
  OBVIOUS
<1>2. h \in [1 .. Len(b) -> S \cup {Garbled}]
  BY <1>1
<1>3. seg.from \in Int /\ to \in Int /\ \A i \in seg.from .. to : i \in 1 .. Len(b)
  BY <1>1
<1> HIDE DEF h, to
<1>4. \A i \in seg.from .. to : h[i] \in S \cup {Garbled}
  BY <1>2, <1>3
<1>5. SubSeq(h, seg.from, to) \in Seq(S \cup {Garbled})
  BY <1>3, <1>4, SubSeqProperties
<1> QED BY <1>5 DEF Part, h, to

\* The one that is chosen is the only one.
LEMMA ChosenPart ==
    ASSUME NEW leg, NEW seg
    PROVE  OnTheLine(leg, seg).units = Part(seg, Bytes(leg, seg))
<1> DEFINE b == Bytes(leg, seg)
           l == [units |-> Part(seg, b), whole |-> b # <<>> /\ Part(seg, b) = b]
<1>1. OnTheLine(leg, seg) = CHOOSE x \in {l} : TRUE
  BY DEF OnTheLine
<1>2. (CHOOSE x \in {l} : TRUE) = l
  <2> HIDE DEF l
  <2> QED OBVIOUS
<1> QED BY <1>1, <1>2

\* What is sent is a sequence of units, none of them unknown to the readers.
LEMMA StreamIsSequence ==
    ASSUME NEW c \in Courses
    PROVE  Stream(Sent(c)) \in Seq(OnLineUnits)
<1> DEFINE parts == [i \in DOMAIN Sent(c) |-> Sent(c)[i].units]
           Pieces == {ToSet(Bytes(c.leg, seg)) : seg \in ToSet(c.segments)}
           All == (UNION Pieces) \cup {Garbled}
<1>1. c.segments \in Seq(ToSet(c.segments))
  BY SegmentsAssumption
<1>2. DOMAIN c.segments = 1 .. Len(c.segments) /\ Len(c.segments) \in Nat
  BY <1>1
<1>3. DOMAIN Sent(c) = 1 .. Len(c.segments)
  BY <1>2 DEF Sent
<1>4. ASSUME NEW i \in 1 .. Len(c.segments) PROVE Sent(c)[i].units \in Seq(All)
  <2> DEFINE seg == c.segments[i]
             b == Bytes(c.leg, seg)
  <2>1. seg \in ToSet(c.segments)
    BY <1>2 DEF ToSet
  <2>2. b \in Seq(ToSet(b)) /\ seg.from \in Nat \ {0} /\ seg.to \in Nat
    BY <2>1, SegmentsAssumption
  <2>3. Sent(c)[i] = OnTheLine(c.leg, seg)
    BY <1>2 DEF Sent
  <2> HIDE DEF seg
  <2>4. OnTheLine(c.leg, seg).units = Part(seg, b)
    BY ChosenPart
  <2> HIDE DEF b, seg
  <2>5. Part(seg, b) \in Seq(ToSet(b) \cup {Garbled})
    BY <2>2, PartIsSequence
  <2>6. ToSet(b) \cup {Garbled} \subseteq All
    <3>1. ToSet(b) \in Pieces
      BY <2>1 DEF b
    <3> QED BY <3>1
  <2> HIDE DEF All
  <2> QED BY <2>3, <2>4, <2>5, <2>6
<1>5. parts \in Seq(Seq(All))
  <2> HIDE DEF All
  <2>1. parts = [i \in 1 .. Len(c.segments) |-> Sent(c)[i].units]
    BY <1>3
  <2> QED BY <1>2, <1>4, <2>1
<1>6. Stream(Sent(c)) \in Seq(All)
  BY <1>5, JoinedIsSequence DEF Stream
<1> DEFINE s == Stream(Sent(c))
<1>7. ToSet(s) \subseteq OnLineUnits
  <2>1. ToSet(s) \in {ToSet(Stream(Sent(k))) : k \in Courses}
    OBVIOUS
  <2> HIDE DEF s
  <2> QED BY <2>1 DEF OnLineUnits, Ordinary
<1> HIDE DEF s, All
<1>8. s \in Seq(All)
  BY <1>6 DEF s
<1>9. s \in Seq(OnLineUnits)
  BY <1>7, <1>8 DEF ToSet
<1> QED BY <1>9 DEF s

-----------------------------------------------------------------------------
(* The path *)

\* The inductive invariant: what is still to come is units, and each reader has
\* kept its own.
PathInv == /\ course \in Courses
           /\ sent = Sent(course)
           /\ stream \in Seq(OnLineUnits)
           /\ FramesInv /\ ReaderInv

\* The next unit, on a serial line.
LEMMA FrameUnitStep ==
    ASSUME PathInv, FrameUnit
    PROVE  PathInv'
<1>1. stream \in Seq(OnLineUnits) /\ stream # <<>>
  BY DEF PathInv, FrameUnit
<1>2. Head(stream) \in OnLineUnits /\ Tail(stream) \in Seq(OnLineUnits)
  BY <1>1
<1>3. FramesInv'
  <2>1. Head(stream) \in FP!Units /\ FP!Feed(Head(stream)) /\ FramesInv
    BY <1>2, UnitsOfReaders DEF PathInv, FrameUnit
  <2> QED BY <2>1, FramesStep
<1>4. ReaderInv'
  BY ReaderStutters DEF PathInv, FrameUnit
<1> QED BY <1>2, <1>3, <1>4 DEF PathInv, FrameUnit

\* A read of a WiFi worker.
LEMMA WifiReadStep ==
    ASSUME PathInv, WifiRead
    PROVE  PathInv'
<1>1. PICK k \in 1 .. ReadSize :
         /\ k <= Len(stream)
         /\ LR!Reads(SubSeq(stream, 1, k)) \/ LR!Overflows(SubSeq(stream, 1, k))
         /\ stream' = SubSeq(stream, k + 1, Len(stream))
  BY DEF WifiRead
<1>2. stream \in Seq(OnLineUnits) /\ Len(stream) \in Nat /\ k \in Nat /\ ReadSize \in Nat
  BY ReadersAssumption DEF PathInv, LR!Sizes
<1>3. \A i \in 1 .. Len(stream) : stream[i] \in OnLineUnits
  BY <1>2
<1>4. SubSeq(stream, 1, k) \in Seq(OnLineUnits) /\ Len(SubSeq(stream, 1, k)) = k
  <2>1. 1 \in Int /\ k \in Int /\ 1 <= k /\ k - 1 + 1 = k
        /\ \A i \in 1 .. k : stream[i] \in OnLineUnits
    BY <1>1, <1>2, <1>3
  <2> QED BY <2>1, SubSeqProperties
<1>5. stream' \in Seq(OnLineUnits)
  <2>1. k + 1 \in Int /\ Len(stream) \in Int
        /\ \A i \in k + 1 .. Len(stream) : stream[i] \in OnLineUnits
    BY <1>1, <1>2, <1>3
  <2> QED BY <1>1, <2>1, SubSeqProperties
<1>6. SubSeq(stream, 1, k) \in LR!Chunks
  BY <1>1, <1>4, UnitsOfReaders DEF LR!Chunks
<1>7. ReaderInv'
  BY <1>1, <1>6, ReadsStep, OverflowsStep, ReadersAssumption DEF PathInv
<1>8. FramesInv'
  BY FramesStutter DEF PathInv, WifiRead
<1> QED BY <1>5, <1>7, <1>8 DEF PathInv, WifiRead

\* A line is taken.
LEMMA WifiLineStep ==
    ASSUME PathInv, WifiLine
    PROVE  PathInv'
<1>1. ReaderInv'
  BY TakesStep, ReadersAssumption DEF PathInv, WifiLine
<1>2. FramesInv'
  BY FramesStutter DEF PathInv, WifiLine
<1> QED BY <1>1, <1>2 DEF PathInv, WifiLine

\* The invariant holds of every behaviour.
LEMMA PathInvariant == Spec => []PathInv
<1>1. Init => PathInv
  <2> SUFFICES ASSUME Init PROVE PathInv
    OBVIOUS
  <2>1. course \in Courses /\ sent = Sent(course) /\ stream = Stream(sent)
        /\ FP!Init /\ LR!Init
    BY DEF Init
  <2> QED BY <2>1, StreamIsSequence, FramesInit, ReaderInit DEF PathInv
<1>2. PathInv /\ [Next]_vars => PathInv'
  <2> SUFFICES ASSUME PathInv, [Next]_vars PROVE PathInv'
    OBVIOUS
  <2>1. CASE UNCHANGED vars
    <3>1. UNCHANGED <<course, sent, stream, frames, texts>>
      BY <2>1 DEF vars
    <3> QED BY <3>1, FramesStutter, ReaderStutters DEF PathInv
  <2> QED BY <2>1, FrameUnitStep, WifiReadStep, WifiLineStep DEF Next, Done
<1> QED BY <1>1, <1>2, PTL DEF Spec

\* Whatever the serial line cuts, damages or inserts: the parser hands over exactly
\* the intact frames of what was sent and counts every start of one once.
THEOREM IntactFramesArrive == Spec => []FramesSurvive
<1>1. PathInv => FramesSurvive
  BY SameClaims DEF PathInv, FramesInv, FPP!ParserInv, FramesSurvive
<1> QED BY <1>1, PathInvariant, PTL

\* However the reads of a worker fall: the lines it takes are lines of what was sent,
\* or follow an overflow; lines that are short enough all arrive.
THEOREM ShortLinesAllArrive == Spec => []LinesSurvive
<1>1. PathInv => LinesSurvive
  BY DEF PathInv, ReaderInv, LinesSurvive
<1> QED BY <1>1, PathInvariant, PTL

-----------------------------------------------------------------------------
(* Places of a sequence, in their order *)

\* The one of Codec.
LEMMA SameCardinality == \A S : C!Cardinality(S) = Cardinality(S)
BY DEF C!Cardinality, Cardinality

\* How many of S there are up to i.
Rank(S, i) == Cardinality({j \in S : j <= i})

\* The ranks of finitely many places are the numbers up to how many there are.
LEMMA RanksAreAll ==
    ASSUME NEW S \in SUBSET Nat, IsFiniteSet(S)
    PROVE  /\ \A i \in S : Rank(S, i) \in 1 .. Cardinality(S)
           /\ \A i, j \in S : Rank(S, i) = Rank(S, j) => i = j
           /\ \A k \in 1 .. Cardinality(S) : \E i \in S : Rank(S, i) = k
<1> DEFINE n == Cardinality(S)
           upTo(i) == {j \in S : j <= i}
           rank == [i \in S |-> Rank(S, i)]
<1>1. n \in Nat
  BY FS_CardinalityType
<1>2. \A i \in S : IsFiniteSet(upTo(i)) /\ Rank(S, i) \in Nat
  BY FS_Subset, FS_CardinalityType DEF Rank
<1>3. \A i \in S : Rank(S, i) \in 1 .. n
  <2> SUFFICES ASSUME NEW i \in S PROVE Rank(S, i) \in 1 .. n
    OBVIOUS
  <2>1. i \in upTo(i) /\ upTo(i) \in SUBSET S
    OBVIOUS
  <2>2. Rank(S, i) <= n /\ Rank(S, i) = Cardinality(upTo(i))
    BY <2>1, FS_Subset DEF Rank
  <2>3. Rank(S, i) # 0
    BY <2>1, <2>2, <1>2, FS_EmptySet
  <2> QED BY <2>2, <2>3, <1>1, <1>2
<1>4. \A i, j \in S : i < j => Rank(S, i) # Rank(S, j)
  <2> SUFFICES ASSUME NEW i \in S, NEW j \in S, i < j PROVE Rank(S, i) # Rank(S, j)
    OBVIOUS
  <2>0. S \subseteq Nat /\ i \in Nat /\ j \in Nat /\ j <= j /\ ~(j <= i)
        /\ \A x \in Nat : x <= i => x <= j
    OBVIOUS
  <2>1. upTo(i) \in SUBSET upTo(j) /\ j \in upTo(j) /\ j \notin upTo(i)
    BY <2>0
  <2>2. IsFiniteSet(upTo(j)) /\ upTo(i) # upTo(j)
    BY <1>2, <2>1
  <2> HIDE DEF upTo
  <2>3. Cardinality(upTo(j)) # Cardinality(upTo(i))
    BY <2>1, <2>2, FS_Subset
  <2> QED BY <2>3 DEF Rank, upTo
<1>5. \A i, j \in S : Rank(S, i) = Rank(S, j) => i = j
  BY <1>4
<1>6. rank \in Injection(S, 1 .. n)
  BY <1>3, <1>5 DEF Injection, IsInjective
<1>7. IsFiniteSet(1 .. n) /\ Cardinality(1 .. n) = n
  BY <1>1, FS_Interval
<1> HIDE DEF rank, n
<1>8. rank \in Surjection(S, 1 .. n)
  BY <1>6, <1>7, FS_Injection DEF n
<1>9. \A k \in 1 .. n : \E i \in S : rank[i] = k
  BY <1>8 DEF Surjection
<1> QED BY <1>3, <1>5, <1>9 DEF rank, n

\* The k-th of them is the one of rank k.
LEMMA NthIs ==
    ASSUME NEW S \in SUBSET Nat, IsFiniteSet(S)
    PROVE  /\ \A k \in 1 .. Cardinality(S) : C!Nth(S, k) \in S /\ Rank(S, C!Nth(S, k)) = k
           /\ \A i \in S : C!Nth(S, Rank(S, i)) = i
<1>1. \A k : C!Nth(S, k) = CHOOSE i \in S : Rank(S, i) = k
  BY SameCardinality DEF C!Nth, Rank
<1>2. \A k \in 1 .. Cardinality(S) : C!Nth(S, k) \in S /\ Rank(S, C!Nth(S, k)) = k
  <2> SUFFICES ASSUME NEW k \in 1 .. Cardinality(S)
               PROVE  C!Nth(S, k) \in S /\ Rank(S, C!Nth(S, k)) = k
    OBVIOUS
  <2>1. \E i \in S : Rank(S, i) = k
    BY RanksAreAll
  <2> QED BY <1>1, <2>1
<1>3. \A i \in S : C!Nth(S, Rank(S, i)) = i
  <2> SUFFICES ASSUME NEW i \in S PROVE C!Nth(S, Rank(S, i)) = i
    OBVIOUS
  <2>1. Rank(S, i) \in 1 .. Cardinality(S)
        /\ \A j \in S : Rank(S, j) = Rank(S, i) => j = i
    BY RanksAreAll
  <2> QED BY <1>2, <2>1
<1> QED BY <1>2, <1>3

\* A place behind all of them is the last one.
LEMMA NthBehind ==
    ASSUME NEW S \in SUBSET Nat, IsFiniteSet(S), NEW e \in Nat, \A i \in S : i < e
    PROVE  /\ IsFiniteSet(S \cup {e}) /\ S \cup {e} \in SUBSET Nat
           /\ Cardinality(S \cup {e}) = Cardinality(S) + 1 /\ Cardinality(S) \in Nat
           /\ \A k \in 1 .. Cardinality(S) : C!Nth(S \cup {e}, k) = C!Nth(S, k)
           /\ C!Nth(S \cup {e}, Cardinality(S) + 1) = e
<1> DEFINE T == S \cup {e}
<1>1. IsFiniteSet(T) /\ T \in SUBSET Nat /\ e \notin S
      /\ Cardinality(T) = Cardinality(S) + 1 /\ Cardinality(S) \in Nat
  BY FS_AddElement, FS_CardinalityType
<1>2. \A i \in S : Rank(T, i) = Rank(S, i)
  <2> SUFFICES ASSUME NEW i \in S PROVE {j \in T : j <= i} = {j \in S : j <= i}
    BY DEF Rank
  <2> QED OBVIOUS
<1>3. Rank(T, e) = Cardinality(S) + 1
  <2>1. \A j \in T : j <= e
    OBVIOUS
  <2>2. {j \in T : j <= e} = T
    BY <2>1
  <2> QED BY <1>1, <2>2 DEF Rank
<1> HIDE DEF T
<1>4. \A k \in 1 .. Cardinality(S) : C!Nth(T, k) = C!Nth(S, k)
  <2> SUFFICES ASSUME NEW k \in 1 .. Cardinality(S) PROVE C!Nth(T, k) = C!Nth(S, k)
    OBVIOUS
  <2>1. C!Nth(S, k) \in S /\ Rank(S, C!Nth(S, k)) = k
    BY NthIs
  <2>2. C!Nth(S, k) \in T /\ Rank(T, C!Nth(S, k)) = k
    BY <2>1, <1>2 DEF T
  <2> QED BY <1>1, <2>2, NthIs
<1>5. C!Nth(T, Cardinality(S) + 1) = e
  <2>1. e \in T
    BY DEF T
  <2> QED BY <1>1, <1>3, <2>1, NthIs
<1> QED BY <1>1, <1>4, <1>5 DEF T

\* What stands at no place, at one place, at every place, at the places of a sequence
\* that agrees there, and at one place more that is behind the others.
LEMMA AtIs ==
    ASSUME NEW s, NEW S
    PROVE  C!At(s, S) = [k \in 1 .. Cardinality(S) |-> s[C!Nth(S, k)]]
BY SameCardinality DEF C!At

\* No place, nothing.
LEMMA AtNone == ASSUME NEW s PROVE C!At(s, {}) = <<>>
<1>1. 1 .. Cardinality({}) = {}
  BY FS_EmptySet
<1>2. Cardinality({}) = 0 /\ C!At(s, {}) = [k \in 1 .. Cardinality({}) |-> s[C!Nth({}, k)]]
  BY AtIs, FS_EmptySet
<1>3. C!At(s, {}) \in [1 .. 0 -> {}]
  BY <1>1, <1>2
<1>4. C!At(s, {}) \in Seq({}) /\ Len(C!At(s, {})) = 0
  BY <1>3
<1> QED BY <1>4, EmptySeq

\* What stands elsewhere does not count.
LEMMA AtSame ==
    ASSUME NEW S \in SUBSET Nat, IsFiniteSet(S), NEW s, NEW t, \A i \in S : s[i] = t[i]
    PROVE  C!At(s, S) = C!At(t, S)
<1>1. \A k \in 1 .. Cardinality(S) : s[C!Nth(S, k)] = t[C!Nth(S, k)]
  BY NthIs
<1> QED BY <1>1, AtIs

\* It is a sequence, with one entry for every place.
LEMMA AtIsSequence ==
    ASSUME NEW S \in SUBSET Nat, IsFiniteSet(S), NEW s, NEW A, \A i \in S : s[i] \in A
    PROVE  C!At(s, S) \in Seq(A) /\ Len(C!At(s, S)) = Cardinality(S)
<1>1. \A k \in 1 .. Cardinality(S) : s[C!Nth(S, k)] \in A
  BY NthIs
<1>2. Cardinality(S) \in Nat
  BY FS_CardinalityType
<1>3. C!At(s, S) \in [1 .. Cardinality(S) -> A]
  BY <1>1, AtIs
<1> QED BY <1>2, <1>3

\* A place behind all the others adds its entry at the end.
LEMMA AtBehind ==
    ASSUME NEW S \in SUBSET Nat, IsFiniteSet(S), NEW e \in Nat, \A i \in S : i < e,
           NEW s, NEW t, \A i \in S : s[i] = t[i]
    PROVE  C!At(t, S \cup {e}) = Append(C!At(s, S), t[e])
<1> DEFINE T == S \cup {e}
           n == Cardinality(S)
           A == {s[i] : i \in S} \cup {t[e]}
<1>1. /\ Cardinality(T) = n + 1 /\ n \in Nat
      /\ \A k \in 1 .. n : C!Nth(T, k) = C!Nth(S, k)
      /\ C!Nth(T, n + 1) = e
  BY NthBehind
<1>2. C!At(t, T) = [k \in 1 .. n + 1 |-> t[C!Nth(T, k)]]
  BY <1>1, AtIs
<1>3. C!At(s, S) = [k \in 1 .. n |-> s[C!Nth(S, k)]]
  BY AtIs
<1>4. C!At(s, S) \in Seq(A) /\ Len(C!At(s, S)) = n
  BY AtIsSequence
<1> HIDE DEF T, n, A
<1>5. Append(C!At(s, S), t[e]) = [k \in 1 .. n + 1 |-> IF k <= n THEN C!At(s, S)[k] ELSE t[e]]
  BY <1>1, <1>4
<1>6. ASSUME NEW k \in 1 .. n + 1
      PROVE  t[C!Nth(T, k)] = IF k <= n THEN C!At(s, S)[k] ELSE t[e]
  <2>1. CASE k <= n
    <3>1. k \in 1 .. n
      BY <1>1, <2>1
    <3>2. C!Nth(S, k) \in S
      BY <3>1, NthIs DEF n
    <3> QED BY <1>1, <1>3, <2>1, <3>1, <3>2
  <2>2. CASE ~(k <= n)
    <3>1. k = n + 1
      BY <1>1, <2>2
    <3> QED BY <1>1, <2>2, <3>1
  <2> QED BY <2>1, <2>2
<1> QED BY <1>2, <1>5, <1>6 DEF T

\* The numbers up to n are n.
LEMMA CountTo == ASSUME NEW n \in Nat PROVE IsFiniteSet(1 .. n) /\ Cardinality(1 .. n) = n
<1>1. IsFiniteSet(1 .. n) /\ Cardinality(1 .. n) = IF 1 > n THEN 0 ELSE n - 1 + 1
  BY FS_Interval
<1> QED BY <1>1

\* One place, one entry.
LEMMA AtOne == ASSUME NEW s, NEW e \in Nat PROVE C!At(s, {e}) = <<s[e]>>
<1>1. C!At(s, {} \cup {e}) = Append(C!At(s, {}), s[e])
  BY FS_EmptySet, AtBehind
<1>2. {} \cup {e} = {e} /\ Append(<<>>, s[e]) = <<s[e]>>
  OBVIOUS
<1> QED BY <1>1, <1>2, AtNone

\* At all its places a sequence is itself.
LEMMA AtAll ==
    ASSUME NEW A, NEW s \in Seq(A)
    PROVE  C!At(s, DOMAIN s) = s
<1> DEFINE n == Len(s)
<1>1. n \in Nat /\ DOMAIN s = 1 .. n /\ s = [k \in 1 .. n |-> s[k]]
  OBVIOUS
<1>2. IsFiniteSet(1 .. n) /\ Cardinality(1 .. n) = n
  BY <1>1, CountTo
<1>3. ASSUME NEW k \in 1 .. n PROVE C!Nth(1 .. n, k) = k
  <2>1. {j \in 1 .. n : j <= k} = 1 .. k
    BY <1>1
  <2>2. Cardinality(1 .. k) = k
    BY <1>1, CountTo
  <2>3. Rank(1 .. n, k) = k
    BY <2>1, <2>2 DEF Rank
  <2>4. 1 .. n \in SUBSET Nat
    BY <1>1
  <2> QED BY <1>2, <2>3, <2>4, NthIs
<1> HIDE DEF n
<1>4. C!At(s, 1 .. n) = [k \in 1 .. n |-> s[k]]
  BY <1>2, <1>3, AtIs
<1> QED BY <1>1, <1>4

-----------------------------------------------------------------------------
(* The segments in the stream *)

\* The stream up to the end of the i-th segment, and where that is.
Upto(c, i) == Stream(SubSeq(Sent(c), 1, i))
EndOf(c, i) == Len(Upto(c, i))

\* All that can be on the line.
UnitsOf(c) == (UNION {ToSet(Bytes(c.leg, seg)) : seg \in ToSet(c.segments)}) \cup {Garbled}

\* A segment on the line.
LEMMA SegmentIs ==
    ASSUME NEW c \in Courses
    PROVE  /\ Len(c.segments) \in Nat /\ DOMAIN c.segments = 1 .. Len(c.segments)
           /\ Sent(c) \in Seq(ToSet(Sent(c))) /\ Len(Sent(c)) = Len(c.segments)
           /\ \A i \in 1 .. Len(c.segments) :
                 LET b == Bytes(c.leg, c.segments[i])
                 IN  /\ c.segments[i] \in ToSet(c.segments)
                     /\ Sent(c)[i].units \in Seq(UnitsOf(c))
                     /\ Sent(c)[i].units = Part(c.segments[i], b)
                     /\ Sent(c)[i].whole <=> b # <<>> /\ Sent(c)[i].units = b
<1>1. c.segments \in Seq(ToSet(c.segments))
  BY SegmentsAssumption
<1>2. DOMAIN c.segments = 1 .. Len(c.segments) /\ Len(c.segments) \in Nat
  BY <1>1
<1>3. Sent(c) = [i \in 1 .. Len(c.segments) |-> OnTheLine(c.leg, c.segments[i])]
  BY <1>2 DEF Sent
<1>4. Sent(c) \in Seq(ToSet(Sent(c))) /\ Len(Sent(c)) = Len(c.segments)
  <2>1. \A i \in 1 .. Len(c.segments) : Sent(c)[i] \in ToSet(Sent(c))
    BY <1>3 DEF ToSet
  <2>2. Sent(c) \in [1 .. Len(c.segments) -> ToSet(Sent(c))]
    BY <1>3, <2>1
  <2> QED BY <1>2, <2>2
<1>5. ASSUME NEW i \in 1 .. Len(c.segments)
      PROVE  LET b == Bytes(c.leg, c.segments[i])
             IN  /\ c.segments[i] \in ToSet(c.segments)
                 /\ Sent(c)[i].units \in Seq(UnitsOf(c))
                 /\ Sent(c)[i].units = Part(c.segments[i], b)
                 /\ Sent(c)[i].whole <=> b # <<>> /\ Sent(c)[i].units = b
  <2> DEFINE seg == c.segments[i]
             b == Bytes(c.leg, seg)
             l == [units |-> Part(seg, b), whole |-> b # <<>> /\ Part(seg, b) = b]
  <2>1. seg \in ToSet(c.segments)
    BY <1>2 DEF ToSet
  <2>2. b \in Seq(ToSet(b)) /\ seg.from \in Nat \ {0} /\ seg.to \in Nat
    BY <2>1, SegmentsAssumption
  <2>3. Sent(c)[i] = l
    <3>1. OnTheLine(c.leg, seg) = CHOOSE x \in {l} : TRUE
      BY DEF OnTheLine
    <3>2. (CHOOSE x \in {l} : TRUE) = l
      <4> HIDE DEF l
      <4> QED OBVIOUS
    <3> QED BY <1>3, <3>1, <3>2
  <2>4. Sent(c)[i].units = Part(seg, b) /\ (Sent(c)[i].whole <=> b # <<>> /\ Part(seg, b) = b)
    <3> HIDE DEF b, seg
    <3>1. l.units = Part(seg, b) /\ (l.whole <=> b # <<>> /\ Part(seg, b) = b)
      OBVIOUS
    <3> HIDE DEF l
    <3> QED BY <2>3, <3>1
  <2>5. Part(seg, b) \in Seq(ToSet(b) \cup {Garbled})
    <3> HIDE DEF b, seg
    <3> QED BY <2>2, PartIsSequence
  <2>6. ToSet(b) \cup {Garbled} \subseteq UnitsOf(c)
    BY <2>1 DEF UnitsOf
  <2> HIDE DEF b, seg
  <2>7. Part(seg, b) \in Seq(UnitsOf(c))
    BY <2>5, <2>6
  <2> QED BY <2>1, <2>4, <2>7 DEF b, seg
<1> QED BY <1>2, <1>4, <1>5

\* One segment more.
LEMMA UptoIs ==
    ASSUME NEW c \in Courses
    PROVE  /\ Upto(c, 0) = <<>>
           /\ Upto(c, Len(c.segments)) = Stream(Sent(c))
           /\ \A i \in 0 .. Len(c.segments) : Upto(c, i) \in Seq(UnitsOf(c))
           /\ \A i \in 1 .. Len(c.segments) : Upto(c, i) = Upto(c, i - 1) \o Sent(c)[i].units
<1> DEFINE n == Len(c.segments)
           U == [i \in 1 .. n |-> Sent(c)[i].units]
           A == UnitsOf(c)
<1>1. n \in Nat /\ Sent(c) \in Seq(ToSet(Sent(c))) /\ Len(Sent(c)) = n
      /\ \A i \in 1 .. n : Sent(c)[i].units \in Seq(A)
  BY SegmentIs
<1> HIDE DEF n, A
<1>2. U \in Seq(Seq(A)) /\ Len(U) = n
  BY <1>1
<1>3. ASSUME NEW i \in 0 .. n
      PROVE  Upto(c, i) = FlattenSeq(SubSeq(U, 1, i)) /\ SubSeq(U, 1, i) \in Seq(Seq(A))
  <2>1. SubSeq(Sent(c), 1, i) = [k \in 1 .. i |-> Sent(c)[k]]
        /\ DOMAIN SubSeq(Sent(c), 1, i) = 1 .. i
    BY <1>1
  <2>2. [k \in DOMAIN SubSeq(Sent(c), 1, i) |-> SubSeq(Sent(c), 1, i)[k].units]
          = [k \in 1 .. i |-> Sent(c)[k].units]
    BY <2>1
  <2>3. SubSeq(U, 1, i) = [k \in 1 .. i |-> U[k]] /\ SubSeq(U, 1, i) \in Seq(Seq(A))
    <3> HIDE DEF U
    <3> QED BY <1>1, <1>2
  <2>4. [k \in 1 .. i |-> U[k]] = [k \in 1 .. i |-> Sent(c)[k].units]
    BY <1>1
  <2> QED BY <2>2, <2>3, <2>4 DEF Upto, Stream
<1>4. Upto(c, 0) = <<>>
  <2>1. SubSeq(U, 1, 0) = <<>> /\ Len(SubSeq(U, 1, 0)) = 0
    <3> HIDE DEF U
    <3> QED BY <1>2
  <2>2. FlattenSeq(SubSeq(U, 1, 0)) = SubSeq(U, 1, 0)
    <3> HIDE DEF U
    <3> QED BY <2>1 DEF FlattenSeq
  <2> QED BY <1>1, <1>3, <2>1, <2>2
<1>5. Upto(c, n) = Stream(Sent(c))
  <2>1. SubSeq(Sent(c), 1, n) = Sent(c)
    BY <1>1
  <2> QED BY <2>1 DEF Upto
<1>6. \A i \in 0 .. n : Upto(c, i) \in Seq(A)
  BY <1>3, JoinedIsSequence
<1>7. ASSUME NEW i \in 1 .. n PROVE Upto(c, i) = Upto(c, i - 1) \o Sent(c)[i].units
  <2>1. i \in 0 .. n /\ i - 1 \in 0 .. n /\ U[i] = Sent(c)[i].units /\ U[i] \in Seq(A)
    BY <1>1
  <2>2. SubSeq(U, 1, i) = Append(SubSeq(U, 1, i - 1), U[i])
    <3> HIDE DEF U
    <3> QED BY <1>1, <1>2, SubSeqRecursiveSecond
  <2> HIDE DEF U
  <2>3. FlattenSeq(Append(SubSeq(U, 1, i - 1), U[i])) = FlattenSeq(SubSeq(U, 1, i - 1)) \o U[i]
    BY <1>3, <2>1, JoinedAppend
  <2> QED BY <1>3, <2>1, <2>2, <2>3
<1> QED BY <1>4, <1>5, <1>6, <1>7 DEF n, A

\* The stream goes on, and what was there stays.
LEMMA StreamGrows ==
    ASSUME NEW c \in Courses, NEW i \in 0 .. Len(c.segments), NEW j \in i .. Len(c.segments)
    PROVE  /\ EndOf(c, i) \in Nat /\ EndOf(c, j) \in Nat /\ EndOf(c, i) <= EndOf(c, j)
           /\ \A k \in 1 .. EndOf(c, i) : Upto(c, j)[k] = Upto(c, i)[k]
<1> DEFINE n == Len(c.segments)
           Grows(m) == /\ EndOf(c, i) <= EndOf(c, m)
                       /\ \A k \in 1 .. EndOf(c, i) : Upto(c, m)[k] = Upto(c, i)[k]
           bad == {m \in i .. n : ~Grows(m)}
<1>1. n \in Nat /\ \A m \in 0 .. n : Upto(c, m) \in Seq(UnitsOf(c)) /\ EndOf(c, m) \in Nat
  <2>1. n \in Nat
    BY SegmentIs
  <2>2. \A m \in 0 .. n : Upto(c, m) \in Seq(UnitsOf(c))
    BY UptoIs
  <2>3. \A m \in 0 .. n : EndOf(c, m) \in Nat
    BY <2>2, LenProperties DEF EndOf
  <2> QED BY <2>1, <2>2, <2>3
<1>2. ASSUME bad # {} PROVE FALSE
  <2> HIDE DEF Grows
  <2>1. bad \in SUBSET Nat
    BY <1>1
  <2>2. PICK m \in bad : \A x \in bad : m <= x
    BY <1>2, <2>1, Least
  <2>3. m \in i .. n /\ ~Grows(m)
    BY <2>2
  <2>4. m # i
    BY <1>1, <2>3 DEF Grows
  <2>5. m - 1 \in i .. n /\ m \in 1 .. n /\ ~(m <= m - 1) /\ m - 1 \in 0 .. n /\ m \in 0 .. n
    BY <1>1, <2>3, <2>4
  <2>6. Grows(m - 1)
    BY <2>2, <2>5
  <2>7. Upto(c, m) = Upto(c, m - 1) \o Sent(c)[m].units /\ Sent(c)[m].units \in Seq(UnitsOf(c))
    BY <2>5, UptoIs, SegmentIs
  <2> DEFINE p == Upto(c, m - 1)
             q == Sent(c)[m].units
  <2>8. p \in Seq(UnitsOf(c)) /\ Len(p) = EndOf(c, m - 1)
    BY <1>1, <2>5 DEF EndOf
  <2> HIDE DEF p, q
  <2>9. Len(p \o q) >= Len(p) /\ Len(p) \in Nat /\ Len(p \o q) \in Nat
        /\ \A k \in 1 .. Len(p) : (p \o q)[k] = p[k]
    BY <2>7, <2>8 DEF q
  <2>10. EndOf(c, m) = Len(p \o q) /\ Upto(c, m) = p \o q
    BY <2>7 DEF EndOf, p, q
  <2>11. EndOf(c, i) \in Nat /\ EndOf(c, i) <= Len(p)
         /\ \A k \in 1 .. EndOf(c, i) : p[k] = Upto(c, i)[k]
    BY <1>1, <2>6, <2>8 DEF Grows, p
  <2>12. Grows(m)
    <3>1. EndOf(c, i) <= EndOf(c, m)
      BY <2>9, <2>10, <2>11
    <3>2. \A k \in 1 .. EndOf(c, i) : k \in 1 .. Len(p)
      BY <2>9, <2>11
    <3> QED BY <2>9, <2>10, <2>11, <3>1, <3>2 DEF Grows
  <2> QED BY <2>3, <2>12
<1>3. Grows(j)
  BY <1>2
<1> QED BY <1>1, <1>3

\* Where the i-th segment is in the stream.
LEMMA SegmentAt ==
    ASSUME NEW c \in Courses, NEW i \in 1 .. Len(c.segments)
    PROVE  LET s == Stream(Sent(c))
               u == Sent(c)[i].units
           IN  /\ u \in Seq(UnitsOf(c)) /\ s \in Seq(UnitsOf(c))
               /\ EndOf(c, i - 1) \in Nat /\ EndOf(c, i) \in Nat
               /\ EndOf(c, i) = EndOf(c, i - 1) + Len(u)
               /\ EndOf(c, i) <= Len(s)
               /\ \A k \in 1 .. Len(u) : s[EndOf(c, i - 1) + k] = u[k]
<1> DEFINE s == Stream(Sent(c))
           u == Sent(c)[i].units
           n == Len(c.segments)
           p == Upto(c, i - 1)
<1>1. n \in Nat /\ u \in Seq(UnitsOf(c)) /\ i \in Nat /\ i <= n
  BY SegmentIs
<1>2. i - 1 \in 0 .. n /\ i \in 0 .. n /\ n \in 0 .. n /\ n \in i .. n
  BY <1>1
<1>3. p \in Seq(UnitsOf(c)) /\ Upto(c, i) = p \o u /\ Upto(c, n) = s /\ s \in Seq(UnitsOf(c))
  BY <1>2, UptoIs
<1>4. EndOf(c, i) <= Len(s) /\ \A k \in 1 .. EndOf(c, i) : s[k] = Upto(c, i)[k]
  <2>1. EndOf(c, n) = Len(s)
    BY <1>3 DEF EndOf
  <2> QED BY <1>2, <1>3, <2>1, StreamGrows
<1> HIDE DEF s, u, p, n
<1>5. /\ Len(p) \in Nat /\ Len(u) \in Nat /\ Len(p \o u) = Len(p) + Len(u)
      /\ \A k \in 1 .. Len(u) : (p \o u)[Len(p) + k] = u[k] /\ Len(p) + k \in 1 .. Len(p) + Len(u)
  BY <1>1, <1>3
<1>6. EndOf(c, i - 1) = Len(p) /\ EndOf(c, i) = Len(p) + Len(u)
  BY <1>3, <1>5 DEF EndOf, p
<1>7. \A k \in 1 .. Len(u) : s[EndOf(c, i - 1) + k] = u[k]
  <2> SUFFICES ASSUME NEW k \in 1 .. Len(u) PROVE s[Len(p) + k] = u[k]
    BY <1>6
  <2>1. Len(p) + k \in 1 .. EndOf(c, i)
    BY <1>5, <1>6
  <2> QED BY <1>3, <1>4, <1>5, <2>1
<1>8. /\ EndOf(c, i - 1) \in Nat /\ EndOf(c, i) \in Nat
      /\ EndOf(c, i) = EndOf(c, i - 1) + Len(u)
  BY <1>5, <1>6
<1> QED BY <1>1, <1>3, <1>4, <1>7, <1>8 DEF s, u

-----------------------------------------------------------------------------
(* A frame and what is read of it (Codec) *)

\* A message whose fields are a sequence of keys and values.
IsMessage(m) == /\ m.seq \in Nat
                /\ m.fields \in Seq(ToSet(m.fields))
                /\ \A i \in DOMAIN m.fields :
                      m.fields[i] = <<m.fields[i][1], m.fields[i][2]>>

\* No two kinds of unit are the same.
LEMMA UnitsDiffer ==
    /\ \A t : C!IsWord(C!Word(t)) /\ ~C!IsNumber(C!Word(t)) /\ ~C!IsTenths(C!Word(t))
    /\ \A n : C!IsNumber(C!Number(n)) /\ ~C!IsWord(C!Number(n))
    /\ \A k, v : C!IsPair(C!Pair(k, v))
    /\ \A fs : ~C!IsWord(C!Inner(fs)) /\ ~C!IsNumber(C!Inner(fs)) /\ ~C!IsTenths(C!Inner(fs))
    /\ \A fs : C!IsInner(C!Inner(fs))
    /\ \A t : ~C!IsInner(C!Word(t)) /\ ~C!IsInner(C!Number(t))
    /\ \A t : C!Word(t) # C!Empty
    /\ \A n : C!Number(n) # C!Empty
    /\ \A k, v : C!Pair(k, v) # C!Empty
<1>1. \A t : DOMAIN C!Word(t) = {"word"}
  BY DEF C!Word
<1>2. \A n : DOMAIN C!Number(n) = {"number"}
  BY DEF C!Number
<1>3. \A k, v : DOMAIN C!Pair(k, v) = {"key", "value"}
  BY DEF C!Pair
<1>4. \A fs : DOMAIN C!Inner(fs) = {"fields"}
  BY DEF C!Inner
<1>5. DOMAIN C!Empty = {"nothing"}
  BY DEF C!Empty
<1>6. /\ {"word"} # {"number"} /\ {"word"} # {"tenths"} /\ {"word"} # {"nothing"}
      /\ {"number"} # {"tenths"} /\ {"number"} # {"nothing"} /\ {"fields"} # {"word"}
      /\ {"fields"} # {"number"} /\ {"fields"} # {"tenths"} /\ {"key", "value"} # {"nothing"}
  OBVIOUS
<1> QED BY <1>1, <1>2, <1>3, <1>4, <1>5, <1>6
        DEF C!IsWord, C!IsNumber, C!IsTenths, C!IsInner, C!IsPair

\* The units of a payload.
LEMMA PayloadIs ==
    ASSUME NEW m, IsMessage(m)
    PROVE  LET p == C!PayloadOf(m)
           IN  /\ p \in Seq(ToSet(p)) /\ Len(p) = 4 + Len(m.fields) /\ Len(m.fields) \in Nat
               /\ p[1] = C!Word("1") /\ p[2] = C!Word(m.id)
               /\ p[3] = C!Number(m.seq % SequenceLimit) /\ p[4] = C!Word(m.type)
               /\ \A i \in 1 .. Len(m.fields) :
                     p[4 + i] = C!Pair(m.fields[i][1], m.fields[i][2])
<1> DEFINE fs == m.fields
           n == Len(fs)
           h == <<C!Word("1"), C!Word(m.id), C!Number(m.seq % SequenceLimit), C!Word(m.type)>>
           q == [i \in 1 .. n |-> C!Pair(fs[i][1], fs[i][2])]
           A == {h[i] : i \in 1 .. 4} \cup {q[i] : i \in 1 .. n}
           p == h \o q
<1>1. n \in Nat /\ DOMAIN fs = 1 .. n
  BY DEF IsMessage
<1>2. C!PayloadOf(m) = p
  BY <1>1 DEF C!PayloadOf, C!Pairs
<1>3. q \in Seq(A) /\ Len(q) = n
  <2>1. q \in [1 .. n -> A]
    OBVIOUS
  <2> QED BY <1>1, <2>1
<1>4. h \in Seq(A) /\ Len(h) = 4
  <2>1. h \in [1 .. 4 -> A]
    <3>1. DOMAIN h = 1 .. 4 /\ h = [i \in 1 .. 4 |-> h[i]]
      OBVIOUS
    <3> HIDE DEF h
    <3> QED BY <3>1
  <2> HIDE DEF A
  <2> QED BY <2>1
<1>5. h[1] = C!Word("1") /\ h[2] = C!Word(m.id)
      /\ h[3] = C!Number(m.seq % SequenceLimit) /\ h[4] = C!Word(m.type)
  OBVIOUS
<1>6. \A i \in 1 .. n : q[i] = C!Pair(fs[i][1], fs[i][2])
  OBVIOUS
<1> HIDE DEF h, q, A, n, fs
<1>7. /\ p \in Seq(A) /\ Len(p) = 4 + n
      /\ p[1] = h[1] /\ p[2] = h[2] /\ p[3] = h[3] /\ p[4] = h[4]
      /\ \A i \in 1 .. n : p[4 + i] = q[i]
  <2>1. /\ p \in Seq(A) /\ Len(p) = 4 + n
        /\ \A i \in 1 .. 4 + n : p[i] = IF i <= 4 THEN h[i] ELSE q[i - 4]
    <3>1. h \o q \in Seq(A) /\ Len(h \o q) = Len(h) + Len(q)
      BY <1>3, <1>4, ConcatProperties
    <3>2. \A i \in 1 .. Len(h) + Len(q) :
             (h \o q)[i] = IF i <= Len(h) THEN h[i] ELSE q[i - Len(h)]
      BY <1>3, <1>4, ConcatProperties
    <3> QED BY <1>3, <1>4, <3>1, <3>2
  <2> HIDE DEF p
  <2>2. p[1] = h[1] /\ p[2] = h[2] /\ p[3] = h[3] /\ p[4] = h[4]
    BY <2>1, <1>1
  <2>3. ASSUME NEW i \in 1 .. n PROVE p[4 + i] = q[i]
    <3>1. 4 + i \in 1 .. 4 + n /\ ~(4 + i <= 4) /\ (4 + i) - 4 = i
      BY <1>1
    <3> QED BY <2>1, <3>1
  <2> QED BY <2>1, <2>2, <2>3
<1> HIDE DEF p
<1>8. p \in Seq(ToSet(p))
  BY <1>7 DEF ToSet
<1> QED BY <1>1, <1>2, <1>5, <1>6, <1>7, <1>8 DEF n, fs

\* None is between two commas, so that each is a token.
LEMMA TokensOfPayload ==
    ASSUME NEW m, IsMessage(m)
    PROVE  C!Tokens(C!PayloadOf(m)) = C!PayloadOf(m)
<1> DEFINE p == C!PayloadOf(m)
           n == Len(m.fields)
<1>1. /\ p \in Seq(ToSet(p)) /\ Len(p) = 4 + n /\ n \in Nat
      /\ p[1] = C!Word("1") /\ p[2] = C!Word(m.id)
      /\ p[3] = C!Number(m.seq % SequenceLimit) /\ p[4] = C!Word(m.type)
      /\ \A i \in 1 .. n : p[4 + i] = C!Pair(m.fields[i][1], m.fields[i][2])
  BY PayloadIs
<1> HIDE DEF p, n
<1>2. ASSUME NEW i \in DOMAIN p PROVE p[i] # C!Empty
  <2>1. i \in 1 .. 4 + n
    BY <1>1
  <2>2. CASE i \in {1, 2, 3, 4}
    BY <1>1, <2>2, UnitsDiffer
  <2>3. CASE i \notin {1, 2, 3, 4}
    <3>1. i - 4 \in 1 .. n /\ 4 + (i - 4) = i
      BY <1>1, <2>1, <2>3
    <3>2. p[4 + (i - 4)] # C!Empty
      BY <1>1, <3>1, UnitsDiffer
    <3> QED BY <3>1, <3>2
  <2> QED BY <2>2, <2>3
<1>3. {i \in DOMAIN p : p[i] # C!Empty} = DOMAIN p
  BY <1>2
<1>4. C!At(p, DOMAIN p) = p
  BY <1>1, AtAll
<1> QED BY <1>3, <1>4 DEF p, C!Tokens

\* frame_get_message_type reads the type that was written.
LEMMA TypeOfPayload ==
    ASSUME NEW m, IsMessage(m)
    PROVE  C!FrameType(C!PayloadOf(m))
              = IF m.type \in {"DATA", "CMD", "ACK", "NACK"} THEN m.type ELSE "UNKNOWN"
<1> DEFINE p == C!PayloadOf(m)
<1>1. Len(p) >= 4 /\ p[4] = C!Word(m.type)
  BY PayloadIs
<1>2. C!IsWord(p[4]) /\ p[4].word = m.type
  BY <1>1, UnitsDiffer DEF C!Word
<1>3. C!Tokens(p) = p
  BY TokensOfPayload
<1> HIDE DEF p
<1> QED BY <1>1, <1>2, <1>3 DEF C!FrameType, p

\* The decoders read a legible message as what was written, but for its number, of
\* which six digits were, and refuse any other.
LEMMA ParsedPayload ==
    ASSUME NEW m, IsMessage(m), NEW type, SequenceLimit \in Nat \ {0}, MaxFields \in Nat,
           m.type = "NACK" => Len(m.fields) = 1 /\ m.fields[1][1] = "ERR"
    PROVE  C!ParseFrame(C!PayloadOf(m), type)
              = IF m.type = type /\ Legible(m)
                THEN C!Message(type, m.id, m.seq % SequenceLimit, m.fields)
                ELSE Malformed
<1> DEFINE p == C!PayloadOf(m)
           n == Len(m.fields)
<1>1. /\ p \in Seq(ToSet(p)) /\ Len(p) = 4 + n /\ n \in Nat
      /\ p[1] = C!Word("1") /\ p[2] = C!Word(m.id)
      /\ p[3] = C!Number(m.seq % SequenceLimit) /\ p[4] = C!Word(m.type)
      /\ \A i \in 1 .. n : p[4 + i] = C!Pair(m.fields[i][1], m.fields[i][2])
  BY PayloadIs
<1>2. /\ DOMAIN m.fields = 1 .. n /\ m.fields = [i \in 1 .. n |-> m.fields[i]]
      /\ \A i \in 1 .. n : m.fields[i] = <<m.fields[i][1], m.fields[i][2]>>
  <2> DEFINE fs == m.fields
  <2>1. fs \in Seq(ToSet(fs))
    BY DEF IsMessage
  <2> HIDE DEF fs
  <2>2. DOMAIN fs = 1 .. Len(fs) /\ fs = [i \in 1 .. Len(fs) |-> fs[i]]
    BY <2>1
  <2> QED BY <2>2 DEF IsMessage, fs
<1>3. C!Tokens(p) = p
  BY TokensOfPayload
<1> HIDE DEF p, n
<1>4. C!IsWord(p[2]) /\ p[2].word = m.id /\ C!IsNumber(p[3])
      /\ p[3].number = m.seq % SequenceLimit
  BY <1>1, UnitsDiffer DEF C!Word, C!Number
<1>5. p[4] = C!Word(type) <=> m.type = type
  <2>1. \A t : C!Word(t).word = t
    BY DEF C!Word
  <2> QED BY <1>1, <2>1
<1>6. \A i \in 1 .. n : /\ C!IsPair(p[4 + i])
                       /\ p[4 + i].key = m.fields[i][1] /\ p[4 + i].value = m.fields[i][2]
  <2>1. \A k, v : C!Pair(k, v).key = k /\ C!Pair(k, v).value = v
    BY DEF C!Pair
  <2> QED BY <1>1, <2>1, UnitsDiffer
<1>7. (\A i \in 5 .. Len(p) : C!IsPair(p[i]) /\ {p[i].key, p[i].value} \cap C!Unfit = {})
      <=> \A j \in DOMAIN m.fields : {m.fields[j][1], m.fields[j][2]} \cap C!Unfit = {}
  <2>1. \A i \in 5 .. Len(p) : i - 4 \in 1 .. n /\ i = 4 + (i - 4)
    BY <1>1
  <2>2. \A j \in 1 .. n : 4 + j \in 5 .. Len(p)
    BY <1>1
  <2>3. ASSUME \A j \in 1 .. n : {m.fields[j][1], m.fields[j][2]} \cap C!Unfit = {},
               NEW i \in 5 .. Len(p)
        PROVE  C!IsPair(p[i]) /\ {p[i].key, p[i].value} \cap C!Unfit = {}
    <3>1. PICK j \in 1 .. n : i = 4 + j
      BY <2>1
    <3> QED BY <1>6, <2>3, <3>1
  <2>4. ASSUME \A i \in 5 .. Len(p) : {p[i].key, p[i].value} \cap C!Unfit = {},
               NEW j \in 1 .. n
        PROVE  {m.fields[j][1], m.fields[j][2]} \cap C!Unfit = {}
    BY <1>6, <2>2, <2>4
  <2> QED BY <1>2, <2>3, <2>4
<1>8. C!Fields(SubSeq(p, 5, Len(p))) = m.fields
  <2> DEFINE q == SubSeq(p, 5, Len(p))
  <2>1. q = [i \in 1 .. n |-> p[4 + i]]
    <3>1. Len(p) - 5 + 1 = n /\ \A i \in 1 .. n : 5 + i - 1 = 4 + i
      BY <1>1
    <3>2. q = [i \in 1 .. (Len(p) - 5 + 1) |-> p[5 + i - 1]]
      OBVIOUS
    <3> QED BY <3>1, <3>2
  <2>2. DOMAIN q = 1 .. n /\ \A i \in 1 .. n : q[i] = p[4 + i]
    BY <2>1
  <2> HIDE DEF q
  <2>3. C!Fields(q) = [i \in 1 .. n |-> <<q[i].key, q[i].value>>]
    BY <2>2 DEF C!Fields
  <2>4. \A i \in 1 .. n : <<q[i].key, q[i].value>> = m.fields[i]
    BY <1>2, <1>6, <2>2
  <2> QED BY <1>2, <2>3, <2>4 DEF q
<1>9. C!Parsable(p, type) <=> m.type = type /\ Legible(m)
  <2>1. Len(p) \in 4 .. 4 + MaxFields <=> n <= MaxFields
    BY <1>1
  <2>2. m.type = "NACK" => Len(p) = 5 /\ p[5].key = "ERR"
    <3>1. ASSUME n = 1, m.fields[1][1] = "ERR" PROVE Len(p) = 5 /\ p[5].key = "ERR"
      <4>1. 1 \in 1 .. n /\ 4 + 1 = 5
        BY <3>1
      <4>2. p[4 + 1].key = m.fields[1][1]
        BY <1>6, <4>1
      <4> QED BY <1>1, <3>1, <4>1, <4>2
    <3> QED BY <3>1 DEF n
  <2> QED BY <1>1, <1>4, <1>5, <1>7, <2>1, <2>2 DEF C!Parsable, Legible, n
<1>10. C!ParseFrame(p, type)
         = IF C!Parsable(p, type)
           THEN C!Message(type, p[2].word, p[3].number, C!Fields(SubSeq(p, 5, Len(p))))
           ELSE Malformed
  BY <1>3 DEF C!ParseFrame
<1> QED BY <1>4, <1>8, <1>9, <1>10 DEF p

-----------------------------------------------------------------------------
(* An object and what is read of it (Codec) *)

\* A member.
LEMMA MemberIs == \A k, v : C!Member(k, v).name = k /\ C!Member(k, v).val = v
BY DEF C!Member

\* Members of one kind: none, or a single one.
LEMMA NoneOf ==
    ASSUME NEW o, NEW key
    PROVE  /\ (\A i \in DOMAIN o : ~(o[i].name = key /\ C!IsWord(o[i].val)))
                 => C!Words(o, key) = <<>>
           /\ (\A i \in DOMAIN o : o[i].name # "fields") => C!FieldMembers(o) = <<>>
<1>1. ASSUME \A i \in DOMAIN o : ~(o[i].name = key /\ C!IsWord(o[i].val))
      PROVE  C!Words(o, key) = <<>>
  <2>1. {i \in DOMAIN o : o[i].name = key /\ C!IsWord(o[i].val)} = {}
    BY <1>1
  <2> QED BY <2>1, AtNone DEF C!Words
<1>2. ASSUME \A i \in DOMAIN o : o[i].name # "fields"
      PROVE  C!FieldMembers(o) = <<>>
  <2>1. {i \in DOMAIN o : o[i].name = "fields"} = {}
    BY <1>2
  <2> QED BY <2>1, AtNone DEF C!FieldMembers
<1> QED BY <1>1, <1>2

\* The one member of a name is found, as the kind that it is of.
LEMMA OneOf ==
    ASSUME NEW o, NEW key, NEW k \in DOMAIN o, k \in Nat,
           \A i \in DOMAIN o : o[i].name = key <=> i = k
    PROVE  /\ C!IsWord(o[k].val) => C!Words(o, key) = <<o[k]>>
           /\ C!IsNumber(o[k].val) => C!Numbers(o, key) = <<o[k]>>
           /\ key = "fields" => C!FieldMembers(o) = <<o[k]>>
<1>1. ASSUME C!IsWord(o[k].val) PROVE C!Words(o, key) = <<o[k]>>
  <2>1. {i \in DOMAIN o : o[i].name = key /\ C!IsWord(o[i].val)} = {k}
    BY <1>1
  <2> QED BY <2>1, AtOne DEF C!Words
<1>2. ASSUME C!IsNumber(o[k].val) PROVE C!Numbers(o, key) = <<o[k]>>
  <2>1. {i \in DOMAIN o : o[i].name = key /\ C!IsNumeric(o[i].val)} = {k}
    BY <1>2 DEF C!IsNumeric
  <2> QED BY <2>1, AtOne DEF C!Numbers
<1>3. ASSUME key = "fields" PROVE C!FieldMembers(o) = <<o[k]>>
  <2>1. {i \in DOMAIN o : o[i].name = "fields"} = {k}
    BY <1>3
  <2> QED BY <2>1, AtOne DEF C!FieldMembers
<1> QED BY <1>1, <1>2, <1>3

\* Fields written and read.
LEMMA FieldsOfMembers ==
    ASSUME NEW m, IsMessage(m)
    PROVE  /\ C!FieldsIn(C!Inner(C!Members(m.fields)).fields) = m.fields
           /\ m.fields \in Seq(ToSet(m.fields))
<1> DEFINE fs == m.fields
           n == Len(fs)
           ms == [i \in 1 .. n |-> C!Member(fs[i][1], C!Word(fs[i][2]))]
<1>1. fs \in Seq(ToSet(fs))
  BY DEF IsMessage
<1>2. DOMAIN fs = 1 .. n /\ fs = [i \in 1 .. n |-> fs[i]]
  <2> HIDE DEF fs
  <2> QED BY <1>1
<1>3. C!Inner(C!Members(fs)).fields = ms
  BY <1>2 DEF C!Inner, C!Members
<1>4. DOMAIN ms = 1 .. n
      /\ \A i \in 1 .. n : ms[i] = C!Member(fs[i][1], C!Word(fs[i][2]))
  OBVIOUS
<1>5. \A i \in 1 .. n : fs[i] = <<fs[i][1], fs[i][2]>>
  BY <1>2 DEF IsMessage
<1> HIDE DEF ms, n
<1>6. \A i \in 1 .. n : ms[i].name = fs[i][1] /\ C!Raw(ms[i].val) = fs[i][2]
  <2>1. \A t : C!Raw(C!Word(t)) = t
    <3>1. \A t : C!Word(t).word = t
      BY DEF C!Word
    <3> QED BY <3>1, UnitsDiffer DEF C!Raw
  <2> QED BY <1>4, <2>1, MemberIs
<1>7. C!FieldsIn(ms) = [i \in 1 .. n |-> fs[i]]
  <2>1. C!FieldsIn(ms) = [i \in 1 .. n |-> <<ms[i].name, C!Raw(ms[i].val)>>]
    BY <1>4 DEF C!FieldsIn
  <2>2. \A i \in 1 .. n : <<ms[i].name, C!Raw(ms[i].val)>> = fs[i]
    BY <1>5, <1>6
  <2> HIDE DEF fs
  <2> QED BY <2>1, <2>2
<1> QED BY <1>1, <1>2, <1>3, <1>7

\* Nothing joined; and a sequence with empty ones before it.
LEMMA JoinedNone == FlattenSeq(<<>>) = <<>>
<1>1. Len(<<>>) = 0
  OBVIOUS
<1> QED BY <1>1 DEF FlattenSeq

\* Joined with nothing before it, the last one is all there is.
LEMMA JoinedLast ==
    ASSUME NEW S, NEW seqs \in Seq(Seq(S)), NEW n \in Nat \ {0}, n = Len(seqs),
           \A i \in 1 .. n - 1 : seqs[i] = <<>>
    PROVE  FlattenSeq(seqs) = seqs[n]
<1>1. PICK f : /\ FlattenSeq(seqs) = f[n]
               /\ \A i \in 1 .. n : f[i] = IF i = 1 THEN seqs[1] ELSE f[i - 1] \o seqs[i]
  <2>1. Len(seqs) # 0
    OBVIOUS
  <2>2. \E f : /\ FlattenSeq(seqs) = f[Len(seqs)]
               /\ \A i \in 1 .. Len(seqs) :
                     /\ f[i] \in Seq(S)
                     /\ f[i] = IF i = 1 THEN seqs[1] ELSE f[i - 1] \o seqs[i]
    BY <2>1, JoinedTurns, SMTT(40), ZenonT(40)
  <2> QED BY <2>2
<1>2. /\ n \in 1 .. n /\ seqs[n] \in Seq(S)
      /\ \A i \in 1 .. n : i # 1 => i - 1 \in 1 .. n - 1 /\ i - 1 \in 1 .. n /\ ~(i <= i - 1)
      /\ \A i \in 1 .. n - 1 : i \in 1 .. n
  OBVIOUS
<1>3. <<>> \o <<>> = <<>> /\ <<>> \o seqs[n] = seqs[n]
  BY <1>2, ConcatEmptySeq, EmptySeq
<1>4. \A i \in 1 .. n - 1 : f[i] = <<>>
  <2> DEFINE bad == {i \in 1 .. n - 1 : f[i] # <<>>}
  <2> SUFFICES ASSUME bad # {} PROVE FALSE
    OBVIOUS
  <2>1. bad \in SUBSET Nat
    OBVIOUS
  <2>2. PICK m \in bad : \A i \in bad : m <= i
    BY <2>1, Least
  <2>3. m \in 1 .. n - 1 /\ f[m] # <<>> /\ m \in 1 .. n /\ seqs[m] = <<>>
    BY <2>2, <1>2
  <2>4. CASE m = 1
    BY <2>3, <2>4, <1>1
  <2>5. CASE m # 1
    <3>1. m - 1 \in 1 .. n - 1 /\ ~(m <= m - 1)
      BY <2>3, <2>5, <1>2
    <3>2. f[m - 1] = <<>>
      BY <3>1, <2>2
    <3> QED BY <2>3, <2>5, <3>2, <1>1, <1>3
  <2> QED BY <2>4, <2>5
<1>5. CASE n = 1
  BY <1>1, <1>2, <1>5
<1>6. CASE n # 1
  <2>1. f[n - 1] = <<>> /\ f[n] = f[n - 1] \o seqs[n]
    BY <1>1, <1>2, <1>4, <1>6
  <2> QED BY <1>1, <1>3, <2>1
<1> QED BY <1>5, <1>6

\* The operators of the community modules are the same in Codec.
LEMMA SameOperators == /\ \A s : C!FlattenSeq(s) = FlattenSeq(s)
                       /\ \A s : C!ToSet(s) = ToSet(s)
                       /\ \A x : C!Last(<<x>>) = x
<1>1. \A s : C!FlattenSeq(s) = FlattenSeq(s)
  BY DEF C!FlattenSeq, FlattenSeq
<1>2. \A s : C!ToSet(s) = ToSet(s)
  BY DEF C!ToSet, ToSet
<1>3. \A x : C!Last(<<x>>) = x
  BY DEF C!Last
<1> QED BY <1>1, <1>2, <1>3

\* The object of data, of an acknowledgement, and of what has another type.
LEMMA PlainObject ==
    ASSUME NEW m, IsMessage(m), m.type \notin {"NACK", "CMD"}
    PROVE  LET o == C!ObjectOf(m)
           IN  /\ DOMAIN o = 1 .. 4 /\ Len(o) = 4
               /\ o[1] = C!Member("node", C!Word(m.id))
               /\ o[2] = C!Member("seq", C!Number(m.seq))
               /\ o[3] = C!Member("type", C!Word(m.type))
               /\ o[4] = C!Member("fields", C!Inner(C!Members(m.fields)))
               /\ C!Words(o, "node") = <<o[1]>> /\ C!Numbers(o, "seq") = <<o[2]>>
               /\ C!Words(o, "type") = <<o[3]>> /\ C!FieldMembers(o) = <<o[4]>>
               /\ C!Words(o, "sender") = <<>> /\ C!Words(o, "error") = <<>>
               /\ C!Words(o, "led") = <<>>
               /\ C!AllFields(o) = m.fields /\ C!Nested(o)
<1> DEFINE o == C!ObjectOf(m)
           t == <<C!Member("node", C!Word(m.id)), C!Member("seq", C!Number(m.seq)),
                  C!Member("type", C!Word(m.type)),
                  C!Member("fields", C!Inner(C!Members(m.fields)))>>
<1>1. o = t
  BY DEF C!ObjectOf
<1>2. /\ DOMAIN t = 1 .. 4 /\ Len(t) = 4
      /\ t[1] = C!Member("node", C!Word(m.id)) /\ t[2] = C!Member("seq", C!Number(m.seq))
      /\ t[3] = C!Member("type", C!Word(m.type))
      /\ t[4] = C!Member("fields", C!Inner(C!Members(m.fields)))
  OBVIOUS
<1> HIDE DEF o, t
<1>3. /\ o[1].name = "node" /\ o[2].name = "seq" /\ o[3].name = "type" /\ o[4].name = "fields"
      /\ C!IsWord(o[1].val) /\ C!IsNumber(o[2].val) /\ C!IsWord(o[3].val)
      /\ o[4].val = C!Inner(C!Members(m.fields))
      /\ DOMAIN o = {1, 2, 3, 4} /\ 1 \in Nat /\ 2 \in Nat /\ 3 \in Nat /\ 4 \in Nat
  BY <1>1, <1>2, MemberIs, UnitsDiffer
<1>4. C!Words(o, "node") = <<o[1]>>
  BY <1>3, OneOf
<1>5. C!Numbers(o, "seq") = <<o[2]>>
  BY <1>3, OneOf
<1>6. C!Words(o, "type") = <<o[3]>>
  BY <1>3, OneOf
<1>7. C!FieldMembers(o) = <<o[4]>>
  BY <1>3, OneOf
<1>8. C!Words(o, "sender") = <<>> /\ C!Words(o, "error") = <<>> /\ C!Words(o, "led") = <<>>
  BY <1>3, NoneOf
<1>9. C!AllFields(o) = m.fields
  <2> DEFINE fs == C!FieldMembers(o)
             each == [i \in DOMAIN fs |-> C!FieldsIn(fs[i].val.fields)]
             S == ToSet(m.fields)
  <2>1. C!AllFields(o) = FlattenSeq(each)
    BY SameOperators DEF C!AllFields
  <2>2. DOMAIN fs = 1 .. 1 /\ fs[1] = o[4]
    BY <1>7
  <2> HIDE DEF fs
  <2>3. C!FieldsIn(o[4].val.fields) = m.fields /\ m.fields \in Seq(S)
    BY <1>3, FieldsOfMembers
  <2> HIDE DEF S
  <2>4. each = [i \in 1 .. 1 |-> m.fields]
    BY <2>2, <2>3
  <2> HIDE DEF each
  <2>5. each \in Seq(Seq(S)) /\ Len(each) = 1 /\ each[1] = m.fields
    BY <2>3, <2>4
  <2> QED BY <2>1, <2>5, JoinedLast, SMTT(40), ZenonT(40)
<1>10. C!Nested(o)
  <2>1. ~C!IsInner(o[1].val) /\ ~C!IsInner(o[2].val) /\ ~C!IsInner(o[3].val)
        /\ C!IsInner(o[4].val)
    BY <1>1, <1>2, MemberIs, UnitsDiffer
  <2> QED BY <1>3, <2>1 DEF C!Nested
<1> QED BY <1>1, <1>2, <1>4, <1>5, <1>6, <1>7, <1>8, <1>9, <1>10 DEF o

\* The object of a refusal.
LEMMA NackObject ==
    ASSUME NEW m, m.type = "NACK"
    PROVE  LET o == C!ObjectOf(m)
           IN  /\ DOMAIN o = 1 .. 4 /\ Len(o) = 4
               /\ o[1] = C!Member("node", C!Word(m.id))
               /\ o[2] = C!Member("seq", C!Number(m.seq))
               /\ o[3] = C!Member("type", C!Word(m.type))
               /\ o[4] = C!Member("error", C!Word(m.fields[1][2]))
               /\ C!Words(o, "node") = <<o[1]>> /\ C!Numbers(o, "seq") = <<o[2]>>
               /\ C!Words(o, "type") = <<o[3]>> /\ C!Words(o, "error") = <<o[4]>>
               /\ C!Words(o, "sender") = <<>> /\ C!Words(o, "led") = <<>>
               /\ C!FieldMembers(o) = <<>> /\ C!AllFields(o) = <<>> /\ C!Nested(o)
<1> DEFINE o == C!ObjectOf(m)
           t == <<C!Member("node", C!Word(m.id)), C!Member("seq", C!Number(m.seq)),
                  C!Member("type", C!Word("NACK")),
                  C!Member("error", C!Word(m.fields[1][2]))>>
<1>1. o = t
  BY DEF C!ObjectOf
<1>2. /\ DOMAIN t = 1 .. 4 /\ Len(t) = 4
      /\ t[1] = C!Member("node", C!Word(m.id)) /\ t[2] = C!Member("seq", C!Number(m.seq))
      /\ t[3] = C!Member("type", C!Word(m.type))
      /\ t[4] = C!Member("error", C!Word(m.fields[1][2]))
  OBVIOUS
<1> HIDE DEF o, t
<1>3. /\ o[1].name = "node" /\ o[2].name = "seq" /\ o[3].name = "type" /\ o[4].name = "error"
      /\ C!IsWord(o[1].val) /\ C!IsNumber(o[2].val) /\ C!IsWord(o[3].val) /\ C!IsWord(o[4].val)
      /\ DOMAIN o = {1, 2, 3, 4} /\ 1 \in Nat /\ 2 \in Nat /\ 3 \in Nat /\ 4 \in Nat
  BY <1>1, <1>2, MemberIs, UnitsDiffer
<1>4. C!Words(o, "node") = <<o[1]>>
  BY <1>3, OneOf
<1>5. C!Numbers(o, "seq") = <<o[2]>>
  BY <1>3, OneOf
<1>6. C!Words(o, "type") = <<o[3]>>
  BY <1>3, OneOf
<1>7. C!Words(o, "error") = <<o[4]>>
  BY <1>3, OneOf
<1>8. C!Words(o, "sender") = <<>> /\ C!Words(o, "led") = <<>>
  BY <1>3, NoneOf
<1>9. C!FieldMembers(o) = <<>>
  BY <1>3, NoneOf
<1>10. C!AllFields(o) = <<>>
  <2> DEFINE fs == C!FieldMembers(o)
             each == [i \in DOMAIN fs |-> C!FieldsIn(fs[i].val.fields)]
  <2>1. C!AllFields(o) = FlattenSeq(each)
    BY SameOperators DEF C!AllFields
  <2>2. DOMAIN fs = {}
    BY <1>9
  <2> HIDE DEF fs
  <2>3. each = <<>>
    BY <2>2
  <2> QED BY <2>1, <2>3, JoinedNone
<1>11. C!Nested(o)
  <2>1. /\ ~C!IsInner(o[1].val) /\ ~C!IsInner(o[2].val) /\ ~C!IsInner(o[3].val)
        /\ ~C!IsInner(o[4].val)
    BY <1>1, <1>2, MemberIs, UnitsDiffer
  <2> QED BY <1>3, <2>1 DEF C!Nested
<1> QED BY <1>1, <1>2, <1>4, <1>5, <1>6, <1>7, <1>8, <1>9, <1>10, <1>11 DEF o

\* A message that is no command, as its sender makes it.
IsUpstream(m) == /\ IsMessage(m) /\ m.type # "CMD" /\ m.type \notin Long
                 /\ m.type = "NACK" => Len(m.fields) = 1 /\ m.fields[1][1] = "ERR"

\* What a refusal's fields are.
LEMMA NackFields ==
    ASSUME NEW m, IsUpstream(m), m.type = "NACK"
    PROVE  m.fields = <<<<"ERR", m.fields[1][2]>>>> /\ DOMAIN m.fields = {1}
<1> DEFINE fs == m.fields
<1>1. fs \in Seq(ToSet(fs)) /\ Len(fs) = 1 /\ fs[1][1] = "ERR"
      /\ \A i \in DOMAIN fs : fs[i] = <<fs[i][1], fs[i][2]>>
  BY DEF IsUpstream, IsMessage
<1> HIDE DEF fs
<1>2. DOMAIN fs = 1 .. 1 /\ fs = [i \in 1 .. 1 |-> fs[i]]
  BY <1>1
<1>3. fs[1] = <<"ERR", fs[1][2]>>
  BY <1>1, <1>2
<1>4. <<fs[1]>> = [i \in 1 .. 1 |-> fs[1]]
  OBVIOUS
<1>5. fs = <<fs[1]>>
  BY <1>2, <1>4
<1> QED BY <1>2, <1>3, <1>5 DEF fs

\* json_parse_object takes the object of a legible message, and of no other.
LEMMA ObjectParses ==
    ASSUME NEW m, IsUpstream(m), MaxFields \in Nat \ {0}, "ERR" \notin Long \cup {""}
    PROVE  C!Parses(C!ObjectOf(m)) <=> Legible(m)
<1> DEFINE o == C!ObjectOf(m)
           Short(key) == \A w \in C!ToSet(C!Words(o, key)) : w.val.word \notin Long
<1>1. C!Parses(o) <=> /\ C!Nested(o)
                      /\ Short("node") /\ Short("sender") /\ Short("type") /\ Short("error")
                      /\ Short("led")
                      /\ \A w \in C!ToSet(C!Words(o, "error") \o C!Words(o, "led")) :
                            w.val.word # ""
                      /\ C!Storable(C!AllFields(o))
  BY DEF C!Parses
<1>2. \A x : C!ToSet(<<x>>) = {x} /\ C!ToSet(<<>>) = {}
  BY DEF C!ToSet
<1>3. \A t, k : C!Member(k, C!Word(t)).val.word = t
  BY DEF C!Member, C!Word
<1>4. CASE m.type # "NACK"
  <2>1. /\ o[1] = C!Member("node", C!Word(m.id)) /\ o[3] = C!Member("type", C!Word(m.type))
        /\ C!Words(o, "node") = <<o[1]>> /\ C!Words(o, "type") = <<o[3]>>
        /\ C!Words(o, "sender") = <<>> /\ C!Words(o, "error") = <<>>
        /\ C!Words(o, "led") = <<>> /\ C!AllFields(o) = m.fields /\ C!Nested(o)
    BY <1>4, PlainObject DEF IsUpstream
  <2> HIDE DEF o
  <2>2. /\ Short("node") <=> m.id \notin Long
        /\ Short("type") /\ Short("sender") /\ Short("error") /\ Short("led")
    BY <1>2, <1>3, <2>1 DEF IsUpstream
  <2>3. C!ToSet(C!Words(o, "error") \o C!Words(o, "led")) = {}
    <3>1. <<>> \o <<>> = <<>>
      BY ConcatEmptySeq, EmptySeq
    <3> QED BY <1>2, <2>1, <3>1
  <2> HIDE DEF Short
  <2> QED BY <1>1, <2>1, <2>2, <2>3 DEF C!Storable, Legible, o
<1>5. CASE m.type = "NACK"
  <2> DEFINE e == m.fields[1][2]
  <2>1. /\ o[1] = C!Member("node", C!Word(m.id)) /\ o[3] = C!Member("type", C!Word(m.type))
        /\ o[4] = C!Member("error", C!Word(e))
        /\ C!Words(o, "node") = <<o[1]>> /\ C!Words(o, "type") = <<o[3]>>
        /\ C!Words(o, "sender") = <<>> /\ C!Words(o, "error") = <<o[4]>>
        /\ C!Words(o, "led") = <<>> /\ C!AllFields(o) = <<>> /\ C!Nested(o)
    BY <1>5, NackObject
  <2>2. m.fields = <<<<"ERR", e>>>> /\ DOMAIN m.fields = {1}
    BY <1>5, NackFields
  <2> HIDE DEF o, e
  <2>3. /\ Short("node") <=> m.id \notin Long
        /\ Short("error") <=> e \notin Long
        /\ Short("type") /\ Short("sender") /\ Short("led")
    BY <1>2, <1>3, <2>1 DEF IsUpstream
  <2>4. C!ToSet(C!Words(o, "error") \o C!Words(o, "led")) = {o[4]}
    <3>1. <<o[4]>> \o <<>> = <<o[4]>>
      OBVIOUS
    <3> QED BY <1>2, <2>1, <3>1
  <2>5. (\A w \in C!ToSet(C!Words(o, "error") \o C!Words(o, "led")) : w.val.word # "")
        <=> e # ""
    <3>1. o[4].val.word = e
      BY <1>3, <2>1
    <3> QED BY <2>4, <3>1
  <2>6. C!Storable(<<>>)
    <3>1. Len(<<>>) = 0 /\ DOMAIN <<>> = {}
      OBVIOUS
    <3> QED BY <3>1 DEF C!Storable
  <2>7. Legible(m) <=> m.id \notin Long /\ e \notin Long /\ e # ""
    <3>1. Len(m.fields) = 1 /\ 1 <= MaxFields
      BY <1>5 DEF IsUpstream
    <3>2. m.fields[1][1] = "ERR" /\ m.fields[1][2] = e
      BY <2>2
    <3> QED BY <2>2, <3>1, <3>2 DEF Legible, C!Unfit
  <2> HIDE DEF Short
  <2> QED BY <1>1, <2>1, <2>3, <2>5, <2>6, <2>7 DEF o
<1> QED BY <1>4, <1>5

\* What the decoders make of it.
LEMMA DecodedAnswers ==
    ASSUME NEW m, IsUpstream(m), MaxFields \in Nat \ {0}, "ERR" \notin Long \cup {""}
    PROVE  LET o == C!ObjectOf(m)
           IN  /\ C!PeekType(o) = IF Legible(m) THEN m.type ELSE Malformed
               /\ C!DecodeAck(o) = IF m.type = "ACK" /\ Legible(m)
                                   THEN C!Message("ACK", m.id, m.seq, m.fields) ELSE Malformed
               /\ C!DecodeNack(o) = IF m.type = "NACK" /\ Legible(m)
                                    THEN C!Message("NACK", m.id, m.seq, m.fields) ELSE Malformed
<1> DEFINE o == C!ObjectOf(m)
<1>1. C!Parses(o) <=> Legible(m)
  BY ObjectParses
<1>2. /\ o[1] = C!Member("node", C!Word(m.id)) /\ o[2] = C!Member("seq", C!Number(m.seq))
      /\ o[3] = C!Member("type", C!Word(m.type))
      /\ C!Words(o, "node") = <<o[1]>> /\ C!Numbers(o, "seq") = <<o[2]>>
      /\ C!Words(o, "type") = <<o[3]>>
      /\ m.type # "NACK" => /\ C!FieldMembers(o) = <<o[4]>> /\ C!AllFields(o) = m.fields
                            /\ C!Words(o, "error") = <<>>
      /\ m.type = "NACK" => /\ o[4] = C!Member("error", C!Word(m.fields[1][2]))
                            /\ C!Words(o, "error") = <<o[4]>>
  <2>1. CASE m.type = "NACK"
    BY <2>1, NackObject
  <2>2. CASE m.type # "NACK"
    BY <2>2, PlainObject DEF IsUpstream
  <2> QED BY <2>1, <2>2
<1> HIDE DEF o
<1>3. \A x : <<x>> # <<>>
  OBVIOUS
<1>4. /\ C!LastWord(o, "node") = m.id /\ C!LastWord(o, "type") = m.type
      /\ C!LastNumber(o, "seq") = m.seq
      /\ m.type = "NACK" => C!LastWord(o, "error") = m.fields[1][2]
  <2>1. \A t, k : C!Member(k, C!Word(t)).val.word = t
    BY DEF C!Member, C!Word
  <2>2. \A n, k : C!Whole(C!Member(k, C!Number(n)).val) = n
    BY UnitsDiffer DEF C!Member, C!Number, C!Whole
  <2> QED BY <1>2, <2>1, <2>2, SameOperators DEF C!LastWord, C!LastNumber
<1>5. C!PeekType(o) = IF Legible(m) THEN m.type ELSE Malformed
  BY <1>1, <1>2, <1>3, <1>4 DEF C!PeekType
<1>6. \A type : C!Complete(o, type) <=> m.type = type /\ Legible(m)
  <2>1. C!Words(o, "node") # <<>> /\ C!Numbers(o, "seq") # <<>> /\ C!Words(o, "type") # <<>>
    BY <1>2, <1>3
  <2> QED BY <1>1, <1>4, <2>1 DEF C!Complete
<1>7. C!DecodeAck(o) = IF m.type = "ACK" /\ Legible(m)
                       THEN C!Message("ACK", m.id, m.seq, m.fields) ELSE Malformed
  <2>1. CASE C!Complete(o, "ACK")
    <3>1. m.type = "ACK" /\ Legible(m)
      BY <1>6, <2>1
    <3>2. C!FieldsOf(o) = m.fields
      BY <1>2, <1>3, <3>1 DEF C!FieldsOf
    <3> QED BY <1>4, <2>1, <3>1, <3>2 DEF C!DecodeAck
  <2>2. CASE ~C!Complete(o, "ACK")
    <3>1. ~(m.type = "ACK" /\ Legible(m))
      BY <1>6, <2>2
    <3> QED BY <2>2, <3>1 DEF C!DecodeAck
  <2> QED BY <2>1, <2>2
<1>8. C!DecodeNack(o) = IF m.type = "NACK" /\ Legible(m)
                        THEN C!Message("NACK", m.id, m.seq, m.fields) ELSE Malformed
  <2>1. CASE C!Complete(o, "NACK")
    <3>1. m.type = "NACK" /\ Legible(m)
      BY <1>6, <2>1
    <3>2. m.fields = <<<<"ERR", C!LastWord(o, "error")>>>>
      BY <1>4, <3>1, NackFields
    <3>3. C!Words(o, "error") # <<>>
      BY <1>2, <1>3, <3>1
    <3> QED BY <1>4, <2>1, <3>1, <3>2, <3>3 DEF C!DecodeNack
  <2>2. CASE ~C!Complete(o, "NACK")
    <3>1. ~(m.type = "NACK" /\ Legible(m))
      BY <1>6, <2>2
    <3> QED BY <2>2, <3>1 DEF C!DecodeNack
  <2> QED BY <2>1, <2>2
<1> QED BY <1>5, <1>7, <1>8 DEF o

\* The decoder of data, which walks the members on its own.
LEMMA DecodedData ==
    ASSUME NEW m, IsUpstream(m), MaxFields \in Nat \ {0}
    PROVE  C!DecodeData(C!ObjectOf(m)) = IF m.type = "DATA" /\ Legible(m)
                                         THEN C!Message("DATA", m.id, m.seq, m.fields)
                                         ELSE Malformed
<1> DEFINE o == C!ObjectOf(m)
<1>1. /\ o[3] = C!Member("type", C!Word(m.type)) /\ C!Words(o, "type") = <<o[3]>>
  <2>1. CASE m.type = "NACK"
    BY <2>1, NackObject
  <2>2. CASE m.type # "NACK"
    BY <2>2, PlainObject DEF IsUpstream
  <2> QED BY <2>1, <2>2
<1>2. \A x : C!ToSet(<<x>>) = {x} /\ <<x>> # <<>>
  BY DEF C!ToSet
<1>3. o[3].val = C!Word("DATA") <=> m.type = "DATA"
  <2>1. \A t : C!Word(t).word = t
    BY DEF C!Word
  <2> HIDE DEF o
  <2> QED BY <1>1, <2>1, MemberIs
<1>4. CASE m.type # "DATA"
  <2> HIDE DEF o
  <2>1. ~(\A w \in C!ToSet(C!Words(o, "type")) : w.val = C!Word("DATA"))
    BY <1>1, <1>2, <1>3, <1>4
  <2> QED BY <1>4, <2>1 DEF C!DecodeData, o
<1>5. CASE m.type = "DATA"
  <2> DEFINE each == [i \in DOMAIN o |-> C!DataFields(o[i])]
             S == ToSet(m.fields)
  <2>1. /\ DOMAIN o = 1 .. 4
        /\ o[1] = C!Member("node", C!Word(m.id)) /\ o[2] = C!Member("seq", C!Number(m.seq))
        /\ o[4] = C!Member("fields", C!Inner(C!Members(m.fields)))
        /\ C!Words(o, "node") = <<o[1]>> /\ C!Numbers(o, "seq") = <<o[2]>> /\ C!Nested(o)
    BY <1>5, PlainObject DEF IsUpstream
  <2> HIDE DEF o
  <2>2. /\ o[1].name = "node" /\ o[2].name = "seq" /\ o[3].name = "type"
        /\ o[4].name = "fields" /\ o[4].val = C!Inner(C!Members(m.fields))
    BY <1>1, <2>1, MemberIs
  <2>3. C!DataFields(o[1]) = <<>> /\ C!DataFields(o[2]) = <<>> /\ C!DataFields(o[3]) = <<>>
    BY <2>2 DEF C!DataFields
  <2>4. C!DataFields(o[4]) = m.fields /\ m.fields \in Seq(S)
    <3>1. C!DataFields(o[4]) = C!FieldsIn(o[4].val.fields)
      BY <2>2 DEF C!DataFields
    <3> QED BY <2>2, <3>1, FieldsOfMembers DEF IsUpstream
  <2> HIDE DEF S
  <2>5. /\ each \in Seq(Seq(S)) /\ Len(each) = 4 /\ each[4] = m.fields
        /\ \A i \in 1 .. 3 : each[i] = <<>>
    <3>1. each \in [1 .. 4 -> Seq(S)]
      <4>1. <<>> \in Seq(S)
        BY EmptySeq
      <4>2. \A i \in 1 .. 4 : i = 1 \/ i = 2 \/ i = 3 \/ i = 4
        OBVIOUS
      <4>3. \A i \in 1 .. 4 : C!DataFields(o[i]) \in Seq(S)
        BY <2>3, <2>4, <4>1, <4>2, Zenon
      <4> QED BY <2>1, <4>3
    <3>2. \A i \in 1 .. 4 : each[i] = C!DataFields(o[i])
      BY <2>1
    <3> HIDE DEF each
    <3>3. each \in Seq(Seq(S)) /\ Len(each) = 4
      <4>1. 4 \in Nat /\ DOMAIN each = 1 .. 4
        BY <3>1
      <4>2. \A n \in Nat : \A e \in [1 .. n -> Seq(S)] : e \in Seq(Seq(S))
        OBVIOUS
      <4>3. each \in Seq(Seq(S))
        BY <3>1, <4>1, <4>2
      <4> QED BY <4>1, <4>3, LenProperties
    <3>4. 4 \in 1 .. 4 /\ \A i \in 1 .. 3 : i \in 1 .. 4 /\ (i = 1 \/ i = 2 \/ i = 3)
      OBVIOUS
    <3> QED BY <2>3, <2>4, <3>2, <3>3, <3>4
  <2>6. C!FlattenSeq(each) = m.fields
    <3> HIDE DEF each
    <3>1. 4 \in Nat \ {0} /\ 4 - 1 = 3
      OBVIOUS
    <3> QED BY <2>5, <3>1, JoinedLast, SameOperators
  <2>7. C!LastWord(o, "node") = m.id /\ C!LastNumber(o, "seq") = m.seq
        /\ o[1].val.word = m.id
    <3>1. \A t, k : C!Member(k, C!Word(t)).val.word = t
      BY DEF C!Member, C!Word
    <3>2. \A n, k : C!Whole(C!Member(k, C!Number(n)).val) = n
      BY UnitsDiffer DEF C!Member, C!Number, C!Whole
    <3> QED BY <2>1, <3>1, <3>2, SameOperators DEF C!LastWord, C!LastNumber
  <2>8. C!Storable(m.fields) /\ m.id \notin Long <=> Legible(m)
    BY DEF C!Storable, Legible
  <2>9. C!DecodeData(o) = IF C!Storable(m.fields) /\ m.id \notin Long
                          THEN C!Message("DATA", m.id, m.seq, m.fields) ELSE Malformed
    <3> HIDE DEF each
    <3>1. C!DecodeData(o) =
            IF /\ C!Nested(o)
               /\ C!Words(o, "node") # <<>> /\ C!Numbers(o, "seq") # <<>>
               /\ C!Words(o, "type") # <<>>
               /\ \A w \in C!ToSet(C!Words(o, "type")) : w.val = C!Word("DATA")
               /\ \A w \in C!ToSet(C!Words(o, "node")) : w.val.word \notin Long
               /\ C!Storable(m.fields)
            THEN C!Message("DATA", C!LastWord(o, "node"), C!LastNumber(o, "seq"), m.fields)
            ELSE Malformed
      BY <2>6 DEF C!DecodeData, each
    <3> QED BY <1>1, <1>2, <1>3, <1>5, <2>1, <2>7, <3>1
  <2> QED BY <1>5, <2>8, <2>9 DEF o
<1> QED BY <1>4, <1>5

\* The line shows the type of a message, and what its fields look like.
LEMMA SaysIs ==
    ASSUME NEW m, IsUpstream(m), NEW t
    PROVE  Says(C!ObjectOf(m), t)
              <=> \/ m.type = t
                  \/ m.type # "NACK" /\ <<"type", t>> \in ToSet(m.fields)
<1> DEFINE o == C!ObjectOf(m)
<1>1. /\ DOMAIN o = 1 .. 4
      /\ o[1].name = "node" /\ o[2].name = "seq" /\ o[3] = C!Member("type", C!Word(m.type))
      /\ o[4].name # "type"
      /\ C!AllFields(o) = IF m.type = "NACK" THEN <<>> ELSE m.fields
  <2>1. CASE m.type = "NACK"
    BY <2>1, NackObject, MemberIs
  <2>2. CASE m.type # "NACK"
    BY <2>2, PlainObject, MemberIs DEF IsUpstream
  <2> QED BY <2>1, <2>2
<1> HIDE DEF o
<1>2. C!Member("type", C!Word(t)) \in ToSet(o) <=> m.type = t
  <2>1. \A x : C!Word(x).word = x
    BY DEF C!Word
  <2>2. C!Member("type", C!Word(t)) = o[3] <=> m.type = t
    BY <1>1, <2>1, MemberIs
  <2>3. \A i \in DOMAIN o : i = 1 \/ i = 2 \/ i = 3 \/ i = 4
    BY <1>1
  <2>4. \A i \in DOMAIN o : C!Member("type", C!Word(t)) = o[i] => i = 3
    BY <1>1, <2>3, MemberIs
  <2>5. 3 \in DOMAIN o
    BY <1>1
  <2> QED BY <2>2, <2>4, <2>5 DEF ToSet
<1>3. ToSet(<<>>) = {}
  BY DEF ToSet
<1> QED BY <1>1, <1>2, <1>3 DEF Says, o

\* What the server cannot be told.
Unspeakable(m) == \/ JsonHead + JsonField * Len(m.fields) >= JsonMax
                  \/ /\ m.type = "DATA"
                     /\ {<<"type", "ACK">>, <<"type", "NACK">>} \cap ToSet(m.fields) # {}

\* The server takes a legible message as what it is, or not at all.
LEMMA TakenAsItIs ==
    ASSUME NEW m, IsUpstream(m), Legible(m), m.type \in {"DATA", "ACK", "NACK"},
           m = C!Message(m.type, m.id, m.seq, m.fields),
           Malformed \notin {m, C!ObjectOf(m)},
           MaxFields \in Nat \ {0}, "ERR" \notin Long \cup {""},
           JsonMax \in Nat, JsonHead \in Nat, JsonField \in Nat
    PROVE  Taken(m) = IF Unspeakable(m) THEN <<>> ELSE <<m>>
<1> DEFINE o == C!ObjectOf(m)
           odd == {<<"type", "ACK">>, <<"type", "NACK">>} \cap ToSet(m.fields) # {}
<1>1. C!BuildJson(m) = IF JsonHead + JsonField * Len(m.fields) >= JsonMax THEN Malformed ELSE o
  <2>1. Len(m.fields) \in Nat
    BY DEF IsUpstream, IsMessage
  <2>2. JsonField * Len(m.fields) \in Nat
    BY <2>1
  <2>3. C!JsonSize(m) < JsonMax <=> ~(JsonHead + JsonField * Len(m.fields) >= JsonMax)
    BY <2>2 DEF C!JsonSize
  <2> QED BY <2>3 DEF C!BuildJson
<1>2. /\ C!DecodeAck(o) = IF m.type = "ACK" THEN m ELSE Malformed
      /\ C!DecodeNack(o) = IF m.type = "NACK" THEN m ELSE Malformed
      /\ C!DecodeData(o) = IF m.type = "DATA" THEN m ELSE Malformed
  <2>1. /\ C!DecodeAck(o) = IF m.type = "ACK" THEN C!Message("ACK", m.id, m.seq, m.fields)
                                              ELSE Malformed
        /\ C!DecodeNack(o) = IF m.type = "NACK" THEN C!Message("NACK", m.id, m.seq, m.fields)
                                                ELSE Malformed
    BY DecodedAnswers
  <2>2. C!DecodeData(o) = IF m.type = "DATA" THEN C!Message("DATA", m.id, m.seq, m.fields)
                                             ELSE Malformed
    BY DecodedData
  <2> HIDE DEF o
  <2> QED BY <2>1, <2>2
<1>3. /\ Says(o, "ACK") <=> \/ m.type = "ACK"
                            \/ m.type # "NACK" /\ <<"type", "ACK">> \in ToSet(m.fields)
      /\ Says(o, "NACK") <=> \/ m.type = "NACK"
                             \/ m.type # "NACK" /\ <<"type", "NACK">> \in ToSet(m.fields)
  BY SaysIs
<1> HIDE DEF o
<1>4. OnLine(o) = IF m.type = "DATA" /\ odd THEN Malformed ELSE m
  <2>1. CASE m.type = "ACK"
    BY <1>2, <1>3, <2>1 DEF OnLine
  <2>2. CASE m.type = "NACK"
    BY <1>2, <1>3, <2>2 DEF OnLine
  <2>3. CASE m.type = "DATA"
    <3>1. odd <=> Says(o, "ACK") \/ Says(o, "NACK")
      BY <1>3, <2>3
    <3> HIDE DEF odd
    <3> QED BY <1>2, <2>3, <3>1 DEF OnLine
  <2> QED BY <2>1, <2>2, <2>3
<1>5. o # Malformed /\ m # Malformed
  BY DEF o
<1> HIDE DEF odd
<1>6. Unspeakable(m) <=> (JsonHead + JsonField * Len(m.fields) >= JsonMax)
                         \/ (m.type = "DATA" /\ odd)
  BY DEF Unspeakable, odd
<1>7. CASE JsonHead + JsonField * Len(m.fields) >= JsonMax
  BY <1>1, <1>6, <1>7 DEF Taken
<1>8. CASE ~(JsonHead + JsonField * Len(m.fields) >= JsonMax)
  <2>1. C!BuildJson(m) = o
    BY <1>1, <1>8
  <2>2. CASE m.type = "DATA" /\ odd
    BY <1>4, <1>5, <1>6, <2>1, <2>2 DEF Taken
  <2>3. CASE ~(m.type = "DATA" /\ odd)
    BY <1>4, <1>5, <1>6, <1>8, <2>1, <2>3 DEF Taken
  <2> QED BY <2>2, <2>3
<1> QED BY <1>7, <1>8

\* The gateway takes the server's command as what it is, or not at all.
LEMMA CommandAsItIs ==
    ASSUME NEW m, IsMessage(m), m.type = "CMD", C!DecodeCommand(C!ObjectOf(m)) # Malformed
    PROVE  LET d == C!DecodeCommand(C!ObjectOf(m))
           IN  d.type = "CMD" /\ d.id = m.id /\ d.seq = m.seq /\ d.fields = m.fields
<1> DEFINE o == C!ObjectOf(m)
           t == <<C!Member("node", C!Word(m.target)), C!Member("sender", C!Word(m.id)),
                  C!Member("seq", C!Number(m.seq)), C!Member("type", C!Word("CMD")),
                  C!Member("fields", C!Inner(C!Members(m.fields)))>>
<1>1. o = t
  BY DEF C!ObjectOf
<1>2. /\ DOMAIN t = 1 .. 5
      /\ t[1] = C!Member("node", C!Word(m.target)) /\ t[2] = C!Member("sender", C!Word(m.id))
      /\ t[3] = C!Member("seq", C!Number(m.seq)) /\ t[4] = C!Member("type", C!Word("CMD"))
      /\ t[5] = C!Member("fields", C!Inner(C!Members(m.fields)))
  OBVIOUS
<1> HIDE DEF o, t
<1>3. /\ o[1].name = "node" /\ o[2].name = "sender" /\ o[3].name = "seq" /\ o[4].name = "type"
      /\ o[5].name = "fields" /\ o[5].val = C!Inner(C!Members(m.fields))
      /\ C!IsWord(o[2].val) /\ C!IsNumber(o[3].val)
      /\ o[2].val.word = m.id /\ o[3].val.number = m.seq
      /\ DOMAIN o = {1, 2, 3, 4, 5} /\ 2 \in Nat /\ 3 \in Nat /\ 5 \in Nat
  <2>1. \A w : C!Word(w).word = w
    BY DEF C!Word
  <2>2. \A n : C!Number(n).number = n
    BY DEF C!Number
  <2> QED BY <1>1, <1>2, <2>1, <2>2, MemberIs, UnitsDiffer
<1>4. C!Words(o, "sender") = <<o[2]>>
  BY <1>3, OneOf
<1>5. C!Numbers(o, "seq") = <<o[3]>>
  BY <1>3, OneOf
<1>6. C!FieldMembers(o) = <<o[5]>>
  BY <1>3, OneOf
<1>7. C!LastWord(o, "sender") = m.id /\ C!LastNumber(o, "seq") = m.seq
  BY <1>3, <1>4, <1>5, SameOperators DEF C!LastWord, C!LastNumber, C!Whole
<1>8. C!AllFields(o) = m.fields
  <2> DEFINE fs == C!FieldMembers(o)
             each == [i \in DOMAIN fs |-> C!FieldsIn(fs[i].val.fields)]
             S == ToSet(m.fields)
  <2>1. C!AllFields(o) = FlattenSeq(each)
    BY SameOperators DEF C!AllFields
  <2>2. DOMAIN fs = 1 .. 1 /\ fs[1] = o[5]
    BY <1>6
  <2> HIDE DEF fs
  <2>3. C!FieldsIn(o[5].val.fields) = m.fields /\ m.fields \in Seq(S)
    BY <1>3, FieldsOfMembers
  <2> HIDE DEF S
  <2>4. each = [i \in 1 .. 1 |-> m.fields]
    BY <2>2, <2>3
  <2> HIDE DEF each
  <2>5. each \in Seq(Seq(S)) /\ Len(each) = 1 /\ each[1] = m.fields
    BY <2>3, <2>4
  <2>6. \A i \in 1 .. 1 - 1 : each[i] = <<>>
    OBVIOUS
  <2> HIDE DEF each
  <2>7. 1 \in Nat \ {0}
    OBVIOUS
  <2>8. FlattenSeq(each) = each[1]
    BY <2>5, <2>6, <2>7, JoinedLast
  <2> QED BY <2>1, <2>5, <2>8
<1>9. C!FieldsOf(o) = m.fields
  <2>1. C!FieldMembers(o) # <<>>
    BY <1>6
  <2> QED BY <1>8, <2>1 DEF C!FieldsOf
<1>10. C!DecodeCommand(o) = [type |-> "CMD", id |-> C!LastWord(o, "sender"),
                             target |-> C!LastWord(o, "node"),
                             seq |-> C!LastNumber(o, "seq"), fields |-> C!FieldsOf(o)]
  BY DEF C!DecodeCommand, o
<1> QED BY <1>7, <1>9, <1>10 DEF o

-----------------------------------------------------------------------------
(* Frames on the line *)

\* A segment's message is one.
LEMMA MessageOf ==
    ASSUME NEW c \in Courses, NEW seg \in ToSet(c.segments)
    PROVE  /\ seg.message \in Messages /\ IsMessage(seg.message)
           /\ seg.message.type # "CMD" => IsUpstream(seg.message)
<1>1. seg.message \in Messages
  BY DEF Messages
<1> QED BY <1>1, MessagesAssumption DEF IsMessage, IsUpstream

\* Two sequences joined; and two that agree at each place.
LEMMA TwoJoined ==
    ASSUME NEW S, NEW s \in Seq(S), NEW t \in Seq(S)
    PROVE  /\ s \o t \in Seq(S) /\ Len(s \o t) = Len(s) + Len(t)
           /\ Len(s) \in Nat /\ Len(t) \in Nat
           /\ \A k \in 1 .. Len(s) : (s \o t)[k] = s[k]
           /\ \A k \in 1 .. Len(t) : (s \o t)[Len(s) + k] = t[k]
OBVIOUS

\* Sequences of one length that agree everywhere are the same.
LEMMA SameEverywhere ==
    ASSUME NEW S, NEW s \in Seq(S), NEW t \in Seq(S), Len(s) = Len(t),
           \A k \in 1 .. Len(s) : s[k] = t[k]
    PROVE  s = t
OBVIOUS

\* A frame, unit by unit.
LEMMA FrameIs ==
    ASSUME NEW m, IsMessage(m)
    PROVE  LET p == C!PayloadOf(m)
               f == C!FrameOf(m)
               n == Len(f)
           IN  /\ f \in Seq(ToSet(p) \cup {AT, STAR, C!Crc(p), CR, LF})
               /\ Len(p) \in Nat /\ Len(p) >= 4 /\ n = Len(p) + 5
               /\ f[1] = AT /\ f[n - 3] = STAR /\ f[n - 2] = C!Crc(p)
               /\ f[n - 1] = CR /\ f[n] = LF
               /\ \A k \in 1 .. Len(p) : f[k + 1] = p[k]
               /\ SubSeq(f, 2, n - 4) = p
<1> DEFINE p == C!PayloadOf(m)
           tail == <<STAR, C!Crc(p), CR, LF>>
           f == C!FrameOf(m)
           S == ToSet(p) \cup {AT, STAR, C!Crc(p), CR, LF}
<1>1. p \in Seq(ToSet(p)) /\ Len(p) = 4 + Len(m.fields) /\ Len(m.fields) \in Nat
  BY PayloadIs
<1>2. f = (<<AT>> \o p) \o tail
  BY DEF C!FrameOf
<1> HIDE DEF f
<1>3. /\ Len(p) \in Nat /\ Len(p) >= 4 /\ \A k \in 1 .. Len(p) : p[k] \in S
      /\ p \in Seq(S)
  <2>1. Len(p) \in Nat /\ Len(p) >= 4
    BY <1>1
  <2> HIDE DEF p
  <2>2. \A k \in 1 .. Len(p) : p[k] \in S
    BY <1>1
  <2>3. p \in Seq(S)
    BY <1>1, <2>2
  <2> QED BY <2>1, <2>2, <2>3
<1>4. /\ <<AT>> \in Seq(S) /\ Len(<<AT>>) = 1 /\ <<AT>>[1] = AT
      /\ tail \in Seq(S) /\ Len(tail) = 4
      /\ tail[1] = STAR /\ tail[2] = C!Crc(p) /\ tail[3] = CR /\ tail[4] = LF
  <2> HIDE DEF p
  <2> QED OBVIOUS
<1> HIDE DEF p, tail, S
<1> DEFINE b == <<AT>> \o p
<1>5. /\ b \in Seq(S) /\ Len(b) = Len(p) + 1 /\ b[1] = AT
      /\ \A k \in 1 .. Len(p) : b[k + 1] = p[k]
  <2> DEFINE a == <<AT>>
  <2>1. a \in Seq(S) /\ Len(a) = 1 /\ a[1] = AT
    BY <1>4
  <2> HIDE DEF a
  <2>2. /\ a \o p \in Seq(S) /\ Len(a \o p) = 1 + Len(p)
        /\ (a \o p)[1] = a[1] /\ \A k \in 1 .. Len(p) : (a \o p)[1 + k] = p[k]
    <3>1. /\ a \o p \in Seq(S) /\ Len(a \o p) = Len(a) + Len(p)
          /\ \A k \in 1 .. Len(a) : (a \o p)[k] = a[k]
          /\ \A k \in 1 .. Len(p) : (a \o p)[Len(a) + k] = p[k]
      <4>1. a \in Seq(S) /\ p \in Seq(S)
        BY <2>1, <1>3
      <4> HIDE DEF b
      <4> QED BY <4>1, TwoJoined
    <3>2. 1 \in 1 .. Len(a)
      BY <2>1
    <3> QED BY <2>1, <3>1, <3>2
  <2>3. \A k \in 1 .. Len(p) : 1 + k = k + 1
    OBVIOUS
  <2> QED BY <1>3, <2>1, <2>2, <2>3 DEF a
<1> HIDE DEF b
<1>6. /\ b \o tail \in Seq(S) /\ Len(b \o tail) = Len(p) + 5
      /\ \A k \in 1 .. Len(p) + 1 : (b \o tail)[k] = b[k]
      /\ \A k \in 1 .. 4 : (b \o tail)[Len(p) + 1 + k] = tail[k]
  <2>1. b \in Seq(S) /\ tail \in Seq(S)
    BY <1>4, <1>5
  <2>2. /\ b \o tail \in Seq(S) /\ Len(b \o tail) = Len(b) + Len(tail)
        /\ \A k \in 1 .. Len(b) : (b \o tail)[k] = b[k]
        /\ \A k \in 1 .. Len(tail) : (b \o tail)[Len(b) + k] = tail[k]
    BY <2>1, TwoJoined
  <2>3. Len(b) = Len(p) + 1 /\ Len(tail) = 4 /\ Len(p) + 1 + 4 = Len(p) + 5
    BY <1>3, <1>4, <1>5
  <2> QED BY <2>2, <2>3
<1>7. f = b \o tail
  BY <1>2 DEF b
<1>8. /\ f \in Seq(S) /\ Len(f) = Len(p) + 5 /\ f[1] = AT
      /\ f[Len(p) + 2] = STAR /\ f[Len(p) + 3] = C!Crc(p)
      /\ f[Len(p) + 4] = CR /\ f[Len(p) + 5] = LF
      /\ \A k \in 1 .. Len(p) : f[k + 1] = p[k]
  <2>1. /\ 1 \in 1 .. Len(p) + 1 /\ \A k \in 1 .. Len(p) : k + 1 \in 1 .. Len(p) + 1
        /\ Len(p) + 1 + 1 = Len(p) + 2 /\ Len(p) + 1 + 2 = Len(p) + 3
        /\ Len(p) + 1 + 3 = Len(p) + 4 /\ Len(p) + 1 + 4 = Len(p) + 5
    BY <1>3
  <2>2. /\ (b \o tail)[Len(p) + 1 + 1] = tail[1] /\ (b \o tail)[Len(p) + 1 + 2] = tail[2]
        /\ (b \o tail)[Len(p) + 1 + 3] = tail[3] /\ (b \o tail)[Len(p) + 1 + 4] = tail[4]
    BY <1>6, SMTT(40), ZenonT(40)
  <2> QED BY <1>4, <1>5, <1>6, <1>7, <2>1, <2>2, SMTT(40), ZenonT(40)
<1>9. SubSeq(f, 2, Len(f) - 4) = p
  <2> DEFINE q == SubSeq(f, 2, Len(p) + 1)
  <2>1. /\ q \in Seq(S) /\ Len(q) = Len(p)
        /\ \A k \in 1 .. Len(p) : q[k] = f[k + 1]
    <3>1. 2 \in Int /\ Len(p) + 1 \in Int /\ 2 <= Len(p) + 1 /\ Len(p) + 1 - 2 + 1 = Len(p)
          /\ \A k \in 2 .. Len(p) + 1 : k \in 1 .. Len(f)
      BY <1>3, <1>8
    <3>2. \A k \in 2 .. Len(p) + 1 : f[k] \in S
      BY <1>8, <3>1
    <3>3. /\ q \in Seq(S)
          /\ Len(q) = IF 2 <= Len(p) + 1 THEN Len(p) + 1 - 2 + 1 ELSE 0
          /\ \A k \in 1 .. Len(p) + 1 - 2 + 1 : q[k] = f[2 + k - 1]
      BY <3>1, <3>2, SubSeqProperties
    <3>4. \A k \in 1 .. Len(p) : 2 + k - 1 = k + 1
      BY <1>3
    <3> QED BY <3>1, <3>3, <3>4
  <2>2. Len(f) - 4 = Len(p) + 1
    BY <1>3, <1>8
  <2> HIDE DEF q
  <2>3. q = p
    <3>1. \A k \in 1 .. Len(q) : q[k] = p[k]
      BY <1>8, <2>1
    <3> QED BY <1>3, <2>1, <3>1, SameEverywhere
  <2> QED BY <2>2, <2>3 DEF q
<1>10. /\ Len(f) - 3 = Len(p) + 2 /\ Len(f) - 2 = Len(p) + 3
       /\ Len(f) - 1 = Len(p) + 4
  BY <1>3, <1>8
<1> QED BY <1>3, <1>8, <1>9, <1>10 DEF p, f, S

\* A frame that was written is valid, and has no start and no end within.
LEMMA FrameIsValid ==
    ASSUME NEW m \in Messages, IsMessage(m)
    PROVE  LET f == C!FrameOf(m)
           IN  /\ FP!Valid(f)
               /\ \A k \in 2 .. Len(f) : f[k] # AT
               /\ \A k \in 1 .. Len(f) - 1 : f[k] # LF
<1> DEFINE p == C!PayloadOf(m)
           f == C!FrameOf(m)
           n == Len(f)
<1>1. /\ f \in Seq(ToSet(p) \cup {AT, STAR, C!Crc(p), CR, LF})
      /\ Len(p) \in Nat /\ Len(p) >= 4 /\ n = Len(p) + 5
      /\ f[1] = AT /\ f[n - 3] = STAR /\ f[n - 2] = C!Crc(p)
      /\ f[n - 1] = CR /\ f[n] = LF
      /\ \A k \in 1 .. Len(p) : f[k + 1] = p[k]
      /\ SubSeq(f, 2, n - 4) = p
  BY FrameIs
<1>2. C!Crc(p) \in CrcUnits
  BY DEF CrcUnits
<1>3. /\ \A k \in 1 .. Len(p) : p[k] \notin Specials
      /\ C!Crc(p) \notin Specials
  <2>1. (ToSet(p) \cup {C!Crc(p)}) \cap Specials = {}
    BY LineAssumption
  <2>2. p \in Seq(ToSet(p))
    BY PayloadIs
  <2> HIDE DEF p
  <2>3. \A k \in 1 .. Len(p) : p[k] \in ToSet(p)
    BY <2>2
  <2> QED BY <2>1, <2>3
<1> HIDE DEF p, f
<1>4. /\ AT \notin {STAR, CR, LF, NUL} /\ STAR \notin {CR, LF, NUL} /\ NUL \notin {CR, LF}
      /\ AT \in Specials /\ STAR \in Specials /\ CR \in Specials /\ LF \in Specials
      /\ NUL \in Specials
  BY LineAssumption DEF Specials
<1>4a. LF # CR
  BY ReadersAssumption DEF LR!Sizes
<1>5. \A k \in 1 .. n :
         \/ k = 1 /\ f[k] = AT
         \/ k \in 2 .. n - 4 /\ f[k] \notin Specials
         \/ k = n - 3 /\ f[k] = STAR
         \/ k = n - 2 /\ f[k] \notin Specials
         \/ k = n - 1 /\ f[k] = CR
         \/ k = n /\ f[k] = LF
  <2> SUFFICES ASSUME NEW k \in 1 .. n
               PROVE  \/ k = 1 /\ f[k] = AT
                      \/ k \in 2 .. n - 4 /\ f[k] \notin Specials
                      \/ k = n - 3 /\ f[k] = STAR
                      \/ k = n - 2 /\ f[k] \notin Specials
                      \/ k = n - 1 /\ f[k] = CR
                      \/ k = n /\ f[k] = LF
    OBVIOUS
  <2>1. n \in Nat /\ (k = 1 \/ k \in 2 .. n - 4 \/ k = n - 3 \/ k = n - 2 \/ k = n - 1 \/ k = n)
    BY <1>1
  <2>2. CASE k \in 2 .. n - 4
    <3>1. k - 1 \in 1 .. Len(p) /\ (k - 1) + 1 = k
      BY <1>1, <2>2
    <3>2. f[k] = p[k - 1]
      BY <1>1, <3>1
    <3> QED BY <1>3, <2>2, <3>1, <3>2
  <2> QED BY <1>1, <1>3, <2>1, <2>2
<1>6. /\ \A k \in 2 .. n : k \in 1 .. n /\ k # 1
      /\ \A k \in 1 .. n - 1 : k \in 1 .. n /\ k # n
  BY <1>1
<1>7. \A k \in 2 .. n : f[k] # AT
  BY <1>4, <1>5, <1>6
<1>8. \A k \in 1 .. n - 1 : f[k] # LF
  BY <1>4, <1>4a, <1>5, <1>6
<1>9. FP!LastStar(f, n - 3)
  <2>1. DOMAIN f = 1 .. n /\ n - 3 \in 1 .. n /\ n \in Nat
    BY <1>1
  <2>2. ASSUME NEW j \in 1 .. n, f[j] = STAR, j > n - 3 PROVE FALSE
    <3>1. j # 1 /\ j \notin 2 .. n - 4 /\ j # n - 3
      BY <1>1, <2>2
    <3> QED BY <1>4, <1>5, <2>2, <3>1
  <2>3. ASSUME NEW k \in 1 .. n - 3 PROVE f[k] # NUL
    <3>1. k \in 1 .. n /\ k # n - 1 /\ k # n
      BY <1>1, <2>3
    <3> QED BY <1>4, <1>5, <3>1
  <2> QED BY <1>1, <2>1, <2>2, <2>3 DEF FP!LastStar
<1>10. FP!WellFormed(f)
  <2>1. n >= 6
    BY <1>1
  <2> QED BY <1>1, <1>2, <1>9, <2>1 DEF FP!WellFormed
<1>11. FP!Payload(f) = p
  BY <1>1 DEF FP!Payload
<1> QED BY <1>1, <1>7, <1>8, <1>10, <1>11 DEF FP!Valid, f

\* A segment that arrives whole, on a line for frames, is a message's frame.
LEMMA WholeFrame ==
    ASSUME NEW c \in Courses, c.leg # "wifi",
           NEW i \in 1 .. Len(c.segments), Sent(c)[i].whole
    PROVE  LET m == c.segments[i].message
           IN  /\ m \in Messages /\ IsMessage(m)
               /\ Sent(c)[i].units = C!FrameOf(m)
               /\ C!Encodable(m) /\ C!Fits(C!FrameOf(m))
<1> DEFINE seg == c.segments[i]
           m == seg.message
           b == Bytes(c.leg, seg)
<1>1. seg \in ToSet(c.segments) /\ b # <<>> /\ Sent(c)[i].units = b
  BY SegmentIs
<1>2. m \in Messages /\ IsMessage(m)
  BY <1>1, MessageOf
<1>3. c.leg \in {"serial", "command"}
  BY CoursesAssumption
<1> HIDE DEF seg
<1>4. Written(c.leg, seg) # Malformed /\ b = Written(c.leg, seg)
  BY <1>1 DEF Bytes
<1>5. CASE "object" \notin DOMAIN seg
  <2>1. Written(c.leg, seg) = C!BuildFrame(m)
    BY <1>3, <1>5 DEF Written
  <2>2. C!Encodable(m) /\ C!Fits(C!FrameOf(m)) /\ b = C!FrameOf(m)
    BY <1>4, <2>1 DEF C!BuildFrame
  <2> QED BY <1>1, <1>2, <2>2 DEF seg
<1>6. CASE "object" \in DOMAIN seg
  <2> DEFINE d == C!DecodeCommand(seg.object)
  <2>1. c.leg = "command"
    BY <1>1, <1>3, <1>6, LineAssumption
  <2>2. d # Malformed /\ Written(c.leg, seg) = C!BuildFrame(d)
    BY <1>4, <1>6, <2>1 DEF Written
  <2>3. d.type = m.type /\ d.id = m.id /\ d.seq = m.seq /\ d.fields = m.fields
    <3>1. /\ m.type = "CMD"
          /\ \/ seg.object = C!ObjectOf(m)
             \/ d = Malformed
             \/ d.type = "CMD" /\ d.id = m.id /\ d.seq = m.seq /\ d.fields = m.fields
      BY <1>1, <1>6, <2>1, ObjectsAssumption
    <3>2. CASE seg.object = C!ObjectOf(m)
      BY <1>2, <2>2, <3>1, <3>2, CommandAsItIs
    <3> QED BY <2>2, <3>1, <3>2
  <2> HIDE DEF d, m
  <2>4. C!PayloadOf(d) = C!PayloadOf(m)
    BY <2>3 DEF C!PayloadOf
  <2>5. C!FrameOf(d) = C!FrameOf(m) /\ (C!Encodable(d) <=> C!Encodable(m))
    BY <2>3, <2>4 DEF C!FrameOf, C!Encodable
  <2>6. C!Encodable(m) /\ C!Fits(C!FrameOf(m)) /\ b = C!FrameOf(m)
    BY <1>4, <2>2, <2>5 DEF C!BuildFrame
  <2> QED BY <1>1, <1>2, <2>6 DEF seg, m
<1> QED BY <1>5, <1>6

\* What stands in a stretch of a sequence.
LEMMA StretchIs ==
    ASSUME NEW S, NEW s \in Seq(S), NEW u \in Seq(S), NEW a \in Nat, u # <<>>,
           a + Len(u) <= Len(s), \A k \in 1 .. Len(u) : s[a + k] = u[k]
    PROVE  SubSeq(s, a + 1, a + Len(u)) = u
<1> DEFINE n == Len(u)
           b == a + 1
           e == a + n
           q == SubSeq(s, b, e)
<1>1. n \in Nat /\ n >= 1 /\ Len(s) \in Nat
  OBVIOUS
<1> HIDE DEF n
<1>2. /\ b \in Int /\ e \in Int /\ b <= e /\ e - b + 1 = n
      /\ \A k \in b .. e : k \in 1 .. Len(s)
  BY <1>1 DEF n
<1>5. \A k \in 1 .. n : b + k - 1 = a + k
  BY <1>1
<1> HIDE DEF b, e
<1>3. \A k \in b .. e : s[k] \in S
  BY <1>2
<1>4. /\ q \in Seq(S)
      /\ Len(q) = IF b <= e THEN e - b + 1 ELSE 0
      /\ \A k \in 1 .. e - b + 1 : q[k] = s[b + k - 1]
  BY <1>2, <1>3, SubSeqProperties
<1>6. Len(q) = n /\ \A k \in 1 .. n : q[k] = s[a + k]
  BY <1>2, <1>4, <1>5
<1>7. \A k \in 1 .. Len(q) : q[k] = u[k]
  BY <1>6 DEF n
<1> HIDE DEF q
<1>8. q = u
  BY <1>4, <1>6, <1>7, SameEverywhere DEF n
<1> QED BY <1>8 DEF q, n, b, e

\* It is intact in the stream.
LEMMA WholeIsIntact ==
    ASSUME NEW c \in Courses, c.leg # "wifi",
           NEW i \in 1 .. Len(c.segments), Sent(c)[i].whole
    PROVE  LET s == Stream(Sent(c))
           IN  /\ EndOf(c, i - 1) \in Nat /\ EndOf(c, i) \in Nat
               /\ EndOf(c, i - 1) + 1 < EndOf(c, i) /\ EndOf(c, i) <= Len(s)
               /\ FP!Intact(s, EndOf(c, i - 1) + 1, EndOf(c, i))
               /\ SubSeq(s, EndOf(c, i - 1) + 1, EndOf(c, i)) = C!FrameOf(c.segments[i].message)
<1> DEFINE s == Stream(Sent(c))
           m == c.segments[i].message
           f == C!FrameOf(m)
           a == EndOf(c, i - 1)
           n == Len(f)
<1>1. /\ m \in Messages /\ IsMessage(m) /\ Sent(c)[i].units = f
      /\ C!Fits(f)
  BY WholeFrame
<1>2. /\ f \in Seq(UnitsOf(c)) /\ s \in Seq(UnitsOf(c))
      /\ a \in Nat /\ EndOf(c, i) \in Nat /\ EndOf(c, i) = a + n /\ EndOf(c, i) <= Len(s)
      /\ \A k \in 1 .. n : s[a + k] = f[k]
  <2> DEFINE u == Sent(c)[i].units
  <2>1. /\ u \in Seq(UnitsOf(c)) /\ s \in Seq(UnitsOf(c))
        /\ EndOf(c, i - 1) \in Nat /\ EndOf(c, i) \in Nat
        /\ EndOf(c, i) = EndOf(c, i - 1) + Len(u)
        /\ EndOf(c, i) <= Len(s)
        /\ \A k \in 1 .. Len(u) : s[EndOf(c, i - 1) + k] = u[k]
    BY SegmentAt
  <2>2. u = f
    BY <1>1
  <2> HIDE DEF u, s, f
  <2> QED BY <2>1, <2>2
<1>3. n \in Nat /\ n >= 9 /\ f[1] = AT /\ f[n] = LF
  <2> DEFINE p == C!PayloadOf(m)
  <2>1. Len(p) \in Nat /\ Len(p) >= 4 /\ n = Len(p) + 5 /\ f[1] = AT /\ f[n] = LF
    BY <1>1, FrameIs
  <2> HIDE DEF p, f
  <2> QED BY <2>1
<1>4. /\ FP!Valid(f)
      /\ \A k \in 2 .. n : f[k] # AT
      /\ \A k \in 1 .. n - 1 : f[k] # LF
  BY <1>1, FrameIsValid
<1> HIDE DEF s, f, a
<1>5. SubSeq(s, a + 1, a + n) = f
  BY <1>2, <1>3, StretchIs
<1> DEFINE e == a + n
<1>6. /\ a + 1 \in 1 .. Len(s) /\ e \in 1 .. Len(s) /\ a + 1 < e /\ DOMAIN s = 1 .. Len(s)
      /\ e - (a + 1) + 1 = n
  BY <1>2, <1>3
<1>7. s[a + 1] = AT /\ s[e] = LF
  BY <1>2, <1>3
<1>8. ASSUME NEW k \in a + 1 + 1 .. e PROVE s[k] # AT
  <2>1. k - a \in 2 .. n /\ k - a \in 1 .. n /\ a + (k - a) = k
    BY <1>2, <1>3
  <2> QED BY <1>2, <1>4, <2>1
<1>9. ASSUME NEW k \in a + 1 .. e - 1 PROVE s[k] # LF
  <2>1. k - a \in 1 .. n - 1 /\ k - a \in 1 .. n /\ a + (k - a) = k
    BY <1>2, <1>3
  <2> QED BY <1>2, <1>4, <2>1
<1>10. e - (a + 1) + 1 < FrameMaxLen
  BY <1>1, <1>6 DEF C!Fits
<1> HIDE DEF e
<1>11. FP!Intact(s, a + 1, e)
  BY <1>4, <1>5, <1>6, <1>7, <1>8, <1>9, <1>10 DEF FP!Intact, e
<1> QED BY <1>2, <1>5, <1>6, <1>11 DEF s, f, a, e

\* Whole segments end one after the other.
LEMMA WholeEnds ==
    ASSUME NEW c \in Courses, c.leg # "wifi",
           NEW i \in 1 .. Len(c.segments), NEW j \in 1 .. Len(c.segments),
           Sent(c)[j].whole, i < j
    PROVE  EndOf(c, i) \in Nat /\ EndOf(c, j) \in Nat /\ EndOf(c, i) < EndOf(c, j)
<1>1. EndOf(c, j - 1) \in Nat /\ EndOf(c, j) \in Nat /\ EndOf(c, j - 1) + 1 < EndOf(c, j)
  BY WholeIsIntact
<1>2. i \in 0 .. Len(c.segments) /\ j - 1 \in i .. Len(c.segments)
  BY SegmentIs
<1>3. EndOf(c, i) \in Nat /\ EndOf(c, i) <= EndOf(c, j - 1)
  BY <1>2, StreamGrows
<1> QED BY <1>1, <1>3

-----------------------------------------------------------------------------
(* The frames of the stream *)

\* The whole segments among the first n units, and what is handed over of one.
WholeIn(c, n) == {i \in 1 .. Len(c.segments) : Sent(c)[i].whole /\ EndOf(c, i) <= n}
FrameAt(c, i) == [at |-> EndOf(c, i), frame |-> C!FrameOf(c.segments[i].message)]

\* The beginning of a stream has the intact frames that end in it.
LEMMA IntactBefore ==
    ASSUME NEW S, NEW s \in Seq(S), NEW r \in Seq(S), Len(r) <= Len(s),
           \A k \in 1 .. Len(r) : r[k] = s[k], NEW i \in 1 .. Len(r), NEW j \in 1 .. Len(r)
    PROVE  /\ FP!Intact(r, i, j) <=> FP!Intact(s, i, j)
           /\ i <= j => SubSeq(r, i, j) = SubSeq(s, i, j)
<1>1. /\ Len(r) \in Nat /\ Len(s) \in Nat
      /\ DOMAIN r = 1 .. Len(r) /\ DOMAIN s = 1 .. Len(s)
      /\ i \in DOMAIN r /\ j \in DOMAIN r /\ i \in DOMAIN s /\ j \in DOMAIN s
  OBVIOUS
<1>2. \A k \in i .. j : k \in 1 .. Len(r)
  BY <1>1
<1>3. ASSUME i <= j PROVE SubSeq(r, i, j) = SubSeq(s, i, j)
  <2> DEFINE p == SubSeq(r, i, j)
             q == SubSeq(s, i, j)
  <2>1. \A k \in i .. j : r[k] \in S /\ s[k] \in S
    BY <1>1, <1>2
  <2>2. i \in Int /\ j \in Int
    OBVIOUS
  <2>3. /\ p \in Seq(S) /\ Len(p) = IF i <= j THEN j - i + 1 ELSE 0
        /\ \A k \in 1 .. j - i + 1 : p[k] = r[i + k - 1]
    BY <2>1, <2>2, SubSeqProperties
  <2>4. /\ q \in Seq(S) /\ Len(q) = IF i <= j THEN j - i + 1 ELSE 0
        /\ \A k \in 1 .. j - i + 1 : q[k] = s[i + k - 1]
    BY <2>1, <2>2, SubSeqProperties
  <2>5. \A k \in 1 .. j - i + 1 : i + k - 1 \in 1 .. Len(r)
    BY <1>1
  <2>6. Len(p) = Len(q) /\ \A k \in 1 .. Len(p) : p[k] = q[k]
    BY <1>3, <2>3, <2>4, <2>5
  <2> HIDE DEF p, q
  <2>7. p = q
    BY <2>3, <2>4, <2>6, SameEverywhere
  <2> QED BY <2>7 DEF p, q
<1>4. i < j => i <= j
  OBVIOUS
<1>5. /\ \A k \in i + 1 .. j : k \in 1 .. Len(r)
      /\ \A k \in i .. j - 1 : k \in 1 .. Len(r)
  BY <1>1
<1>6. /\ r[i] = s[i] /\ r[j] = s[j]
      /\ (\A k \in i + 1 .. j : r[k] # AT) <=> (\A k \in i + 1 .. j : s[k] # AT)
      /\ (\A k \in i .. j - 1 : r[k] # LF) <=> (\A k \in i .. j - 1 : s[k] # LF)
  BY <1>5
<1> QED BY <1>1, <1>3, <1>4, <1>6 DEF FP!Intact

\* Damage makes no frame: what is intact is a segment that arrived whole.
LEMMA IntactIsWhole ==
    ASSUME NEW c \in Courses, c.leg # "wifi", NEW i, NEW j, FP!Intact(Stream(Sent(c)), i, j)
    PROVE  \E k \in 1 .. Len(c.segments) :
              Sent(c)[k].whole /\ i = EndOf(c, k - 1) + 1 /\ j = EndOf(c, k)
<1> DEFINE s == Stream(Sent(c))
<1>1. i \in DOMAIN s /\ s[i] = AT /\ j \in DOMAIN s /\ s[j] = LF
  BY DEF FP!Intact
<1>2. c \in {d \in Courses : d.leg # "wifi"}
  OBVIOUS
<1>3. \E t \in {s} :
         \A x \in {a \in DOMAIN t : t[a] = AT}, y \in {a \in DOMAIN t : t[a] = LF} :
            FP!Intact(t, x, y) =>
               \E k \in DOMAIN c.segments :
                  /\ Sent(c)[k].whole
                  /\ x = Len(Stream(SubSeq(Sent(c), 1, k - 1))) + 1
                  /\ y = Len(Stream(SubSeq(Sent(c), 1, k)))
  BY <1>2, NoChance
<1>4. \E k \in DOMAIN c.segments :
         /\ Sent(c)[k].whole
         /\ i = Len(Stream(SubSeq(Sent(c), 1, k - 1))) + 1
         /\ j = Len(Stream(SubSeq(Sent(c), 1, k)))
  BY <1>1, <1>3
<1>5. DOMAIN c.segments = 1 .. Len(c.segments)
  BY SegmentIs
<1> QED BY <1>4, <1>5 DEF EndOf, Upto

\* The intact frames of what has been read are those of the whole segments in it.
LEMMA FramesOfPart ==
    ASSUME NEW c \in Courses, c.leg # "wifi",
           NEW S, Stream(Sent(c)) \in Seq(S), NEW r \in Seq(S),
           Len(r) <= Len(Stream(Sent(c))),
           \A k \in 1 .. Len(r) : r[k] = Stream(Sent(c))[k]
    PROVE  FP!IntactFrames(r) = {FrameAt(c, k) : k \in WholeIn(c, Len(r))}
<1> DEFINE s == Stream(Sent(c))
           P == {q \in (DOMAIN r) \X (DOMAIN r) : FP!Intact(r, q[1], q[2])}
<1>0. DOMAIN r = 1 .. Len(r) /\ Len(r) \in Nat
  OBVIOUS
<1>1. FP!IntactFrames(r) = {[at |-> p[2], frame |-> SubSeq(r, p[1], p[2])] : p \in P}
  BY DEF FP!IntactFrames
<1>2. ASSUME NEW p \in P
      PROVE  \E k \in WholeIn(c, Len(r)) :
                [at |-> p[2], frame |-> SubSeq(r, p[1], p[2])] = FrameAt(c, k)
  <2>1. p[1] \in 1 .. Len(r) /\ p[2] \in 1 .. Len(r) /\ FP!Intact(r, p[1], p[2])
    BY <1>0, <1>2
  <2>2. p[1] <= p[2]
    <3>1. p[1] < p[2]
      BY <2>1 DEF FP!Intact
    <3> QED BY <2>1, <3>1
  <2>3. FP!Intact(s, p[1], p[2]) /\ SubSeq(r, p[1], p[2]) = SubSeq(s, p[1], p[2])
    <3>1. /\ s \in Seq(S) /\ r \in Seq(S) /\ Len(r) <= Len(s)
          /\ \A k \in 1 .. Len(r) : r[k] = s[k]
      OBVIOUS
    <3> HIDE DEF s
    <3>2. \A i \in 1 .. Len(r), j \in 1 .. Len(r) :
             /\ FP!Intact(r, i, j) <=> FP!Intact(s, i, j)
             /\ i <= j => SubSeq(r, i, j) = SubSeq(s, i, j)
      BY <3>1, IntactBefore, SMTT(40), ZenonT(40)
    <3> QED BY <2>1, <2>2, <3>2
  <2>4. PICK k \in 1 .. Len(c.segments) :
           Sent(c)[k].whole /\ p[1] = EndOf(c, k - 1) + 1 /\ p[2] = EndOf(c, k)
    BY <2>3, IntactIsWhole
  <2>5. SubSeq(s, p[1], p[2]) = C!FrameOf(c.segments[k].message)
    BY <2>4, WholeIsIntact
  <2>6. k \in WholeIn(c, Len(r))
    BY <2>1, <2>4 DEF WholeIn
  <2> QED BY <2>3, <2>4, <2>5, <2>6 DEF FrameAt
<1>3. ASSUME NEW k \in WholeIn(c, Len(r))
      PROVE  \E p \in P : [at |-> p[2], frame |-> SubSeq(r, p[1], p[2])] = FrameAt(c, k)
  <2> DEFINE i == EndOf(c, k - 1) + 1
             j == EndOf(c, k)
  <2>1. k \in 1 .. Len(c.segments) /\ Sent(c)[k].whole /\ j <= Len(r)
    BY DEF WholeIn
  <2>2. /\ EndOf(c, k - 1) \in Nat /\ j \in Nat /\ i < j
        /\ FP!Intact(s, i, j)
        /\ SubSeq(s, i, j) = C!FrameOf(c.segments[k].message)
    BY <2>1, WholeIsIntact
  <2>3. i \in 1 .. Len(r) /\ j \in 1 .. Len(r) /\ i <= j
    BY <1>0, <2>1, <2>2
  <2> HIDE DEF i, j
  <2>4. FP!Intact(r, i, j) /\ SubSeq(r, i, j) = SubSeq(s, i, j)
    BY <2>2, <2>3, IntactBefore
  <2>5. <<i, j>> \in P
    BY <1>0, <2>3, <2>4
  <2>6. <<i, j>>[1] = i /\ <<i, j>>[2] = j
    OBVIOUS
  <2>7. [at |-> j, frame |-> SubSeq(r, i, j)] = FrameAt(c, k)
    BY <2>2, <2>4 DEF FrameAt, j
  <2> QED BY <2>5, <2>6, <2>7
<1> HIDE DEF P
<1> QED BY <1>1, <1>2, <1>3

-----------------------------------------------------------------------------
(* What is read of the stream *)

\* What was read and what is still to come are what was sent.
LineInv == /\ Framed => received \o stream = Stream(Sent(course)) /\ pending = <<>>
           /\ ~Framed => arrived \o stream = Stream(Sent(course))

\* So far the parser handed over the frames of the messages that arrived.
LEMMA DeliveredAre ==
    ASSUME PathInv, LineInv, Framed
    PROVE  /\ delivered = {FrameAt(course, k) : k \in Arrived}
           /\ Arrived = WholeIn(course, Len(received))
           /\ Len(received) \in Nat /\ Len(received) <= Len(Stream(Sent(course)))
<1> DEFINE S == FP!Units
           s == Stream(Sent(course))
<1>1. course \in Courses /\ sent = Sent(course) /\ stream \in Seq(OnLineUnits) /\ FramesInv
  BY DEF PathInv
<1>2. received \in Seq(S)
  BY <1>1, SameMachine DEF FramesInv, FPP!ParserInv, FPP!TypeOK
<1>3. OnLineUnits \subseteq S
  BY UnitsOfReaders
<1>4. stream \in Seq(S)
  <2> HIDE DEF S
  <2> QED BY <1>1, <1>3
<1>5. received \o stream = s
  BY DEF LineInv
<1> HIDE DEF S, s
<1>6. /\ s \in Seq(S) /\ Len(received) <= Len(s) /\ Len(received) \in Nat
      /\ \A k \in 1 .. Len(received) : received[k] = s[k]
  <2>1. /\ received \o stream \in Seq(S) /\ Len(received \o stream) = Len(received) + Len(stream)
        /\ Len(received) \in Nat /\ Len(stream) \in Nat
        /\ \A k \in 1 .. Len(received) : (received \o stream)[k] = received[k]
    BY <1>2, <1>4, TwoJoined
  <2>2. Len(received) <= Len(received) + Len(stream)
    BY <2>1
  <2> QED BY <1>5, <2>1, <2>2
<1>7. course.leg # "wifi"
  BY DEF Framed
<1>8. FP!IntactFrames(received) = {FrameAt(course, k) : k \in WholeIn(course, Len(received))}
  BY <1>1, <1>2, <1>6, <1>7, FramesOfPart DEF s
<1>9. delivered = FP!IntactFrames(received)
  BY <1>1, SameClaims DEF FramesInv, FPP!ParserInv, FP!DeliversExactlyTheIntact
<1>10. Arrived = WholeIn(course, Len(received))
  <2>1. DOMAIN sent = 1 .. Len(course.segments)
    BY <1>1, SegmentIs
  <2> QED BY <1>1, <2>1 DEF Arrived, WholeIn, EndOf, Upto
<1> QED BY <1>6, <1>8, <1>9, <1>10 DEF s

\* What is read moves from the front of what is to come to the end of what was read.
LEMMA MovedOne ==
    ASSUME NEW S, NEW s \in Seq(S), NEW t \in Seq(S), t # <<>>
    PROVE  Append(s, Head(t)) \o Tail(t) = s \o t
<1>1. /\ Head(t) \in S /\ Tail(t) \in Seq(S) /\ Len(t) >= 1 /\ Len(Tail(t)) = Len(t) - 1
      /\ Len(s) \in Nat /\ Len(t) \in Nat /\ t[1] = Head(t)
      /\ \A k \in 1 .. Len(t) - 1 : Tail(t)[k] = t[k + 1]
  OBVIOUS
<1> DEFINE a == Append(s, Head(t))
           b == Tail(t)
<1>2. /\ a \in Seq(S) /\ Len(a) = Len(s) + 1 /\ a[Len(s) + 1] = Head(t)
      /\ \A k \in 1 .. Len(s) : a[k] = s[k]
  BY <1>1
<1> HIDE DEF a
<1>3. b \in Seq(S) /\ Len(b) = Len(t) - 1 /\ \A k \in 1 .. Len(b) : b[k] = t[k + 1]
  BY <1>1
<1> HIDE DEF b
<1>4. /\ a \o b \in Seq(S) /\ Len(a \o b) = Len(a) + Len(b)
      /\ \A k \in 1 .. Len(a) : (a \o b)[k] = a[k]
      /\ \A k \in 1 .. Len(b) : (a \o b)[Len(a) + k] = b[k]
  <2>1. a \in Seq(S) /\ b \in Seq(S)
    BY <1>2, <1>3
  <2> QED BY <2>1, TwoJoined
<1>5. /\ s \o t \in Seq(S) /\ Len(s \o t) = Len(s) + Len(t)
      /\ \A k \in 1 .. Len(s) : (s \o t)[k] = s[k]
      /\ \A k \in 1 .. Len(t) : (s \o t)[Len(s) + k] = t[k]
  BY TwoJoined
<1>6. Len(a \o b) = Len(s \o t)
  BY <1>1, <1>2, <1>3, <1>4, <1>5
<1>7. ASSUME NEW k \in 1 .. Len(a \o b) PROVE (a \o b)[k] = (s \o t)[k]
  <2>1. k \in 1 .. Len(s) \/ k = Len(s) + 1 \/ k - Len(s) - 1 \in 1 .. Len(b)
    BY <1>1, <1>2, <1>3, <1>4
  <2>2. CASE k \in 1 .. Len(s)
    <3>1. k \in 1 .. Len(a)
      BY <1>1, <1>2, <2>2
    <3> QED BY <1>2, <1>4, <1>5, <2>2, <3>1
  <2>3. CASE k = Len(s) + 1
    <3>1. k \in 1 .. Len(a) /\ 1 \in 1 .. Len(t)
      BY <1>1, <1>2, <2>3
    <3> QED BY <1>1, <1>2, <1>4, <1>5, <2>3, <3>1
  <2>4. CASE k - Len(s) - 1 \in 1 .. Len(b)
    <3>1. /\ Len(a) + (k - Len(s) - 1) = k /\ k - Len(s) \in 1 .. Len(t)
          /\ Len(s) + (k - Len(s)) = k /\ (k - Len(s) - 1) + 1 = k - Len(s)
      BY <1>1, <1>2, <1>3, <2>4
    <3>2. (a \o b)[k] = b[k - Len(s) - 1] /\ (s \o t)[k] = t[k - Len(s)]
      BY <1>4, <1>5, <2>4, <3>1
    <3> QED BY <1>3, <2>4, <3>1, <3>2
  <2> QED BY <2>1, <2>2, <2>3, <2>4
<1>8. a \o b = s \o t
  BY <1>4, <1>5, <1>6, <1>7, SameEverywhere
<1> QED BY <1>8 DEF a, b

\* The same for the first units of what is to come.
LEMMA MovedSome ==
    ASSUME NEW S, NEW s \in Seq(S), NEW t \in Seq(S), NEW n \in 1 .. Len(t)
    PROVE  (s \o SubSeq(t, 1, n)) \o SubSeq(t, n + 1, Len(t)) = s \o t
<1> DEFINE a == SubSeq(t, 1, n)
           b == SubSeq(t, n + 1, Len(t))
<1>1. Len(s) \in Nat /\ Len(t) \in Nat /\ n \in Nat /\ n >= 1 /\ n <= Len(t)
      /\ \A k \in 1 .. Len(t) : t[k] \in S
  OBVIOUS
<1>2. a \in Seq(S) /\ Len(a) = n /\ \A k \in 1 .. n : a[k] = t[k]
  <2>1. 1 \in Int /\ n \in Int /\ 1 <= n /\ n - 1 + 1 = n
        /\ \A k \in 1 .. n : t[k] \in S /\ 1 + k - 1 = k
    BY <1>1
  <2>2. /\ a \in Seq(S) /\ Len(a) = IF 1 <= n THEN n - 1 + 1 ELSE 0
        /\ \A k \in 1 .. n - 1 + 1 : a[k] = t[1 + k - 1]
    BY <2>1, SubSeqProperties
  <2> QED BY <2>1, <2>2
<1>3. b \in Seq(S) /\ Len(b) = Len(t) - n /\ \A k \in 1 .. Len(t) - n : b[k] = t[n + k]
  <2> DEFINE f == n + 1
  <2>1. /\ f \in Int /\ Len(t) \in Int /\ \A k \in f .. Len(t) : t[k] \in S
        /\ Len(t) - f + 1 = Len(t) - n
        /\ \A k \in 1 .. Len(t) - n : f + k - 1 = n + k
        /\ (IF f <= Len(t) THEN Len(t) - f + 1 ELSE 0) = Len(t) - n
    BY <1>1
  <2> HIDE DEF f
  <2>2. /\ SubSeq(t, f, Len(t)) \in Seq(S)
        /\ Len(SubSeq(t, f, Len(t))) = IF f <= Len(t) THEN Len(t) - f + 1 ELSE 0
        /\ \A k \in 1 .. Len(t) - f + 1 : SubSeq(t, f, Len(t))[k] = t[f + k - 1]
    BY <2>1, SubSeqProperties
  <2>3. b = SubSeq(t, f, Len(t))
    BY DEF f
  <2> HIDE DEF b
  <2> QED BY <2>1, <2>2, <2>3
<1> HIDE DEF a, b
<1> DEFINE c == s \o a
<1>4. /\ c \in Seq(S) /\ Len(c) = Len(s) + n
      /\ \A k \in 1 .. Len(s) : c[k] = s[k]
      /\ \A k \in 1 .. n : c[Len(s) + k] = t[k]
  BY <1>2, TwoJoined
<1> HIDE DEF c
<1>5. /\ c \o b \in Seq(S) /\ Len(c \o b) = Len(c) + Len(b)
      /\ \A k \in 1 .. Len(c) : (c \o b)[k] = c[k]
      /\ \A k \in 1 .. Len(b) : (c \o b)[Len(c) + k] = b[k]
  <2>1. c \in Seq(S) /\ b \in Seq(S)
    BY <1>3, <1>4
  <2> QED BY <2>1, TwoJoined
<1>6. /\ s \o t \in Seq(S) /\ Len(s \o t) = Len(s) + Len(t)
      /\ \A k \in 1 .. Len(s) : (s \o t)[k] = s[k]
      /\ \A k \in 1 .. Len(t) : (s \o t)[Len(s) + k] = t[k]
  BY TwoJoined
<1>7. Len(c \o b) = Len(s \o t)
  BY <1>1, <1>3, <1>4, <1>5, <1>6
<1>8. ASSUME NEW k \in 1 .. Len(c \o b) PROVE (c \o b)[k] = (s \o t)[k]
  <2>1. k \in 1 .. Len(s) \/ k - Len(s) \in 1 .. n \/ k - Len(s) - n \in 1 .. Len(t) - n
    BY <1>1, <1>3, <1>4, <1>5
  <2>2. CASE k \in 1 .. Len(s)
    <3>1. k \in 1 .. Len(c)
      BY <1>1, <1>4, <2>2
    <3> QED BY <1>4, <1>5, <1>6, <2>2, <3>1
  <2>3. CASE k - Len(s) \in 1 .. n
    <3>1. k \in 1 .. Len(c) /\ k - Len(s) \in 1 .. Len(t) /\ Len(s) + (k - Len(s)) = k
      BY <1>1, <1>4, <2>3
    <3>2. c[k] = t[k - Len(s)] /\ (s \o t)[k] = t[k - Len(s)]
      BY <1>4, <1>6, <2>3, <3>1
    <3> QED BY <1>5, <3>1, <3>2
  <2>4. CASE k - Len(s) - n \in 1 .. Len(t) - n
    <3>1. /\ k - Len(s) - n \in 1 .. Len(b) /\ Len(c) + (k - Len(s) - n) = k
          /\ k - Len(s) \in 1 .. Len(t) /\ Len(s) + (k - Len(s)) = k
          /\ n + (k - Len(s) - n) = k - Len(s)
      BY <1>1, <1>3, <1>4, <2>4
    <3>2. (c \o b)[k] = b[k - Len(s) - n] /\ (s \o t)[k] = t[k - Len(s)]
      BY <1>5, <1>6, <3>1
    <3> QED BY <1>3, <2>4, <3>1, <3>2
  <2> QED BY <2>1, <2>2, <2>3, <2>4
<1>9. c \o b = s \o t
  BY <1>5, <1>6, <1>7, <1>8, SameEverywhere
<1> QED BY <1>9 DEF a, b, c

\* What is sent is read or is still to come.
LEMMA LineStep ==
    ASSUME PathInv, LineInv, FrameUnit \/ WifiRead \/ WifiLine
    PROVE  LineInv'
<1> DEFINE s == Stream(Sent(course))
<1>1. course \in Courses /\ stream \in Seq(OnLineUnits) /\ FramesInv /\ ReaderInv
  BY DEF PathInv
<1>2. course' = course
  BY DEF FrameUnit, WifiRead, WifiLine
<1>3. CASE FrameUnit
  <2> DEFINE S == FP!Units
  <2>1. received \in Seq(S)
    BY <1>1, SameMachine DEF FramesInv, FPP!ParserInv, FPP!TypeOK
  <2>2. OnLineUnits \subseteq S
    BY UnitsOfReaders
  <2>3. stream \in Seq(S)
    <3> HIDE DEF S
    <3> QED BY <1>1, <2>2
  <2>4. /\ Framed /\ stream # <<>> /\ stream' = Tail(stream)
        /\ received' = Append(received, Head(stream))
    BY <1>3 DEF FrameUnit, Framed, FP!Feed
  <2> HIDE DEF S
  <2>5. Append(received, Head(stream)) \o Tail(stream) = received \o stream
    BY <2>1, <2>3, <2>4, MovedOne
  <2>6. Framed'
    BY <1>2, <2>4 DEF Framed
  <2>7. pending' = pending
    BY <1>3 DEF FrameUnit, texts
  <2> QED BY <1>2, <2>4, <2>5, <2>6, <2>7 DEF LineInv
<1>4. CASE WifiRead
  <2> DEFINE S == LR!Units
  <2>1. arrived \in Seq(S)
    BY <1>1 DEF ReaderInv, Typed
  <2>2. stream \in Seq(S)
    BY <1>1, UnitsOfReaders
  <2>3. PICK k \in 1 .. ReadSize :
           /\ k <= Len(stream)
           /\ LR!Reads(SubSeq(stream, 1, k)) \/ LR!Overflows(SubSeq(stream, 1, k))
           /\ stream' = SubSeq(stream, k + 1, Len(stream))
    BY <1>4 DEF WifiRead
  <2>4. arrived' = arrived \o SubSeq(stream, 1, k)
    BY <2>3 DEF LR!Reads, LR!Overflows
  <2>5. k \in 1 .. Len(stream)
    BY <2>2, <2>3, ReadersAssumption DEF LR!Sizes
  <2> HIDE DEF S
  <2>6. arrived' \o stream' = arrived \o stream
    <3>1. (arrived \o SubSeq(stream, 1, k)) \o SubSeq(stream, k + 1, Len(stream))
             = arrived \o stream
      BY <2>1, <2>2, <2>5, MovedSome
    <3> QED BY <2>3, <2>4, <3>1
  <2>7. ~Framed /\ ~Framed'
    BY <1>2, <1>4 DEF Framed, WifiRead
  <2> QED BY <1>2, <2>6, <2>7 DEF LineInv
<1>5. CASE WifiLine
  <2>1. stream' = stream /\ arrived' = arrived /\ received' = received
    BY <1>5 DEF WifiLine, LR!TakesLine, frames
  <2>2. Framed' <=> Framed
    BY <1>2 DEF Framed
  <2>3. ~Framed
    <3>1. pending # <<>>
      BY <1>5 DEF WifiLine, LR!TakesLine, LR!LP!HasLine
    <3> QED BY <3>1 DEF LineInv
  <2> QED BY <1>2, <2>1, <2>2, <2>3 DEF LineInv
<1> QED BY <1>3, <1>4, <1>5

\* So it is after a step.
LEMMA DeliveredNext ==
    (PathInv /\ LineInv /\ Framed
               => /\ delivered = {FrameAt(course, k) : k \in Arrived}
                  /\ Arrived = WholeIn(course, Len(received)))'
<1>1. PathInv /\ LineInv /\ Framed
        => /\ delivered = {FrameAt(course, k) : k \in Arrived}
           /\ Arrived = WholeIn(course, Len(received))
  BY DeliveredAre
<1> QED BY <1>1, PTL

\* A unit completes the frame of the next segment that arrives whole, or nothing.
LEMMA FrameArrives ==
    ASSUME PathInv, LineInv, FrameUnit
    PROVE  \/ delivered' = delivered /\ Arrived' = Arrived
           \/ \E k \in 1 .. Len(Segments) :
                 /\ Sent(course)[k].whole /\ k \notin Arrived /\ \A i \in Arrived : i < k
                 /\ Arrived' = Arrived \cup {k}
                 /\ delivered' # delivered
                 /\ \A d \in delivered' \ delivered :
                       FP!Payload(d.frame) = C!PayloadOf(Segments[k].message)
<1> DEFINE N == Len(received)
           W(n) == WholeIn(course, n)
<1>1. course \in Courses /\ course' = course /\ Framed /\ course.leg # "wifi"
      /\ received' = Append(received, Head(stream)) /\ stream # <<>>
      /\ stream \in Seq(OnLineUnits)
  BY DEF PathInv, FrameUnit, Framed, FP!Feed
<1>2. /\ delivered = {FrameAt(course, k) : k \in Arrived} /\ Arrived = W(N)
      /\ N \in Nat
  BY <1>1, DeliveredAre
<1>3. PathInv' /\ LineInv' /\ Framed'
  BY <1>1, FrameUnitStep, LineStep DEF Framed
<1>4. /\ delivered' = {FrameAt(course', k) : k \in Arrived'}
      /\ Arrived' = WholeIn(course', Len(received'))
  BY <1>3, DeliveredNext
<1>5. Len(received') = N + 1
  <2>1. received \in Seq(FP!Units)
    BY SameMachine DEF PathInv, FramesInv, FPP!ParserInv, FPP!TypeOK
  <2>2. Head(stream) \in FP!Units
    BY <1>1, UnitsOfReaders
  <2> QED BY <1>1, <2>1, <2>2
<1>6. delivered' = {FrameAt(course, k) : k \in Arrived'} /\ Arrived' = W(N + 1)
  BY <1>1, <1>4, <1>5
<1>7. \A k \in 1 .. Len(Segments) : Sent(course)[k].whole => EndOf(course, k) \in Nat
  BY <1>1, WholeIsIntact DEF Segments
<1>8. Arrived \subseteq Arrived'
  BY <1>2, <1>6, <1>7 DEF WholeIn, Segments
<1>9. CASE Arrived' = Arrived
  BY <1>2, <1>6, <1>9
<1>10. CASE Arrived' # Arrived
  <2>1. PICK k \in Arrived' : k \notin Arrived
    BY <1>8, <1>10
  <2>2. k \in 1 .. Len(Segments) /\ Sent(course)[k].whole /\ EndOf(course, k) = N + 1
    <3>1. k \in 1 .. Len(Segments) /\ Sent(course)[k].whole /\ EndOf(course, k) <= N + 1
          /\ ~(EndOf(course, k) <= N)
      BY <1>2, <1>6, <2>1 DEF WholeIn, Segments
    <3> QED BY <1>2, <1>7, <3>1
  <2>3. ASSUME NEW i \in Arrived' PROVE i = k \/ (i < k /\ i \in Arrived)
    <3>1. i \in 1 .. Len(Segments) /\ Sent(course)[i].whole /\ EndOf(course, i) <= N + 1
      BY <1>6 DEF WholeIn, Segments
    <3>2. i \in Nat /\ k \in Nat /\ Len(Segments) \in Nat
      BY <1>1, <2>2, <3>1, SegmentIs DEF Segments
    <3>3. CASE k < i
      <4>1. EndOf(course, k) < EndOf(course, i) /\ EndOf(course, i) \in Nat
        BY <1>1, <2>2, <3>1, <3>3, WholeEnds DEF Segments
      <4> QED BY <1>2, <2>2, <3>1, <4>1
    <3>4. CASE i < k
      <4>1. EndOf(course, i) < EndOf(course, k) /\ EndOf(course, i) \in Nat
        BY <1>1, <2>2, <3>1, <3>4, WholeEnds DEF Segments
      <4>2. EndOf(course, i) <= N
        BY <1>2, <2>2, <4>1
      <4> QED BY <1>2, <3>1, <3>4, <4>2 DEF WholeIn, Segments
    <3> QED BY <3>2, <3>3, <3>4
  <2>4. Arrived' = Arrived \cup {k} /\ \A i \in Arrived : i < k
    BY <1>8, <2>1, <2>3
  <2>5. delivered' = delivered \cup {FrameAt(course, k)}
    BY <1>2, <1>6, <2>4
  <2>6. FrameAt(course, k) \notin delivered
    <3> SUFFICES ASSUME NEW i \in Arrived, FrameAt(course, k) = FrameAt(course, i)
                 PROVE  FALSE
      BY <1>2
    <3>1. FrameAt(course, k).at = EndOf(course, k) /\ FrameAt(course, i).at = EndOf(course, i)
      BY DEF FrameAt
    <3>2. EndOf(course, i) <= N
      BY <1>2 DEF WholeIn
    <3> QED BY <1>2, <2>2, <3>1, <3>2
  <2>7. FP!Payload(FrameAt(course, k).frame) = C!PayloadOf(Segments[k].message)
    <3> DEFINE m == Segments[k].message
    <3>1. IsMessage(m)
      BY <1>1, <2>2, WholeFrame DEF Segments
    <3>2. FrameAt(course, k).frame = C!FrameOf(m)
      BY DEF FrameAt, Segments
    <3>3. SubSeq(C!FrameOf(m), 2, Len(C!FrameOf(m)) - 4) = C!PayloadOf(m)
      BY <3>1, FrameIs
    <3> QED BY <3>2, <3>3 DEF FP!Payload
  <2>8. \A d \in delivered' \ delivered : d = FrameAt(course, k)
    BY <2>5
  <2>9. delivered' # delivered
    BY <2>5, <2>6
  <2> QED BY <2>1, <2>2, <2>4, <2>7, <2>8, <2>9
<1> QED BY <1>9, <1>10

-----------------------------------------------------------------------------
(* What the server takes *)

\* The messages of some segments are a sequence, and one behind them comes last.
LEMMA InOrderMore ==
    ASSUME course \in Courses, NEW S \in SUBSET (1 .. Len(Segments)),
           NEW k \in 1 .. Len(Segments), \A i \in S : i < k
    PROVE  /\ InOrder(S \cup {k}) = InOrder(S) \o <<Meaning(k)>>
           /\ InOrder(S) \o <<>> = InOrder(S)
           /\ InOrder({}) = <<>>
<1> DEFINE n == Len(Segments)
           s == [i \in 1 .. n |-> Meaning(i)]
           A == {s[i] : i \in S} \cup {s[k]}
<1>1. n \in Nat /\ DOMAIN Segments = 1 .. n
  BY SegmentIs DEF Segments
<1>2. InOrder(S) = C!At(s, S) /\ InOrder(S \cup {k}) = C!At(s, S \cup {k})
      /\ InOrder({}) = C!At(s, {})
  BY <1>1 DEF InOrder
<1>3. S \in SUBSET Nat /\ IsFiniteSet(S) /\ k \in Nat
  <2>1. IsFiniteSet(1 .. n)
    BY <1>1, CountTo
  <2>2. S \subseteq 1 .. n /\ 1 .. n \subseteq Nat /\ k \in Nat
    BY <1>1
  <2> HIDE DEF n
  <2>3. IsFiniteSet(S)
    BY <2>1, <2>2, FS_Subset
  <2> QED BY <2>2, <2>3
<1>4. s[k] = Meaning(k)
  OBVIOUS
<1> HIDE DEF s
<1>5. C!At(s, S \cup {k}) = Append(C!At(s, S), s[k])
  BY <1>3, AtBehind, SMTT(40), ZenonT(40)
<1>6. C!At(s, S) \in Seq(A)
  BY <1>3, AtIsSequence
<1>7. s[k] \in A
  OBVIOUS
<1> DEFINE h == C!At(s, S)
<1> HIDE DEF A, h
<1>8. Append(h, s[k]) = h \o <<s[k]>> /\ h \o <<>> = h
  BY <1>6, <1>7 DEF h
<1> QED BY <1>2, <1>4, <1>5, <1>8, AtNone DEF h

\* The segments heard of, and those the server is told.
Heard == {j \in Arrived : Understood(j)}
Kept  == {i \in Arrived : Understood(i) /\ SameNode(i) /\ ~Untold(i)}

\* The connection is bound to the first one heard of.
BoundInv == /\ Heard = {} => bound = NoId
            /\ \A j \in Heard : (\A k \in Heard : j <= k) => bound = Segments[j].message.id

\* So that it tells who is the same node.
LEMMA BoundTells ==
    ASSUME BoundInv, Arrived \subseteq Nat, Heard # {}
    PROVE  /\ \E j \in Heard : (\A k \in Heard : j <= k) /\ bound = Segments[j].message.id
           /\ \A i : SameNode(i) <=> Segments[i].message.id = bound
<1>1. Heard \in SUBSET Nat
  BY DEF Heard
<1>2. PICK j \in Heard : \A k \in Heard : j <= k
  BY <1>1, Least
<1>3. bound = Segments[j].message.id
  BY <1>2 DEF BoundInv
<1>4. ASSUME NEW x \in Heard, \A k \in Heard : x <= k PROVE x = j
  BY <1>1, <1>2, <1>4
<1>5. \A i : SameNode(i) <=> \A x \in Heard : (\A k \in Heard : x <= k)
                                => Segments[i].message.id = Segments[x].message.id
  BY DEF SameNode, Heard
<1>6. \A i : SameNode(i) <=> Segments[i].message.id = bound
  BY <1>2, <1>3, <1>4, <1>5
<1> QED BY <1>2, <1>3, <1>6

\* Within a course nothing about the messages changes.
LEMMA SameMessages ==
    ASSUME course' = course
    PROVE  /\ Segments' = Segments /\ (Framed' <=> Framed)
           /\ \A i : /\ Meaning(i)' = Meaning(i)
                     /\ Understood(i)' <=> Understood(i)
                     /\ Untold(i)' <=> Untold(i)
           /\ \A S : /\ C!At([i \in DOMAIN Segments' |-> Meaning(i)'], S) = InOrder(S)
<1>1. Segments' = Segments /\ (Framed' <=> Framed)
  BY DEF Segments, Framed
<1>2. \A i : /\ Meaning(i)' = Meaning(i)
             /\ Understood(i)' <=> Understood(i)
             /\ Untold(i)' <=> Untold(i)
  BY <1>1 DEF Meaning, Understood, Untold
<1> QED BY <1>1, <1>2 DEF InOrder

\* A number behind the others is not the least of them.
LEMMA LeastStays ==
    ASSUME NEW H \in SUBSET Nat, NEW k \in Nat, \A i \in H : i < k
    PROVE  /\ k \notin H /\ k <= k
           /\ \A j \in H : (\A h \in H : j <= h) =>
                 /\ \A h \in H \cup {k} : j <= h
                 /\ \A i \in H \cup {k} : (\A h \in H \cup {k} : i <= h) => i = j
OBVIOUS

\* Places are numbers.
LEMMA PlacesAreNumbers == \A n \in Nat : 1 .. n \subseteq Nat
OBVIOUS

\* One more message arrives: the server takes it if it is told, or takes nothing.
LEMMA OneMore ==
    ASSUME course \in Courses, course' = course, Arrived \subseteq 1 .. Len(Segments),
           BoundInv, handled = InOrder(Kept),
           NEW k \in 1 .. Len(Segments), \A i \in Arrived : i < k, Arrived' = Arrived \cup {k},
           NEW x, Upstream(x),
           x = IF Understood(k) THEN Meaning(k) ELSE Malformed,
           Understood(k) => /\ x # Malformed /\ x.id = Segments[k].message.id
                            /\ x.id \notin {NoId, ""}
                            /\ Taken(x) = IF Untold(k) THEN <<>> ELSE <<Meaning(k)>>,
           \A j \in Arrived : Segments[j].message.id # NoId
    PROVE  BoundInv' /\ (handled = InOrder(Kept))'
<1>1. /\ Segments' = Segments
      /\ \A i : /\ Meaning(i)' = Meaning(i)
                /\ Understood(i)' <=> Understood(i)
                /\ Untold(i)' <=> Untold(i)
      /\ \A S : C!At([i \in DOMAIN Segments' |-> Meaning(i)'], S) = InOrder(S)
  BY SameMessages
<1>2. InOrder(Kept)' = InOrder(Kept')
  BY <1>1 DEF InOrder
<1>3. Heard' = {j \in Arrived \cup {k} : Understood(j)}
  BY <1>1 DEF Heard
<1>4. Kept' = {i \in Arrived \cup {k} : Understood(i) /\ SameNode(i)' /\ ~Untold(i)}
  BY <1>1 DEF Kept
<1>5. \A i : SameNode(i)' <=> \A j \in Heard' : (\A h \in Heard' : j <= h)
                                => Segments[i].message.id = Segments[j].message.id
  BY <1>1 DEF SameNode, Heard
<1>6. BoundInv' <=> /\ Heard' = {} => bound' = NoId
                    /\ \A j \in Heard' : (\A h \in Heard' : j <= h)
                                            => bound' = Segments[j].message.id
  BY <1>1 DEF BoundInv
<1>7. Kept \subseteq 1 .. Len(Segments) /\ \A i \in Kept : i < k
  BY DEF Kept
<1>8. /\ InOrder(Kept \cup {k}) = InOrder(Kept) \o <<Meaning(k)>>
      /\ InOrder(Kept) \o <<>> = InOrder(Kept)
  BY <1>7, InOrderMore
<1>9. 1 .. Len(Segments) \subseteq Nat /\ k \notin Arrived
  <2>1. Len(Segments) \in Nat
    BY SegmentIs DEF Segments
  <2>2. 1 .. Len(Segments) \subseteq Nat
    BY <2>1, PlacesAreNumbers
  <2>3. Arrived \in SUBSET Nat /\ k \in Nat
    BY <2>2
  <2>4. k \notin Arrived
    BY <2>3, LeastStays
  <2> QED BY <2>2, <2>4
<1>10. CASE ~Understood(k)
  <2>1. bound' = bound /\ handled' = handled
    BY <1>10 DEF Upstream
  <2>2. Heard' = Heard
    BY <1>3, <1>10 DEF Heard
  <2>3. \A i : SameNode(i)' <=> SameNode(i)
    BY <1>5, <2>2 DEF SameNode, Heard
  <2>4. Kept' = Kept
    BY <1>4, <1>10, <2>3 DEF Kept
  <2>5. BoundInv'
    BY <1>6, <2>1, <2>2 DEF BoundInv
  <2> QED BY <1>2, <2>1, <2>4, <2>5
<1>11. CASE Understood(k)
  <2> DEFINE id(i) == Segments[i].message.id
  <2>1. /\ x # Malformed /\ x.id = id(k) /\ x.id # NoId /\ x.id # ""
        /\ Taken(x) = IF Untold(k) THEN <<>> ELSE <<Meaning(k)>>
    BY <1>11
  <2>2. Forwards(x)
    BY <2>1 DEF Upstream
  <2>3. Heard' = Heard \cup {k}
    BY <1>3, <1>11 DEF Heard
  <2>4. /\ k <= k
        /\ \A j \in Heard : (\A h \in Heard : j <= h) =>
              /\ \A h \in Heard \cup {k} : j <= h
              /\ \A i \in Heard \cup {k} : (\A h \in Heard \cup {k} : i <= h) => i = j
    <3>1. Heard \in SUBSET Nat /\ k \in Nat /\ \A i \in Heard : i < k
      BY <1>9 DEF Heard
    <3> QED BY <3>1, LeastStays
  <2>5. CASE Heard = {}
    <3>1. bound = NoId
      BY <2>5 DEF BoundInv
    <3>2. bound' = id(k) /\ handled' = handled \o Taken(x)
      BY <2>1, <2>2, <3>1 DEF Forwards
    <3>3. Heard' = {k}
      BY <2>3, <2>5
    <3>4. BoundInv'
      BY <1>6, <3>2, <3>3
    <3>5. \A i : SameNode(i)' <=> id(i) = id(k)
      <4>1. \A h \in Heard' : k <= h
        BY <2>4, <3>3
      <4> QED BY <1>5, <3>3, <4>1
    <3>6. Kept = {} /\ Kept' = IF Untold(k) THEN {} ELSE {k}
      BY <1>4, <1>11, <2>5, <3>5 DEF Kept, Heard
    <3>7. Kept' = IF Untold(k) THEN Kept ELSE Kept \cup {k}
      BY <3>6
    <3>8. handled' = InOrder(Kept')
      BY <1>8, <2>1, <3>2, <3>7
    <3> QED BY <1>2, <3>4, <3>8
  <2>6. CASE Heard # {}
    <3>1. PICK j \in Heard : (\A h \in Heard : j <= h) /\ bound = id(j)
      BY <1>9, <2>6, BoundTells
    <3>2. \A i : SameNode(i) <=> id(i) = bound
      BY <1>9, <2>6, BoundTells
    <3>3. bound # NoId /\ j \in Arrived
      BY <3>1 DEF Heard
    <3>4. \A h \in Heard' : j <= h
      BY <2>3, <2>4, <3>1
    <3>5. \A i \in Heard' : (\A h \in Heard' : i <= h) => i = j
      BY <2>3, <2>4, <3>1
    <3>6. bound' = bound
      BY <2>1, <2>2, <3>3 DEF Forwards
    <3>7. BoundInv'
      BY <1>6, <2>3, <3>1, <3>5, <3>6
    <3>8. \A i : SameNode(i)' <=> id(i) = bound
      BY <1>5, <2>3, <3>1, <3>4, <3>5
    <3>9. Kept' = IF id(k) = bound /\ ~Untold(k) THEN Kept \cup {k} ELSE Kept
      BY <1>4, <1>11, <3>2, <3>8 DEF Kept
    <3>10. handled' = IF id(k) = bound THEN handled \o Taken(x) ELSE handled
      BY <2>1, <2>2, <3>3 DEF Forwards
    <3>11. handled' = InOrder(Kept')
      BY <1>8, <2>1, <3>9, <3>10
    <3> QED BY <1>2, <3>7, <3>11
  <2> QED BY <2>5, <2>6
<1> QED BY <1>10, <1>11

\* The message as the other side has it is one that the server is told, or not.
LEMMA TakenIsMeaning ==
    ASSUME course \in Courses, course.leg \in {"serial", "wifi"},
           NEW k \in 1 .. Len(Segments), Understood(k)
    PROVE  LET m == Segments[k].message
               x == Meaning(k)
           IN  /\ x = C!Message(m.type, m.id,
                                IF Framed THEN m.seq % SequenceLimit ELSE m.seq, m.fields)
               /\ x # Malformed /\ x.id = m.id /\ x.id \notin {NoId, ""}
               /\ Taken(x) = IF Untold(k) THEN <<>> ELSE <<x>>
<1> DEFINE m == Segments[k].message
           n == IF Framed THEN m.seq % SequenceLimit ELSE m.seq
           x == C!Message(m.type, m.id, n, m.fields)
<1>1. m \in Messages /\ IsMessage(m) /\ Segments[k] \in ToSet(course.segments)
  <2>1. Segments[k] \in ToSet(course.segments)
    BY SegmentIs DEF Segments
  <2> QED BY <2>1, MessageOf
<1>2. m.type \in {"DATA", "ACK", "NACK"} /\ Legible(m)
  BY DEF Understood, Legible
<1>3. m = C!Message(m.type, m.id, m.seq, m.fields) /\ IsUpstream(m) /\ m.id \notin {NoId, ""}
  BY <1>1, <1>2, MessageOf, MessagesAssumption
<1>4. n \in Nat
  <2> HIDE DEF m
  <2>1. m.seq \in Nat /\ SequenceLimit \in Nat \ {0}
    BY <1>1, ProtocolAssumption DEF IsMessage
  <2>2. \A a \in Nat, b \in Nat \ {0} : a % b \in Nat
    OBVIOUS
  <2>3. m.seq % SequenceLimit \in Nat
    BY <2>1, <2>2
  <2> QED BY <2>1, <2>3
<1>5. Meaning(k) = x
  <2> HIDE DEF m
  <2>1. \A q : [C!Message(m.type, m.id, m.seq, m.fields) EXCEPT !.seq = q]
                  = C!Message(m.type, m.id, q, m.fields)
    BY DEF C!Message
  <2>2. m = C!Message(m.type, m.id, m.seq, m.fields)
    BY <1>3
  <2>3. \A q : [m EXCEPT !.seq = q] = C!Message(m.type, m.id, q, m.fields)
    BY <2>1, <2>2
  <2>4. Meaning(k) = IF Framed THEN [m EXCEPT !.seq = m.seq % SequenceLimit] ELSE m
    BY DEF Meaning, m
  <2> QED BY <2>2, <2>3, <2>4
<1> HIDE DEF n
<1>6. x.type = m.type /\ x.id = m.id /\ x.seq = n /\ x.fields = m.fields
  BY DEF C!Message
<1> HIDE DEF m, x
<1>7. IsMessage(x) /\ IsUpstream(x) /\ Legible(x) /\ x.type \in {"DATA", "ACK", "NACK"}
      /\ x = C!Message(x.type, x.id, x.seq, x.fields)
  BY <1>1, <1>2, <1>3, <1>4, <1>6 DEF IsMessage, IsUpstream, Legible, x
<1>8. Malformed # x /\ Malformed # C!ObjectOf(x)
  <2>1. n \in UNION {{y.seq, y.seq % SequenceLimit} : y \in Messages}
    BY <1>1 DEF n, m
  <2> DEFINE Q == UNION {{y.seq, y.seq % SequenceLimit} : y \in Messages}
  <2>2. n \in Q
    BY <2>1
  <2>3. Exchanged = NodeAnswers \cup {C!Message(z.type, z.id, q, z.fields) : z \in Messages, q \in Q}
    BY DEF Exchanged
  <2> HIDE DEF Q
  <2>4. m \in Messages
    BY <1>1 DEF m
  <2>5. x \in Exchanged
    BY <2>2, <2>3, <2>4 DEF x
  <2>6. x.type # "CMD"
    BY <1>7
  <2> QED BY <2>5, <2>6, MalformedAssumption
<1>9. Taken(x) = IF Unspeakable(x) THEN <<>> ELSE <<x>>
  BY <1>7, <1>8, TakenAsItIs, ProtocolAssumption
<1>10. Unspeakable(x) <=> Untold(k)
  BY <1>6 DEF Unspeakable, Untold, m
<1> QED BY <1>3, <1>5, <1>6, <1>8, <1>9, <1>10 DEF m, n, x

\* What the gateway makes of a node's frame.
LEMMA FrameMeaning ==
    ASSUME course \in Courses, course.leg = "serial", NEW k \in 1 .. Len(Segments)
    PROVE  OnFrame(C!PayloadOf(Segments[k].message))
              = IF Understood(k) THEN Meaning(k) ELSE Malformed
<1> DEFINE m == Segments[k].message
           p == C!PayloadOf(m)
<1>1. m \in Messages /\ IsMessage(m)
      /\ (m.type = "NACK" => Len(m.fields) = 1 /\ m.fields[1][1] = "ERR")
  <2>1. Segments[k] \in ToSet(course.segments)
    BY SegmentIs DEF Segments
  <2> QED BY <2>1, MessageOf, MessagesAssumption
<1>2. Framed
  BY DEF Framed
<1>3. Understood(k) <=> m.type \in {"DATA", "ACK", "NACK"} /\ Legible(m)
  BY DEF Understood, Legible
<1>4. Understood(k) => Meaning(k) = C!Message(m.type, m.id, m.seq % SequenceLimit, m.fields)
  BY <1>2, TakenIsMeaning
<1>5. C!FrameType(p) = IF m.type \in {"DATA", "CMD", "ACK", "NACK"} THEN m.type ELSE "UNKNOWN"
  BY <1>1, TypeOfPayload
<1>6. \A t : C!ParseFrame(p, t) = IF m.type = t /\ Legible(m)
                                  THEN C!Message(t, m.id, m.seq % SequenceLimit, m.fields)
                                  ELSE Malformed
  BY <1>1, ParsedPayload, ProtocolAssumption
<1> HIDE DEF p, m
<1>7. CASE m.type \in {"DATA", "ACK", "NACK"}
  <2>1. OnFrame(p) = C!ParseFrame(p, m.type)
    BY <1>5, <1>7 DEF OnFrame
  <2> QED BY <1>3, <1>4, <1>6, <1>7, <2>1 DEF p, m
<1>8. CASE m.type \notin {"DATA", "ACK", "NACK"}
  <2>1. OnFrame(p) = Malformed
    BY <1>5, <1>8 DEF OnFrame
  <2> QED BY <1>3, <1>8, <2>1 DEF p, m
<1> QED BY <1>7, <1>8

\* Before anything is read nothing has arrived.
LEMMA NothingYet ==
    ASSUME Init, PathInv
    PROVE  LineInv /\ (Framed => Arrived = {})
<1>1. /\ course \in Courses /\ stream = Stream(Sent(course)) /\ stream \in Seq(OnLineUnits)
      /\ received = <<>> /\ arrived = <<>> /\ pending = <<>>
  BY DEF Init, PathInv, FP!Init, LR!Init
<1>2. \A s \in Seq(OnLineUnits) : <<>> \o s = s
  OBVIOUS
<1>3. LineInv
  BY <1>1, <1>2 DEF LineInv
<1>4. ASSUME Framed PROVE Arrived = {}
  <2>1. Arrived = WholeIn(course, Len(received)) /\ Len(received) = 0
    BY <1>1, <1>3, <1>4, DeliveredAre
  <2>2. course.leg # "wifi"
    BY <1>4 DEF Framed
  <2>3. ASSUME NEW k \in WholeIn(course, 0) PROVE FALSE
    <3>1. k \in 1 .. Len(course.segments) /\ Sent(course)[k].whole /\ EndOf(course, k) <= 0
      BY <2>3 DEF WholeIn
    <3>2. /\ EndOf(course, k - 1) \in Nat /\ EndOf(course, k) \in Nat
          /\ EndOf(course, k - 1) + 1 < EndOf(course, k)
      BY <1>1, <2>2, <3>1, WholeIsIntact
    <3> QED BY <3>1, <3>2
  <2> QED BY <2>1, <2>3
<1> QED BY <1>3, <1>4

\* What leaves the course, what arrived, the name and the messages as they are.
LEMMA SameHandled ==
    ASSUME course' = course, Arrived' = Arrived, bound' = bound, handled' = handled,
           BoundInv, handled = InOrder(Kept)
    PROVE  BoundInv' /\ (handled = InOrder(Kept))'
<1>1. /\ Segments' = Segments
      /\ \A i : /\ Meaning(i)' = Meaning(i)
                /\ Understood(i)' <=> Understood(i)
                /\ Untold(i)' <=> Untold(i)
      /\ \A S : C!At([i \in DOMAIN Segments' |-> Meaning(i)'], S) = InOrder(S)
  BY SameMessages
<1>2. InOrder(Kept)' = InOrder(Kept')
  BY <1>1 DEF InOrder
<1>3. Heard' = Heard
  BY <1>1 DEF Heard
<1>4. \A i : SameNode(i)' <=> \A j \in Heard' : (\A h \in Heard' : j <= h)
                                => Segments[i].message.id = Segments[j].message.id
  BY <1>1 DEF SameNode, Heard
<1>5. \A i : SameNode(i)' <=> SameNode(i)
  BY <1>3, <1>4 DEF SameNode, Heard
<1>6. Kept' = Kept
  BY <1>1, <1>5 DEF Kept
<1>7. BoundInv'
  BY <1>1, <1>3 DEF BoundInv
<1> QED BY <1>2, <1>6, <1>7

\* With nothing arrived.
LEMMA NothingHandled ==
    ASSUME course \in Courses, Arrived = {}, bound = NoId, handled = <<>>
    PROVE  BoundInv /\ handled = InOrder(Kept)
<1>1. Heard = {} /\ Kept = {}
  BY DEF Heard, Kept
<1>2. InOrder({}) = <<>>
  BY AtNone DEF InOrder
<1> QED BY <1>1, <1>2 DEF BoundInv

\* What arrived is some of the segments, and their senders have names.
LEMMA ArrivedAre ==
    ASSUME course \in Courses, sent = Sent(course)
    PROVE  /\ Arrived \subseteq 1 .. Len(Segments)
           /\ \A j \in Arrived : Segments[j].message.id # NoId
<1>1. Arrived \subseteq 1 .. Len(Segments)
  BY SegmentIs DEF Arrived, Segments
<1>2. \A j \in 1 .. Len(Segments) : Segments[j].message \in Messages
  BY SegmentIs, MessageOf DEF Segments
<1> QED BY <1>1, <1>2, MessagesAssumption

-----------------------------------------------------------------------------
(* The serial line *)

\* On the serial line the server has exactly what it should.
SerialInv == course.leg = "serial" => BoundInv /\ handled = InOrder(Kept)

\* A unit from the serial line keeps that; the other steps are of other legs.
LEMMA SerialStep ==
    ASSUME PathInv, LineInv, SerialInv, [Next]_vars
    PROVE  SerialInv'
<1>0. course' = course /\ course \in Courses
  BY DEF Next, vars, FrameUnit, WifiRead, WifiLine, Done, PathInv
<1> SUFFICES ASSUME course.leg = "serial" PROVE BoundInv' /\ (handled = InOrder(Kept))'
  BY <1>0 DEF SerialInv
<1>1. BoundInv /\ handled = InOrder(Kept)
  BY DEF SerialInv
<1>2. Framed
  BY DEF Framed
<1>3. CASE UNCHANGED vars
  <2>1. Arrived' = Arrived /\ bound' = bound /\ handled' = handled
    BY <1>3 DEF vars, Arrived, Framed, LR!Before, frames, texts
  <2> QED BY <1>0, <1>1, <2>1, SameHandled
<1>4. CASE WifiRead
  BY <1>4 DEF WifiRead
<1>5. CASE WifiLine
  <2>1. pending # <<>>
    BY <1>5 DEF WifiLine, LR!TakesLine, LR!LP!HasLine
  <2> QED BY <1>2, <2>1 DEF LineInv
<1>6. CASE FrameUnit
  <2>1. \/ delivered' = delivered /\ UNCHANGED <<bound, executed, handled>>
        \/ \E d \in delivered' \ delivered : Upstream(OnFrame(FP!Payload(d.frame)))
    BY <1>6 DEF FrameUnit
  <2>2. CASE delivered' = delivered /\ Arrived' = Arrived
    BY <1>0, <1>1, <2>1, <2>2, SameHandled
  <2>3. CASE \E k \in 1 .. Len(Segments) :
                /\ Sent(course)[k].whole /\ k \notin Arrived /\ \A i \in Arrived : i < k
                /\ Arrived' = Arrived \cup {k}
                /\ delivered' # delivered
                /\ \A d \in delivered' \ delivered :
                      FP!Payload(d.frame) = C!PayloadOf(Segments[k].message)
    <3>1. PICK k \in 1 .. Len(Segments) :
                /\ Sent(course)[k].whole /\ k \notin Arrived /\ \A i \in Arrived : i < k
                /\ Arrived' = Arrived \cup {k}
                /\ delivered' # delivered
                /\ \A d \in delivered' \ delivered :
                      FP!Payload(d.frame) = C!PayloadOf(Segments[k].message)
      BY <2>3
    <3> DEFINE x == OnFrame(C!PayloadOf(Segments[k].message))
    <3>2. Upstream(x)
      BY <2>1, <3>1
    <3>3. x = IF Understood(k) THEN Meaning(k) ELSE Malformed
      BY <1>0, FrameMeaning
    <3>4. Understood(k) =>
             /\ Meaning(k) # Malformed /\ Meaning(k).id = Segments[k].message.id
             /\ Meaning(k).id \notin {NoId, ""}
             /\ Taken(Meaning(k)) = IF Untold(k) THEN <<>> ELSE <<Meaning(k)>>
      BY <1>0, TakenIsMeaning
    <3>5. Arrived \subseteq 1 .. Len(Segments)
          /\ \A j \in Arrived : Segments[j].message.id # NoId
      BY <1>0, ArrivedAre DEF PathInv
    <3> HIDE DEF x
    <3>6. Understood(k) => /\ x # Malformed /\ x.id = Segments[k].message.id
                           /\ x.id \notin {NoId, ""}
                           /\ Taken(x) = IF Untold(k) THEN <<>> ELSE <<Meaning(k)>>
      BY <3>3, <3>4
    <3>7. \A i \in Arrived : i < k
      BY <3>1
    <3>8. Arrived' = Arrived \cup {k}
      BY <3>1
    <3> QED BY <1>0, <1>1, <3>2, <3>3, <3>5, <3>6, <3>7, <3>8, OneMore
  <2> QED BY <1>6, <2>2, <2>3, FrameArrives
<1> QED BY <1>3, <1>4, <1>5, <1>6 DEF Next, Done

-----------------------------------------------------------------------------
(* The node that executes commands *)

\* An acknowledgement or a refusal.
LEMMA AnswerIs ==
    ASSUME NEW a \in NodeAnswers
    PROVE  /\ a.seq \in 0 .. SequenceLimit - 1 /\ a.id = NodeId
           /\ a = C!Message(a.type, a.id, a.seq, a.fields)
           /\ \/ a.type = "ACK" /\ \E led \in {"0", "1"} : a.fields = <<<<"LED", led>>>>
              \/ a.type = "NACK" /\ \E why \in {"sim_fault", "bad_cmd", "unsupported_cmd",
                                               "invalid_led"} : a.fields = <<<<"ERR", why>>>>
<1>1. CASE \E n \in 0 .. SequenceLimit - 1, led \in {"0", "1"} :
              a = C!Message("ACK", NodeId, n, <<<<"LED", led>>>>)
  BY <1>1 DEF C!Message
<1>2. CASE \E n \in 0 .. SequenceLimit - 1,
              why \in {"sim_fault", "bad_cmd", "unsupported_cmd", "invalid_led"} :
              a = Refusal(n, why)
  BY <1>2 DEF Refusal, C!Message
<1> QED BY <1>1, <1>2 DEF NodeAnswers

\* What its field is.
LEMMA AnswerField ==
    ASSUME NEW a \in NodeAnswers
    PROVE  /\ Len(a.fields) = 1 /\ DOMAIN a.fields = {1}
           /\ a.fields[1] = <<a.fields[1][1], a.fields[1][2]>>
           /\ a.fields \in Seq(ToSet(a.fields))
           /\ a.fields[1][1] = IF a.type = "ACK" THEN "LED" ELSE "ERR"
           /\ a.fields[1][2] \in {"0", "1", "sim_fault", "bad_cmd", "unsupported_cmd",
                                  "invalid_led"}
           /\ a.type \in {"ACK", "NACK"}
<1>1. PICK k \in {"LED", "ERR"}, v \in {"0", "1", "sim_fault", "bad_cmd", "unsupported_cmd",
                                       "invalid_led"} :
         /\ a.fields = <<<<k, v>>>> /\ k = IF a.type = "ACK" THEN "LED" ELSE "ERR"
         /\ a.type \in {"ACK", "NACK"}
  BY AnswerIs
<1> DEFINE f == <<<<k, v>>>>
<1>2. /\ Len(f) = 1 /\ DOMAIN f = {1} /\ f[1] = <<k, v>> /\ f[1][1] = k /\ f[1][2] = v
  OBVIOUS
<1>3. f \in Seq(ToSet(f))
  <2>1. f \in Seq({<<k, v>>})
    OBVIOUS
  <2>2. ToSet(f) = {<<k, v>>}
    BY <1>2 DEF ToSet
  <2> QED BY <2>1, <2>2
<1>4. a.fields = f
  BY <1>1
<1> HIDE DEF f
<1> QED BY <1>1, <1>2, <1>3, <1>4

\* It goes through the gateway to the server as it is.
LEMMA AnswerIsTaken ==
    ASSUME NEW a \in NodeAnswers
    PROVE  Taken(OnFrame(C!PayloadOf(a))) = <<a>>
<1> DEFINE p == C!PayloadOf(a)
<1>1. /\ a.seq \in 0 .. SequenceLimit - 1 /\ a.id = NodeId
      /\ a = C!Message(a.type, a.id, a.seq, a.fields)
  BY AnswerIs
<1>2. /\ Len(a.fields) = 1 /\ DOMAIN a.fields = {1}
      /\ a.fields[1] = <<a.fields[1][1], a.fields[1][2]>>
      /\ a.fields \in Seq(ToSet(a.fields))
      /\ a.fields[1][1] = IF a.type = "ACK" THEN "LED" ELSE "ERR"
      /\ a.fields[1][2] \in {"0", "1", "sim_fault", "bad_cmd", "unsupported_cmd",
                             "invalid_led"}
      /\ a.type \in {"ACK", "NACK"}
  BY AnswerField
<1>3. /\ {"ACK", "NACK", "LED", "ERR", "0", "1", NodeId, "sim_fault", "bad_cmd",
          "unsupported_cmd", "invalid_led"} \cap (Long \cup Reserved \cup {""}) = {}
      /\ SequenceLimit \in Nat \ {0} /\ MaxFields \in Nat \ {0}
      /\ JsonMax \in Nat /\ JsonHead \in Nat /\ JsonField \in Nat
      /\ JsonHead + JsonField < JsonMax
  BY ProtocolAssumption
<1>4. IsMessage(a)
  <2>1. a.seq \in Nat
    <3>1. \A b \in Nat \ {0} : \A n \in 0 .. b - 1 : n \in Nat
      OBVIOUS
    <3>2. a.seq \in 0 .. SequenceLimit - 1 /\ SequenceLimit \in Nat \ {0}
      BY <1>1, <1>3
    <3> QED BY <3>1, <3>2
  <2>2. \A i \in DOMAIN a.fields : a.fields[i] = <<a.fields[i][1], a.fields[i][2]>>
    BY <1>2
  <2> QED BY <1>2, <2>1, <2>2 DEF IsMessage
<1>5. Legible(a)
  <2>1. \A b \in Nat \ {0} : 1 <= b
    OBVIOUS
  <2>2. Len(a.fields) <= MaxFields
    BY <1>2, <1>3, <2>1
  <2>3. NodeId \notin Long /\ NodeId \notin {""}
    BY <1>3
  <2>4. /\ "LED" \notin Long \cup {""} /\ "ERR" \notin Long \cup {""}
        /\ \A t \in {"0", "1", "sim_fault", "bad_cmd", "unsupported_cmd", "invalid_led"} :
              t \notin Long \cup {""}
    BY <1>3
  <2>5. a.fields[1][1] \notin Long \cup {""} /\ a.fields[1][2] \notin Long \cup {""}
    BY <1>2, <2>4
  <2>6. \A j \in DOMAIN a.fields : {a.fields[j][1], a.fields[j][2]} \cap C!Unfit = {}
    BY <1>2, <2>5 DEF C!Unfit
  <2> QED BY <1>1, <2>2, <2>3, <2>6 DEF Legible
<1>6. IsUpstream(a)
  BY <1>2, <1>3, <1>4 DEF IsUpstream
<1>7. a.seq % SequenceLimit = a.seq
  <2>1. \A b \in Nat \ {0} : \A n \in 0 .. b - 1 : n % b = n
    OBVIOUS
  <2> QED BY <1>1, <1>3, <2>1
<1>8. C!FrameType(p) = a.type
  BY <1>2, <1>4, TypeOfPayload
<1>9. C!ParseFrame(p, a.type) = a
  <2>1. C!ParseFrame(p, a.type) = C!Message(a.type, a.id, a.seq % SequenceLimit, a.fields)
    BY <1>2, <1>3, <1>4, <1>5, ParsedPayload
  <2> QED BY <1>1, <1>7, <2>1
<1> HIDE DEF p
<1>10. OnFrame(p) = a
  BY <1>2, <1>8, <1>9 DEF OnFrame
<1>11. Malformed \notin {a, C!ObjectOf(a)}
  <2>1. a \in Exchanged /\ a.type # "CMD"
    BY <1>2 DEF Exchanged
  <2> QED BY <2>1, MalformedAssumption
<1>12. Taken(a) = IF Unspeakable(a) THEN <<>> ELSE <<a>>
  BY <1>1, <1>2, <1>3, <1>5, <1>6, <1>11, TakenAsItIs
<1>13. ~Unspeakable(a)
  <2>1. \A x, y, z \in Nat : x + y < z => ~(x + y * 1 >= z)
    OBVIOUS
  <2>2. ~(JsonHead + JsonField * Len(a.fields) >= JsonMax)
    <3>1. ~(JsonHead + JsonField * 1 >= JsonMax)
      BY <1>3, <2>1
    <3> QED BY <1>2, <3>1
  <2>3. a.type # "DATA"
    BY <1>2
  <2> QED BY <2>2, <2>3 DEF Unspeakable
<1> QED BY <1>10, <1>12, <1>13 DEF p

\* Numbers up to one more.
LEMMA OneBehind ==
    /\ \A m, n \in Nat : 1 .. m = 1 .. n => m = n
    /\ \A n \in Nat : \A k : k \in 1 .. n + 1 <=> k \in 1 .. n \/ k = n + 1
<1>1. ASSUME NEW m \in Nat, NEW n \in Nat, 1 .. m = 1 .. n PROVE m = n
  BY <1>1, CountTo
<1>2. \A n \in Nat : \A k : k \in 1 .. n + 1 <=> k \in 1 .. n \/ k = n + 1
  OBVIOUS
<1> QED BY <1>1, <1>2

\* An operator on the members of a sequence that gets one more.
LEMMA SeqsGrow ==
    ASSUME NEW A, NEW h \in Seq(A), NEW a \in A
    PROVE  [k \in DOMAIN Append(h, a) |-> Append(h, a)[k].seq]
              = Append([k \in DOMAIN h |-> h[k].seq], a.seq)
<1> DEFINE S == {h[k].seq : k \in DOMAIN h} \cup {a.seq}
           f == [k \in DOMAIN h |-> h[k].seq]
           g == [k \in DOMAIN Append(h, a) |-> Append(h, a)[k].seq]
<1>1. /\ Len(h) \in Nat /\ DOMAIN h = 1 .. Len(h)
      /\ DOMAIN Append(h, a) = 1 .. Len(h) + 1 /\ Append(h, a)[Len(h) + 1] = a
      /\ \A k \in 1 .. Len(h) : Append(h, a)[k] = h[k]
  OBVIOUS
<1>2. f \in Seq(S) /\ Len(f) = Len(h) /\ a.seq \in S
  <2>1. f \in [1 .. Len(h) -> S]
    BY <1>1
  <2> QED BY <1>1, <2>1
<1>3. g \in Seq(S) /\ Len(g) = Len(h) + 1
  <2>1. \A k \in 1 .. Len(h) + 1 : k \in 1 .. Len(h) \/ k = Len(h) + 1
    BY <1>1
  <2>2. g \in [1 .. Len(h) + 1 -> S]
    BY <1>1, <2>1
  <2> QED BY <1>1, <2>2
<1>4. \A k \in 1 .. Len(h) : g[k] = f[k]
  BY <1>1
<1>5. g[Len(h) + 1] = a.seq
  BY <1>1
<1> HIDE DEF f, g, S
<1>6. /\ Append(f, a.seq) \in Seq(S) /\ Len(Append(f, a.seq)) = Len(h) + 1
      /\ Append(f, a.seq)[Len(h) + 1] = a.seq
      /\ \A k \in 1 .. Len(h) : Append(f, a.seq)[k] = f[k]
  BY <1>1, <1>2
<1>7. \A k \in 1 .. Len(g) : g[k] = Append(f, a.seq)[k]
  <2>1. \A k \in 1 .. Len(h) + 1 : k \in 1 .. Len(h) \/ k = Len(h) + 1
    BY <1>1
  <2> QED BY <1>3, <1>4, <1>5, <1>6, <2>1
<1>8. g = Append(f, a.seq)
  BY <1>3, <1>6, <1>7, SameEverywhere
<1> QED BY <1>8 DEF f, g

\* Acknowledgements and executions that agree still do with one more of each.
LEMMA PairsGrow ==
    ASSUME NEW A, NEW h \in Seq(A), NEW a \in A, NEW B, NEW e \in Seq(B), NEW b \in B,
           [k \in DOMAIN h |-> <<h[k].seq, h[k].fields>>]
              = [k \in DOMAIN e |-> <<e[k].seq, <<<<"LED", e[k].led>>>>>>],
           a.seq = b.seq, a.fields = <<<<"LED", b.led>>>>
    PROVE  [k \in DOMAIN Append(h, a) |-> <<Append(h, a)[k].seq, Append(h, a)[k].fields>>]
              = [k \in DOMAIN Append(e, b) |->
                   <<Append(e, b)[k].seq, <<<<"LED", Append(e, b)[k].led>>>>>>]
<1> DEFINE f == [k \in DOMAIN h |-> <<h[k].seq, h[k].fields>>]
           g == [k \in DOMAIN e |-> <<e[k].seq, <<<<"LED", e[k].led>>>>>>]
           x == Append(h, a)
           y == Append(e, b)
<1>1. DOMAIN h = DOMAIN e
  <2>1. DOMAIN f = DOMAIN h /\ DOMAIN g = DOMAIN e /\ f = g
    OBVIOUS
  <2> HIDE DEF f, g
  <2> QED BY <2>1
<1>2. Len(h) \in Nat /\ DOMAIN h = 1 .. Len(h) /\ Len(e) \in Nat /\ DOMAIN e = 1 .. Len(e)
  OBVIOUS
<1>3. Len(h) = Len(e)
  BY <1>1, <1>2, OneBehind
<1>4. \A k \in 1 .. Len(h) : <<h[k].seq, h[k].fields>> = <<e[k].seq, <<<<"LED", e[k].led>>>>>>
  <2> SUFFICES ASSUME NEW k \in 1 .. Len(h)
               PROVE  <<h[k].seq, h[k].fields>> = <<e[k].seq, <<<<"LED", e[k].led>>>>>>
    OBVIOUS
  <2>1. f[k] = g[k]
    OBVIOUS
  <2>2. f[k] = <<h[k].seq, h[k].fields>>
    BY <1>2
  <2>3. g[k] = <<e[k].seq, <<<<"LED", e[k].led>>>>>>
    BY <1>1, <1>2
  <2> HIDE DEF f, g
  <2> QED BY <2>1, <2>2, <2>3
<1>5. /\ DOMAIN x = 1 .. Len(h) + 1 /\ x[Len(h) + 1] = a
      /\ \A k \in 1 .. Len(h) : x[k] = h[k]
  OBVIOUS
<1>6. /\ DOMAIN y = 1 .. Len(h) + 1 /\ y[Len(h) + 1] = b
      /\ \A k \in 1 .. Len(h) : y[k] = e[k]
  <2>1. /\ DOMAIN y = 1 .. Len(e) + 1 /\ y[Len(e) + 1] = b
        /\ \A k \in 1 .. Len(e) : y[k] = e[k]
    OBVIOUS
  <2> HIDE DEF y
  <2> QED BY <1>3, <2>1
<1> HIDE DEF x, y, f, g
<1>7. ASSUME NEW k \in 1 .. Len(h) + 1
      PROVE  <<x[k].seq, x[k].fields>> = <<y[k].seq, <<<<"LED", y[k].led>>>>>>
  <2>1. k \in 1 .. Len(h) \/ k = Len(h) + 1
    BY <1>2, OneBehind
  <2>2. CASE k \in 1 .. Len(h)
    BY <1>4, <1>5, <1>6, <2>2
  <2>3. CASE k = Len(h) + 1
    BY <1>5, <1>6, <2>3
  <2> QED BY <2>1, <2>2, <2>3
<1>8. [k \in DOMAIN x |-> <<x[k].seq, x[k].fields>>]
         = [k \in DOMAIN y |-> <<y[k].seq, <<<<"LED", y[k].led>>>>>>]
  BY <1>5, <1>6, <1>7
<1> QED BY <1>8 DEF x, y

\* The places of the acknowledgements, and these.
AckPlaces(h) == {k \in DOMAIN h : h[k].type = "ACK"}
Acks(h) == C!At(h, AckPlaces(h))

\* One answer more.
LEMMA AcksGrow ==
    ASSUME NEW A, NEW h \in Seq(A), NEW a \in A
    PROVE  /\ Acks(h) \in Seq(A)
           /\ Acks(Append(h, a)) = IF a.type = "ACK" THEN Append(Acks(h), a) ELSE Acks(h)
<1> DEFINE P == AckPlaces(h)
           g == Append(h, a)
<1>1. /\ Len(h) \in Nat /\ DOMAIN h = 1 .. Len(h) /\ DOMAIN g = 1 .. Len(h) + 1
      /\ g[Len(h) + 1] = a /\ \A k \in 1 .. Len(h) : g[k] = h[k] /\ h[k] \in A
      /\ Len(h) + 1 \in Nat
  OBVIOUS
<1> HIDE DEF g
<1>2. /\ P \subseteq 1 .. Len(h) /\ P \in SUBSET Nat /\ IsFiniteSet(P)
      /\ \A k \in P : k < Len(h) + 1 /\ h[k] = g[k] /\ h[k] \in A
  <2>1. P \subseteq 1 .. Len(h)
    BY <1>1 DEF AckPlaces
  <2>2. 1 .. Len(h) \subseteq Nat /\ \A k \in 1 .. Len(h) : k < Len(h) + 1
    BY <1>1
  <2>3. IsFiniteSet(1 .. Len(h))
    BY <1>1, CountTo
  <2> HIDE DEF P
  <2>4. IsFiniteSet(P)
    BY <2>1, <2>3, FS_Subset
  <2> QED BY <1>1, <2>1, <2>2, <2>4
<1>3. AckPlaces(g) = IF a.type = "ACK" THEN P \cup {Len(h) + 1} ELSE P
  <2>1. \A k : k \in 1 .. Len(h) + 1 <=> k \in 1 .. Len(h) \/ k = Len(h) + 1
    BY <1>1
  <2>2. \A k \in DOMAIN g : k \in AckPlaces(g) <=> g[k].type = "ACK"
    BY DEF AckPlaces
  <2>3. \A k \in AckPlaces(g) : k \in DOMAIN g
    BY DEF AckPlaces
  <2>4. \A k \in DOMAIN h : k \in P <=> h[k].type = "ACK"
    BY DEF AckPlaces
  <2>5. \A k \in P : k \in DOMAIN h
    BY DEF AckPlaces
  <2> HIDE DEF P
  <2>6. \A k : k \in AckPlaces(g) <=> k \in P \/ (k = Len(h) + 1 /\ a.type = "ACK")
    <3>1. Len(h) + 1 \notin 1 .. Len(h)
      BY <1>1
    <3> QED BY <1>1, <2>1, <2>2, <2>3, <2>4, <2>5, <3>1
  <2> QED BY <2>6
<1> HIDE DEF P
<1>4. C!At(h, P) \in Seq(A)
  BY <1>2, AtIsSequence
<1>5. C!At(g, P) = C!At(h, P)
  BY <1>2, AtSame
<1>6. C!At(g, P \cup {Len(h) + 1}) = Append(C!At(h, P), g[Len(h) + 1])
  <2> DEFINE e == Len(h) + 1
  <2>1. e \in Nat /\ \A k \in P : k < e
    BY <1>1, <1>2
  <2>2. P \in SUBSET Nat /\ IsFiniteSet(P) /\ \A k \in P : h[k] = g[k]
    BY <1>2
  <2> HIDE DEF e
  <2> HIDE DEF g
  <2>3. \A s, t : (\A i \in P : s[i] = t[i])
                    => C!At(t, P \cup {e}) = Append(C!At(s, P), t[e])
    <3> SUFFICES ASSUME NEW s, NEW t, \A i \in P : s[i] = t[i]
                 PROVE  C!At(t, P \cup {e}) = Append(C!At(s, P), t[e])
      OBVIOUS
    <3>1. P \in SUBSET Nat /\ IsFiniteSet(P) /\ e \in Nat /\ \A i \in P : i < e
      BY <2>1, <2>2
    <3> QED BY <3>1, AtBehind, SMTT(40), ZenonT(40)
  <2> QED BY <2>2, <2>3 DEF e
<1> QED BY <1>1, <1>3, <1>4, <1>5, <1>6 DEF Acks, P, g

\* What the node may execute: a LED set, under the number of the command.
Executions == [seq : Nat, led : {"0", "1"}]

\* What the command k asks for, and its number in the answers.
AsksFor(k, e) == /\ Meaning(k).seq = e.seq
                 /\ \E f \in ToSet(Segments[k].message.fields) :
                       f[1] = "LED" /\ C!Atoi(f[2]) = e.led
NumberOf(k) == IF Understood(k) THEN Meaning(k).seq ELSE 0

\* A remainder, and a record's field that is replaced.
LEMMA Remainders ==
    ASSUME NEW n \in Nat, SequenceLimit \in Nat \ {0}
    PROVE  n % SequenceLimit \in Nat /\ n % SequenceLimit \in 0 .. SequenceLimit - 1
           /\ 0 \in 0 .. SequenceLimit - 1
OBVIOUS

\* A value that the node finds under LED is the value of a field of that name.
LEMMA LedIsOfAField ==
    ASSUME NEW m, m.fields \in Seq(ToSet(m.fields)), LedOf(m) # Malformed
    PROVE  \E f \in ToSet(m.fields) : f[1] = "LED" /\ f[2] = LedOf(m)
<1> DEFINE S == {i \in DOMAIN m.fields : m.fields[i][1] = "LED"}
           leds == C!At(m.fields, S)
<1>1. DOMAIN m.fields = 1 .. Len(m.fields) /\ Len(m.fields) \in Nat
      /\ \A i \in DOMAIN m.fields : m.fields[i] \in ToSet(m.fields)
  OBVIOUS
<1>2. LedOf(m) = IF leds = <<>> THEN Malformed ELSE leds[1][2]
  BY DEF LedOf
<1>3. S \subseteq 1 .. Len(m.fields)
  BY <1>1
<1>4. \A i \in S : i \in DOMAIN m.fields /\ m.fields[i][1] = "LED"
  OBVIOUS
<1> HIDE DEF S
<1>5. S \in SUBSET Nat /\ IsFiniteSet(S)
  <2>1. 1 .. Len(m.fields) \subseteq Nat
    BY <1>1, PlacesAreNumbers
  <2>2. IsFiniteSet(1 .. Len(m.fields))
    BY <1>1, CountTo
  <2> QED BY <1>3, <2>1, <2>2, FS_Subset
<1>6. S # {}
  <2>1. S = {} => leds = <<>>
    BY AtNone
  <2> HIDE DEF leds
  <2> QED BY <1>2, <2>1
<1>7. Cardinality(S) \in Nat /\ Cardinality(S) # 0
  BY <1>5, <1>6, FS_CardinalityType, FS_EmptySet
<1>8. 1 \in 1 .. Cardinality(S)
  BY <1>7
<1>9. leds[1] = m.fields[C!Nth(S, 1)]
  BY <1>8, AtIs
<1>10. C!Nth(S, 1) \in S
  BY <1>5, <1>8, NthIs
<1> HIDE DEF leds
<1>11. LedOf(m) = m.fields[C!Nth(S, 1)][2]
  BY <1>2, <1>9
<1> QED BY <1>1, <1>4, <1>10, <1>11

\* What the node answers is an answer, which the server takes as it is.
LEMMA Answered ==
    ASSUME NEW a \in NodeAnswers, Answers(a)
    PROVE  handled' = handled \o <<a>>
BY AnswerIsTaken DEF Answers

\* What the node answers is an acknowledgement or a refusal under that number.
LEMMA AnswersOfTheNode ==
    ASSUME NEW n \in 0 .. SequenceLimit - 1
    PROVE  /\ \A led \in {"0", "1"} :
                 LET a == C!Message("ACK", NodeId, n, <<<<"LED", led>>>>)
                 IN  a \in NodeAnswers /\ a.type = "ACK" /\ a.seq = n
                     /\ a.fields = <<<<"LED", led>>>>
           /\ \A why \in {"sim_fault", "bad_cmd", "unsupported_cmd", "invalid_led"} :
                 Refusal(n, why) \in NodeAnswers /\ Refusal(n, why).type = "NACK"
                 /\ Refusal(n, why).seq = n
<1>1. ASSUME NEW led \in {"0", "1"}
      PROVE  LET a == C!Message("ACK", NodeId, n, <<<<"LED", led>>>>)
             IN  a \in NodeAnswers /\ a.type = "ACK" /\ a.seq = n
                 /\ a.fields = <<<<"LED", led>>>>
  <2>1. C!Message("ACK", NodeId, n, <<<<"LED", led>>>>) \in NodeAnswers
    BY DEF NodeAnswers
  <2> QED BY <2>1 DEF C!Message
<1>2. ASSUME NEW why \in {"sim_fault", "bad_cmd", "unsupported_cmd", "invalid_led"}
      PROVE  Refusal(n, why) \in NodeAnswers /\ Refusal(n, why).type = "NACK"
             /\ Refusal(n, why).seq = n
  <2>1. Refusal(n, why) \in NodeAnswers
    BY DEF NodeAnswers
  <2> QED BY <2>1 DEF Refusal, C!Message
<1> QED BY <1>1, <1>2

\* What one frame does at the node, for the message that it was made of.
LEMMA CommandIsAnswered ==
    ASSUME course \in Courses, course.leg = "command", NEW k \in 1 .. Len(Segments),
           OnNodeFrame(C!PayloadOf(Segments[k].message))
    PROVE  \/ /\ Segments[k].message.type # "CMD"
              /\ handled' = handled /\ executed' = executed
           \/ /\ Segments[k].message.type = "CMD"
              /\ \E a \in NodeAnswers :
                    /\ handled' = handled \o <<a>> /\ a.seq = NumberOf(k)
                    /\ \/ a.type = "NACK" /\ executed' = executed
                       \/ \E e \in Executions :
                             /\ a.type = "ACK" /\ a.seq = e.seq
                             /\ a.fields = <<<<"LED", e.led>>>>
                             /\ executed' = Append(executed, e) /\ AsksFor(k, e)
<1> DEFINE m == Segments[k].message
           p == C!PayloadOf(m)
           n == m.seq % SequenceLimit
           x == C!Message("CMD", m.id, n, m.fields)
<1>1. /\ m \in Messages /\ IsMessage(m) /\ "seq" \in DOMAIN m
      /\ (m.type = "NACK" => Len(m.fields) = 1 /\ m.fields[1][1] = "ERR")
  <2>1. Segments[k] \in ToSet(course.segments)
    BY SegmentIs DEF Segments
  <2> QED BY <2>1, MessageOf, MessagesAssumption
<1>2. Framed
  BY DEF Framed
<1>3. Understood(k) <=> m.type = "CMD" /\ Legible(m)
  BY DEF Understood, Legible
<1>4. Meaning(k).seq = n
  <2>1. Meaning(k) = [m EXCEPT !.seq = m.seq % SequenceLimit]
    BY <1>2 DEF Meaning
  <2> HIDE DEF m
  <2> QED BY <1>1, <2>1
<1>5. C!FrameType(p) = IF m.type \in {"DATA", "CMD", "ACK", "NACK"} THEN m.type ELSE "UNKNOWN"
  BY <1>1, TypeOfPayload
<1>6. C!ParseFrame(p, "CMD") = IF m.type = "CMD" /\ Legible(m) THEN x ELSE Malformed
  BY <1>1, ParsedPayload, ProtocolAssumption
<1>7. n \in Nat /\ n \in 0 .. SequenceLimit - 1 /\ 0 \in 0 .. SequenceLimit - 1
  <2>1. m.seq \in Nat /\ SequenceLimit \in Nat \ {0}
    BY <1>1, ProtocolAssumption DEF IsMessage
  <2> HIDE DEF m
  <2> QED BY <2>1, Remainders
<1>8. x.seq = n /\ x.fields = m.fields
  BY DEF C!Message
<1>9. m.type = "CMD" => Malformed # x
  <2> DEFINE Q == UNION {{y.seq, y.seq % SequenceLimit} : y \in Messages}
  <2>1. n \in Q
    BY <1>1
  <2>2. Exchanged = NodeAnswers \cup {C!Message(z.type, z.id, q, z.fields) : z \in Messages, q \in Q}
    BY DEF Exchanged
  <2> HIDE DEF Q, m, n
  <2>3. m.type = "CMD" => x \in Exchanged
    BY <1>1, <2>1, <2>2
  <2> QED BY <2>3, MalformedAssumption
<1>10. OnNodeFrame(p)
  OBVIOUS
<1>11. m.fields \in Seq(ToSet(m.fields))
  BY <1>1 DEF IsMessage
<1> HIDE DEF m, n, p, x
<1>12. CASE C!FrameType(p) # "CMD"
  <2>1. handled' = handled /\ executed' = executed
    BY <1>10, <1>12 DEF OnNodeFrame
  <2>2. m.type # "CMD"
    BY <1>5, <1>12
  <2> QED BY <2>1, <2>2 DEF m
<1>13. CASE C!FrameType(p) = "CMD" /\ C!ParseFrame(p, "CMD") = Malformed
  <2>1. m.type = "CMD"
    BY <1>5, <1>13
  <2>2. Answers(Refusal(0, "bad_cmd")) /\ executed' = executed
    BY <1>10, <1>13 DEF OnNodeFrame
  <2>3. ~Understood(k)
    BY <1>3, <1>6, <1>9, <1>13
  <2>4. NumberOf(k) = 0
    BY <2>3 DEF NumberOf
  <2>5. /\ Refusal(0, "bad_cmd") \in NodeAnswers /\ Refusal(0, "bad_cmd").type = "NACK"
        /\ Refusal(0, "bad_cmd").seq = 0
    BY <1>7, AnswersOfTheNode
  <2>6. handled' = handled \o <<Refusal(0, "bad_cmd")>>
    BY <2>2, <2>5, Answered
  <2> QED BY <2>1, <2>2, <2>4, <2>5, <2>6 DEF m
<1>14. CASE C!FrameType(p) = "CMD" /\ C!ParseFrame(p, "CMD") # Malformed
  <2>1. m.type = "CMD" /\ Understood(k) /\ C!ParseFrame(p, "CMD") = x
    BY <1>3, <1>5, <1>6, <1>14
  <2>2. NumberOf(k) = n
    BY <1>4, <2>1 DEF NumberOf
  <2>3. \/ Answers(Refusal(x.seq, "unsupported_cmd")) /\ executed' = executed
        \/ Answers(Refusal(x.seq, "invalid_led")) /\ executed' = executed
        \/ LedOf(x) # Malformed /\ C!Atoi(LedOf(x)) \in {"0", "1"}
           /\ ExecutesOrFails(x, C!Atoi(LedOf(x)))
    BY <1>10, <1>14, <2>1 DEF OnNodeFrame
  <2>4. ASSUME NEW why \in {"sim_fault", "unsupported_cmd", "invalid_led"},
               Answers(Refusal(x.seq, why)), executed' = executed
        PROVE  \E a \in NodeAnswers : /\ handled' = handled \o <<a>> /\ a.seq = NumberOf(k)
                                      /\ a.type = "NACK" /\ executed' = executed
    <3>1. /\ Refusal(n, why) \in NodeAnswers /\ Refusal(n, why).type = "NACK"
          /\ Refusal(n, why).seq = n
      BY <1>7, AnswersOfTheNode
    <3>2. Answers(Refusal(n, why))
      BY <1>8, <2>4
    <3>3. handled' = handled \o <<Refusal(n, why)>>
      BY <3>1, <3>2, Answered
    <3> QED BY <2>2, <2>4, <3>1, <3>3
  <2>5. ASSUME LedOf(x) # Malformed, C!Atoi(LedOf(x)) \in {"0", "1"},
               executed' = Append(executed, Executed(x, C!Atoi(LedOf(x)))),
               Answers(C!Message("ACK", NodeId, x.seq, <<<<"LED", C!Atoi(LedOf(x))>>>>))
        PROVE  \E a \in NodeAnswers :
                    /\ handled' = handled \o <<a>> /\ a.seq = NumberOf(k)
                    /\ \E e \in Executions :
                             /\ a.type = "ACK" /\ a.seq = e.seq
                             /\ a.fields = <<<<"LED", e.led>>>>
                             /\ executed' = Append(executed, e) /\ AsksFor(k, e)
    <3> DEFINE led == C!Atoi(LedOf(x))
               a == C!Message("ACK", NodeId, n, <<<<"LED", led>>>>)
               e == Executed(x, led)
    <3>1. PICK f \in ToSet(m.fields) : f[1] = "LED" /\ f[2] = LedOf(x)
      BY <1>8, <1>11, <2>5, LedIsOfAField
    <3>2. led \in {"0", "1"} /\ executed' = Append(executed, e)
          /\ Answers(C!Message("ACK", NodeId, x.seq, <<<<"LED", led>>>>))
      BY <2>5
    <3>3. C!Atoi(f[2]) = led
      BY <3>1
    <3> HIDE DEF led
    <3>4. e \in Executions /\ e.seq = n /\ e.led = led
      BY <1>7, <1>8, <3>2 DEF Executions, Executed
    <3>5. a \in NodeAnswers /\ a.type = "ACK" /\ a.seq = n /\ a.fields = <<<<"LED", led>>>>
      BY <1>7, <3>2, AnswersOfTheNode, SMTT(40), ZenonT(40)
    <3>6. Answers(a)
      BY <1>8, <3>2
    <3> HIDE DEF a, e
    <3>7. handled' = handled \o <<a>>
      BY <3>5, <3>6, Answered
    <3>8. AsksFor(k, e)
      BY <1>4, <3>1, <3>3, <3>4 DEF AsksFor, m
    <3> QED BY <2>2, <3>2, <3>4, <3>5, <3>7, <3>8
  <2>6. CASE ExecutesOrFails(x, C!Atoi(LedOf(x)))
             /\ LedOf(x) # Malformed /\ C!Atoi(LedOf(x)) \in {"0", "1"}
    <3>1. \/ /\ executed' = Append(executed, Executed(x, C!Atoi(LedOf(x))))
             /\ Answers(C!Message("ACK", NodeId, x.seq, <<<<"LED", C!Atoi(LedOf(x))>>>>))
          \/ executed' = executed /\ Answers(Refusal(x.seq, "sim_fault"))
      BY <2>6 DEF ExecutesOrFails
    <3> QED BY <2>1, <2>4, <2>5, <2>6, <3>1 DEF m
  <2> QED BY <2>1, <2>3, <2>4, <2>6 DEF m
<1> QED BY <1>12, <1>13, <1>14

-----------------------------------------------------------------------------
(* Commands *)

\* The commands that arrived whole.
Asked == {i \in Arrived : Segments[i].message.type = "CMD"}

\* The three parts of AnswersTellTheTruth: one answer a command, under its number;
\* the acknowledgements are what was executed; and what was executed was asked for.
SeqsAgree == [k \in DOMAIN handled |-> handled[k].seq]
                = C!At([i \in DOMAIN Segments |-> NumberOf(i)], Asked)
AcksAgree == [k \in DOMAIN Acks(handled) |-> <<Acks(handled)[k].seq, Acks(handled)[k].fields>>]
                = [k \in DOMAIN executed |->
                     <<executed[k].seq, <<<<"LED", executed[k].led>>>>>>]
AllAsked  == \A k \in DOMAIN executed : \E i \in Asked : AsksFor(i, executed[k])

\* The invariant of the commands.
Answering == handled \in Seq(NodeAnswers) /\ executed \in Seq(Executions)
             /\ SeqsAgree /\ AcksAgree /\ AllAsked

\* It is one of the leg that carries them.
CommandInv == course.leg = "command" => Answering

\* It depends on the course and on what was asked, answered and executed, and on
\* nothing else.
LEMMA SameAskedAnswers ==
    ASSUME course' = course, Asked' = Asked, handled' = handled, executed' = executed,
           Answering
    PROVE  Answering'
<1>1. /\ Segments' = Segments
      /\ \A i : /\ Meaning(i)' = Meaning(i)
                /\ Understood(i)' <=> Understood(i)
  BY SameMessages
<1>2. Asked' = Asked
  OBVIOUS
<1>3. \A i : NumberOf(i)' = NumberOf(i)
  BY <1>1 DEF NumberOf
<1>4. SeqsAgree'
  BY <1>1, <1>2, <1>3 DEF SeqsAgree, Answering
<1>5. AcksAgree'
  BY DEF AcksAgree, Answering, Acks, AckPlaces
<1>6. AllAsked'
  BY <1>1, <1>2 DEF AllAsked, AsksFor, Answering
<1> QED BY <1>4, <1>5, <1>6 DEF Answering

\* The numbers of the messages of a course, in the order of their places.
LEMMA NumbersGrow ==
    ASSUME course \in Courses, NEW S \in SUBSET (1 .. Len(Segments)),
           NEW k \in 1 .. Len(Segments), \A i \in S : i < k
    PROVE  C!At([i \in DOMAIN Segments |-> NumberOf(i)], S \cup {k})
              = Append(C!At([i \in DOMAIN Segments |-> NumberOf(i)], S), NumberOf(k))
<1> DEFINE s == [i \in DOMAIN Segments |-> NumberOf(i)]
<1>1. Len(Segments) \in Nat /\ DOMAIN Segments = 1 .. Len(Segments)
  BY SegmentIs DEF Segments
<1>2. 1 .. Len(Segments) \subseteq Nat /\ IsFiniteSet(1 .. Len(Segments))
  BY <1>1, PlacesAreNumbers, CountTo
<1>3. S \in SUBSET Nat /\ IsFiniteSet(S) /\ k \in Nat
  BY <1>2, FS_Subset
<1>4. s[k] = NumberOf(k)
  BY <1>1
<1> HIDE DEF s
<1>5. C!At(s, S \cup {k}) = Append(C!At(s, S), s[k])
  BY <1>3, AtBehind, SMTT(40), ZenonT(40)
<1> QED BY <1>4, <1>5 DEF s

\* One command more, and one answer more.
LEMMA OneAnswer ==
    ASSUME course \in Courses, course' = course, Asked \subseteq 1 .. Len(Segments),
           Answering,
           NEW k \in 1 .. Len(Segments), \A i \in Asked : i < k, Asked' = Asked \cup {k},
           NEW a \in NodeAnswers, handled' = handled \o <<a>>, a.seq = NumberOf(k),
           \/ a.type = "NACK" /\ executed' = executed
           \/ \E e \in Executions :
                 /\ a.type = "ACK" /\ a.seq = e.seq /\ a.fields = <<<<"LED", e.led>>>>
                 /\ executed' = Append(executed, e) /\ AsksFor(k, e)
    PROVE  Answering'
<1>1. /\ Segments' = Segments
      /\ \A i : /\ Meaning(i)' = Meaning(i)
                /\ Understood(i)' <=> Understood(i)
  BY SameMessages
<1>2. \A i : NumberOf(i)' = NumberOf(i)
  BY <1>1 DEF NumberOf
<1>3. handled \in Seq(NodeAnswers) /\ executed \in Seq(Executions)
      /\ SeqsAgree /\ AcksAgree /\ AllAsked
  BY DEF Answering
<1>4. handled' = Append(handled, a)
  BY <1>3
<1>5. handled' \in Seq(NodeAnswers)
  BY <1>3, <1>4
<1>6. SeqsAgree'
  <2> DEFINE f == [i \in DOMAIN Segments |-> NumberOf(i)]
             g == [j \in DOMAIN handled |-> handled[j].seq]
  <2>1. [j \in DOMAIN Append(handled, a) |-> Append(handled, a)[j].seq] = Append(g, a.seq)
    BY <1>3, SeqsGrow
  <2>2. [j \in DOMAIN handled' |-> handled'[j].seq] = Append(g, a.seq)
    BY <1>4, <2>1
  <2>3. C!At(f, Asked \cup {k}) = Append(C!At(f, Asked), NumberOf(k))
    BY NumbersGrow
  <2>4. [i \in DOMAIN Segments |-> NumberOf(i)]' = f
    BY <1>1, <1>2
  <2>5. g = C!At(f, Asked)
    BY <1>3 DEF SeqsAgree
  <2>6. SeqsAgree' <=> [j \in DOMAIN handled' |-> handled'[j].seq]
                          = C!At([i \in DOMAIN Segments |-> NumberOf(i)]', Asked')
    BY DEF SeqsAgree
  <2> HIDE DEF f, g
  <2> QED BY <2>2, <2>3, <2>4, <2>5, <2>6
<1>7. Acks(handled) \in Seq(NodeAnswers)
      /\ Acks(handled)' = IF a.type = "ACK" THEN Append(Acks(handled), a) ELSE Acks(handled)
  <2>1. Acks(handled)' = Acks(handled')
    BY DEF Acks, AckPlaces
  <2>2. Acks(handled') = Acks(Append(handled, a))
    BY <1>4
  <2> QED BY <1>3, <2>1, <2>2, AcksGrow
<1>8. CASE a.type = "NACK" /\ executed' = executed
  <2>1. Acks(handled)' = Acks(handled)
    BY <1>7, <1>8
  <2>2. AcksAgree'
    BY <1>3, <1>8, <2>1 DEF AcksAgree
  <2>3. AllAsked'
    BY <1>1, <1>3, <1>8 DEF AllAsked, AsksFor
  <2> QED BY <1>3, <1>5, <1>6, <1>8, <2>2, <2>3 DEF Answering
<1>9. CASE \E e \in Executions :
                 /\ a.type = "ACK" /\ a.seq = e.seq /\ a.fields = <<<<"LED", e.led>>>>
                 /\ executed' = Append(executed, e) /\ AsksFor(k, e)
  <2>1. PICK e \in Executions :
                 /\ a.type = "ACK" /\ a.seq = e.seq /\ a.fields = <<<<"LED", e.led>>>>
                 /\ executed' = Append(executed, e) /\ AsksFor(k, e)
    BY <1>9
  <2> DEFINE h == Acks(handled)
  <2>2. Acks(handled)' = Append(h, a) /\ h \in Seq(NodeAnswers)
    BY <1>7, <2>1
  <2>3. [j \in DOMAIN h |-> <<h[j].seq, h[j].fields>>]
           = [j \in DOMAIN executed |-> <<executed[j].seq, <<<<"LED", executed[j].led>>>>>>]
    BY <1>3 DEF AcksAgree
  <2> HIDE DEF h
  <2>4. [j \in DOMAIN Append(h, a) |-> <<Append(h, a)[j].seq, Append(h, a)[j].fields>>]
           = [j \in DOMAIN Append(executed, e) |->
                <<Append(executed, e)[j].seq, <<<<"LED", Append(executed, e)[j].led>>>>>>]
    BY <1>3, <2>1, <2>2, <2>3, PairsGrow
  <2>5. AcksAgree' <=>
           [j \in DOMAIN Acks(handled)' |-> <<Acks(handled)'[j].seq, Acks(handled)'[j].fields>>]
              = [j \in DOMAIN executed' |->
                   <<executed'[j].seq, <<<<"LED", executed'[j].led>>>>>>]
    BY DEF AcksAgree
  <2>6. AcksAgree'
    BY <2>1, <2>2, <2>4, <2>5
  <2>7. executed' \in Seq(Executions)
    BY <1>3, <2>1
  <2>8. AllAsked'
    <3>1. /\ DOMAIN Append(executed, e) = 1 .. Len(executed) + 1
          /\ DOMAIN executed = 1 .. Len(executed) /\ Len(executed) \in Nat
          /\ Append(executed, e)[Len(executed) + 1] = e
          /\ \A j \in 1 .. Len(executed) : Append(executed, e)[j] = executed[j]
      BY <1>3
    <3>2. \A j \in 1 .. Len(executed) + 1 : j \in 1 .. Len(executed) \/ j = Len(executed) + 1
      BY <3>1
    <3>3. \A j \in 1 .. Len(executed) : \E i \in Asked : AsksFor(i, executed[j])
      BY <1>3, <3>1 DEF AllAsked
    <3>4. \A j \in DOMAIN executed' : \E i \in Asked' : AsksFor(i, executed'[j])
      BY <2>1, <3>1, <3>2, <3>3
    <3> QED BY <1>1, <3>4 DEF AllAsked, AsksFor
  <2> QED BY <1>5, <1>6, <2>6, <2>7, <2>8 DEF Answering
<1> QED BY <1>8, <1>9

\* Nothing is answered before anything arrives.
LEMMA NothingAnswered ==
    ASSUME Arrived = {}, handled = <<>>, executed = <<>>
    PROVE  Answering
<1>1. handled \in Seq(NodeAnswers) /\ executed \in Seq(Executions)
      /\ DOMAIN handled = {} /\ DOMAIN executed = {}
  OBVIOUS
<1>2. Asked = {} /\ AckPlaces(handled) = {}
  BY <1>1 DEF Asked, AckPlaces
<1>3. [k \in DOMAIN handled |-> handled[k].seq] = <<>>
  BY <1>1
<1>4. SeqsAgree
  BY <1>2, <1>3, AtNone DEF SeqsAgree
<1>5. Acks(handled) = <<>>
  BY <1>2, AtNone DEF Acks
<1>6. AcksAgree
  BY <1>1, <1>5 DEF AcksAgree
<1>7. AllAsked
  BY <1>1 DEF AllAsked
<1> QED BY <1>1, <1>4, <1>6, <1>7 DEF Answering

\* A unit of a command keeps it; the other steps are of other legs.
LEMMA CommandStep ==
    ASSUME PathInv, LineInv, CommandInv, [Next]_vars
    PROVE  CommandInv'
<1>0. course' = course /\ course \in Courses
  BY DEF Next, vars, FrameUnit, WifiRead, WifiLine, Done, PathInv
<1> SUFFICES ASSUME course.leg = "command" PROVE Answering'
  BY <1>0 DEF CommandInv
<1>1. Answering
  BY DEF CommandInv
<1>2. Framed
  BY DEF Framed
<1>3. CASE UNCHANGED vars
  <2>1. Arrived' = Arrived /\ handled' = handled /\ executed' = executed
    BY <1>3 DEF vars, Arrived, Framed, LR!Before, frames, texts
  <2> QED BY <1>0, <1>1, <2>1, SameAskedAnswers DEF Asked, Segments
<1>4. CASE WifiRead
  BY <1>4 DEF WifiRead
<1>5. CASE WifiLine
  <2>1. pending # <<>>
    BY <1>5 DEF WifiLine, LR!TakesLine, LR!LP!HasLine
  <2> QED BY <1>2, <2>1 DEF LineInv
<1>6. CASE FrameUnit
  <2>1. \/ delivered' = delivered /\ UNCHANGED <<bound, executed, handled>>
        \/ \E d \in delivered' \ delivered : OnNodeFrame(FP!Payload(d.frame))
    BY <1>6 DEF FrameUnit
  <2>2. CASE delivered' = delivered /\ Arrived' = Arrived
    BY <1>0, <1>1, <2>1, <2>2, SameAskedAnswers DEF Asked, Segments
  <2>3. CASE \E k \in 1 .. Len(Segments) :
                /\ Sent(course)[k].whole /\ k \notin Arrived /\ \A i \in Arrived : i < k
                /\ Arrived' = Arrived \cup {k}
                /\ delivered' # delivered
                /\ \A d \in delivered' \ delivered :
                      FP!Payload(d.frame) = C!PayloadOf(Segments[k].message)
    <3>1. PICK k \in 1 .. Len(Segments) :
                /\ Sent(course)[k].whole /\ k \notin Arrived /\ \A i \in Arrived : i < k
                /\ Arrived' = Arrived \cup {k}
                /\ delivered' # delivered
                /\ \A d \in delivered' \ delivered :
                      FP!Payload(d.frame) = C!PayloadOf(Segments[k].message)
      BY <2>3
    <3>2. OnNodeFrame(C!PayloadOf(Segments[k].message))
      BY <2>1, <3>1
    <3>3. Segments' = Segments /\ Arrived \subseteq 1 .. Len(Segments)
      BY <1>0, ArrivedAre DEF PathInv, Segments
    <3>4. Asked' = IF Segments[k].message.type = "CMD" THEN Asked \cup {k} ELSE Asked
      BY <3>1, <3>3 DEF Asked
    <3>5. Asked \subseteq 1 .. Len(Segments) /\ \A i \in Asked : i < k
      BY <3>1, <3>3 DEF Asked
    <3>6. CASE /\ Segments[k].message.type # "CMD"
               /\ handled' = handled /\ executed' = executed
      <4>1. Asked' = Asked
        BY <3>4, <3>6
      <4> QED BY <1>0, <1>1, <3>6, <4>1, SameAskedAnswers
    <3>7. CASE /\ Segments[k].message.type = "CMD"
               /\ \E a \in NodeAnswers :
                    /\ handled' = handled \o <<a>> /\ a.seq = NumberOf(k)
                    /\ \/ a.type = "NACK" /\ executed' = executed
                       \/ \E e \in Executions :
                             /\ a.type = "ACK" /\ a.seq = e.seq
                             /\ a.fields = <<<<"LED", e.led>>>>
                             /\ executed' = Append(executed, e) /\ AsksFor(k, e)
      <4>1. Asked' = Asked \cup {k}
        BY <3>4, <3>7
      <4>2. PICK a \in NodeAnswers :
                    /\ handled' = handled \o <<a>> /\ a.seq = NumberOf(k)
                    /\ \/ a.type = "NACK" /\ executed' = executed
                       \/ \E e \in Executions :
                             /\ a.type = "ACK" /\ a.seq = e.seq
                             /\ a.fields = <<<<"LED", e.led>>>>
                             /\ executed' = Append(executed, e) /\ AsksFor(k, e)
        BY <3>7
      <4>3. \/ a.type = "NACK" /\ executed' = executed
            \/ \E e \in Executions :
                 /\ a.type = "ACK" /\ a.seq = e.seq /\ a.fields = <<<<"LED", e.led>>>>
                 /\ executed' = Append(executed, e) /\ AsksFor(k, e)
        BY <4>2
      <4>4. handled' = handled \o <<a>> /\ a.seq = NumberOf(k)
        BY <4>2
      <4>5. \A i \in Asked : i < k
        BY <3>5
      <4> QED BY <1>0, <1>1, <3>5, <4>1, <4>3, <4>4, <4>5, OneAnswer
    <3> QED BY <1>0, <3>2, <3>6, <3>7, CommandIsAnswered
  <2> QED BY <1>6, <2>2, <2>3, FrameArrives
<1> QED BY <1>3, <1>4, <1>5, <1>6 DEF Next, Done

\* What the invariant says is the property.
LEMMA AnsweringTells == Answering => AnswersTellTheTruth
<1> SUFFICES ASSUME Answering, course.leg = "command" PROVE AnswersTellTheTruth
  BY DEF AnswersTellTheTruth
<1>1. \A k \in DOMAIN executed : \E i \in Asked : AsksFor(i, executed[k])
  BY DEF Answering, AllAsked
<1>2. \A k \in DOMAIN executed : \E i \in Asked :
                  /\ Meaning(i).seq = executed[k].seq
                  /\ \E f \in ToSet(Segments[i].message.fields) :
                        f[1] = "LED" /\ C!Atoi(f[2]) = executed[k].led
  BY <1>1 DEF AsksFor
<1>3. [k \in DOMAIN handled |-> handled[k].seq]
         = C!At([i \in DOMAIN Segments |-> IF Understood(i) THEN Meaning(i).seq ELSE 0], Asked)
  BY DEF Answering, SeqsAgree, NumberOf
<1>4. Acks(handled) = C!At(handled, {k \in DOMAIN handled : handled[k].type = "ACK"})
  BY DEF Acks, AckPlaces
<1>5. AcksAgree
  BY DEF Answering
<1> QED BY <1>2, <1>3, <1>4, <1>5 DEF AnswersTellTheTruth, Asked, AcksAgree

-----------------------------------------------------------------------------
(* A node's JSON lines *)

\* A sequence over a set is one over more.
LEMMA SeqMore ==
    ASSUME NEW S, NEW T, S \subseteq T
    PROVE  \A s \in Seq(S) : s \in Seq(T)
OBVIOUS

\* A line as it is written: its braces and its end stand where they should only.
LEMMA LineIs ==
    ASSUME NEW S, NEW o \in Seq(S), S \cap {OPEN, CLOSE, CR, LF} = {}
    PROVE  LET u == <<OPEN>> \o o \o <<CLOSE, LF>>
               n == Len(o)
           IN  /\ n \in Nat /\ u \in Seq(S \cup {OPEN, CLOSE, LF}) /\ Len(u) = n + 3
               /\ u[1] = OPEN /\ u[n + 2] = CLOSE /\ u[n + 3] = LF
               /\ \A k \in 1 .. n : u[k + 1] = o[k]
               /\ \A k \in 1 .. n + 2 : u[k] \notin {CR, LF}
               /\ \A k \in 2 .. n + 3 : u[k] # OPEN
               /\ \A k \in 1 .. n + 1 : u[k] # CLOSE
<1> DEFINE T == S \cup {OPEN, CLOSE, LF}
           a == <<OPEN>>
           b == <<CLOSE, LF>>
           n == Len(o)
           v == a \o o
           u == v \o b
<1>1. a \in Seq(T) /\ b \in Seq(T) /\ o \in Seq(T)
  <2>1. S \subseteq T
    OBVIOUS
  <2>2. o \in Seq(T)
    <3> HIDE DEF T
    <3> QED BY <2>1, SeqMore
  <2> QED BY <2>2
<1>2. Len(a) = 1 /\ Len(b) = 2 /\ a[1] = OPEN /\ b[1] = CLOSE /\ b[2] = LF /\ n \in Nat
      /\ \A k \in 1 .. n : o[k] \in S
  OBVIOUS
<1>3. /\ OPEN \notin {CLOSE, CR, LF} /\ CLOSE \notin {CR, LF}
      /\ \A x \in S : x \notin {OPEN, CLOSE, CR, LF}
  BY LineAssumption
<1> HIDE DEF a, b, n, T
<1>4. /\ v \in Seq(T) /\ Len(v) = 1 + n
      /\ \A k \in 1 .. 1 : v[k] = a[k]
      /\ \A k \in 1 .. n : v[1 + k] = o[k]
  <2>1. a \in Seq(T) /\ o \in Seq(T)
    BY <1>1
  <2> HIDE DEF v
  <2>2. /\ a \o o \in Seq(T) /\ Len(a \o o) = Len(a) + Len(o)
        /\ \A k \in 1 .. Len(a) : (a \o o)[k] = a[k]
        /\ \A k \in 1 .. Len(o) : (a \o o)[Len(a) + k] = o[k]
    BY <2>1, TwoJoined
  <2>3. Len(a) = 1 /\ n = Len(o) /\ v = a \o o
    BY <1>2 DEF n, v
  <2> QED BY <2>2, <2>3
<1> HIDE DEF v
<1>5. /\ u \in Seq(T) /\ Len(u) = Len(v) + 2
      /\ \A k \in 1 .. Len(v) : u[k] = v[k]
      /\ \A k \in 1 .. 2 : u[Len(v) + k] = b[k]
  <2>1. v \in Seq(T) /\ b \in Seq(T)
    BY <1>1, <1>4
  <2> HIDE DEF u
  <2>2. /\ v \o b \in Seq(T) /\ Len(v \o b) = Len(v) + Len(b)
        /\ \A k \in 1 .. Len(v) : (v \o b)[k] = v[k]
        /\ \A k \in 1 .. Len(b) : (v \o b)[Len(v) + k] = b[k]
    BY <2>1, TwoJoined
  <2>3. Len(b) = 2 /\ u = v \o b
    BY <1>2 DEF u
  <2> QED BY <2>2, <2>3
<1> HIDE DEF u
<1>6. /\ Len(u) = n + 3
      /\ u[1] = v[1] /\ v[1] = a[1] /\ u[n + 2] = b[1] /\ u[n + 3] = b[2]
      /\ \A k \in 1 .. n : u[k + 1] = o[k]
  <2>1. 1 \in 1 .. 1 /\ 1 \in 1 .. 1 + n /\ 1 \in 1 .. 2 /\ 2 \in 1 .. 2
        /\ 1 + n + 1 = n + 2 /\ 1 + n + 2 = n + 3
    BY <1>2
  <2>2. \A k \in 1 .. n : k + 1 \in 1 .. 1 + n /\ 1 + k = k + 1
    BY <1>2
  <2>3. u[1] = v[1] /\ v[1] = a[1]
    BY <1>4, <1>5, <2>1
  <2>4. u[Len(v) + 1] = b[1] /\ u[Len(v) + 2] = b[2]
    BY <1>5, <2>1
  <2>5. Len(v) + 1 = n + 2 /\ Len(v) + 2 = n + 3
    BY <1>4, <2>1
  <2>6. \A k \in 1 .. n : u[k + 1] = o[k]
    <3> TAKE k \in 1 .. n
    <3>1. k + 1 \in 1 .. 1 + n /\ 1 + k = k + 1
      BY <2>2
    <3>2. u[k + 1] = v[k + 1]
      BY <1>4, <1>5, <3>1
    <3>3. v[1 + k] = o[k]
      BY <1>4
    <3> QED BY <3>1, <3>2, <3>3
  <2> QED BY <1>5, <2>3, <2>4, <2>5, <2>6
<1>7. u[1] = OPEN /\ u[n + 2] = CLOSE /\ u[n + 3] = LF
  BY <1>2, <1>6
<1>8. \A k \in 1 .. n : u[k + 1] \in S
  BY <1>2, <1>6
<1>9. \A k \in 1 .. n + 3 : \/ k = 1 \/ k = n + 2 \/ k = n + 3
                            \/ k \in 2 .. n + 1 /\ \E h \in 1 .. n : k = h + 1
  <2>1. \A k \in 1 .. n + 3 : k = 1 \/ k = n + 2 \/ k = n + 3 \/ k \in 2 .. n + 1
    BY <1>2
  <2>2. \A k \in 2 .. n + 1 : k - 1 \in 1 .. n /\ k = (k - 1) + 1
    BY <1>2
  <2> QED BY <2>1, <2>2
<1>10. \A k \in 1 .. n + 3 : \/ k = 1 \/ k = n + 2 \/ k = n + 3
                             \/ k \in 2 .. n + 1 /\ u[k] \in S
  BY <1>8, <1>9
<1>11. /\ \A k \in 1 .. n + 2 : k \in 1 .. n + 3 /\ k # n + 3
       /\ \A k \in 2 .. n + 3 : k \in 1 .. n + 3 /\ k # 1
       /\ \A k \in 1 .. n + 1 : k \in 1 .. n + 3 /\ k # n + 2 /\ k # n + 3
  BY <1>2
<1>12. \A k \in 1 .. n + 2 : u[k] \notin {CR, LF}
  BY <1>3, <1>7, <1>10, <1>11
<1>13. \A k \in 2 .. n + 3 : u[k] # OPEN
  BY <1>3, <1>7, <1>10, <1>11
<1>14. \A k \in 1 .. n + 1 : u[k] # CLOSE
  BY <1>3, <1>7, <1>10, <1>11
<1> QED BY <1>2, <1>5, <1>6, <1>7, <1>12, <1>13, <1>14 DEF a, b, n, v, u, T

\* What the parser takes of such a line is its object.
LEMMA ObjectOfLine ==
    ASSUME NEW S, NEW o \in Seq(S), S \cap {OPEN, CLOSE, CR, LF} = {}
    PROVE  Objects(<<OPEN>> \o o \o <<CLOSE>>) = {o}
<1> DEFINE T == S \cup {OPEN, CLOSE}
           a == <<OPEN>>
           b == <<CLOSE>>
           n == Len(o)
           v == a \o o
           t == v \o b
<1>1. a \in Seq(T) /\ b \in Seq(T) /\ o \in Seq(T)
  <2>1. S \subseteq T
    OBVIOUS
  <2>2. o \in Seq(T)
    <3> HIDE DEF T
    <3> QED BY <2>1, SeqMore
  <2> QED BY <2>2
<1>2. Len(a) = 1 /\ Len(b) = 1 /\ a[1] = OPEN /\ b[1] = CLOSE /\ n \in Nat
      /\ \A k \in 1 .. n : o[k] \in S
  OBVIOUS
<1>3. CLOSE # OPEN /\ \A x \in S : x \notin {OPEN, CLOSE}
  BY LineAssumption
<1>4. ToSet(o) \subseteq S
  BY <1>2 DEF ToSet
<1> HIDE DEF a, b, n, T
<1>5. /\ v \in Seq(T) /\ Len(v) = 1 + n
      /\ \A k \in 1 .. 1 : v[k] = a[k]
      /\ \A k \in 1 .. n : v[1 + k] = o[k]
  <2>1. a \in Seq(T) /\ o \in Seq(T)
    BY <1>1
  <2> HIDE DEF v
  <2>2. /\ a \o o \in Seq(T) /\ Len(a \o o) = Len(a) + Len(o)
        /\ \A k \in 1 .. Len(a) : (a \o o)[k] = a[k]
        /\ \A k \in 1 .. Len(o) : (a \o o)[Len(a) + k] = o[k]
    BY <2>1, TwoJoined
  <2>3. Len(a) = 1 /\ n = Len(o) /\ v = a \o o
    BY <1>2 DEF n, v
  <2> QED BY <2>2, <2>3
<1> HIDE DEF v
<1>6. /\ t \in Seq(T) /\ Len(t) = Len(v) + 1
      /\ \A k \in 1 .. Len(v) : t[k] = v[k]
      /\ \A k \in 1 .. 1 : t[Len(v) + k] = b[k]
  <2>1. v \in Seq(T) /\ b \in Seq(T)
    BY <1>1, <1>5
  <2> HIDE DEF t
  <2>2. /\ v \o b \in Seq(T) /\ Len(v \o b) = Len(v) + Len(b)
        /\ \A k \in 1 .. Len(v) : (v \o b)[k] = v[k]
        /\ \A k \in 1 .. Len(b) : (v \o b)[Len(v) + k] = b[k]
    BY <2>1, TwoJoined
  <2>3. Len(b) = 1 /\ t = v \o b
    BY <1>2 DEF t
  <2> QED BY <2>2, <2>3
<1> HIDE DEF t
<1>7. /\ Len(t) = n + 2 /\ DOMAIN t = 1 .. n + 2 /\ t # <<>>
      /\ t[1] = OPEN /\ t[n + 2] = CLOSE
      /\ \A k \in 1 .. n : t[1 + k] = o[k]
  <2>1. Len(v) = 1 + n /\ 1 \in 1 .. 1 /\ 1 \in 1 .. 1 + n /\ 1 + n + 1 = n + 2
    BY <1>2, <1>5
  <2>2. \A k \in 1 .. n : 1 + k \in 1 .. 1 + n
    BY <1>2
  <2>3. Len(t) = n + 2 /\ DOMAIN t = 1 .. n + 2
    BY <1>6, <2>1
  <2>4. t[1] = OPEN /\ t[n + 2] = CLOSE
    BY <1>2, <1>5, <1>6, <2>1
  <2>5. \A k \in 1 .. n : t[1 + k] = o[k]
    BY <1>5, <1>6, <2>1, <2>2
  <2>6. t # <<>>
    BY <1>2, <2>3
  <2> QED BY <2>3, <2>4, <2>5, <2>6
<1> DEFINE closes == {i \in DOMAIN t : t[i] = CLOSE}
           first == CHOOSE i \in closes : \A j \in closes : i <= j
           body == SubSeq(t, 2, first - 1)
<1>8. \A k \in 1 .. n + 2 : t[k] = CLOSE <=> k = n + 2
  <2>1. \A k \in 1 .. n + 2 : k = 1 \/ k = n + 2 \/ \E h \in 1 .. n : k = 1 + h
    <3>1. \A k \in 1 .. n + 2 : k = 1 \/ k = n + 2 \/ (k - 1 \in 1 .. n /\ k = 1 + (k - 1))
      BY <1>2
    <3> QED BY <3>1
  <2>2. \A k \in 1 .. n : t[1 + k] # CLOSE
    BY <1>2, <1>3, <1>7
  <2> QED BY <1>3, <1>7, <2>1, <2>2
<1>9. n + 2 \in 1 .. n + 2
  BY <1>2
<1>10. closes = {n + 2}
  BY <1>7, <1>8, <1>9
<1> HIDE DEF closes
<1>11. first = n + 2 /\ closes # {}
  <2>1. n + 2 <= n + 2
    BY <1>2
  <2> QED BY <1>10, <2>1
<1> HIDE DEF first
<1>12. body = o
  <2>1. n + 2 - 1 = 1 + n /\ 1 + 1 = 2
    BY <1>2
  <2>2. body = SubSeq(t, 1 + 1, 1 + n)
    <3>1. body = SubSeq(t, 2, first - 1)
      OBVIOUS
    <3>2. first = n + 2
      BY <1>11
    <3>3. first - 1 = 1 + n
      BY <1>2, <3>2
    <3> HIDE DEF body
    <3> QED BY <2>1, <3>1, <3>3
  <2>3. CASE o = <<>>
    <3>1. n = 0
      BY <2>3 DEF n
    <3>2. body = SubSeq(t, 2, 1)
      BY <2>2, <3>1
    <3>3. SubSeq(t, 2, 1) = <<>>
      BY <1>6
    <3> QED BY <2>3, <3>2, <3>3
  <2>4. CASE o # <<>>
    <3>1. 1 + n <= Len(t) /\ 1 \in Nat
      BY <1>2, <1>7
    <3>2. t \in Seq(T) /\ o \in Seq(T)
      BY <1>1, <1>6
    <3>3. SubSeq(t, 1 + 1, 1 + Len(o)) = o
      BY <1>7, <2>4, <3>1, <3>2, StretchIs DEF n
    <3> QED BY <2>2, <3>3 DEF n
  <2> QED BY <2>3, <2>4
<1> HIDE DEF body
<1>13. OPEN \notin ToSet(o)
  BY <1>3, <1>4
<1>14. Body(t) = IF closes # {} /\ OPEN \notin ToSet(body) THEN body ELSE Malformed
  BY DEF Body, closes, first, body
<1>15. Objects(t) = {Body(t)}
  BY <1>7 DEF Objects
<1> QED BY <1>11, <1>12, <1>13, <1>14, <1>15 DEF t, v, a, b

\* A segment of a node's TCP connection arrives as it is written.
LEMMA WifiSegment ==
    ASSUME NEW c \in Courses, c.leg = "wifi", NEW i \in 1 .. Len(c.segments)
    PROVE  LET o == c.segments[i].object
               u == Sent(c)[i].units
           IN  /\ Sent(c)[i].whole /\ u = <<OPEN>> \o o \o <<CLOSE, LF>>
               /\ o \in Seq(ToSet(o)) /\ ToSet(o) \cap {OPEN, CLOSE, CR, LF} = {}
               /\ o # Malformed /\ "object" \in DOMAIN c.segments[i]
<1> DEFINE seg == c.segments[i]
<1>1. seg \in ToSet(c.segments) /\ Sent(c)[i] = OnTheLine(c.leg, seg)
  BY SegmentIs DEF Sent
<1>2. /\ "object" \in DOMAIN seg /\ OnTheLine(c.leg, seg).whole
      /\ seg.object \in Seq(ToSet(seg.object)) /\ seg.object # Malformed
      /\ ToSet(seg.object) \cap {OPEN, CLOSE, CR, LF} = {}
  BY <1>1, LineAssumption
<1>3. Bytes(c.leg, seg) # <<>> /\ Sent(c)[i].units = Bytes(c.leg, seg)
  <2>1. Sent(c)[i].whole
    BY <1>1, <1>2
  <2> QED BY <2>1, SegmentIs
<1>4. Bytes(c.leg, seg) = Written(c.leg, seg)
  BY <1>3 DEF Bytes
<1>5. Written(c.leg, seg) = <<OPEN>> \o seg.object \o <<CLOSE, LF>>
  <2>1. "object" \in DOMAIN seg /\ c.leg = "wifi" /\ c.leg # "command"
    BY <1>2
  <2> HIDE DEF seg
  <2> QED BY <2>1 DEF Written
<1> QED BY <1>1, <1>2, <1>3, <1>4, <1>5

\* Where it stands in the stream, and that a line feed is only at its end.
LEMMA WifiPlaces ==
    ASSUME NEW c \in Courses, c.leg = "wifi", NEW i \in 1 .. Len(c.segments)
    PROVE  LET o == c.segments[i].object
               s == Stream(Sent(c))
               a == EndOf(c, i - 1)
               e == EndOf(c, i)
               n == Len(o)
           IN  /\ a \in Nat /\ e \in Nat /\ n \in Nat /\ e = a + n + 3 /\ e <= Len(s)
               /\ \A k \in a + 1 .. e - 1 : s[k] \notin {CR, LF}
               /\ s[e] = LF
               /\ \A k \in a + 2 .. e : s[k] # OPEN
               /\ \A k \in 1 .. n + 3 : s[a + k] = (<<OPEN>> \o o \o <<CLOSE, LF>>)[k]
<1> DEFINE o == c.segments[i].object
           s == Stream(Sent(c))
           a == EndOf(c, i - 1)
           e == EndOf(c, i)
           n == Len(o)
           w == Sent(c)[i].units
           u == <<OPEN>> \o o \o <<CLOSE, LF>>
<1>1. w = u /\ o \in Seq(ToSet(o)) /\ ToSet(o) \cap {OPEN, CLOSE, CR, LF} = {}
  BY WifiSegment
<1>2. /\ a \in Nat /\ e \in Nat /\ e = a + Len(w) /\ e <= Len(s)
      /\ \A k \in 1 .. Len(w) : s[a + k] = w[k]
  BY SegmentAt
<1>3. /\ n \in Nat /\ Len(u) = n + 3 /\ u[n + 3] = LF
      /\ \A k \in 1 .. n + 2 : u[k] \notin {CR, LF}
      /\ \A k \in 2 .. n + 3 : u[k] # OPEN
  <2> HIDE DEF o
  <2> QED BY <1>1, LineIs
<1> HIDE DEF o, s, a, e, n, w, u
<1>4. e = a + n + 3 /\ e <= Len(s) /\ \A k \in 1 .. n + 3 : s[a + k] = u[k]
  <2>1. Len(w) = n + 3 /\ a + (n + 3) = a + n + 3
    BY <1>1, <1>2, <1>3
  <2> QED BY <1>1, <1>2, <2>1
<1>5. /\ \A k \in a + 1 .. e - 1 : k - a \in 1 .. n + 2 /\ k - a \in 1 .. n + 3 /\ a + (k - a) = k
      /\ \A k \in a + 2 .. e : k - a \in 2 .. n + 3 /\ k - a \in 1 .. n + 3 /\ a + (k - a) = k
      /\ n + 3 \in 1 .. n + 3 /\ a + (n + 3) = e
  BY <1>2, <1>3, <1>4
<1>6. \A k \in a + 1 .. e - 1 : s[k] \notin {CR, LF}
  <2> TAKE k \in a + 1 .. e - 1
  <2>1. s[a + (k - a)] = u[k - a] /\ u[k - a] \notin {CR, LF}
    BY <1>3, <1>4, <1>5
  <2> QED BY <1>5, <2>1
<1>7. \A k \in a + 2 .. e : s[k] # OPEN
  <2> TAKE k \in a + 2 .. e
  <2>1. s[a + (k - a)] = u[k - a] /\ u[k - a] # OPEN
    BY <1>3, <1>4, <1>5
  <2> QED BY <1>5, <2>1
<1>8. s[e] = LF
  <2>1. s[a + (n + 3)] = u[n + 3]
    BY <1>4, <1>5
  <2> QED BY <1>3, <1>5, <2>1
<1> QED BY <1>2, <1>3, <1>4, <1>6, <1>7, <1>8 DEF o, s, a, e, n, u

\* Every place of the stream is in one segment.
LEMMA PlaceIn ==
    ASSUME NEW c \in Courses, NEW p \in 1 .. Len(Stream(Sent(c)))
    PROVE  \E i \in 1 .. Len(c.segments) : EndOf(c, i - 1) < p /\ p <= EndOf(c, i)
<1> DEFINE n == Len(c.segments)
           R == {i \in 0 .. n : p <= EndOf(c, i)}
<1>1. n \in Nat /\ EndOf(c, n) = Len(Stream(Sent(c))) /\ EndOf(c, 0) = 0
  <2>1. n \in Nat
    BY SegmentIs
  <2>2. Upto(c, 0) = <<>> /\ Upto(c, n) = Stream(Sent(c))
    BY UptoIs
  <2> QED BY <2>1, <2>2 DEF EndOf
<1>2. \A i \in 0 .. n : EndOf(c, i) \in Nat
  BY <1>1, StreamGrows
<1>3. Len(Stream(Sent(c))) \in Nat
  BY <1>1, <1>2
<1> HIDE DEF n
<1>4. p \in Nat /\ 1 <= p /\ p <= EndOf(c, n)
  BY <1>1, <1>3
<1>5. R \in SUBSET Nat /\ n \in R
  BY <1>1, <1>4
<1>6. PICK m \in R : \A i \in R : m <= i
  BY <1>5, Least
<1>7. m \in 0 .. n /\ p <= EndOf(c, m)
  BY <1>6
<1>8. m # 0
  BY <1>1, <1>4, <1>7
<1>9. m \in 1 .. n /\ m - 1 \in 0 .. n /\ ~(m <= m - 1)
  BY <1>1, <1>7, <1>8
<1>10. ~(p <= EndOf(c, m - 1))
  BY <1>6, <1>9
<1>11. EndOf(c, m - 1) < p
  BY <1>2, <1>4, <1>9, <1>10
<1> QED BY <1>7, <1>9, <1>11 DEF n

\* A line feed in the stream is the end of a segment.
LEMMA FeedsAreEnds ==
    ASSUME NEW c \in Courses, c.leg = "wifi", NEW p \in 1 .. Len(Stream(Sent(c))),
           Stream(Sent(c))[p] = LF
    PROVE  \E i \in 1 .. Len(c.segments) : p = EndOf(c, i)
<1>1. PICK i \in 1 .. Len(c.segments) : EndOf(c, i - 1) < p /\ p <= EndOf(c, i)
  BY PlaceIn
<1>2. /\ EndOf(c, i - 1) \in Nat /\ EndOf(c, i) \in Nat
      /\ \A k \in EndOf(c, i - 1) + 1 .. EndOf(c, i) - 1 : Stream(Sent(c))[k] \notin {CR, LF}
      /\ EndOf(c, i) <= Len(Stream(Sent(c)))
  BY WifiPlaces
<1>3. Len(Stream(Sent(c))) \in Nat
  BY StreamIsSequence
<1>4. p \in Nat
  BY <1>3
<1>5. p # EndOf(c, i) => p \in EndOf(c, i - 1) + 1 .. EndOf(c, i) - 1
  BY <1>1, <1>2, <1>4
<1> QED BY <1>2, <1>5

\* The segments that end before a place inside of one are the ones before it.
LEMMA EndedBefore ==
    ASSUME NEW c \in Courses, c.leg = "wifi", NEW i \in 1 .. Len(c.segments), NEW a \in Nat
    PROVE  /\ EndOf(c, i - 1) <= a /\ a < EndOf(c, i)
                => WholeIn(c, a) = {j \in 1 .. Len(c.segments) : j < i}
           /\ WholeIn(c, EndOf(c, i)) = {j \in 1 .. Len(c.segments) : j < i} \cup {i}
<1>1. Len(c.segments) \in Nat
  BY SegmentIs
<1>2. EndOf(c, i) \in Nat /\ EndOf(c, i - 1) \in Nat /\ EndOf(c, i - 1) < EndOf(c, i)
  <2>1. LET n == Len(c.segments[i].object)
        IN  /\ n \in Nat /\ EndOf(c, i - 1) \in Nat /\ EndOf(c, i) \in Nat
            /\ EndOf(c, i) = EndOf(c, i - 1) + n + 3
    BY WifiPlaces
  <2> QED BY <2>1
<1>3. ASSUME NEW j \in 1 .. Len(c.segments)
      PROVE  /\ Sent(c)[j].whole /\ EndOf(c, j) \in Nat /\ EndOf(c, j - 1) \in Nat
             /\ EndOf(c, j - 1) < EndOf(c, j)
             /\ j < i => EndOf(c, j) <= EndOf(c, i - 1)
             /\ i < j => EndOf(c, i) < EndOf(c, j)
  <2>1. Sent(c)[j].whole
    BY WifiSegment
  <2>2. EndOf(c, j) \in Nat /\ EndOf(c, j - 1) \in Nat /\ EndOf(c, j - 1) < EndOf(c, j)
    <3>1. LET n == Len(c.segments[j].object)
          IN  /\ n \in Nat /\ EndOf(c, j - 1) \in Nat /\ EndOf(c, j) \in Nat
              /\ EndOf(c, j) = EndOf(c, j - 1) + n + 3
      BY WifiPlaces
    <3> QED BY <3>1
  <2>3. j < i => EndOf(c, j) <= EndOf(c, i - 1)
    <3>1. j < i => j \in 0 .. Len(c.segments) /\ i - 1 \in j .. Len(c.segments)
      BY <1>1
    <3> QED BY <3>1, StreamGrows
  <2>4. i < j => EndOf(c, i) <= EndOf(c, j - 1)
    <3>1. i < j => i \in 0 .. Len(c.segments) /\ j - 1 \in i .. Len(c.segments)
      BY <1>1
    <3> QED BY <3>1, StreamGrows
  <2> QED BY <1>2, <2>1, <2>2, <2>3, <2>4
<1>4. \A j \in 1 .. Len(c.segments) : j < i \/ j = i \/ i < j
  BY <1>1
<1>5. ASSUME EndOf(c, i - 1) <= a, a < EndOf(c, i)
      PROVE  \A j \in 1 .. Len(c.segments) : EndOf(c, j) <= a <=> j < i
  <2> TAKE j \in 1 .. Len(c.segments)
  <2>1. j < i => EndOf(c, j) <= a
    BY <1>2, <1>3, <1>5
  <2>2. j = i => ~(EndOf(c, j) <= a) /\ ~(j < i)
    BY <1>1, <1>2, <1>5
  <2>3. i < j => ~(EndOf(c, j) <= a) /\ ~(j < i)
    BY <1>1, <1>2, <1>3, <1>5
  <2> QED BY <1>4, <2>1, <2>2, <2>3
<1>6. \A j \in 1 .. Len(c.segments) : EndOf(c, j) <= EndOf(c, i) <=> j < i \/ j = i
  <2> TAKE j \in 1 .. Len(c.segments)
  <2>1. j < i => EndOf(c, j) <= EndOf(c, i)
    BY <1>2, <1>3
  <2>2. j = i => EndOf(c, j) <= EndOf(c, i)
    BY <1>2
  <2>3. i < j => ~(EndOf(c, j) <= EndOf(c, i)) /\ ~(j < i) /\ j # i
    BY <1>1, <1>2, <1>3
  <2> QED BY <1>4, <2>1, <2>2, <2>3
<1> QED BY <1>3, <1>5, <1>6 DEF WholeIn

\* A line without its line feed.
LEMMA LineStarts ==
    ASSUME NEW S, NEW o \in Seq(S)
    PROVE  LET t == <<OPEN>> \o o \o <<CLOSE>>
               u == <<OPEN>> \o o \o <<CLOSE, LF>>
           IN  /\ t \in Seq(S \cup {OPEN, CLOSE, LF}) /\ Len(t) = Len(o) + 2 /\ t # <<>>
               /\ \A k \in 1 .. Len(t) : t[k] = u[k]
<1> DEFINE T == S \cup {OPEN, CLOSE, LF}
           a == <<OPEN>>
           b == <<CLOSE>>
           d == <<CLOSE, LF>>
           v == a \o o
           t == v \o b
           u == v \o d
<1>1. a \in Seq(T) /\ b \in Seq(T) /\ d \in Seq(T) /\ o \in Seq(T)
  <2>1. S \subseteq T
    OBVIOUS
  <2>2. o \in Seq(T)
    <3> HIDE DEF T
    <3> QED BY <2>1, SeqMore
  <2> QED BY <2>2
<1>2. Len(a) = 1 /\ Len(b) = 1 /\ Len(d) = 2 /\ b[1] = CLOSE /\ d[1] = CLOSE
      /\ Len(o) \in Nat
  OBVIOUS
<1> HIDE DEF a, b, d, T
<1>3. v \in Seq(T) /\ Len(v) = 1 + Len(o)
  <2>1. a \in Seq(T) /\ o \in Seq(T)
    BY <1>1
  <2> HIDE DEF v
  <2>2. a \o o \in Seq(T) /\ Len(a \o o) = Len(a) + Len(o)
    BY <2>1, TwoJoined
  <2> QED BY <1>2, <2>2 DEF v
<1> HIDE DEF v
<1>4. /\ t \in Seq(T) /\ Len(t) = Len(v) + 1
      /\ \A k \in 1 .. Len(v) : t[k] = v[k]
      /\ t[Len(v) + 1] = CLOSE
  <2>1. v \in Seq(T) /\ b \in Seq(T)
    BY <1>1, <1>3
  <2> HIDE DEF t
  <2>2. /\ v \o b \in Seq(T) /\ Len(v \o b) = Len(v) + Len(b)
        /\ \A k \in 1 .. Len(v) : (v \o b)[k] = v[k]
        /\ \A k \in 1 .. Len(b) : (v \o b)[Len(v) + k] = b[k]
    BY <2>1, TwoJoined
  <2>3. t = v \o b /\ 1 \in 1 .. 1
    BY DEF t
  <2> QED BY <1>2, <2>2, <2>3
<1>5. /\ \A k \in 1 .. Len(v) : u[k] = v[k]
      /\ u[Len(v) + 1] = CLOSE
  <2>1. v \in Seq(T) /\ d \in Seq(T)
    BY <1>1, <1>3
  <2> HIDE DEF u
  <2>2. /\ \A k \in 1 .. Len(v) : (v \o d)[k] = v[k]
        /\ \A k \in 1 .. Len(d) : (v \o d)[Len(v) + k] = d[k]
    BY <2>1, TwoJoined
  <2>3. u = v \o d /\ 1 \in 1 .. 2
    BY DEF u
  <2> QED BY <1>2, <2>2, <2>3
<1> HIDE DEF t, u
<1>6. \A k \in 1 .. Len(t) : k \in 1 .. Len(v) \/ k = Len(v) + 1
  BY <1>2, <1>3, <1>4
<1>7. \A k \in 1 .. Len(t) : t[k] = u[k]
  BY <1>4, <1>5, <1>6
<1>8. Len(t) = Len(o) + 2
  BY <1>2, <1>3, <1>4
<1>9. t # <<>>
  BY <1>2, <1>8
<1> QED BY <1>4, <1>7, <1>8, <1>9 DEF t, u, v, a, b, d, T

\* What the rest of a line of the k-th segment may be read as: no object, or one that
\* is inside the segment's.
Rests(k) == {Malformed} \cup InnerObjects(k)

\* What begins with a closing brace or with a member is nothing else.
LEMMA RestsOnly ==
    ASSUME NEW k, NEW text,
           text = <<>> \/ text[1] = CLOSE \/ text[1] \in ToSet(Segments[k].object) \ {OPEN}
    PROVE  Objects(text) \subseteq Rests(k)
<1>1. text # <<>> => text[1] # OPEN
  BY LineAssumption
<1>2. CASE BeginsWithInner(text)
  <2>1. text # <<>> /\ text[1] # CLOSE /\ C!IsInner(text[1].val)
    BY <1>2 DEF BeginsWithInner
  <2>2. text[1] \in {u \in ToSet(Segments[k].object) : C!IsInner(u.val)}
    BY <2>1
  <2>3. text[1].val.fields \in InnerObjects(k)
    BY <2>2 DEF InnerObjects
  <2> QED BY <1>1, <2>3 DEF Objects, Rests
<1>3. CASE ~BeginsWithInner(text)
  BY <1>1, <1>3 DEF Objects, Rests
<1> QED BY <1>2, <1>3

\* The line that is taken ends with a segment, and is all of it unless a part was
\* thrown away.
LEMMA LineTaken ==
    ASSUME PathInv, LineInv, course.leg = "wifi", LR!TakesLine
    PROVE  \E i \in 1 .. Len(Segments) :
              /\ EndOf(course, i - 1) \in Nat /\ EndOf(course, i) \in Nat
              /\ EndOf(course, i - 1) <= LR!Before /\ LR!Before < EndOf(course, i)
              /\ LR!Before \in Nat /\ LR!Before' = EndOf(course, i)
              /\ \/ LR!Before = EndOf(course, i - 1)
                    /\ LR!LP!Line(pending) = <<OPEN>> \o Segments[i].object \o <<CLOSE>>
                 \/ LR!Before # EndOf(course, i - 1)
                    /\ Objects(LR!LP!Line(pending)) \subseteq Rests(i)
<1> DEFINE s == Stream(Sent(course))
           a == LR!Before
           q == LR!LP!NewlineAt(pending)
<1>1. /\ course \in Courses /\ arrived \in Seq(OnLineUnits) /\ pending \in Seq(OnLineUnits)
      /\ stream \in Seq(OnLineUnits) /\ arrived \o stream = s
      /\ a \in Nat /\ \A k \in 1 .. Len(pending) : pending[k] = arrived[a + k]
      /\ OnLineUnits = LR!Units
  BY UnitsOfReaders DEF PathInv, ReaderInv, Typed, PendingIsTheEnd, LineInv, Framed
<1>2. /\ Len(s) = Len(arrived) + Len(stream) /\ s \in Seq(OnLineUnits)
      /\ Len(arrived) \in Nat /\ Len(stream) \in Nat
      /\ \A k \in 1 .. Len(arrived) : s[k] = arrived[k]
  <2>1. arrived \in Seq(OnLineUnits) /\ stream \in Seq(OnLineUnits)
    BY <1>1
  <2>2. /\ arrived \o stream \in Seq(OnLineUnits)
        /\ Len(arrived \o stream) = Len(arrived) + Len(stream)
        /\ Len(arrived) \in Nat /\ Len(stream) \in Nat
        /\ \A k \in 1 .. Len(arrived) : (arrived \o stream)[k] = arrived[k]
    BY <2>1, TwoJoined
  <2> QED BY <1>1, <2>2
<1>3. /\ q \in 1 .. Len(pending) /\ pending[q] = LF
      /\ \A j \in 1 .. q - 1 : pending[j] # LF
  <2>1. pending \in Seq(LR!Units) /\ LR!LP!HasLine(pending)
    BY <1>1 DEF LR!TakesLine
  <2> QED BY <2>1, FirstNewline
<1>4. Len(pending) \in Nat /\ a = Len(arrived) - Len(pending)
  BY <1>1 DEF LR!Before
<1>5. LR!Before' = a + q
  <2>1. pending' = SubSeq(pending, q + 1, Len(pending)) /\ arrived' = arrived
    BY DEF LR!TakesLine, LR!LP!Rest
  <2> HIDE DEF q
  <2>2. Len(SubSeq(pending, q + 1, Len(pending))) = Len(pending) - q
    BY <1>1, <1>3
  <2>3. LR!Before' = Len(arrived') - Len(pending')
    BY DEF LR!Before
  <2>4. Len(arrived') = Len(arrived) /\ Len(pending') = Len(pending) - q
    BY <2>1, <2>2
  <2> HIDE DEF a
  <2> QED BY <1>2, <1>3, <1>4, <2>3, <2>4
<1> HIDE DEF a, q, s
<1>6. \A k \in 1 .. Len(pending) : a + k \in 1 .. Len(arrived) /\ a + k \in 1 .. Len(s)
  BY <1>1, <1>2, <1>4
<1>7. \A k \in 1 .. Len(pending) : pending[k] = s[a + k]
  BY <1>1, <1>2, <1>6
<1>8. a + q \in 1 .. Len(s) /\ s[a + q] = LF /\ q \in Nat /\ 1 <= q /\ q <= Len(pending)
  BY <1>3, <1>4, <1>6, <1>7
<1>9. PICK i \in 1 .. Len(course.segments) : a + q = EndOf(course, i)
  BY <1>1, <1>8, FeedsAreEnds DEF s
<1> DEFINE b == EndOf(course, i - 1)
           e == EndOf(course, i)
           o == course.segments[i].object
           n == Len(o)
           u == <<OPEN>> \o o \o <<CLOSE, LF>>
           t == <<OPEN>> \o o \o <<CLOSE>>
<1>10. /\ b \in Nat /\ e \in Nat /\ n \in Nat /\ e = b + n + 3
       /\ \A k \in b + 1 .. e - 1 : s[k] \notin {CR, LF}
       /\ \A k \in b + 2 .. e : s[k] # OPEN
       /\ \A k \in 1 .. n + 3 : s[b + k] = u[k]
  BY <1>1, WifiPlaces DEF s
<1>11. o \in Seq(ToSet(o))
  BY <1>1, WifiSegment
<1>12. /\ t \in Seq(ToSet(o) \cup {OPEN, CLOSE, LF}) /\ Len(t) = n + 2 /\ t # <<>>
       /\ \A k \in 1 .. Len(t) : t[k] = u[k]
  <2> HIDE DEF o
  <2> QED BY <1>11, LineStarts
<1>13. b < e
  <2> HIDE DEF b, e, n
  <2> QED BY <1>10
<1>14. b <= a
  <2>1. CASE i = 1
    <3>1. b = 0
      <4>1. Upto(course, 0) = <<>>
        BY <1>1, UptoIs
      <4>2. EndOf(course, 0) = 0
        BY <4>1 DEF EndOf
      <4>3. i - 1 = 0
        BY <2>1
      <4> QED BY <4>2, <4>3
    <3> HIDE DEF b
    <3> QED BY <1>1, <3>1 DEF a
  <2>2. CASE i # 1
    <3>1. i - 1 \in 1 .. Len(course.segments)
      BY <1>1, <2>2, SegmentIs
    <3>2. s[b] = LF
      BY <1>1, <3>1, WifiPlaces DEF s
    <3> HIDE DEF b, e, n
    <3>3. a \in Nat
      BY <1>1 DEF a
    <3>4. a + q = e
      BY <1>9 DEF e
    <3>5. ASSUME ~(b <= a) PROVE FALSE
      <4>1. b - a \in 1 .. q - 1 /\ b - a \in 1 .. Len(pending) /\ a + (b - a) = b
        BY <1>4, <1>8, <1>10, <1>13, <3>3, <3>4, <3>5
      <4>2. pending[b - a] = LF
        BY <1>7, <3>2, <4>1
      <4> QED BY <1>3, <4>1, <4>2
    <3> QED BY <3>5
  <2> QED BY <2>1, <2>2
<1>15. a \in Nat /\ a + q = e
  BY <1>1, <1>9 DEF a
<1> HIDE DEF b, e, n, o, u, t
<1>16. a < e
  BY <1>8, <1>15
<1>17. LR!LP!Line(pending) = SubSeq(pending, 1, q - 1)
  <2>1. q > 1 => pending[q - 1] # CR
    <3>1. q > 1 => q - 1 \in 1 .. Len(pending) /\ a + (q - 1) \in b + 1 .. e - 1
      BY <1>4, <1>8, <1>10, <1>14, <1>15
    <3> QED BY <1>7, <1>10, <3>1
  <2> QED BY <2>1 DEF LR!LP!Line, q
<1>18. CASE a = b
  <2>1. q = n + 3
    BY <1>8, <1>10, <1>15, <1>18
  <2>2. q - 1 = n + 2 /\ n + 2 <= Len(pending) /\ n + 2 \in Nat
    BY <1>4, <1>8, <1>10, <2>1
  <2>3. \A k \in 1 .. Len(t) : pending[0 + k] = t[k]
    <3> TAKE k \in 1 .. Len(t)
    <3>1. k \in 1 .. n + 2
      BY <1>12
    <3>2. k \in 1 .. n + 3 /\ k \in 1 .. Len(pending) /\ 0 + k = k
      BY <1>4, <1>10, <2>2, <3>1
    <3>3. pending[k] = s[a + k] /\ s[b + k] = u[k] /\ t[k] = u[k]
      BY <1>7, <1>10, <1>12, <3>2
    <3> QED BY <1>18, <3>2, <3>3
  <2>4. SubSeq(pending, 1, n + 2) = t
    <3> DEFINE T == OnLineUnits \cup ToSet(o) \cup {OPEN, CLOSE, LF}
    <3>1. pending \in Seq(T) /\ t \in Seq(T)
      <4>1. OnLineUnits \subseteq T /\ ToSet(o) \cup {OPEN, CLOSE, LF} \subseteq T
        OBVIOUS
      <4> HIDE DEF T
      <4> QED BY <1>1, <1>12, <4>1, SeqMore
    <3> HIDE DEF T
    <3>2. 0 \in Nat /\ 0 + Len(t) <= Len(pending) /\ 0 + 1 = 1 /\ 0 + Len(t) = n + 2
      BY <1>12, <2>2
    <3>3. SubSeq(pending, 0 + 1, 0 + Len(t)) = t
      BY <1>12, <2>3, <3>1, <3>2, StretchIs
    <3> QED BY <3>2, <3>3
  <2>5. LR!LP!Line(pending) = t
    BY <1>17, <2>2, <2>4
  <2> QED BY <1>5, <1>9, <1>10, <1>14, <1>15, <1>16, <1>18, <2>5 DEF a, b, e, o, t, Segments
<1>19. CASE a # b
  <2> DEFINE text == SubSeq(pending, 1, q - 1)
  <2>1. text = <<>> \/ text[1] = CLOSE \/ text[1] \in ToSet(o) \ {OPEN}
    <3>1. CASE q = 1
      <4>1. q - 1 = 0
        BY <3>1
      <4> QED BY <1>1, <4>1
    <3>2. CASE q # 1
      <4>1. 1 <= q - 1 /\ q - 1 <= Len(pending) /\ 1 \in 1 .. Len(pending)
            /\ a - b \in 1 .. n + 1 /\ a - b + 1 \in 1 .. n + 3 /\ b + (a - b + 1) = a + 1
        BY <1>4, <1>8, <1>10, <1>14, <1>15, <1>19, <3>2
      <4>2. text[1] = pending[1]
        BY <1>1, <1>4, <1>8, <4>1
      <4>3. pending[1] = u[a - b + 1]
        BY <1>7, <1>10, <4>1
      <4>4. /\ u[n + 2] = CLOSE /\ \A k \in 1 .. n : u[k + 1] = o[k]
            /\ ToSet(o) \cap {OPEN} = {}
        <5>1. ToSet(o) \cap {OPEN, CLOSE, CR, LF} = {}
          BY <1>1, WifiSegment DEF o
        <5> QED BY <1>11, <5>1, LineIs DEF u, n
      <4>5. CASE a - b = n + 1
        <5>1. a - b + 1 = n + 2
          BY <1>10, <4>5
        <5> QED BY <4>2, <4>3, <4>4, <5>1
      <4>6. CASE a - b # n + 1
        <5>1. a - b \in 1 .. n
          BY <1>10, <4>1, <4>6
        <5>2. o[a - b] \in ToSet(o)
          <6>1. DOMAIN o = 1 .. n
            BY <1>11 DEF n
          <6> QED BY <5>1, <6>1 DEF ToSet
        <5> QED BY <4>2, <4>3, <4>4, <5>1, <5>2
      <4> QED BY <4>5, <4>6
    <3> QED BY <3>1, <3>2
  <2> HIDE DEF text
  <2>2. Objects(text) \subseteq Rests(i)
    BY <2>1, RestsOnly DEF o, Segments
  <2>3. Objects(LR!LP!Line(pending)) \subseteq Rests(i)
    BY <1>17, <2>2 DEF text
  <2> QED BY <1>5, <1>9, <1>10, <1>14, <1>15, <1>16, <1>19, <2>3 DEF a, b, e, Segments
<1> QED BY <1>18, <1>19

\* What the gateway makes of a whole line.
LEMMA LineMeaning ==
    ASSUME course \in Courses, course.leg = "wifi",
           NEW k \in 1 .. Len(Segments)
    PROVE  /\ Objects(<<OPEN>> \o Segments[k].object \o <<CLOSE>>) = {Segments[k].object}
           /\ OnWifiObject(Segments[k].object)
                 = IF Understood(k) THEN Meaning(k) ELSE Malformed
<1> DEFINE seg == Segments[k]
           m == seg.message
           o == seg.object
           text == <<OPEN>> \o o \o <<CLOSE>>
<1>1. /\ seg \in ToSet(course.segments) /\ m \in Messages /\ IsMessage(m)
      /\ m.type # "CMD" => IsUpstream(m)
  <2>1. seg \in ToSet(course.segments)
    BY SegmentIs DEF Segments
  <2> QED BY <2>1, MessageOf
<1>2. /\ o \in Seq(ToSet(o)) /\ ToSet(o) \cap {OPEN, CLOSE, CR, LF} = {}
      /\ o # Malformed /\ "object" \in DOMAIN seg
  BY WifiSegment DEF Segments
<1>3. Understood(k) <=> m.type \in {"DATA", "ACK", "NACK"} /\ Legible(m)
  BY DEF Understood, Legible
<1>4. Meaning(k) = m
  BY DEF Meaning, Framed
<1>5. \/ m.type # "CMD" /\ o = C!ObjectOf(m)
      \/ OnWifiObject(o) = IF m.type \in {"DATA", "ACK", "NACK"} /\ Legible(m)
                           THEN m ELSE Malformed
  BY <1>1, <1>2, ObjectsAssumption
<1>6. Objects(text) = {o}
  <2> HIDE DEF o
  <2> QED BY <1>2, ObjectOfLine
<1> HIDE DEF text
<1>7. CASE m.type # "CMD" /\ o = C!ObjectOf(m)
  <2> HIDE DEF m
  <2>1. IsUpstream(m) /\ MaxFields \in Nat \ {0} /\ "ERR" \notin Long \cup {""}
    BY <1>1, <1>7, ProtocolAssumption
  <2>2. /\ C!PeekType(o) = IF Legible(m) THEN m.type ELSE Malformed
        /\ C!DecodeAck(o) = IF m.type = "ACK" /\ Legible(m)
                            THEN C!Message("ACK", m.id, m.seq, m.fields) ELSE Malformed
        /\ C!DecodeNack(o) = IF m.type = "NACK" /\ Legible(m)
                             THEN C!Message("NACK", m.id, m.seq, m.fields) ELSE Malformed
        /\ C!DecodeData(o) = IF m.type = "DATA" /\ Legible(m)
                             THEN C!Message("DATA", m.id, m.seq, m.fields) ELSE Malformed
    BY <1>7, <2>1, DecodedAnswers, DecodedData
  <2>3. m = C!Message(m.type, m.id, m.seq, m.fields)
    BY <1>1, <1>7, MessagesAssumption
  <2>4. Malformed # m.type
    <3> DEFINE Q == UNION {{y.seq, y.seq % SequenceLimit} : y \in Messages}
    <3>1. m.seq \in Q
      BY <1>1
    <3>2. Exchanged = NodeAnswers \cup {C!Message(z.type, z.id, q, z.fields) : z \in Messages, q \in Q}
      BY DEF Exchanged
    <3> HIDE DEF Q
    <3>3. C!Message(m.type, m.id, m.seq, m.fields) \in Exchanged
      BY <1>1, <3>1, <3>2
    <3>4. m \in Exchanged
      BY <2>3, <3>3
    <3> QED BY <3>4, MalformedAssumption
  <2> HIDE DEF o
  <2>5. OnWifiObject(o) = IF Legible(m) /\ m.type \in {"DATA", "ACK", "NACK"} THEN m
                          ELSE Malformed
    <3>1. CASE ~Legible(m)
      BY <2>2, <3>1 DEF OnWifiObject
    <3>2. CASE Legible(m)
      <4>1. C!PeekType(o) = m.type /\ Malformed # m.type /\ o # Malformed
        BY <1>2, <2>2, <2>4, <3>2
      <4>2. OnWifiObject(o) = IF m.type = "ACK" THEN C!DecodeAck(o)
                              ELSE IF m.type = "NACK" THEN C!DecodeNack(o)
                              ELSE C!DecodeData(o)
        BY <4>1 DEF OnWifiObject
      <4> QED BY <2>2, <2>3, <3>2, <4>2
    <3> QED BY <3>1, <3>2
  <2> QED BY <1>3, <1>4, <1>6, <2>5 DEF text, o, m
<1> QED BY <1>3, <1>4, <1>5, <1>6, <1>7 DEF text

\* A line that is taken is the next message as it was sent, unless the start of it
\* was thrown away: then it is none, or is read as an object inside.
LEMMA LineArrives ==
    ASSUME PathInv, LineInv, course.leg = "wifi", LR!TakesLine,
           course' = course, sent' = sent
    PROVE  \E i \in 1 .. Len(Segments) :
              /\ \A j \in Arrived : j < i
              /\ Arrived' = Arrived \cup {i}
              /\ \/ \A o \in Objects(LR!LP!Line(pending)) :
                       OnWifiObject(o) = IF Understood(i) THEN Meaning(i) ELSE Malformed
                 \/ drops # {} /\ Objects(LR!LP!Line(pending)) \subseteq Rests(i)
<1>1. PICK i \in 1 .. Len(Segments) :
              /\ EndOf(course, i - 1) \in Nat /\ EndOf(course, i) \in Nat
              /\ EndOf(course, i - 1) <= LR!Before /\ LR!Before < EndOf(course, i)
              /\ LR!Before \in Nat /\ LR!Before' = EndOf(course, i)
              /\ \/ LR!Before = EndOf(course, i - 1)
                    /\ LR!LP!Line(pending) = <<OPEN>> \o Segments[i].object \o <<CLOSE>>
                 \/ LR!Before # EndOf(course, i - 1)
                    /\ Objects(LR!LP!Line(pending)) \subseteq Rests(i)
  BY LineTaken
<1>2. /\ course \in Courses /\ sent = Sent(course) /\ i \in 1 .. Len(course.segments)
      /\ DOMAIN sent = 1 .. Len(course.segments)
  <2>1. course \in Courses /\ sent = Sent(course)
    BY DEF PathInv
  <2> QED BY <2>1, SegmentIs DEF Segments
<1>3. Arrived = WholeIn(course, LR!Before)
  <2>1. ~Framed
    BY DEF Framed
  <2> QED BY <1>2, <2>1 DEF Arrived, WholeIn, EndOf, Upto
<1>4. Arrived' = WholeIn(course, LR!Before')
  <2>1. ~Framed'
    BY DEF Framed
  <2> QED BY <1>2, <2>1 DEF Arrived, WholeIn, EndOf, Upto
<1>5. /\ WholeIn(course, LR!Before) = {j \in 1 .. Len(course.segments) : j < i}
      /\ WholeIn(course, EndOf(course, i)) = {j \in 1 .. Len(course.segments) : j < i} \cup {i}
  BY <1>1, <1>2, EndedBefore
<1>6. (\A j \in Arrived : j < i) /\ Arrived' = Arrived \cup {i}
  BY <1>1, <1>3, <1>4, <1>5
<1>7. CASE LR!Before = EndOf(course, i - 1)
  <2>1. \A o \in Objects(LR!LP!Line(pending)) :
           OnWifiObject(o) = IF Understood(i) THEN Meaning(i) ELSE Malformed
    BY <1>1, <1>2, <1>7, LineMeaning
  <2> QED BY <1>6, <2>1
<1>8. CASE LR!Before # EndOf(course, i - 1)
  <2>1. Objects(LR!LP!Line(pending)) \subseteq Rests(i)
    BY <1>1, <1>8
  <2>2. ASSUME drops = {} PROVE FALSE
    <3>1. LR!Before + 1 = 1 \/ arrived[LR!Before] = LF
      <4> DEFINE p == LR!Before + 1
      <4>1. LR!StartsLine(p)
        BY <2>2 DEF PathInv, ReaderInv, PendingIsTheEnd
      <4>2. p - 1 = LR!Before
        BY <1>1
      <4> HIDE DEF p
      <4>3. p = 1 \/ arrived[p - 1] = LF
        BY <4>1 DEF LR!StartsLine
      <4> QED BY <4>2, <4>3 DEF p
    <3> DEFINE a == LR!Before
               b == EndOf(course, i - 1)
               e == EndOf(course, i)
               s == Stream(Sent(course))
    <3>2. \A k \in b + 1 .. e - 1 : s[k] \notin {CR, LF}
      BY <1>2, WifiPlaces
    <3>3. arrived \in Seq(OnLineUnits) /\ stream \in Seq(OnLineUnits)
          /\ arrived \o stream = s /\ pending \in Seq(OnLineUnits)
      BY UnitsOfReaders DEF PathInv, ReaderInv, Typed, LineInv, Framed
    <3>4. Len(arrived) \in Nat /\ \A k \in 1 .. Len(arrived) : s[k] = arrived[k]
      <4>1. arrived \in Seq(OnLineUnits) /\ stream \in Seq(OnLineUnits)
        BY <3>3
      <4>2. Len(arrived) \in Nat /\ \A k \in 1 .. Len(arrived) : (arrived \o stream)[k] = arrived[k]
        BY <4>1, TwoJoined
      <4> QED BY <3>3, <4>2
    <3>5. a = Len(arrived) - Len(pending) /\ Len(pending) \in Nat
      BY <3>3 DEF LR!Before
    <3>6. b \in Nat /\ e \in Nat /\ a \in Nat /\ b <= a /\ a < e /\ a # b
      BY <1>1, <1>8
    <3> HIDE DEF a, b, e, s
    <3>7. a \in b + 1 .. e - 1 /\ a \in 1 .. Len(arrived) /\ a + 1 # 1
      BY <3>4, <3>5, <3>6
    <3>8. s[a] # LF /\ s[a] = arrived[a]
      BY <3>2, <3>4, <3>7
    <3> QED BY <3>1, <3>7, <3>8 DEF a
  <2> QED BY <1>6, <2>1, <2>2
<1> QED BY <1>7, <1>8

-----------------------------------------------------------------------------
(* The WiFi line *)

\* Short of an overflow the server has what it should, and after one it has something
\* of some segments, in their order.
OfSegments(h, S) ==
    /\ h = [j \in 1 .. Cardinality(S) |-> h[j]]
    /\ \A j \in 1 .. Cardinality(S) : h[j] \in Said(C!Nth(S, j))

\* These segments have been read.
Sometimes == \E S \in SUBSET Arrived : OfSegments(handled, S)

\* What is taken of a segment behind these comes last, and nothing changes nothing.
LEMMA OneSaid ==
    ASSUME NEW n \in Nat, NEW S \in SUBSET (1 .. n), NEW k \in 1 .. n, \A i \in S : i < k,
           NEW h, OfSegments(h, S)
    PROVE  /\ \A y \in Said(k) : OfSegments(h \o <<y>>, S \cup {k})
           /\ h \o <<>> = h
<1> DEFINE c == Cardinality(S)
           A(y) == {h[j] : j \in 1 .. c} \cup {y}
<1>1. S \in SUBSET Nat /\ IsFiniteSet(S) /\ k \in Nat
  <2>1. IsFiniteSet(1 .. n)
    BY CountTo
  <2>2. S \subseteq 1 .. n /\ 1 .. n \subseteq Nat /\ k \in Nat
    OBVIOUS
  <2> QED BY <2>1, <2>2, FS_Subset
<1>2. /\ Cardinality(S \cup {k}) = c + 1 /\ c \in Nat
      /\ \A j \in 1 .. c : C!Nth(S \cup {k}, j) = C!Nth(S, j)
      /\ C!Nth(S \cup {k}, c + 1) = k
  BY <1>1, NthBehind
<1>3. h = [j \in 1 .. c |-> h[j]] /\ \A j \in 1 .. c : h[j] \in Said(C!Nth(S, j))
  BY DEF OfSegments
<1> HIDE DEF c
<1>4. \A y : h \in [1 .. c -> A(y)]
  BY <1>3
<1>5. \A y : h \in Seq(A(y)) /\ Len(h) = c
  <2> SUFFICES ASSUME NEW y PROVE h \in Seq(A(y)) /\ Len(h) = c
    OBVIOUS
  <2>1. h \in [1 .. c -> A(y)]
    BY <1>4
  <2> HIDE DEF A
  <2> QED BY <1>2, <2>1
<1>6. h \o <<>> = h
  <2>1. PICK B : h \in Seq(B)
    BY <1>5
  <2> QED BY <2>1, ConcatEmptySeq
<1>7. ASSUME NEW y \in Said(k) PROVE OfSegments(h \o <<y>>, S \cup {k})
  <2>1. h \in Seq(A(y)) /\ <<y>> \in Seq(A(y)) /\ Len(<<y>>) = 1 /\ <<y>>[1] = y
        /\ Len(h) = c
    <3>1. y \in A(y)
      OBVIOUS
    <3>2. h \in Seq(A(y)) /\ Len(h) = c
      BY <1>5
    <3> HIDE DEF A
    <3>3. \A B : y \in B => <<y>> \in Seq(B) /\ Len(<<y>>) = 1 /\ <<y>>[1] = y
      OBVIOUS
    <3> QED BY <3>1, <3>2, <3>3
  <2> DEFINE g == h \o <<y>>
  <2>2. /\ g \in Seq(A(y)) /\ Len(g) = c + 1
        /\ \A j \in 1 .. c : g[j] = h[j]
        /\ g[c + 1] = y
    <3> HIDE DEF A
    <3>1. /\ h \o <<y>> \in Seq(A(y)) /\ Len(h \o <<y>>) = Len(h) + Len(<<y>>)
          /\ \A j \in 1 .. Len(h) : (h \o <<y>>)[j] = h[j]
          /\ \A j \in 1 .. Len(<<y>>) : (h \o <<y>>)[Len(h) + j] = <<y>>[j]
      BY <2>1, TwoJoined
    <3>2. 1 \in 1 .. 1
      OBVIOUS
    <3> QED BY <2>1, <3>1, <3>2
  <2> HIDE DEF g, A
  <2>3. g = [j \in 1 .. c + 1 |-> g[j]]
    BY <1>2, <2>2
  <2>4. \A j \in 1 .. c + 1 : g[j] \in Said(C!Nth(S \cup {k}, j))
    <3>1. \A j \in 1 .. c + 1 : j \in 1 .. c \/ j = c + 1
      BY <1>2
    <3> QED BY <1>2, <1>3, <2>2, <3>1
  <2> QED BY <1>2, <2>3, <2>4 DEF OfSegments, g
<1> QED BY <1>6, <1>7

\* On the WiFi line.
WifiInv == course.leg = "wifi" => /\ drops = {} => BoundInv /\ handled = InOrder(Kept)
                                  /\ Sometimes

\* A read keeps it, and so does a line taken out of the buffer.
LEMMA WifiStep ==
    ASSUME PathInv, LineInv, WifiInv, [Next]_vars
    PROVE  WifiInv'
<1>0. course' = course /\ sent' = sent /\ course \in Courses
  BY DEF Next, vars, FrameUnit, WifiRead, WifiLine, Done, PathInv
<1> SUFFICES ASSUME course.leg = "wifi"
             PROVE  (drops' = {} => BoundInv' /\ (handled = InOrder(Kept))') /\ Sometimes'
  BY <1>0 DEF WifiInv
<1>1. (drops = {} => BoundInv /\ handled = InOrder(Kept)) /\ Sometimes
  BY DEF WifiInv
<1>2. ~Framed /\ ~Framed'
  BY <1>0 DEF Framed
<1>3. \A i : Said(i)' = Said(i)
  BY <1>0, SameMessages DEF Said, Inside, InnerObjects
<1>4. ASSUME Arrived \subseteq Arrived', handled' = handled PROVE Sometimes'
  <2>1. PICK S \in SUBSET Arrived : OfSegments(handled, S)
    BY <1>1 DEF Sometimes
  <2>2. S \in SUBSET Arrived' /\ OfSegments(handled, S)'
    BY <1>3, <1>4, <2>1 DEF OfSegments
  <2> QED BY <2>2 DEF Sometimes
<1>5. ASSUME Arrived' = Arrived, bound' = bound, handled' = handled, drops' = drops
      PROVE  (drops' = {} => BoundInv' /\ (handled = InOrder(Kept))') /\ Sometimes'
  <2>1. drops = {} => BoundInv' /\ (handled = InOrder(Kept))'
    <3> SUFFICES ASSUME drops = {} PROVE BoundInv' /\ (handled = InOrder(Kept))'
      OBVIOUS
    <3>1. BoundInv /\ handled = InOrder(Kept)
      BY <1>1
    <3> QED BY <1>0, <1>5, <3>1, SameHandled
  <2> QED BY <1>4, <1>5, <2>1
<1>6. CASE UNCHANGED vars
  <2>1. Arrived' = Arrived /\ bound' = bound /\ handled' = handled /\ drops' = drops
    BY <1>6 DEF vars, Arrived, Framed, LR!Before, frames, texts
  <2> QED BY <1>5, <2>1
<1>7. CASE FrameUnit
  BY <1>7 DEF FrameUnit
<1>8. CASE WifiRead
  <2>1. PICK k \in 1 .. ReadSize :
          /\ k <= Len(stream)
          /\ LR!Reads(SubSeq(stream, 1, k)) \/ LR!Overflows(SubSeq(stream, 1, k))
    BY <1>8 DEF WifiRead
  <2>2. bound' = bound /\ handled' = handled
    BY <1>8 DEF WifiRead
  <2> DEFINE c == SubSeq(stream, 1, k)
  <2>3. c \in Seq(OnLineUnits) /\ arrived \in Seq(OnLineUnits) /\ pending \in Seq(OnLineUnits)
    <3>1. /\ stream \in Seq(OnLineUnits) /\ arrived \in Seq(OnLineUnits)
          /\ pending \in Seq(OnLineUnits)
      BY UnitsOfReaders DEF PathInv, ReaderInv, Typed
    <3>2. ReadSize \in Nat
      BY ReadersAssumption DEF LR!Sizes
    <3>3. \A j \in 1 .. k : j \in 1 .. Len(stream)
      BY <2>1, <3>1, <3>2
    <3> QED BY <2>1, <3>1, <3>2
  <2> HIDE DEF c
  <2>4. CASE LR!Reads(c)
    <3>1. arrived' = arrived \o c /\ pending' = pending \o c /\ drops' = drops
      BY <2>4 DEF LR!Reads
    <3>2. LR!Before' = LR!Before
      <4>1. Len(arrived \o c) = Len(arrived) + Len(c) /\ Len(pending \o c) = Len(pending) + Len(c)
            /\ Len(arrived) \in Nat /\ Len(c) \in Nat /\ Len(pending) \in Nat
        BY <2>3
      <4>2. Len(arrived') = Len(arrived) + Len(c) /\ Len(pending') = Len(pending) + Len(c)
        BY <3>1, <4>1
      <4> QED BY <4>1, <4>2 DEF LR!Before
    <3>3. Arrived' = Arrived
      BY <1>0, <1>2, <3>2 DEF Arrived
    <3> QED BY <1>5, <2>2, <3>1, <3>3
  <2>5. CASE LR!Overflows(c)
    <3>1. arrived' = arrived \o c /\ pending' = <<>> /\ drops' = drops \cup {Len(arrived')}
      BY <2>5 DEF LR!Overflows
    <3>2. LR!Before \in Nat /\ LR!Before' \in Nat /\ LR!Before <= LR!Before'
      <4>1. Len(arrived \o c) = Len(arrived) + Len(c)
            /\ Len(arrived) \in Nat /\ Len(c) \in Nat /\ Len(pending) \in Nat
        BY <2>3
      <4>2. LR!Before = Len(arrived) - Len(pending) /\ LR!Before \in Nat
        BY DEF LR!Before, PathInv, ReaderInv, PendingIsTheEnd
      <4>3. LR!Before' = Len(arrived) + Len(c)
        <5>1. LR!Before' = Len(arrived') - Len(pending')
          BY DEF LR!Before
        <5>2. Len(arrived') = Len(arrived) + Len(c) /\ Len(pending') = 0
          BY <3>1, <4>1
        <5> QED BY <4>1, <5>1, <5>2
      <4> QED BY <4>1, <4>2, <4>3
    <3>3. Arrived \subseteq Arrived'
      <4> SUFFICES ASSUME NEW i \in Arrived PROVE i \in Arrived'
        OBVIOUS
      <4>1. /\ i \in DOMAIN sent /\ sent[i].whole
            /\ Len(Stream(SubSeq(sent, 1, i))) <= LR!Before
        BY <1>2 DEF Arrived
      <4>2. Len(Stream(SubSeq(sent, 1, i))) \in Nat
        <5>1. sent = Sent(course) /\ i \in 1 .. Len(course.segments)
          BY <1>0, <4>1, SegmentIs DEF PathInv
        <5>2. EndOf(course, i) \in Nat
          BY <1>0, <5>1, SegmentAt
        <5> QED BY <5>1, <5>2 DEF EndOf, Upto
      <4>3. Len(Stream(SubSeq(sent, 1, i))) <= LR!Before'
        BY <3>2, <4>1, <4>2
      <4> QED BY <1>0, <1>2, <4>1, <4>3 DEF Arrived
    <3>4. drops' # {}
      BY <3>1
    <3> QED BY <1>4, <2>2, <3>3, <3>4
  <2> QED BY <2>1, <2>4, <2>5 DEF c
<1>9. CASE WifiLine
  <2>0. PICK o \in Objects(LR!LP!Line(pending)) : Upstream(OnWifiObject(o))
    BY <1>9 DEF WifiLine
  <2> DEFINE x == OnWifiObject(o)
  <2>1. LR!TakesLine /\ Upstream(x) /\ drops' = drops
    BY <1>9, <2>0 DEF WifiLine, LR!TakesLine
  <2>2. PICK k \in 1 .. Len(Segments) :
              /\ \A j \in Arrived : j < k
              /\ Arrived' = Arrived \cup {k}
              /\ \/ x = IF Understood(k) THEN Meaning(k) ELSE Malformed
                 \/ drops # {} /\ o \in Rests(k)
    BY <1>0, <2>0, <2>1, LineArrives
  <2>7. o \in Rests(k) /\ x # Malformed => ToSet(Taken(x)) \subseteq Inside(k)
    <3>1. x # Malformed => o # Malformed
      BY DEF OnWifiObject
    <3> QED BY <3>1 DEF Rests, Inside
  <2> HIDE DEF x
  <2>3. Understood(k) =>
             /\ Meaning(k) # Malformed /\ Meaning(k).id = Segments[k].message.id
             /\ Meaning(k).id \notin {NoId, ""}
             /\ Taken(Meaning(k)) = IF Untold(k) THEN <<>> ELSE <<Meaning(k)>>
    BY <1>0, TakenIsMeaning
  <2>4. Arrived \subseteq 1 .. Len(Segments)
        /\ \A j \in Arrived : Segments[j].message.id # NoId
    BY <1>0, ArrivedAre DEF PathInv
  <2>5. ASSUME drops = {} PROVE BoundInv' /\ (handled = InOrder(Kept))'
    <3>1. x = IF Understood(k) THEN Meaning(k) ELSE Malformed
      BY <2>2, <2>5
    <3>2. Understood(k) => /\ x # Malformed /\ x.id = Segments[k].message.id
                           /\ x.id \notin {NoId, ""}
                           /\ Taken(x) = IF Untold(k) THEN <<>> ELSE <<Meaning(k)>>
      BY <2>3, <3>1
    <3>3. BoundInv /\ handled = InOrder(Kept)
      BY <1>1, <2>5
    <3>4. \A i \in Arrived : i < k
      BY <2>2
    <3>5. Arrived' = Arrived \cup {k}
      BY <2>2
    <3> QED BY <1>0, <2>1, <2>4, <3>1, <3>2, <3>3, <3>4, <3>5, OneMore
  <2>6. Sometimes'
    <3>1. PICK S \in SUBSET Arrived : OfSegments(handled, S)
      BY <1>1 DEF Sometimes
    <3>2. /\ \A y \in Said(k) : OfSegments(handled \o <<y>>, S \cup {k})
          /\ handled \o <<>> = handled
      <4>1. S \in SUBSET (1 .. Len(Segments)) /\ (\A i \in S : i < k) /\ Len(Segments) \in Nat
        BY <1>0, <2>2, <2>4, SegmentIs DEF Segments
      <4> QED BY <3>1, <4>1, OneSaid
    <3>3. handled' = handled \/ \E y \in Said(k) : handled' = handled \o <<y>>
      <4>1. CASE x = Malformed
        BY <2>1, <4>1 DEF Upstream
      <4>2. CASE x # Malformed
        <5>1. handled' = handled \/ handled' = handled \o Taken(x)
          BY <2>1, <4>2 DEF Upstream, Forwards
        <5>2. Taken(x) = <<>> \/ \E y \in Said(k) : Taken(x) = <<y>>
          <6>1. CASE Understood(k) /\ x = Meaning(k)
            BY <2>3, <6>1 DEF Said
          <6>2. CASE ~(Understood(k) /\ x = Meaning(k))
            <7>1. ToSet(Taken(x)) \subseteq Inside(k)
              BY <2>2, <2>7, <4>2, <6>2
            <7>2. Taken(x) = <<>> \/ \E y : Taken(x) = <<y>>
              BY DEF Taken
            <7>3. \A y : y \in ToSet(<<y>>)
              BY DEF ToSet
            <7> QED BY <7>1, <7>2, <7>3 DEF Said
          <6> QED BY <6>1, <6>2
        <5> QED BY <3>2, <5>1, <5>2
      <4> QED BY <4>1, <4>2
    <3>4. CASE handled' = handled
      BY <1>4, <2>2, <3>4
    <3>5. ASSUME NEW y \in Said(k), handled' = handled \o <<y>> PROVE Sometimes'
      <4>1. OfSegments(handled', S \cup {k})
        BY <3>2, <3>5
      <4>2. OfSegments(handled, S \cup {k})'
        BY <1>3, <4>1 DEF OfSegments
      <4>3. S \cup {k} \in SUBSET Arrived'
        BY <2>2
      <4> QED BY <4>2, <4>3 DEF Sometimes
    <3> QED BY <3>3, <3>4, <3>5
  <2> QED BY <2>1, <2>5, <2>6
<1> QED BY <1>6, <1>7, <1>8, <1>9 DEF Next, Done

\* All of it, from the start.
EndToEndInv == PathInv /\ LineInv /\ SerialInv /\ CommandInv /\ WifiInv

\* Nothing was sent, so nothing is handled.
LEMMA EndToEndInit ==
    Init => EndToEndInv
<1> SUFFICES ASSUME Init PROVE EndToEndInv
  OBVIOUS
<1>1. PathInv
  <2>1. course \in Courses /\ sent = Sent(course) /\ stream = Stream(sent)
        /\ FP!Init /\ LR!Init
    BY DEF Init
  <2> QED BY <2>1, StreamIsSequence, FramesInit, ReaderInit DEF PathInv
<1>2. LineInv /\ (Framed => Arrived = {})
  BY <1>1, NothingYet
<1>3. course \in Courses /\ sent = Sent(course) /\ bound = NoId /\ handled = <<>>
      /\ executed = <<>> /\ pending = <<>> /\ arrived = <<>>
  BY DEF Init, LR!Init
<1>4. course.leg = "wifi" => Arrived = {}
  <2> SUFFICES ASSUME course.leg = "wifi" PROVE Arrived = {}
    OBVIOUS
  <2>1. LR!Before = 0 /\ ~Framed
    BY <1>3 DEF LR!Before, Framed
  <2>2. ASSUME NEW i \in Arrived PROVE FALSE
    <3>1. i \in 1 .. Len(course.segments) /\ EndOf(course, i) <= 0
      BY <1>3, <2>1, SegmentIs DEF Arrived, EndOf, Upto
    <3>2. LET n == Len(course.segments[i].object)
          IN  /\ EndOf(course, i - 1) \in Nat /\ EndOf(course, i) \in Nat /\ n \in Nat
              /\ EndOf(course, i) = EndOf(course, i - 1) + n + 3
      BY <1>3, <3>1, WifiPlaces
    <3> QED BY <3>1, <3>2
  <2> QED BY <2>2
<1>5. course.leg \in {"serial", "wifi", "command"}
  BY <1>3, CoursesAssumption
<1>6. Arrived = {}
  BY <1>2, <1>4, <1>5 DEF Framed
<1>7. BoundInv /\ handled = InOrder(Kept)
  BY <1>3, <1>6, NothingHandled
<1>8. Answering
  BY <1>3, <1>6, NothingAnswered
<1>9. Sometimes
  <2>1. Cardinality({}) = 0 /\ 1 .. 0 = {}
    BY FS_EmptySet
  <2>2. <<>> = [j \in 1 .. 0 |-> <<>>[j]]
    <3>1. DOMAIN <<>> = 1 .. 0
      OBVIOUS
    <3>2. [j \in 1 .. 0 |-> <<>>[j]] \in [1 .. 0 -> {}]
      BY <2>1
    <3>3. [j \in 1 .. 0 |-> <<>>[j]] \in Seq({}) /\ Len([j \in 1 .. 0 |-> <<>>[j]]) = 0
      BY <3>2
    <3> QED BY <3>3, EmptySeq
  <2>3. OfSegments(<<>>, {})
    BY <2>1, <2>2 DEF OfSegments
  <2> QED BY <1>3, <2>3 DEF Sometimes
<1> QED BY <1>1, <1>2, <1>7, <1>8, <1>9 DEF EndToEndInv, SerialInv, CommandInv, WifiInv

\* Every step keeps all of it.
LEMMA EndToEndStep ==
    EndToEndInv /\ [Next]_vars => EndToEndInv'
<1> SUFFICES ASSUME EndToEndInv, [Next]_vars PROVE EndToEndInv'
  OBVIOUS
<1>1. PathInv /\ LineInv /\ SerialInv /\ CommandInv /\ WifiInv
  BY DEF EndToEndInv
<1>2. PathInv'
  <2>1. CASE UNCHANGED vars
    <3>1. UNCHANGED <<course, sent, stream, frames, texts>>
      BY <2>1 DEF vars
    <3> QED BY <1>1, <3>1, FramesStutter, ReaderStutters DEF PathInv
  <2> QED BY <1>1, <2>1, FrameUnitStep, WifiReadStep, WifiLineStep DEF Next, Done
<1>3. LineInv'
  <2>1. CASE UNCHANGED vars
    BY <1>1, <2>1 DEF vars, LineInv, Framed, frames, texts
  <2> QED BY <1>1, <2>1, LineStep DEF Next, Done
<1>4. SerialInv' /\ CommandInv' /\ WifiInv'
  BY <1>1, SerialStep, CommandStep, WifiStep
<1> QED BY <1>2, <1>3, <1>4 DEF EndToEndInv

\* It always holds.
LEMMA EndToEndInvariant ==
    Spec => []EndToEndInv
<1>1. Init => EndToEndInv
  BY EndToEndInit
<1>2. EndToEndInv /\ [Next]_vars => EndToEndInv'
  BY EndToEndStep
<1> QED BY <1>1, <1>2, PTL DEF Spec

\* Whatever the serial line cuts and damages, and however the reads of a worker fall
\* as long as none overflows: the server takes the messages that arrive whole, each
\* once, in their order, as what they are and with every field, and nothing else.
THEOREM EveryMessageIsHandledOnce ==
    Spec => []HandledExactly
<1>1. EndToEndInv => HandledExactly
  <2>1. SerialInv /\ WifiInv
        => ((course.leg = "serial" \/ (course.leg = "wifi" /\ drops = {}))
               => handled = InOrder(Kept))
    BY DEF SerialInv, WifiInv
  <2> QED BY <2>1 DEF EndToEndInv, HandledExactly, Kept
<1> QED BY <1>1, EndToEndInvariant, PTL

\* After an overflow too the server takes of each line one message at most, in the
\* order of the lines: the one that was sent, or what its fields spell when the line
\* is cut before their brace.  Nothing else that is left of a line is taken for one.
THEOREM NothingElseIsHandled ==
    Spec => []HandledWasSent
<1>1. EndToEndInv => HandledWasSent
  <2> SUFFICES ASSUME EndToEndInv, course.leg = "wifi"
               PROVE  \E S \in SUBSET (DOMAIN Segments) :
                         /\ Len(handled) = Cardinality(S)
                         /\ \A k \in DOMAIN handled : handled[k] \in Said(C!Nth(S, k))
    BY DEF HandledWasSent
  <2>1. Sometimes /\ course \in Courses /\ sent = Sent(course)
    BY DEF EndToEndInv, WifiInv, PathInv
  <2>2. PICK S \in SUBSET Arrived : OfSegments(handled, S)
    BY <2>1 DEF Sometimes
  <2>3. Arrived \subseteq DOMAIN Segments /\ DOMAIN Segments = 1 .. Len(Segments)
        /\ Len(Segments) \in Nat
    BY <2>1, ArrivedAre, SegmentIs DEF Segments
  <2>4. Cardinality(S) \in Nat
    <3>1. IsFiniteSet(1 .. Len(Segments))
      BY <2>3, CountTo
    <3>2. IsFiniteSet(S)
      BY <2>2, <2>3, <3>1, FS_Subset
    <3> QED BY <3>2, FS_CardinalityType
  <2>5. PICK h : h = handled
    OBVIOUS
  <2>6. h = [j \in 1 .. Cardinality(S) |-> h[j]]
    BY <2>2, <2>5 DEF OfSegments
  <2>7. PICK c \in Nat : c = Cardinality(S)
    BY <2>4
  <2>8. DOMAIN h = 1 .. c /\ Len(h) = c
    <3>1. h \in [1 .. c -> {h[j] : j \in 1 .. c}]
      BY <2>6, <2>7
    <3>2. h \in Seq({h[j] : j \in 1 .. c})
      BY <3>1
    <3> QED BY <3>1, <3>2
  <2> QED BY <2>2, <2>3, <2>5, <2>7, <2>8 DEF OfSegments
<1> QED BY <1>1, EndToEndInvariant, PTL

\* Every command that arrives whole is answered once, in order and under its number,
\* and is acknowledged exactly when the node executed it, with the value it executed.
THEOREM EveryAnswerIsTrue ==
    Spec => []AnswersTellTheTruth
<1>1. EndToEndInv => AnswersTellTheTruth
  <2>1. EndToEndInv => (course.leg = "command" => Answering)
    BY DEF EndToEndInv, CommandInv
  <2>2. course.leg # "command" => AnswersTellTheTruth
    BY DEF AnswersTellTheTruth
  <2> QED BY <2>1, <2>2, AnsweringTells
<1> QED BY <1>1, EndToEndInvariant, PTL
=============================================================================
