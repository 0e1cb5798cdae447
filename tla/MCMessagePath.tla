--------------------------- MODULE MCMessagePath ---------------------------
EXTENDS MessagePath

\* The parts of a frame with n units that arrive: all of it, a cut beginning or
\* end, all of it with one unit hit.
Whole == {[from |-> 1, to |-> 99, hit |-> 0]}
Cuts(n) == {[from |-> f, to |-> t, hit |-> 0] : f \in 1 .. n, t \in 1 .. n}
Hits(n) == {[from |-> 1, to |-> n, hit |-> h] : h \in 1 .. n}

Framed_(m, p) == [message |-> m, from |-> p.from, to |-> p.to, hit |-> p.hit]
Object_(m, o, p) == [message |-> m, object |-> o, from |-> p.from, to |-> p.to,
                     hit |-> p.hit]

Data1 == C!Message("DATA", "n1", 1, <<<<"T", "253">>>>)
Data2 == C!Message("DATA", "n1", 2, <<<<"T", "254">>, <<"H", "601">>>>)
Data3 == C!Message("DATA", "n1", 3, <<<<"T", "250">>, <<"H", "601">>>>)
Ack1  == C!Message("ACK", "n1", 7, <<<<"LED", "1">>>>)
Nack1 == C!Message("NACK", "n1", 8, <<<<"ERR", "sim_fault">>>>)

\* What an encoder, a decoder or a buffer refuses, or a name that is not bound.
Odd == {C!Message("DATA", "n2", 3, <<<<"T", "255">>>>),
        C!Message("DATA", "n1", 12, <<>>),
        C!Message("DATA", "long", 3, <<<<"T", "255">>>>),
        C!Message("DATA", "n1", 3, <<<<"T", "long">>>>),
        C!Message("DATA", "n1", 3, <<<<"T", "">>>>),
        C!Message("DATA", "n1", 3, <<<<"T", "a,b">>>>),
        C!Message("DATA", "n1", 3, <<<<"type", "ACK">>>>),
        C!Message("DATA", "n1", 3, <<<<"T", "1">>, <<"H", "2">>, <<"P", "3">>>>),
        C!Message("DATA", "n1", 3,
                  <<<<"T", "1">>, <<"H", "2">>, <<"P", "3">>, <<"L", "4">>>>),
        C!Message("CMD", "n1", 3, <<<<"LED", "1">>>>),
        C!Message("ODD", "n1", 3, <<>>)}

\* Whole frames around one that is damaged or odd; then the end of one frame and
\* the start of the next are lost, so that they do not fit together by chance.
SerialCourses ==
    {[leg |-> "serial", segments |-> s] : s \in
        {<<Framed_(Data1, w), Framed_(m, p), Framed_(m2, w)>> :
            w \in Whole, m \in {Data2, Ack1}, m2 \in {Nack1},
            p \in Cuts(11) \cup Hits(11)}
        \cup {<<Framed_(m, w), Framed_(m2, w), Framed_(m3, w)>> :
            w \in Whole, m \in {Data1} \cup Odd, m2 \in {Ack1, Nack1} \cup Odd,
            m3 \in {Data2}}
        \cup {<<Framed_(Data1, e), Framed_(m, b), Framed_(Nack1, w)>> :
            w \in Whole, m \in {Data2, Ack1}, e \in {p \in Cuts(9) : p.from = 1 /\ p.to > 3},
            b \in {p \in Cuts(11) : p.from \in 2 .. 7 /\ p.to = 11}}}

\* The old form of the same data, and members nobody knows.
Legacy(m, t, h) ==
    <<C!Member("node", C!Word(m.id)), C!Member("temperature", t),
      C!Member("hum", h), C!Member("humidity", h),
      C!Member("seq", C!Number(m.seq)), C!Member("type", C!Word(m.type))>>

Repeated(m) == C!ObjectOf(m) \o <<C!Member("seq", C!Number(m.seq))>>

\* The old form, with what makes it a message at its end.
Late(m, t, h) ==
    <<C!Member("temperature", t), C!Member("humidity", h), C!Member("node", C!Word(m.id)),
      C!Member("seq", C!Number(m.seq)), C!Member("type", C!Word(m.type))>>

Padded(o, n) == [i \in 1 .. n |-> C!Member("pad", C!Word("x"))] \o o

\* Data with fields that spell a message of their own, a number among them.
Spelling == C!Message("DATA", "n1", 3,
                      <<<<"node", "n1">>, <<"seq", "9">>, <<"type", "DATA">>>>)

Spelled(type) ==
    <<C!Member("node", C!Word("n1")), C!Member("seq", C!Number(9)),
      C!Member("type", C!Word(type))>>

Spells(m, inner) ==
    <<C!Member("node", C!Word(m.id)), C!Member("seq", C!Number(m.seq)),
      C!Member("type", C!Word("DATA")), C!Member("fields", C!Inner(inner))>>

WifiSegments ==
    LET odd == {m \in Odd : /\ m.type = "DATA"
                            /\ "a,b" \notin {f[2] : f \in ToSet(m.fields)}}
    IN  {Object_(m, o, w) : w \in Whole,
            <<m, o>> \in {<<x, C!ObjectOf(x)>> : x \in {Data1, Data2, Ack1, Nack1} \cup odd}
                     \cup {<<Data2, Legacy(Data2, C!Tenths(254), C!Tenths(601))>>,
                           <<Data3, Legacy(Data3, C!Number(25), C!Tenths(601))>>,
                           <<Data2, Repeated(Data2)>>,
                           <<Data1, Padded(C!ObjectOf(Data1), 3)>>,
                           <<Data1, Padded(C!ObjectOf(Data1), 9)>>,
                           <<Spelling, Spells(Spelling, Spelled("DATA"))>>,
                           <<Spelling, Padded(Spells(Spelling, Spelled("DATA")), 7)>>,
                           <<Data2, Padded(Late(Data2, C!Tenths(254), C!Tenths(601)), 9)>>}}

WifiCourses ==
    {[leg |-> "wifi", segments |-> s] : s \in
        {<<a, b, c>> : a \in WifiSegments, b \in WifiSegments,
            c \in {Object_(Data1, C!ObjectOf(Data1), w) : w \in Whole}}}

Cmd(n, fields) == [type |-> "CMD", id |-> "GATEWAY", target |-> "n1", seq |-> n,
                   fields |-> fields]

OldCommand(m, v) ==
    <<C!Member("node", C!Word(m.target)), C!Member("sender", C!Word(m.id)),
      C!Member("led", v), C!Member("seq", C!Number(m.seq)), C!Member("type", C!Word("CMD"))>>

CommandSegments(p) ==
    {Object_(m, C!ObjectOf(m), p) :
        m \in {Cmd(12, <<<<"LED", "0">>>>), Cmd(4, <<<<"LED", "2">>>>),
               Cmd(5, <<<<"DIM", "1">>>>), Cmd(6, <<<<"LED", "x">>>>)}}
    \cup {Object_(m, OldCommand(m, v), p) :
            m \in {Cmd(3, <<<<"LED", "1">>>>)},
            v \in {C!Number(1), C!Word("1"), C!Word("long")}}
    \cup {Framed_(m, p) : m \in {C!Message("CMD", "long", 3, <<<<"LED", "1">>>>), Data1}}

CommandCourses ==
    {[leg |-> "command", segments |-> <<a, b, c>>] :
        a \in UNION {CommandSegments(p) : p \in Whole},
        b \in UNION {CommandSegments(p) : p \in Whole \cup Cuts(10) \cup Hits(10)},
        c \in {Object_(m, C!ObjectOf(m), p) :
                  m \in {Cmd(9, <<<<"LED", "1">>>>)}, p \in Whole}}

MCCourses == SerialCourses \cup WifiCourses \cup CommandCourses
=============================================================================
