---------------------------- MODULE MessagePath ----------------------------
(***************************************************************************)
(* The way of a message through every conversion it meets, over a line     *)
(* that cuts and damages:                                                  *)
(*   "serial"   a node's frames - FrameParser - gateway_app_on_frame -     *)
(*              JSON - the server's on_line;                               *)
(*   "wifi"     a node's JSON lines - LineReader -                         *)
(*              gateway_app_on_wifi_line - JSON - on_line;                 *)
(*   "command"  the server's JSON - gateway_app_on_tcp_line - frames -     *)
(*              FrameParser - the node's on_node_frame, and its answers    *)
(*              back to on_line.                                           *)
(* A line between gateway and server arrives whole here, or not at all:    *)
(* Server has what is left of one whose sending fails.                     *)
(* Takeovers, routing and queues are in Gateway.                           *)
(*                                                                         *)
(* What is sent is a sequence of segments: a message, the JSON object it   *)
(* is written as where there are several ways, the part of its units that  *)
(* arrives, and the unit that is hit by noise, 0 for none.                 *)
(***************************************************************************)
EXTENDS Integers, Sequences, FiniteSets, SequencesExt

CONSTANTS AT, STAR, CR, LF, NUL, OPEN, CLOSE, Malformed, NoId,
          Reserved, Long, SequenceLimit, MaxFields, FrameMaxLen,   \* of Codec
          JsonMax, JsonHead, JsonField,
          BufferSize, ReadSize,      \* of LineReader
          NodeId,                    \* the name of the node that executes
          Courses                    \* bound: [leg, segments] that are tried

ASSUME CoursesAssumption ==
    \A c \in Courses : c.leg \in {"serial", "wifi", "command"}

VARIABLES course,            \* chosen at the start
          sent,              \* its segments as they are on the line
          stream,            \* units still to come
          collecting, buffer, stats, received, delivered,   \* of FrameParser
          pending, arrived, lines, drops,                   \* of LineReader
          bound,             \* the name the connection is bound to
          executed,          \* commands the node carried out, in order
          handled            \* messages the server took, in order

frames == <<collecting, buffer, stats, received, delivered>>
texts  == <<pending, arrived, lines, drops>>
vars   == <<course, sent, stream, frames, texts, bound, executed, handled>>

C == INSTANCE Codec

-----------------------------------------------------------------------------
(* What is sent *)

\* gateway_app_on_tcp_line decodes the server's command for the node's frame; a
\* segment without an object is a frame as it stands.
Written(leg, seg) ==
    CASE leg = "wifi" -> <<OPEN>> \o seg.object \o <<CLOSE, LF>>
      [] "object" \notin DOMAIN seg -> C!BuildFrame(seg.message)
      [] leg = "command" /\ "object" \in DOMAIN seg ->
            IF C!DecodeCommand(seg.object) = Malformed THEN Malformed
            ELSE C!BuildFrame(C!DecodeCommand(seg.object))

\* What an encoder refuses is not sent.
Bytes(leg, seg) == IF Written(leg, seg) = Malformed THEN <<>> ELSE Written(leg, seg)

Garbled == C!Word("garbled")

\* What is left of the units b of a segment.
Part(seg, b) ==
    LET h == IF seg.hit \in DOMAIN b THEN [b EXCEPT ![seg.hit] = Garbled] ELSE b
    IN  SubSeq(h, seg.from, IF seg.to < Len(b) THEN seg.to ELSE Len(b))

\* A segment on the line: what is left of it, and whether that is all of it.
OnTheLine(leg, seg) ==
    CHOOSE l \in {[units |-> Part(seg, b), whole |-> b # <<>> /\ Part(seg, b) = b] :
                     b \in {Bytes(leg, seg)}} : TRUE

Sent(c) == [i \in DOMAIN c.segments |-> OnTheLine(c.leg, c.segments[i])]

Stream(parts) == FlattenSeq([i \in DOMAIN parts |-> parts[i].units])

Specials == {AT, STAR, CR, LF, NUL}
Ordinary == (UNION {ToSet(Stream(Sent(c))) : c \in Courses}) \ Specials
Messages == UNION {{s.message : s \in ToSet(c.segments)} : c \in Courses}
CrcUnits == {C!Crc(C!PayloadOf(m)) : m \in Messages}

FP == INSTANCE FrameParser WITH Crc <- C!Crc, CrcTexts <- CrcUnits,
                                Plain <- Ordinary \cup CrcUnits
LR == INSTANCE LineReader WITH NL <- LF, Text <- Ordinary \cup (Specials \ {LF, CR})

ASSUME ReadersAssumption == FP!Sizes /\ LR!Sizes

\* What is written of a segment is a sequence of units, and a part of it arrives.
ASSUME SegmentsAssumption ==
    \A c \in Courses :
       /\ c.segments \in Seq(ToSet(c.segments))
       /\ \A seg \in ToSet(c.segments) :
             /\ Bytes(c.leg, seg) \in Seq(ToSet(Bytes(c.leg, seg)))
             /\ seg.from \in Nat \ {0} /\ seg.to \in Nat

-----------------------------------------------------------------------------
(* The conversions at the gateway and at the server *)

\* A message that no decoder refuses: its texts and its fields fit, and none is empty.
Legible(m) == /\ m.id \notin Long /\ Len(m.fields) <= MaxFields
              /\ \A j \in DOMAIN m.fields :
                    {m.fields[j][1], m.fields[j][2]} \cap C!Unfit = {}

\* gateway_app_on_frame: a command from a node, or an unknown type, is no message.
OnFrame(payload) ==
    LET type == C!FrameType(payload)
    IN  IF type \in {"DATA", "ACK", "NACK"} THEN C!ParseFrame(payload, type)
                                            ELSE Malformed

\* What stands behind the first unit up to the closing brace: json_parse_object
\* reads no further.  A brace that opens where a member should be is an error.
Body(text) ==
    LET closes == {i \in DOMAIN text : text[i] = CLOSE}
        first  == CHOOSE i \in closes : \A j \in closes : i <= j
        body   == SubSeq(text, 2, first - 1)
    IN  IF closes # {} /\ OPEN \notin ToSet(body) THEN body ELSE Malformed

\* After an overflow a line may begin with a member whose value is an object.
BeginsWithInner(text) == /\ text # <<>> /\ text[1] \notin {OPEN, CLOSE} \cup Specials
                         /\ C!IsInner(text[1].val)

\* Fault: that an opening brace comes first is taken for granted.
ObjectsAnywhere(text) == {Body(text)}

\* The objects that a text may be read as.  What an overflow leaves of a line begins
\* with such a member or at the brace inside it, and what follows an object's closing
\* brace is passed over: the inner object is taken for the whole.
Objects(text) ==
    IF text # <<>> /\ text[1] = OPEN THEN {Body(text)}
    ELSE IF BeginsWithInner(text) THEN {Malformed, text[1].val.fields}
    ELSE {Malformed}

\* gateway_app_on_wifi_line
OnWifiObject(o) ==
    IF o = Malformed \/ C!PeekType(o) = Malformed THEN Malformed
    ELSE CASE C!PeekType(o) = "ACK"  -> C!DecodeAck(o)
           [] C!PeekType(o) = "NACK" -> C!DecodeNack(o)
           [] OTHER -> C!DecodeData(o)

\* line_has: the text "type":"..." may be a field's as well as the object's.
Says(o, type) == \/ C!Member("type", C!Word(type)) \in ToSet(o)
                 \/ <<"type", type>> \in ToSet(C!AllFields(o))

\* The server's on_line.
OnLine(o) == IF Says(o, "ACK") THEN C!DecodeAck(o)
             ELSE IF Says(o, "NACK") THEN C!DecodeNack(o)
             ELSE C!DecodeData(o)

\* What the server takes of a message that the gateway has.
Taken(m) == IF C!BuildJson(m) = Malformed THEN <<>>
            ELSE IF OnLine(C!BuildJson(m)) = Malformed THEN <<>>
            ELSE <<OnLine(C!BuildJson(m))>>

\* gateway_app_touch_device: a connection speaks for one node, the first it names.
Forwards(m) == \/ /\ bound \in {NoId, m.id} /\ m.id # ""
                  /\ bound' = m.id
                  /\ handled' = handled \o Taken(m)
               \/ /\ bound \notin {NoId, m.id} \/ m.id = ""
                  /\ UNCHANGED <<bound, handled>>

Upstream(m) == \/ m # Malformed /\ Forwards(m)
               \/ m = Malformed /\ UNCHANGED <<bound, handled>>

-----------------------------------------------------------------------------
(* The node that executes commands (tools/mock_node_app.c) *)

\* frame_fields_find: the first of several.
LedOf(m) == LET leds == C!At(m.fields, {i \in DOMAIN m.fields : m.fields[i][1] = "LED"})
            IN  IF leds = <<>> THEN Malformed ELSE leds[1][2]

Refusal(seq, why) == C!Message("NACK", NodeId, seq, <<<<"ERR", why>>>>)

\* Its frame is one that the gateway takes: it is the only node on that line.
Answers(m) == /\ bound' = m.id
              /\ handled' = handled \o Taken(OnFrame(C!PayloadOf(m)))

Executed(m, led) == [seq |-> m.seq, led |-> led]

\* Fault: the acknowledgement does not wait for the LED.
ExecutesOrAcks(m, led) == /\ executed' \in {executed, Append(executed, Executed(m, led))}
                          /\ Answers(C!Message("ACK", NodeId, m.seq, <<<<"LED", led>>>>))

\* Now and then the node fails on purpose.
ExecutesOrFails(m, led) ==
    \/ /\ executed' = Append(executed, Executed(m, led))
       /\ Answers(C!Message("ACK", NodeId, m.seq, <<<<"LED", led>>>>))
    \/ /\ UNCHANGED executed
       /\ Answers(Refusal(m.seq, "sim_fault"))

OnNodeFrame(payload) ==
    LET m == C!ParseFrame(payload, "CMD")
    IN  \/ /\ C!FrameType(payload) # "CMD"
           /\ UNCHANGED <<bound, executed, handled>>
        \/ /\ C!FrameType(payload) = "CMD" /\ m = Malformed
           /\ Answers(Refusal(0, "bad_cmd")) /\ UNCHANGED executed
        \/ /\ C!FrameType(payload) = "CMD" /\ m # Malformed
           /\ \/ /\ LedOf(m) = Malformed
                 /\ Answers(Refusal(m.seq, "unsupported_cmd")) /\ UNCHANGED executed
              \/ /\ LedOf(m) # Malformed /\ C!Atoi(LedOf(m)) \notin {"0", "1"}
                 /\ Answers(Refusal(m.seq, "invalid_led")) /\ UNCHANGED executed
              \/ /\ LedOf(m) # Malformed /\ C!Atoi(LedOf(m)) \in {"0", "1"}
                 /\ ExecutesOrFails(m, C!Atoi(LedOf(m)))

-----------------------------------------------------------------------------
(* What is assumed of the courses, for the proofs *)

\* A message is its type, its sender, its number and its fields, a command has a
\* target besides; a refusal has its reason as its one field.
ASSUME MessagesAssumption == \A m \in Messages :
    /\ "seq" \in DOMAIN m /\ m.seq \in Nat
    /\ m.id \notin {NoId, ""} /\ m.type \notin Long
    /\ m.fields \in Seq(ToSet(m.fields))
    /\ \A i \in DOMAIN m.fields : m.fields[i] = <<m.fields[i][1], m.fields[i][2]>>
    /\ m.type # "CMD" => m = C!Message(m.type, m.id, m.seq, m.fields)
    /\ m.type = "NACK" => Len(m.fields) = 1 /\ m.fields[1][1] = "ERR"

\* The protocol's own texts are fit for frames and for the arrays of the decoders,
\* and the JSON of an answer fits where it is written.
ASSUME ProtocolAssumption ==
    /\ SequenceLimit \in Nat \ {0} /\ MaxFields \in Nat \ {0}
    /\ JsonMax \in Nat /\ JsonHead \in Nat /\ JsonField \in Nat
    /\ JsonHead + JsonField < JsonMax
    /\ {"ACK", "NACK", "LED", "ERR", "0", "1", NodeId, "sim_fault", "bad_cmd",
        "unsupported_cmd", "invalid_led"} \cap (Long \cup Reserved \cup {""}) = {}

\* What the node can answer.
NodeAnswers ==
    {C!Message("ACK", NodeId, n, <<<<"LED", led>>>>) :
        n \in 0 .. SequenceLimit - 1, led \in {"0", "1"}}
    \cup {Refusal(n, why) : n \in 0 .. SequenceLimit - 1,
            why \in {"sim_fault", "bad_cmd", "unsupported_cmd", "invalid_led"}}

\* All that is exchanged, with the numbers as they are and as frames show them.
Exchanged ==
    NodeAnswers \cup {C!Message(x.type, x.id, n, x.fields) :
        x \in Messages, n \in UNION {{y.seq, y.seq % SequenceLimit} : y \in Messages}}

\* What a refused conversion returns is nothing that another one returns.
ASSUME MalformedAssumption == \A m \in Exchanged :
    /\ Malformed # m /\ Malformed # m.type
    /\ \A f \in ToSet(m.fields) : Malformed # f[2]
    /\ m.type # "CMD" => Malformed # C!ObjectOf(m)

\* The bytes that the readers look at stand for nothing else.  A node's TCP
\* connection loses nothing; its frames are not written from objects.
ASSUME LineAssumption ==
    /\ AT \notin {STAR, CR, LF, NUL} /\ STAR \notin {CR, LF, NUL} /\ NUL \notin {CR, LF}
    /\ OPEN \notin {CLOSE, CR, LF} /\ CLOSE \notin {CR, LF}
    /\ \A m \in Messages :
          (ToSet(C!PayloadOf(m)) \cup {C!Crc(C!PayloadOf(m))}) \cap Specials = {}
    /\ \A c \in Courses : \A seg \in ToSet(c.segments) :
          /\ c.leg = "serial" => "object" \notin DOMAIN seg
          /\ c.leg = "wifi" =>
                /\ "object" \in DOMAIN seg /\ OnTheLine(c.leg, seg).whole
                /\ seg.object \in Seq(ToSet(seg.object)) /\ seg.object # Malformed
                /\ ToSet(seg.object) \cap {OPEN, CLOSE, CR, LF} = {}

\* An object that is not the encoder's stands for the message that is read of it: a
\* command for that one, a line of a node for the same one, or none beyond the limits.
ASSUME ObjectsAssumption == \A c \in Courses : \A seg \in ToSet(c.segments) :
    LET m == seg.message
        d == C!DecodeCommand(seg.object)
    IN  "object" \in DOMAIN seg =>
           /\ c.leg = "command" =>
                /\ m.type = "CMD"
                /\ \/ seg.object = C!ObjectOf(m)
                   \/ d = Malformed
                   \/ d.type = "CMD" /\ d.id = m.id /\ d.seq = m.seq /\ d.fields = m.fields
           /\ c.leg = "wifi" =>
                \/ m.type # "CMD" /\ seg.object = C!ObjectOf(m)
                \/ OnWifiObject(seg.object)
                      = IF m.type \in {"DATA", "ACK", "NACK"} /\ Legible(m)
                        THEN m ELSE Malformed

\* No damage makes a frame by chance: an intact one is a segment that arrived whole.
ASSUME NoChance ==
    \A c \in {d \in Courses : d.leg # "wifi"} :
       \E s \in {Stream(Sent(c))} :
          \A i \in {a \in DOMAIN s : s[a] = AT}, j \in {a \in DOMAIN s : s[a] = LF} :
             FP!Intact(s, i, j) =>
                \E k \in DOMAIN c.segments :
                   /\ Sent(c)[k].whole
                   /\ i = Len(Stream(SubSeq(Sent(c), 1, k - 1))) + 1
                   /\ j = Len(Stream(SubSeq(Sent(c), 1, k)))

-----------------------------------------------------------------------------
Init == /\ course \in Courses
        /\ sent = Sent(course)
        /\ stream = Stream(sent)
        /\ FP!Init /\ LR!Init
        /\ bound = NoId /\ executed = <<>> /\ handled = <<>>

\* The next unit on the serial line, and the frame it completes.
FrameUnit ==
    /\ course.leg \in {"serial", "command"} /\ stream # <<>>
    /\ FP!Feed(Head(stream))
    /\ stream' = Tail(stream)
    /\ \/ delivered' = delivered /\ UNCHANGED <<bound, executed, handled>>
       \/ \E d \in delivered' \ delivered :
             \/ /\ course.leg = "serial"
                /\ Upstream(OnFrame(FP!Payload(d.frame))) /\ UNCHANGED executed
             \/ /\ course.leg = "command"
                /\ OnNodeFrame(FP!Payload(d.frame))
    /\ UNCHANGED <<course, sent, texts>>

\* A WiFi worker's recv returns some of what was sent.
WifiRead ==
    /\ course.leg = "wifi" /\ stream # <<>>
    /\ \E k \in 1 .. ReadSize :
          /\ k <= Len(stream)
          /\ LR!Reads(SubSeq(stream, 1, k)) \/ LR!Overflows(SubSeq(stream, 1, k))
          /\ stream' = SubSeq(stream, k + 1, Len(stream))
    /\ UNCHANGED <<course, sent, frames, bound, executed, handled>>

WifiLine ==
    /\ LR!TakesLine
    /\ \E o \in Objects(LR!LP!Line(pending)) : Upstream(OnWifiObject(o))
    /\ UNCHANGED <<course, sent, stream, frames, executed>>

Done == stream = <<>> /\ ~LR!LP!HasLine(pending) /\ UNCHANGED vars

Next == FrameUnit \/ WifiRead \/ WifiLine \/ Done

Spec == Init /\ [][Next]_vars

-----------------------------------------------------------------------------
(* Properties *)

Segments == course.segments
Framed   == course.leg \in {"serial", "command"}

\* The frames handed over are exactly the intact ones, and every start of a
\* frame is counted once, as valid or as one kind of error (FrameParser).
FramesSurvive == FP!DeliversExactlyTheIntact /\ FP!StatsAccountForFrames

\* A line handed over is one of the stream, or what follows an overflow; and
\* short lines are never lost or cut, however the reads fall (LineReader).
LinesSurvive == LR!LinesAreGenuine /\ LR!ShortLinesArrive

\* The segments that arrived undamaged and have been read.
Arrived == LET read == IF Framed THEN Len(received) ELSE LR!Before
           IN  {i \in DOMAIN sent :
                  sent[i].whole /\ Len(Stream(SubSeq(sent, 1, i))) <= read}

\* The message as the other side has it: six digits of its number in a frame.
Meaning(i) == LET m == Segments[i].message
              IN  IF Framed THEN [m EXCEPT !.seq = @ % SequenceLimit] ELSE m

\* A message of the protocol for that direction, within the decoders' limits.
Understood(i) == LET m == Segments[i].message
                 IN  /\ m.type \in (IF course.leg = "command" THEN {"CMD"}
                                    ELSE {"DATA", "ACK", "NACK"})
                     /\ Legible(m)

\* The line's first message names the node for all that follow.
SameNode(i) ==
    LET heard == {j \in Arrived : Understood(j)}
    IN  \A j \in heard : (\A k \in heard : j <= k)
                            => Segments[i].message.id = Segments[j].message.id

\* What the server cannot be told: more than a JSON array holds, and data with
\* a field that reads like the type of an answer.
Untold(i) == LET m == Segments[i].message
             IN  \/ JsonHead + JsonField * Len(m.fields) >= JsonMax
                 \/ /\ m.type = "DATA"
                    /\ {<<"type", "ACK">>, <<"type", "NACK">>} \cap ToSet(m.fields) # {}

\* The messages of the segments S, in the order in which they were sent.
InOrder(S) == C!At([i \in DOMAIN Segments |-> Meaning(i)], S)

\* End to end, whatever is cut or damaged in between: the server takes the
\* messages that arrive whole, each once, in their order, as what they are and
\* with every field; it takes nothing else.
HandledExactly ==
    course.leg = "serial" \/ (course.leg = "wifi" /\ drops = {}) =>
        LET kept == {i \in Arrived : Understood(i) /\ SameNode(i) /\ ~Untold(i)}
        IN  handled = InOrder(kept)

\* The objects inside a segment's object, and what the server may take of the segment:
\* the message, or one that such an object is read as.
InnerObjects(i) ==
    {u.val.fields : u \in {v \in ToSet(Segments[i].object) : C!IsInner(v.val)}}
Inside(i) == UNION {ToSet(Taken(OnWifiObject(o))) :
                       o \in {p \in InnerObjects(i) : OnWifiObject(p) # Malformed}}
Said(i) == {Meaning(i)} \cup Inside(i)

\* After an overflow too, each line sent is taken for one message at most, and in the
\* order of the lines: for the message that it is, or for what its fields spell when
\* the cut falls before their brace.  No other rest of a line is taken for a message.
HandledWasSent ==
    course.leg = "wifi" =>
        \E S \in SUBSET (DOMAIN Segments) :
           /\ Len(handled) = Cardinality(S)
           /\ \A k \in DOMAIN handled : handled[k] \in Said(C!Nth(S, k))

\* Every command that arrives whole is answered once, in order and under its
\* number; one is acknowledged exactly when the node executed it, with the value
\* that it executed, which is the one that the command asked for.
AnswersTellTheTruth ==
    course.leg = "command" =>
        LET asked == {i \in Arrived : Segments[i].message.type = "CMD"}
            acks  == C!At(handled, {k \in DOMAIN handled : handled[k].type = "ACK"})
            number(i) == IF Understood(i) THEN Meaning(i).seq ELSE 0
        IN  /\ [k \in DOMAIN handled |-> handled[k].seq]
                  = C!At([i \in DOMAIN Segments |-> number(i)], asked)
            /\ [k \in DOMAIN acks |-> <<acks[k].seq, acks[k].fields>>]
                  = [k \in DOMAIN executed |->
                       <<executed[k].seq, <<<<"LED", executed[k].led>>>>>>]
            /\ \A k \in DOMAIN executed : \E i \in asked :
                  /\ Meaning(i).seq = executed[k].seq
                  /\ \E f \in ToSet(Segments[i].message.fields) :
                        f[1] = "LED" /\ C!Atoi(f[2]) = executed[k].led
=============================================================================
