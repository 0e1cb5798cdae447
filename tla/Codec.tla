------------------------------- MODULE Codec -------------------------------
(***************************************************************************)
(* What the two encodings of a message keep of it: frames on the serial    *)
(* line (common/frame.c and the decoders of common/frame_parser.c), JSON   *)
(* objects on the TCP connections (common/message_json.c).  Pure functions *)
(* with no state.                                                          *)
(*                                                                         *)
(* A message is [type, id, seq, fields], a command also has its target; a  *)
(* NACK's error is its one field, ERR.  A frame is a sequence of units:    *)
(* the fields between two commas are one unit, and so are the four digits  *)
(* of the CRC.  A JSON object is the sequence of its members, each a key   *)
(* and a value: a text, a number or an object, whose members are texts and *)
(* whole numbers.  Texts have no quotation mark, backslash or brace.       *)
(***************************************************************************)
EXTENDS Naturals, Sequences, FiniteSets, SequencesExt, TLC

CONSTANTS AT, STAR, CR, LF,
          Malformed,        \* what a refused conversion returns
          Reserved,         \* texts with a byte that frames reserve
          Long,             \* texts that no array of the decoders holds
          SequenceLimit,    \* 10^6, what six digits can show
          FrameMaxLen,      \* FRAME_MAX_LEN
          MaxFields,        \* FRAME_DATA_MAX_FIELDS
          JsonMax,          \* the callers' arrays, 256 bytes
          JsonHead,         \* size of an object without fields
          JsonField         \* size of a field in it

\* The k-th of the places S, and what stands at these places of s, in their order.
Nth(S, k) == CHOOSE i \in S : Cardinality({j \in S : j <= i}) = k
At(s, S)  == [k \in 1 .. Cardinality(S) |-> s[Nth(S, k)]]

Word(t)    == [word |-> t]
Number(n)  == [number |-> n]
Tenths(n)  == [tenths |-> n]      \* a number with a fraction
Pair(k, v) == [key |-> k, value |-> v]
Empty      == [nothing |-> 0]     \* between two commas
Inner(ms)  == [fields |-> ms]     \* an object inside an object
Member(k, v) == [name |-> k, val |-> v]
Crc(p)     == [crc |-> p]         \* different payloads differ in their CRC

IsWord(u)   == DOMAIN u = {"word"}
IsNumber(u) == DOMAIN u = {"number"}
IsTenths(u) == DOMAIN u = {"tenths"}
IsNumeric(u) == IsNumber(u) \/ IsTenths(u)
IsInner(u)  == DOMAIN u = {"fields"}
IsPair(u)   == DOMAIN u = {"key", "value"}

Pairs(fields) == [i \in DOMAIN fields |-> Pair(fields[i][1], fields[i][2])]
Fields(pairs) == [i \in DOMAIN pairs |-> <<pairs[i].key, pairs[i].value>>]

\* No decoder takes such a key, value or error.
Unfit == Long \cup {""}

Message(type, id, seq, fields) ==
    [type |-> type, id |-> id, seq |-> seq, fields |-> fields]

-----------------------------------------------------------------------------
(* Frames *)

\* build_kv_frame and frame_build_nack refuse what would not be parsed again.
Encodable(m) == /\ m.id \notin Reserved \cup {""}
                /\ Len(m.fields) <= MaxFields
                /\ \A i \in DOMAIN m.fields : \A t \in {m.fields[i][1], m.fields[i][2]} :
                      t \notin Reserved \cup {""}

PayloadOf(m) == <<Word("1"), Word(m.id), Number(m.seq % SequenceLimit), Word(m.type)>>
                   \o Pairs(m.fields)

FrameOf(m) == <<AT>> \o PayloadOf(m) \o <<STAR, Crc(PayloadOf(m)), CR, LF>>

Fits(frame) == Len(frame) < FrameMaxLen

BuildFrame(m) == IF Encodable(m) /\ Fits(FrameOf(m)) THEN FrameOf(m) ELSE Malformed

\* strtok_r: empty fields are passed over.
Tokens(payload) == At(payload, {i \in DOMAIN payload : payload[i] # Empty})

\* frame_get_message_type: the fourth field.
FrameType(payload) ==
    LET t == Tokens(payload)
    IN  IF Len(t) >= 4 /\ IsWord(t[4]) /\ t[4].word \in {"DATA", "CMD", "ACK", "NACK"}
        THEN t[4].word ELSE "UNKNOWN"

\* parse_kv_payload and frame_decode_nack.
Parsable(t, type) ==
    /\ Len(t) \in 4 .. 4 + MaxFields
    /\ t[1] = Word("1") /\ t[4] = Word(type)
    /\ IsWord(t[2]) /\ t[2].word \notin Long
    /\ IsNumber(t[3])
    /\ \A i \in 5 .. Len(t) : IsPair(t[i]) /\ {t[i].key, t[i].value} \cap Unfit = {}
    /\ type = "NACK" => Len(t) = 5 /\ t[5].key = "ERR"

ParseFrame(payload, type) ==
    LET t == Tokens(payload)
    IN  IF Parsable(t, type)
        THEN Message(type, t[2].word, t[3].number, Fields(SubSeq(t, 5, Len(t))))
        ELSE Malformed

-----------------------------------------------------------------------------
(* JSON *)

Members(fields) == [i \in DOMAIN fields |-> Member(fields[i][1], Word(fields[i][2]))]

\* message_json_build_data, _ack, _nack and _command.
ObjectOf(m) ==
    CASE m.type = "NACK" -> <<Member("node", Word(m.id)), Member("seq", Number(m.seq)),
                              Member("type", Word("NACK")),
                              Member("error", Word(m.fields[1][2]))>>
      [] m.type = "CMD"  -> <<Member("node", Word(m.target)), Member("sender", Word(m.id)),
                              Member("seq", Number(m.seq)), Member("type", Word("CMD")),
                              Member("fields", Inner(Members(m.fields)))>>
      [] OTHER           -> <<Member("node", Word(m.id)), Member("seq", Number(m.seq)),
                              Member("type", Word(m.type)),
                              Member("fields", Inner(Members(m.fields)))>>

JsonSize(m) == JsonHead + JsonField * Len(m.fields)

BuildJson(m) == IF JsonSize(m) < JsonMax THEN ObjectOf(m) ELSE Malformed

\* json_parse_object: a member counts when its value has the type of its key; the
\* last of several counts, and the fields of several "fields" are joined.
Words(o, key)   == At(o, {i \in DOMAIN o : o[i].name = key /\ IsWord(o[i].val)})
Numbers(o, key) == At(o, {i \in DOMAIN o : o[i].name = key /\ IsNumeric(o[i].val)})

\* What is behind the point is read and left out.
Whole(v) == IF IsNumber(v) THEN v.number ELSE v.tenths \div 10

LastWord(o, key)   == Last(Words(o, key)).val.word
LastNumber(o, key) == Whole(Last(Numbers(o, key)).val)

FieldMembers(o) == At(o, {i \in DOMAIN o : o[i].name = "fields"})

\* A number among the fields is kept as the text that it is written as.
Raw(v) == IF IsWord(v) THEN v.word ELSE ToString(v.number)

FieldsIn(ms) == [i \in DOMAIN ms |-> <<ms[i].name, Raw(ms[i].val)>>]

AllFields(o) == LET fs == FieldMembers(o)
                IN  FlattenSeq([i \in DOMAIN fs |-> FieldsIn(fs[i].val.fields)])

\* The value of "fields" is an object, and no other member's value is one.
Nested(o) == \A i \in DOMAIN o : o[i].name = "fields" <=> IsInner(o[i].val)

\* kv_array_add
Storable(fields) == /\ Len(fields) <= MaxFields
                    /\ \A i \in DOMAIN fields : {fields[i][1], fields[i][2]} \cap Unfit = {}

Parses(o) == /\ Nested(o)
             /\ \A key \in {"node", "sender", "type", "error", "led"} :
                   \A m \in ToSet(Words(o, key)) : m.val.word \notin Long
             /\ \A m \in ToSet(Words(o, "error") \o Words(o, "led")) : m.val.word # ""
             /\ Storable(AllFields(o))

\* message_json_peek_type
PeekType(o) == IF Parses(o) /\ Words(o, "type") # <<>> THEN LastWord(o, "type")
               ELSE Malformed

\* atoi, as far as texts go here: a text that is no number reads as 0.
Atoi(t) == IF \E n \in 0 .. 9 : t = ToString(n) THEN t ELSE "0"

\* A command or an answer of the old form has its one field outside "fields".
FieldsOf(o) ==
    LET led == At(o, {i \in DOMAIN o : o[i].name = "led"})
    IN  IF FieldMembers(o) # <<>> THEN AllFields(o)
        ELSE IF led = <<>> THEN <<>>
        ELSE IF IsWord(Last(led).val) THEN <<<<"LED", Atoi(Last(led).val.word)>>>>
        ELSE <<<<"LED", ToString(Whole(Last(led).val))>>>>

\* Fault: the type is left to the caller, who looked for it in the line.
CompleteAnyType(o, type) == /\ Parses(o)
                            /\ Words(o, "node") # <<>> /\ Numbers(o, "seq") # <<>>
                            /\ Words(o, "type") # <<>>

Complete(o, type) == /\ Parses(o)
                     /\ Words(o, "node") # <<>> /\ Numbers(o, "seq") # <<>>
                     /\ Words(o, "type") # <<>> /\ LastWord(o, "type") = type

\* message_json_decode_ack
DecodeAck(o) ==
    IF Complete(o, "ACK")
    THEN Message("ACK", LastWord(o, "node"), LastNumber(o, "seq"), FieldsOf(o))
    ELSE Malformed

\* message_json_decode_nack
DecodeNack(o) ==
    IF Complete(o, "NACK") /\ Words(o, "error") # <<>>
    THEN Message("NACK", LastWord(o, "node"), LastNumber(o, "seq"),
                 <<<<"ERR", LastWord(o, "error")>>>>)
    ELSE Malformed

\* message_json_decode_command
DecodeCommand(o) ==
    IF Complete(o, "CMD") /\ Words(o, "sender") # <<>>
    THEN [type |-> "CMD", id |-> LastWord(o, "sender"), target |-> LastWord(o, "node"),
          seq |-> LastNumber(o, "seq"), fields |-> FieldsOf(o)]
    ELSE Malformed

\* json_parse_x10: the number in tenths, which is what frames have for T and H.
InTenths(v) == IF IsTenths(v) THEN v.tenths ELSE 10 * v.number

DataFields(m) ==
    CASE m.name = "fields" -> FieldsIn(m.val.fields)
      [] m.name = "temperature" /\ IsNumeric(m.val) -> <<<<"T", ToString(InTenths(m.val))>>>>
      [] m.name = "humidity" /\ IsNumeric(m.val)    -> <<<<"H", ToString(InTenths(m.val))>>>>
      [] OTHER -> <<>>

\* message_json_decode_data, a walk of its own: one type that is not DATA is too
\* many, and the fields of the old form are kept in their order with the others.
DecodeData(o) ==
    LET fields == FlattenSeq([i \in DOMAIN o |-> DataFields(o[i])])
    IN  IF /\ Nested(o)
           /\ Words(o, "node") # <<>> /\ Numbers(o, "seq") # <<>>
           /\ Words(o, "type") # <<>>
           /\ \A m \in ToSet(Words(o, "type")) : m.val = Word("DATA")
           /\ \A m \in ToSet(Words(o, "node")) : m.val.word \notin Long
           /\ Storable(fields)
        THEN Message("DATA", LastWord(o, "node"), LastNumber(o, "seq"), fields)
        ELSE Malformed
=============================================================================
