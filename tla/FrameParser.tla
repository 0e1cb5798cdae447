---------------------------- MODULE FrameParser ----------------------------
(***************************************************************************)
(* The byte machine that cuts frames out of a serial stream                *)
(* (common/frame_parser.c): it hunts for the start of a frame, collects,   *)
(* validates at the line feed and starts again, whatever was cut, damaged  *)
(* or inserted.                                                            *)
(*                                                                         *)
(* A unit stands for one byte, except that the four digits of a CRC are    *)
(* one unit.  The CRC is any function of the payload, so that two payloads *)
(* may well share one.                                                     *)
(***************************************************************************)
EXTENDS Naturals, Sequences, FiniteSets

CONSTANTS AT, STAR, CR, LF, NUL,   \* the bytes the machine looks at
          Plain,                   \* the other units
          Crc(_),                  \* the CRC of a payload, as a unit
          CrcTexts,                \* the units that read as a CRC
          FrameMaxLen              \* FRAME_MAX_LEN

Units == {AT, STAR, CR, LF, NUL} \cup Plain

\* What is assumed of the constants; MessagePath gives them values.
Sizes == FrameMaxLen \in Nat \ {0, 1} /\ AT # LF

VARIABLES collecting, buffer, stats,
          received,      \* history: all that was fed
          delivered      \* history: the frames given to the callback, each
                         \* with the place where it ended

vars == <<collecting, buffer, stats, received, delivered>>

Counters == {"valid_frames", "crc_errors", "format_errors", "overflow_errors",
             "discarded_bytes"}

-----------------------------------------------------------------------------
(* validate_frame *)

\* strrchr: the last star of the string, which ends at the first NUL.
LastStar(b, i) == /\ i \in DOMAIN b /\ b[i] = STAR
                  /\ \A j \in DOMAIN b : b[j] = STAR /\ j > i
                                           => \E k \in 1 .. j : b[k] = NUL
                  /\ \A k \in 1 .. i : b[k] # NUL

\* @ payload * CRC CR LF, with a payload.
WellFormed(b) ==
    LET n == Len(b)
    IN  /\ n >= 6 /\ b[1] = AT /\ b[n - 1] = CR /\ b[n] = LF
        /\ LastStar(b, n - 3)
        /\ b[n - 2] \in CrcTexts

Payload(b) == SubSeq(b, 2, Len(b) - 4)

Valid(b) == WellFormed(b) /\ b[Len(b) - 2] = Crc(Payload(b))

-----------------------------------------------------------------------------
Init == /\ collecting = FALSE /\ buffer = <<>>
        /\ stats = [c \in Counters |-> 0]
        /\ received = <<>> /\ delivered = {}

Count(c) == stats' = [stats EXCEPT ![c] = @ + 1]

Reset == collecting' = FALSE /\ buffer' = <<>>

Discard(u) == /\ ~collecting /\ u # AT
              /\ Count("discarded_bytes")
              /\ UNCHANGED <<collecting, buffer, delivered>>

Begin(u) == /\ ~collecting /\ u = AT
            /\ collecting' = TRUE /\ buffer' = <<AT>>
            /\ UNCHANGED <<stats, delivered>>

\* Fault: inside a frame an @ is a byte like any other.
BeginAgainIgnored(u) == /\ collecting /\ u = AT /\ Len(buffer) < FrameMaxLen - 1
                        /\ buffer' = Append(buffer, u)
                        /\ UNCHANGED <<collecting, stats, delivered>>

\* The frame before it was cut: this one begins.
BeginAgain(u) == /\ collecting /\ u = AT
                 /\ buffer' = <<AT>>
                 /\ Count("format_errors")
                 /\ UNCHANGED <<collecting, delivered>>

Room(u) == collecting /\ u # AT /\ Len(buffer) < FrameMaxLen - 1

\* Too long: this byte goes with the rest.
Overflow(u) == /\ collecting /\ u # AT /\ ~Room(u)
               /\ Count("overflow_errors")
               /\ Reset
               /\ UNCHANGED delivered

Collect(u) == /\ Room(u) /\ u # LF
              /\ buffer' = Append(buffer, u)
              /\ UNCHANGED <<collecting, stats, delivered>>

\* The end of a frame: validated, handed over if valid, and done with.
End(u) == /\ Room(u) /\ u = LF
          /\ LET frame == Append(buffer, u)
             IN  \/ /\ Valid(frame)
                    /\ Count("valid_frames")
                    /\ delivered' = delivered \cup
                          {[at |-> Len(received) + 1, frame |-> frame]}
                 \/ /\ WellFormed(frame) /\ ~Valid(frame)
                    /\ Count("crc_errors")
                    /\ UNCHANGED delivered
                 \/ /\ ~WellFormed(frame)
                    /\ Count("format_errors")
                    /\ UNCHANGED delivered
          /\ Reset

Feed(u) == /\ \/ Discard(u) \/ Begin(u) \/ BeginAgain(u) \/ Overflow(u)
              \/ Collect(u) \/ End(u)
           /\ received' = Append(received, u)

Next == \E u \in Units : Feed(u)

Spec == Init /\ [][Next]_vars

-----------------------------------------------------------------------------
(* Properties *)

\* The types of the parser and of its history.
TypeOK == /\ collecting \in BOOLEAN
          /\ buffer \in Seq(Units) /\ Len(buffer) < FrameMaxLen
          /\ stats \in [Counters -> Nat]
          /\ received \in Seq(Units)
          /\ \A d \in delivered : d.frame \in Seq(Units)

\* Places i and j of s bound an intact frame: it starts with @ and ends with
\* the line feed, with neither between, is short enough and valid.
Intact(s, i, j) == /\ i \in DOMAIN s /\ j \in DOMAIN s /\ i < j
                   /\ s[i] = AT /\ s[j] = LF
                   /\ \A k \in i + 1 .. j : s[k] # AT
                   /\ \A k \in i .. j - 1 : s[k] # LF
                   /\ j - i + 1 < FrameMaxLen
                   /\ Valid(SubSeq(s, i, j))

IntactFrames(s) ==
    {[at |-> p[2], frame |-> SubSeq(s, p[1], p[2])] :
        p \in {q \in (DOMAIN s) \X (DOMAIN s) : Intact(s, q[1], q[2])}}

\* Whatever surrounds them, the frames handed over are exactly the intact ones
\* of the stream: none is missed after a cut, damaged or overlong frame, and
\* nothing else is taken for one.
DeliversExactlyTheIntact == delivered = IntactFrames(received)

\* Every @ is accounted for once, as a valid frame or one kind of error, but the
\* one of the frame that is being collected.
StatsAccountForFrames ==
    Cardinality({i \in DOMAIN received : received[i] = AT})
        = stats["valid_frames"] + stats["crc_errors"] + stats["format_errors"]
          + stats["overflow_errors"] + IF collecting THEN 1 ELSE 0
=============================================================================
