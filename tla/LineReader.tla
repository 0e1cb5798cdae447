----------------------------- MODULE LineReader -----------------------------
(***************************************************************************)
(* A receive buffer in front of the line parser, as a WiFi worker          *)
(* (gateway/wifi_client.c) and the server link (gateway/server_link.c)     *)
(* keep one for a connection: what is received is added to it, complete    *)
(* lines are taken off its front, and when a read would not fit everything *)
(* that waits in it is thrown away together with that read.                *)
(***************************************************************************)
EXTENDS Naturals, Sequences

CONSTANTS NL, CR,
          Text,          \* the units other than these two
          BufferSize,    \* WIFI_CLIENT_BUFFER_SIZE, SERVER_LINK_BUFFER_SIZE
          ReadSize       \* WIFI_CLIENT_READ_BUFFER_SIZE, SERVER_LINK_READ_...

\* What is assumed of the constants; MessagePath gives them values.
Sizes == BufferSize \in Nat /\ ReadSize \in 1 .. BufferSize /\ NL # CR

LP == INSTANCE LineParser

Units == {NL, CR} \cup Text

VARIABLES pending,       \* the buffer
          arrived,       \* history: all that was received
          lines,         \* history: the lines handed over, with their places
          drops          \* history: the places up to which it was thrown away

vars == <<pending, arrived, lines, drops>>

Init == pending = <<>> /\ arrived = <<>> /\ lines = {} /\ drops = {}

\* recv returns a chunk, and it fits.
Reads(chunk) == /\ ~LP!HasLine(pending)
                /\ Len(pending) + Len(chunk) <= BufferSize
                /\ pending' = pending \o chunk
                /\ arrived' = arrived \o chunk
                /\ UNCHANGED <<lines, drops>>

\* Fault: only what waited is thrown away.
OverflowsKeepingChunk(chunk) ==
    /\ ~LP!HasLine(pending)
    /\ Len(pending) + Len(chunk) > BufferSize
    /\ pending' = chunk
    /\ arrived' = arrived \o chunk
    /\ UNCHANGED <<lines, drops>>

\* recv returns a chunk, and it does not.
Overflows(chunk) == /\ ~LP!HasLine(pending)
                    /\ Len(pending) + Len(chunk) > BufferSize
                    /\ pending' = <<>>
                    /\ arrived' = arrived \o chunk
                    /\ drops' = drops \cup {Len(arrived')}
                    /\ UNCHANGED lines

\* One turn of line_parser_feed; places are counted from the first unit received.
Before == Len(arrived) - Len(pending)

TakesLine == /\ LP!HasLine(pending)
             /\ lines' = lines \cup {[from |-> Before + 1,
                                      at   |-> Before + LP!NewlineAt(pending),
                                      text |-> LP!Line(pending)]}
             /\ pending' = LP!Rest(pending)
             /\ UNCHANGED <<arrived, drops>>

Chunks == {c \in Seq(Units) : Len(c) \in 1 .. ReadSize}

Next == \/ \E c \in Chunks : Reads(c) \/ Overflows(c)
        \/ TakesLine

Spec == Init /\ [][Next]_vars

-----------------------------------------------------------------------------
(* Properties *)

\* A line starts the stream, or follows another line.
StartsLine(i) == i = 1 \/ arrived[i - 1] = NL

\* A line handed over is what stands in the stream between two places, up to the
\* next line feed; it is a line of the stream from its start, or the first one
\* after a place up to which everything was thrown away.
LinesAreGenuine == \A l \in lines :
    /\ l.at \in DOMAIN arrived /\ l.from \in 1 .. l.at
    /\ arrived[l.at] = NL
    /\ \A k \in l.from .. l.at - 1 : arrived[k] # NL
    /\ l.text \in {SubSeq(arrived, l.from, l.at - 1), SubSeq(arrived, l.from, l.at - 2)}
    /\ StartsLine(l.from) \/ l.from - 1 \in drops

\* The places of the complete lines of the stream.
WholeLines == {p \in (DOMAIN arrived) \X (DOMAIN arrived) :
                 /\ p[1] <= p[2] /\ arrived[p[2]] = NL
                 /\ StartsLine(p[1])
                 /\ \A k \in p[1] .. p[2] - 1 : arrived[k] # NL}

\* No piece of the stream between line feeds is longer than n.
NoneLonger(n) == \A i, j \in DOMAIN arrived :
    (\A k \in i .. j : arrived[k] # NL) => j + 1 <= i + n

\* When no line is longer than the buffer less one read, no line is lost or cut,
\* however the stream is chopped into reads.
ShortLinesArrive ==
    NoneLonger(BufferSize - ReadSize)
        => /\ drops = {}
           /\ \A p \in WholeLines :
                 p[2] <= Before => \E l \in lines : l.from = p[1] /\ l.at = p[2]
=============================================================================
