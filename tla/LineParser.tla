----------------------------- MODULE LineParser -----------------------------
(***************************************************************************)
(* What line_parser_feed (common/line_parser.c) cuts out of an accumulated *)
(* receive buffer: one turn of its loop takes the first complete line off  *)
(* the front.  A buffer is a sequence of units; a unit is a line feed, a   *)
(* carriage return or a piece of text without either.                      *)
(***************************************************************************)
EXTENDS Naturals, Sequences

CONSTANTS NL, CR

HasLine(buffer) == \E i \in DOMAIN buffer : buffer[i] = NL

NewlineAt(buffer) == CHOOSE i \in DOMAIN buffer :
                        buffer[i] = NL /\ \A j \in 1 .. i - 1 : buffer[j] # NL

\* The text before the line feed, without one carriage return at its end.
Line(buffer) ==
    LET n == NewlineAt(buffer)
        l == IF n > 1 /\ buffer[n - 1] = CR THEN n - 2 ELSE n - 1
    IN  SubSeq(buffer, 1, l)

\* What is moved to the front of the buffer, for the next turn or read.
Rest(buffer) == SubSeq(buffer, NewlineAt(buffer) + 1, Len(buffer))
=============================================================================
