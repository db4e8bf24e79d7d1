---------------------------- MODULE OutputText ----------------------------
(***************************************************************************)
(* The text a command prints, in pieces that are never taken apart: "NL"   *)
(* ends a line, "S" is Slurm's "Submitted batch job ", a digit is a number *)
(* and anything else is "x".                                               *)
(***************************************************************************)
EXTENDS Integers, Sequences, SequencesExt

CONSTANT LineMax    \* _SCAN_LINE_BYTES: how much of a line is looked at

ASSUME LineMaxAssumption == LineMax \in Nat \ {0}

Digits == {"1", "2", "3"}

\* What splitting a text came to, and one more piece of it.
Further(split, piece) ==
    IF piece = "NL" THEN [lines |-> Append(split.lines, split.open), open |-> <<>>]
    ELSE [split EXCEPT !.open = Append(@, piece)]

\* split(b"\n"): the lines that have ended, and the beginning of one more.
Split(text) ==
    LET upTo[k \in 0..Len(text)] ==
            IF k = 0 THEN [lines |-> <<>>, open |-> <<>>] ELSE Further(upTo[k - 1], text[k])
    IN  upTo[Len(text)]

\* The lines of a text; the last one may lack its line break.
LinesOf(text) ==
    LET parts == Split(text)
    IN  IF parts.open = <<>> THEN parts.lines ELSE Append(parts.lines, parts.open)

\* line[:_SCAN_LINE_BYTES]
Cut(line) == SubSeq(line, 1, IF Len(line) < LineMax THEN Len(line) ELSE LineMax)
=============================================================================
