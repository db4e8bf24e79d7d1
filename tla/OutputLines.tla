---------------------------- MODULE OutputLines ----------------------------
(***************************************************************************)
(* What the scanning of a command's output promises: the lines it prints   *)
(* are looked at one by one, in their order, each cut to LineMax; it may   *)
(* stop at any line, and a line that never ends counts as far as it came.  *)
(***************************************************************************)
EXTENDS OutputText

VARIABLES
    rest,    \* the lines printed and not looked at yet
    seen,    \* what was looked at
    over     \* whether the scan is over

Init == rest = <<>> /\ seen = <<>> /\ over = FALSE

Stop == over' /\ UNCHANGED <<seen, rest>>

LookAt(line) == seen' = Append(seen, Cut(line)) /\ rest' = Tail(rest)

Look == ~over /\ ~over' /\ rest # <<>> /\ LookAt(Head(rest))

\* The output ends within the line.
LookAtBeginning ==
    /\ ~over /\ over' /\ rest # <<>>
    /\ \E n \in 1..Len(Head(rest)) : LookAt(SubSeq(Head(rest), 1, n))

Printed == UNCHANGED <<seen, over>> /\ rest' # <<>> /\ Front(rest') = rest

Next == Stop \/ Look \/ LookAtBeginning \/ Printed

Spec == Init /\ [][Next]_<<rest, seen, over>>
=============================================================================
