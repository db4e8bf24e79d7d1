--------------------------- MODULE MCRecordStore ---------------------------
(***************************************************************************)
(* Values of RecordStore's constants for TLC.                              *)
(***************************************************************************)
EXTENDS RecordStore, TLC

CONSTANTS
  a, t,      \* an array and one of its tasks
  n1, n2,    \* notes
  htfm, archive \* projects

TaskOfArray == (a :> a) @@ (t :> a)

(* An edit names both jobs.                                                 *)
BothJobs == {{a, t}}

(* A note is set or, with a new project, confirmed.                         *)
SomeEdits == { [project |-> Keep, note |-> n2, confirm |-> FALSE],
               [project |-> archive, note |-> Keep, confirm |-> TRUE] }

(* A note is removed or confirmed.                                          *)
NoteEdits == { [project |-> Keep, note |-> None, confirm |-> FALSE],
               [project |-> Keep, note |-> Keep, confirm |-> TRUE] }

FirstRecords == { Built(htfm, n1) }

Symmetry == Permutations(Editors)
============================================================================
