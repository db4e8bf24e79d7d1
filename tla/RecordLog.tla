----------------------------- MODULE RecordLog -----------------------------
(***************************************************************************)
(* What the job records of one cluster promise (records.py): a record is   *)
(* stored once per job, with the facts of its submission or without any,   *)
(* and from then on changes by one edit at a time, each on top of the      *)
(* record as it is and each logged in the record.                          *)
(*                                                                         *)
(* RecordStore, the script and its clients, is shown to implement this.    *)
(***************************************************************************)
EXTENDS Sequences

CONSTANTS
  Jobs,      \* the jobs of the cluster
  Procs,     \* the ctun processes, on any machine, that write or edit records
  Projects,  \* names of projects
  Notes,     \* texts of notes
  None,      \* no value: Python's None, and "" in an edit, which clears
  Keep,      \* an edit's value for a field it leaves alone
  Absent,    \* a job without a record, and the version of that
  Submitted  \* the first records that runs write, out of those Built gives

ASSUME ValuesAssumption == /\ None \notin Projects \cup Notes
                           /\ Keep \notin Projects \cup Notes \cup {None}

VARIABLE store  \* the record of each job, or Absent

Project == Projects \cup {None}
Note == Notes \cup {None}

(* A record whose log is one of `logs`.  The facts (job name, command, code) *)
(* are one flag: there or not.  An entry of the log is the process that made *)
(* the change (at, from); `reviewed` is a ghost, the note confirmed last.    *)
Records(logs) ==
  [facts : BOOLEAN, project : Project, note : Note, confirmed : BOOLEAN,
   reviewed : Note, log : logs]

Record == Records(Seq(Procs))

ASSUME AbsentAssumption == Absent \notin Record

(* What an edit starts from when the job has no record.                      *)
NoRecord == [facts |-> FALSE, project |-> None, note |-> None, confirmed |-> FALSE,
             reviewed |-> None, log |-> <<>>]

(* records.build: the record `run` writes for a job it submitted.            *)
Built(project, note) ==
  [NoRecord EXCEPT !.facts = TRUE, !.project = project, !.note = note]

ASSUME SubmittedAssumption ==
  Submitted \subseteq { Built(project, note) : project \in Project, note \in Note }

(* The edit of `ctun jobs edit`, and of a rename: new values and whether a   *)
(* person confirms the note.                                                 *)
Edit == [project : Project \cup {Keep}, note : Note \cup {Keep}, confirm : BOOLEAN]

NewNote(record, edit) == IF edit.note = Keep THEN record.note ELSE edit.note

(* There is a note to confirm.                                               *)
CanEdit(record, edit) == edit.confirm => NewNote(record, edit) # None

(* A mutated form of WithValues: a project left alone is taken for a value.  *)
WithValuesAll(record, edit) ==
  [record EXCEPT !.project = edit.project, !.note = NewNote(record, edit)]

(* The record with the wanted values in place, and not yet logged.           *)
WithValues(record, edit) ==
  [record EXCEPT
     !.project = IF edit.project = Keep THEN @ ELSE edit.project,
     !.note = NewNote(record, edit),
     !.confirmed = edit.confirm \/ (@ /\ NewNote(record, edit) = record.note),
     !.reviewed = IF edit.confirm THEN NewNote(record, edit) ELSE @]

(* A mutated form of Edited: a new note stays confirmed.                     *)
EditedKeepsConfirmed(record, edit, by) ==
  LET new == [WithValues(record, edit) EXCEPT !.confirmed = edit.confirm \/ record.confirmed]
  IN  IF [new EXCEPT !.reviewed = record.reviewed] = record
        THEN record
        ELSE [new EXCEPT !.log = Append(@, by)]

(* records.edited: an edit that changes nothing leaves the record as it is,  *)
(* any other is logged.                                                      *)
Edited(record, edit, by) ==
  LET new == WithValues(record, edit)
  IN  IF [new EXCEPT !.reviewed = record.reviewed] = record
        THEN record
        ELSE [new EXCEPT !.log = Append(@, by)]

-----------------------------------------------------------------------------
(* A job's first record: as `run` built it, as an edit made it from nothing, *)
(* or as a task's, taken from its array's record with the edit alone logged. *)
Create(job, by) ==
  /\ store[job] = Absent
  /\ \E record \in Records({<<>>, <<by>>}) : store' = [store EXCEPT ![job] = record]

(* Any later change is an edit of the record as it is.                       *)
Amend(job, by) ==
  /\ store[job] # Absent
  /\ \E edit \in Edit :
       /\ CanEdit(store[job], edit)
       /\ store' = [store EXCEPT ![job] = Edited(@, edit, by)]

LogInit == store \in [Jobs -> {Absent} \cup Submitted]

LogNext == \E job \in Jobs, by \in Procs : Create(job, by) \/ Amend(job, by)

LogSpec == LogInit /\ [][LogNext]_store
=============================================================================
