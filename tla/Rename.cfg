\* A rename races an edit and a first record; calls may fail and scripts die.
\* No store slips in between the check and the mv of another.
CONSTANTS
  None = None
  Keep = Keep
  Absent = Absent
  a = a
  t = t
  n1 = n1
  n2 = n2
  htfm = htfm
  archive = archive
  Jobs = {a, t}
  Projects = {htfm, archive}
  Notes = {n1, n2}
  Procs = {w, e1, m}
  Writers = {w}
  Editors = {e1}
  Renamers = {m}
  Array <- TaskOfArray
  Targets <- BothJobs
  Edits <- SomeEdits
  Submitted <- FirstRecords
  Old = htfm
  New = archive
  Attempts = 2
  Window = FALSE
  CallsMayFail = TRUE
SPECIFICATION Spec
CHECK_DEADLOCK FALSE
INVARIANTS
  RenameComplete
PROPERTIES
  ImplementsLog
