\* A submitted job's first record races two edits of both jobs; stores may slip in between check and mv,
\* calls fail and scripts die.
CONSTANTS
  None = None
  Keep = Keep
  Absent = Absent
  a = a
  t = t
  n1 = n1
  n2 = n2
  htfm = htfm
  archive = archive
  Jobs = {a, t}
  Projects = {htfm, archive}
  Notes = {n1, n2}
  Procs = {w, e1, e2}
  Writers = {w}
  Editors = {e1, e2}
  Renamers = {}
  Array <- TaskOfArray
  Targets <- BothJobs
  Edits <- SomeEdits
  Submitted <- FirstRecords
  Old = htfm
  New = archive
  Attempts = 2
  Window = TRUE
  CallsMayFail = TRUE
SPECIFICATION Spec
CHECK_DEADLOCK FALSE
SYMMETRY Symmetry
INVARIANTS
  TypeOK
  ConfirmedMeansReviewed
  NamedAreStored
  OutcomeIsTrue
