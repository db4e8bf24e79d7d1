\* One process pins keys, again and again, and another migrates the config or adds a note, while the server's key changes,
\* others log in and a person edits the config; everything may fail or be killed.
CONSTANTS
  Own = Own
  Default = Default
  NoKey = NoKey
  ed25519 = ed25519
  Files = {Default}
  Notes = {x, old}
  Keys = {k1, k2}
  Kind <- OneKind
  Pinners = {p}
  Noters = {x}
  Migrators = {x}
  MaxHandEdits = 1
  CallsMayFail = TRUE
  MayCrash = TRUE
SPECIFICATION Spec
CHECK_DEADLOCK FALSE
INVARIANTS
  TypeOK
  ReplacedByAPerson
  RefusedChangesNothing
  PinStays
  NotesStay
PROPERTIES
  OnlyAgreedKeysPinned
  BackupIsWhatWasReplaced
