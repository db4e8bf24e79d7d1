\* A migration was planned and shown before the pin, and is confirmed after it.
CONSTANTS
  Own = Own
  Default = Default
  NoKey = NoKey
  ed25519 = ed25519
  Files = {Default}
  Notes = {old}
  Keys = {k1}
  Kind <- OneKind
  Pinners = {p}
  Noters = {}
  Migrators = {m}
  MaxHandEdits = 0
  CallsMayFail = FALSE
  MayCrash = FALSE
SPECIFICATION Spec
CHECK_DEADLOCK FALSE
INVARIANT
  LaterLoginsAcceptOnlyIt
