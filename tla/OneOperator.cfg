\* One person logs in and out while two runs go on, either of which may be killed.
CONSTANTS
  None = None
  Operators = {o1}
  Runners = {r1, r2}
  Procs = {o1, r1, r2}
  MayCrash = {r1, r2}
  Ways = {"terminal", "dialog", "bridge"}
  LimitArgs <- OneLimit
  Configured = 1
  FailMode = "open"
  MaxAuth = 3
  MaxSpent = 0
  CheckMayTimeOut = FALSE
  CloseMayFail = FALSE
  KeyAuth = FALSE
SPECIFICATION Spec
CHECK_DEADLOCK FALSE
SYMMETRY Symmetry
INVARIANTS
  NoOrphanedConnection
  TunnelHasItsSession
  SessionLogComplete
PROPERTIES
  OneSessionPerAuthentication
