\* Two logins and logouts and a run, with every failure there is, failing closed.
CONSTANTS
  None = None
  Operators = {o1, o2}
  Runners = {r1}
  Procs = {o1, o2, r1}
  MayCrash = {o1, o2, r1}
  Ways = {"terminal", "dialog", "credentials", "bridge"}
  LimitArgs <- AnyLimit
  Configured = 1
  FailMode = "closed"
  MaxAuth = 1
  MaxSpent = 1
  CheckMayTimeOut = TRUE
  CloseMayFail = TRUE
  KeyAuth = TRUE
SPECIFICATION Spec
CHECK_DEADLOCK FALSE
SYMMETRY Symmetry
INVARIANTS
  TypeOK
  NoGrantOnSpentSession
