\* One person; an `ssh -O exit` may fail.
CONSTANTS
  None = None
  Operators = {o1}
  Runners = {}
  Procs = {o1}
  MayCrash = {}
  Ways = {"terminal"}
  LimitArgs <- OneLimit
  Configured = 1
  FailMode = "closed"
  MaxAuth = 1
  MaxSpent = 0
  CheckMayTimeOut = FALSE
  CloseMayFail = TRUE
  KeyAuth = FALSE
SPECIFICATION Spec
CHECK_DEADLOCK FALSE
PROPERTIES
  OneSessionPerAuthentication
