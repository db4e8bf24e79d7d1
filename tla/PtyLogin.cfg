\* ctun types the password at ssh's prompts; the passcode is right, or wrong or missing.
CONSTANTS
  Dialogues <- SomeDialogues
  MaxRejected = 1
  GraceChecks = 2
  Stalls = FALSE
  Slow = FALSE
SPECIFICATION Spec
CHECK_DEADLOCK FALSE
INVARIANTS
  TypeOK
  SecretAtItsPrompt
  FailureHasReason
  NothingLeftBehind
PROPERTIES
  LoginEnds
  RefusedEndsAtOnce
