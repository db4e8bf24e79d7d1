\* Scripts of a command and two constructs.
CONSTANTS
    Guarded <- MCGuarded
    Identifiers <- MCIdentifiers
    Options <- MCOptions
    MaxDepth = 8
    MaxSteps = 2
SPECIFICATION Spec
INVARIANTS
    NothingMissed
    NothingMadeUp
    ScopesAgree
CHECK_DEADLOCK FALSE
