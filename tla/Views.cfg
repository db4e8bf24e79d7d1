CONSTANTS
    solo = solo
    task = task
    rest = rest
    Units = {solo, task, rest}
    IdOf <- MCIdOf
    RawOf <- MCRawOf
    RawNames <- MCRawNames
    Stores <- MCStores
    SizeOf <- MCSizeOf
    BatchMax = 6
    MaxRuns = 3
SPECIFICATION Spec
INVARIANTS
    NoJobMissed
    ListedOnceLatestFirst
    RecordsPlaced
    RenamedAtMostOnce
    RenameMovesAll
    BatchesFit
CHECK_DEADLOCK FALSE
