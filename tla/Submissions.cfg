\* A command that prints up to two lines, with old jobs and long lines among them.
CONSTANTS
    Jobs <- MCJobs
    OldJobs <- MCOldJobs
    CommitJob <- MCCommitJob
    LineMax = 3
    SubmitSlack = 1
    CallTimes = {0, 1}
    Began = 2
    MaxRun = 1
    MaxPrints = 2
SPECIFICATION Spec
INVARIANTS
    TypeOK
    LogNamesJobs
    OldJobsGetNoRecord
    OwnJobsJudgedLate
    EveryJobAccounted
PROPERTY ImplementsLines
CHECK_DEADLOCK FALSE
