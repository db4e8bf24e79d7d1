\* The calls for one job take so long that the next one seems old.
CONSTANTS
    Jobs <- MCJobs
    OldJobs <- MCOldJobs
    CommitJob <- MCCommitJob
    LineMax = 3
    SubmitSlack = 1
    CallTimes = {0, 1}
    Began = 2
    MaxRun = 1
    MaxPrints = 2
SPECIFICATION Spec
INVARIANT OnlyEarlierJobsLeftOut
CHECK_DEADLOCK FALSE
