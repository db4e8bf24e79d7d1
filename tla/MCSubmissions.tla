--------------------------- MODULE MCSubmissions ---------------------------
EXTENDS Submissions

\* Two jobs of the command; a job ID that is cut short is that of the old job.
MCJobs == {<<"1", "2">>, <<"3">>}
MCOldJobs == {<<"1">>}
MCCommitJob == <<"3">>
=============================================================================
