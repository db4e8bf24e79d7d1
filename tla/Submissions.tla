---------------------------- MODULE Submissions ----------------------------
(***************************************************************************)
(* `ctun run` from the command's start to the records of its jobs: the     *)
(* command prints (ssh.run, ssh.capture), the lines are scanned for job    *)
(* IDs, each ID goes into the command log, and when the command is over    *)
(* the facts of each job are asked for and its record is stored            *)
(* (api.run, api._write_records).                                          *)
(*                                                                         *)
(* Time passes while the command runs and during each call to the cluster. *)
(* Two more parties share the command log: another run on the cluster, and *)
(* a fresh login or a logout, which clears it.  A run that is killed takes *)
(* no further step, which the specification allows at any moment.          *)
(***************************************************************************)
EXTENDS OutputText

CONSTANTS
    Jobs,        \* job IDs, as sequences of digits: those the command may submit
    OldJobs,     \* and those Slurm took before it started
    CommitJob,   \* the job in whose repo the commit is that the note names
    SubmitSlack, \* _SUBMIT_SLACK
    CallTimes,   \* how long the calls to the cluster may take, in one run all the same
    Began,       \* when the command starts; OldJobs were taken at time 0
    MaxRun,      \* how long the command may take
    MaxPrints    \* how many lines the command may print

ASSUME SubmissionsAssumption ==
    /\ Jobs \cap OldJobs = {} /\ \A job \in Jobs \cup OldJobs : job \in Seq(Digits)
    /\ SubmitSlack \in Nat /\ CallTimes \subseteq Nat /\ Began \in Nat

VARIABLES
    capture,    \* whether the output is captured, not streamed
    callTime,   \* how long each call takes
    note,       \* the kinds of reference in the note given; NoNote without one
    phase,      \* where api.run is
    stream,     \* what the command has printed
    running,    \* whether the command still runs
    prints,     \* how many lines it has printed
    read,       \* how many pieces of the stream were read
    pending,    \* the beginning of a line, as _run_scanning keeps it
    lines,      \* the lines of the last chunk that were not looked at yet
    seen,       \* what on_line was given
    found,      \* job_ids
    log,        \* the lines of the cluster's command log
    clock,
    submitted,  \* when Slurm took each job; Never if it did not
    ranFor,     \* ran_for
    left,       \* the jobs whose record is still to come
    facts,      \* whether the facts of the first of them are known
    kept,       \* result.records: the records this run knows it stored
    noted,      \* the jobs a warning names
    judged,     \* the jobs taken for old ones, each with the time of the verdict
    records,    \* the records on the cluster: the job, and whether with its facts
    commit      \* what the check of the note's commit came to

output == <<stream, running, prints>>
scan == <<read, pending, lines, seen>>
options == <<capture, callTime, note>>
results == <<left, facts, kept, noted, judged, records, commit>>
vars == <<options, phase, output, scan, found, log, clock, submitted, ranFor, results>>

Never == -1
NoNote == {"none"}

-----------------------------------------------------------------------------
(* The command log (cmdlog).                                               *)

CommandLine(id) == [id |-> id]
JobsLine(id, job) == [jobs_of |-> id, job |-> job]

\* The jobs that some lines name.
Named(lns) == [k \in DOMAIN lns |-> lns[k].job]

Commands(lns) == {k \in DOMAIN lns : "id" \in DOMAIN lns[k]}
CommandIds(lns) == {lns[k].id : k \in Commands(lns)}

\* Mistake: the jobs are those of the lines that follow the command.
EntriesByPlace(lns) ==
    LET own(id) == {k \in Commands(lns) : lns[k].id = id}
        upTo(k) == Min({j \in Commands(lns) : j > k} \cup {Len(lns) + 1}) - 1
    IN  [id \in CommandIds(lns) |-> LET k == Max(own(id)) IN Named(SubSeq(lns, k + 1, upTo(k)))]

\* The jobs of the lines that name a command.
JobsOf(lns, id) ==
    LET named(line) == "jobs_of" \in DOMAIN line /\ line.jobs_of = id
        upTo[k \in 0..Len(lns)] ==
            IF k = 0 THEN <<>>
            ELSE IF named(lns[k]) THEN Append(upTo[k - 1], lns[k].job) ELSE upTo[k - 1]
    IN  upTo[Len(lns)]

\* entries: each command with the jobs of the lines that name it.
Entries(lns) == [id \in CommandIds(lns) |-> JobsOf(lns, id)]

-----------------------------------------------------------------------------
Init ==
    /\ capture \in BOOLEAN /\ callTime \in CallTimes /\ note \in {NoNote, {"job", "commit"}}
    /\ phase = "note" /\ stream = <<>> /\ running = FALSE /\ prints = 0
    /\ read = 0 /\ pending = <<>> /\ lines = <<>> /\ seen = <<>> /\ found = <<>>
    /\ log = <<>>
    /\ clock = Began
    /\ submitted = [job \in Jobs \cup OldJobs |-> IF job \in OldJobs THEN 0 ELSE Never]
    /\ ranFor = 0
    /\ left = <<>> /\ facts = FALSE /\ commit = "unchecked"
    /\ kept = {} /\ noted = {} /\ judged = {} /\ records = {}

\* The note's job references are checked first (_check_note): one the cluster
\* does not know, or a check that fails, and nothing runs.
Refuse ==
    /\ phase = "note" /\ "job" \in note
    /\ phase' = "refused"
    /\ UNCHANGED <<options, output, scan, found, log, clock, submitted, ranFor, results>>

Start ==
    /\ phase = "note"
    /\ phase' = "run" /\ running' = TRUE
    /\ log' = Append(log, CommandLine("mine"))
    /\ UNCHANGED <<options, stream, prints, scan, found, clock, submitted, ranFor, results>>

-----------------------------------------------------------------------------
(* The command, on the cluster.  What it does when the run has stopped     *)
(* waiting for it has no effect on the run.                                *)

Line(job) == <<"S">> \o job

PrintLine(line) ==
    /\ running /\ prints < MaxPrints /\ phase \in {"run", "scan", "deaf"}
    /\ prints' = prints + 1
    /\ \/ stream' = stream \o Append(line, "NL") /\ UNCHANGED running
       \/ stream' = stream \o line /\ running' = FALSE

\* sbatch: Slurm takes the job, and its ID is printed.
Submit ==
    \E job \in Jobs :
        /\ submitted[job] = Never
        /\ PrintLine(Line(job))
        /\ submitted' = [submitted EXCEPT ![job] = clock]
        /\ UNCHANGED <<options, phase, scan, found, log, clock, ranFor, results>>

\* Lines of an earlier submission, and a long line with such a text in it.
PrintOther ==
    /\ \E line \in {Line(job) : job \in OldJobs}
                   \cup {[k \in 1..LineMax |-> "x"] \o Line(job) : job \in OldJobs} : PrintLine(line)
    /\ UNCHANGED <<options, phase, scan, found, log, clock, submitted, ranFor, results>>

CommandEnds ==
    /\ running /\ phase \in {"run", "scan", "deaf"}
    /\ running' = FALSE
    /\ UNCHANGED <<options, phase, stream, prints, scan, found, log, clock, submitted, ranFor, results>>

Tick ==
    /\ phase = "run" /\ clock < Began + MaxRun
    /\ clock' = clock + 1
    /\ UNCHANGED <<options, phase, output, scan, found, log, submitted, ranFor, results>>

-----------------------------------------------------------------------------
(* Scanning the output.                                                    *)

\* submitted_job_ids: a line that begins with Slurm's words and a number.
JobIds(line) ==
    LET digits == {n \in 1..(Len(line) - 1) : \A k \in 2..(n + 1) : line[k] \in Digits}
    IN  IF line # <<>> /\ line[1] = "S" /\ digits # {}
        THEN <<SubSeq(line, 2, Max(digits) + 1)>> ELSE <<>>

\* submitted(output): the IDs go into the result and, each at once, into the log.
Note(ids) ==
    /\ found' = found \o ids
    /\ log' = log \o [k \in DOMAIN ids |-> JobsLine("mine", ids[k])]

\* Mistake: a line longer than is looked at is forgotten, its end taken for a line.
KeptNothing(line) == IF Len(line) > LineMax THEN <<>> ELSE line

\* Mistake: all of it is kept.
KeptWhole(line) == line

\* What is kept of a line that has not ended.
Kept(line) == Cut(line)

ReadChunk ==
    /\ phase = "run" /\ ~capture /\ lines = <<>>
    /\ \E n \in 1..(Len(stream) - read) :
           LET parts == Split(pending \o SubSeq(stream, read + 1, read + n))
           IN  /\ read' = read + n
               /\ lines' = parts.lines
               /\ pending' = Kept(parts.open)
    /\ phase' = "scan"
    /\ UNCHANGED <<options, output, seen, found, log, clock, submitted, ranFor, results>>

ScanLine ==
    /\ phase = "scan" /\ lines # <<>>
    /\ lines' = Tail(lines)
    /\ seen' = Append(seen, Cut(Head(lines)))
    /\ Note(JobIds(Cut(Head(lines))))
    /\ UNCHANGED <<options, phase, output, read, pending, clock, submitted, ranFor, results>>

\* The chunk is copied to ctun's own output, whose reader may be gone.
CopyChunk ==
    /\ phase = "scan" /\ lines = <<>>
    /\ phase' \in {"run", "deaf"}
    /\ UNCHANGED <<options, output, scan, found, log, clock, submitted, ranFor, results>>

RunOver ==
    /\ phase' = "facts"
    /\ ranFor' = clock - Began
    /\ left' = found'
    /\ UNCHANGED <<options, output, clock, submitted, facts, kept, noted, judged, records, commit>>

\* End of file: the command is over and all was read, or ssh lost its connection.
EndOfOutput ==
    /\ phase = "run" /\ ~capture
    /\ IF pending = <<>> THEN UNCHANGED <<seen, found, log>>
       ELSE seen' = Append(seen, pending) /\ Note(JobIds(pending))
    /\ UNCHANGED <<read, pending, lines>>
    /\ RunOver

\* After a broken output nothing more is read; ssh is waited for.
StoppedListening ==
    /\ phase = "deaf" /\ ~running
    /\ UNCHANGED <<scan, found, log>>
    /\ RunOver

\* Captured output comes all at once, or not at all when the wait timed out.
Captured ==
    /\ phase = "run" /\ capture
    /\ phase' = "take"
    /\ \/ ~running /\ lines' = LinesOf(stream)
       \/ lines' = <<>>
    /\ UNCHANGED <<options, output, read, pending, seen, found, log, clock, submitted, ranFor, results>>

TakeLine ==
    /\ phase = "take" /\ lines # <<>>
    /\ lines' = Tail(lines)
    /\ Note(JobIds(Head(lines)))
    /\ UNCHANGED <<options, phase, output, read, pending, seen, clock, submitted, ranFor, results>>

AllTaken ==
    /\ phase = "take" /\ lines = <<>>
    /\ UNCHANGED <<scan, found, log>>
    /\ RunOver

-----------------------------------------------------------------------------
(* The records of the jobs found.                                          *)

\* Seconds since Slurm took the job, as the facts script measures it at time t.
SubmittedAgo(job, t) ==
    IF job \in DOMAIN submitted /\ submitted[job] # Never THEN t - submitted[job] ELSE Never

\* Mistake: the time that the command took counts twice.
TookLongBefore(ago) == ago > ranFor + ranFor + SubmitSlack

\* Mistake: the time that the command took does not count.
TookBeforeItsEnd(ago) == ago > SubmitSlack

TookBefore(ago) == ago > ranFor + SubmitSlack

\* facts.collect, measured when the call ends, at time t; without an
\* answer, or for a job Slurm does not know, every fact is unknown, which is a
\* warning.
CollectFacts ==
    /\ phase = "facts" /\ left # <<>>
    /\ \E answered \in BOOLEAN :
           LET job == Head(left)
               t == clock + callTime
               ago == IF answered THEN SubmittedAgo(job, t) ELSE Never
               old == ago # Never /\ TookBefore(ago)
           IN  /\ clock' = t
               /\ facts' = (ago # Never)
               /\ noted' = IF ago = Never \/ (old /\ note # NoNote) THEN noted \cup {job} ELSE noted
               /\ judged' = IF old THEN judged \cup {<<job, t>>} ELSE judged
               /\ phase' = IF old THEN "facts" ELSE "write"
               /\ left' = IF old THEN Tail(left) ELSE left
    /\ UNCHANGED <<options, output, scan, found, log, submitted, ranFor, kept, records, commit>>

\* Mistake: a record that could not be stored ends the loop over the jobs.
WriteFirst ==
    /\ phase = "write"
    /\ \E stored \in BOOLEAN :
           LET record == [job |-> Head(left), facts |-> facts]
           IN  /\ clock' = clock + callTime
               /\ records' = IF stored THEN records \cup {record} ELSE records
               /\ kept' = IF stored THEN kept \cup {record} ELSE kept
               /\ noted' = IF stored THEN noted ELSE noted \cup {record.job}
               /\ left' = IF stored THEN Tail(left) ELSE <<>>
    /\ phase' = "facts"
    /\ UNCHANGED <<options, output, scan, found, log, submitted, ranFor, facts, judged, commit>>

\* records.write: stored, refused because there is one, or failed, which a call
\* that timed out is too, although its script may have stored the record.
WriteRecord ==
    /\ phase = "write"
    /\ \E stored \in BOOLEAN, answered \in BOOLEAN :
           LET record == [job |-> Head(left), facts |-> facts]
               new == stored /\ \A other \in records : other.job # record.job
           IN  /\ clock' = clock + callTime
               /\ records' = IF new THEN records \cup {record} ELSE records
               /\ kept' = IF new /\ answered THEN kept \cup {record} ELSE kept
               /\ noted' = IF new /\ answered THEN noted ELSE noted \cup {record.job}
    /\ left' = Tail(left)
    /\ phase' = "facts"
    /\ UNCHANGED <<options, output, scan, found, log, submitted, ranFor, facts, judged, commit>>

\* The repos a commit of the note is looked for in: those of the records just
\* stored and, when the records can be read, those of the project's.
Repos == {record.job : record \in {r \in kept : r.facts}} \cup OldJobs

\* _check_note_commits, once every record was tried.
CheckCommits ==
    /\ phase = "facts" /\ left = <<>>
    /\ phase' = "done"
    /\ IF "commit" \in note /\ kept # {}
       THEN commit' \in {IF CommitJob \in Repos THEN "known" ELSE "unknown", "failed"}
       ELSE UNCHANGED commit
    /\ UNCHANGED <<options, output, scan, found, log, clock, submitted, ranFor,
                   left, facts, kept, noted, judged, records>>

-----------------------------------------------------------------------------
(* The other parties at the log.  Once the command is over the run does    *)
(* not touch the log any more, so what they do after that is left out, and *)
(* so is a second clearing, after which no line of this run is in the log. *)

\* Another run on the cluster is logged, and the job it submitted.
OtherRun ==
    /\ phase \in {"run", "scan", "take"}
    /\ \/ "theirs" \notin CommandIds(log) /\ "mine" \in CommandIds(log) /\ log' = Append(log, CommandLine("theirs"))
       \/ /\ "theirs" \in CommandIds(log) /\ Entries(log)["theirs"] = <<>>
          /\ \E job \in OldJobs : log' = Append(log, JobsLine("theirs", job))
    /\ UNCHANGED <<options, phase, output, scan, found, clock, submitted, ranFor, results>>

ClearLog ==
    /\ phase \in {"run", "scan", "take"} /\ "mine" \in CommandIds(log)
    /\ log' = <<>>
    /\ UNCHANGED <<options, phase, output, scan, found, clock, submitted, ranFor, results>>

Command == Submit \/ PrintOther \/ CommandEnds

Run ==
    \/ Refuse \/ Start \/ ReadChunk \/ ScanLine \/ CopyChunk \/ EndOfOutput \/ StoppedListening
    \/ Captured \/ TakeLine \/ AllTaken \/ CollectFacts \/ WriteRecord \/ CheckCommits

Next == Command \/ Tick \/ Run \/ OtherRun \/ ClearLog

Spec == Init /\ [][Next]_vars

-----------------------------------------------------------------------------
(* Properties.                                                             *)

\* No more of an unfinished line is kept than is looked at, so a huge line
\* without a line break does not fill the memory (ssh._run_scanning).
TypeOK ==
    /\ phase \in {"note", "refused", "run", "scan", "deaf", "take", "facts", "write", "done"}
    /\ running \in BOOLEAN
    /\ read \in 0..Len(stream)
    /\ Len(pending) <= LineMax
    /\ clock \in Nat /\ ranFor \in Nat
    /\ submitted \in [Jobs \cup OldJobs -> Nat \cup {Never}]
    /\ kept \subseteq records

\* Wherever the output is cut into chunks, on_line is given the lines that the
\* command printed, in their order, each as far as it is looked at
\* (ssh._run_scanning implements OutputLines).
Scanned == INSTANCE OutputLines
    WITH rest <- LET printed == LinesOf(stream) IN SubSeq(printed, Len(seen) + 1, Len(printed)),
         over <- phase \notin {"note", "run", "scan"}

ImplementsLines == Scanned!Spec

\* As long as the log was not cleared, it names for each command exactly the
\* jobs found in its output, at every moment, in whatever order parallel runs
\* append to it, and also for a run that is interrupted later (api.run, cmdlog).
LogNamesJobs ==
    LET logged == Entries(log)
    IN  /\ "mine" \in DOMAIN logged => logged["mine"] = found
        /\ "theirs" \in DOMAIN logged => Range(logged["theirs"]) \subseteq OldJobs

\* A job that Slurm took more than the slack before the command started gets no
\* record when its facts are known, however the command came to print its ID and
\* however long the calls take (api._write_records).
OldJobsGetNoRecord ==
    \A record \in records :
        record.facts => submitted[record.job] + SubmitSlack >= Began

\* A job of the command is taken for an old one only when the calls for the jobs
\* before it, and its own, took longer than the slack (api._write_records).
OwnJobsJudgedLate ==
    \A verdict \in judged :
        submitted[verdict[1]] >= Began => verdict[2] > Began + ranFor + SubmitSlack

\* A run that got to its end says of every job in its result what became of it:
\* there is a record, or a warning names it; silence is kept only of old jobs,
\* when there is no project and no note to lose (api._write_records).
EveryJobAccounted ==
    phase = "done" =>
        \A job \in Range(found) :
            \/ \E record \in kept : record.job = job
            \/ job \in noted
            \/ note = NoNote /\ \E verdict \in judged : verdict[1] = job

\* What the documentation of `run` says: only a job that Slurm took before the
\* command started is left without a record for being old.
OnlyEarlierJobsLeftOut == \A verdict \in judged : submitted[verdict[1]] < Began
=============================================================================
