# ctun in TLA+

A verification development for `ctun` (package `cluster_tunnel`): TLA+ modules translated from the
Python sources and the shell scripts, TLC configurations that check them on small instances, and
proofs for TLAPS of what matters most, for every value of the constants. `PROJECT.json` maps each
definition to the lines it models. Paths below are relative to `src/`.

## The system

`ctun` is a command line tool (and a Python API) through which a person, and agents working for that
person, use a Slurm cluster over one authenticated ssh connection. There is no daemon: every command
is a process that lives for seconds. What lasts is kept in three places, none of them behind a lock:

- on the machine: the ssh ControlMaster and its socket file, a session file, a command log, the
  config file;
- on the cluster: one file per job, the job's record, written by `records.sh`;
- at the person: credentials, and the decision to confirm things.

| Component | State | Operations | Talks to |
|---|---|---|---|
| Tunnel (`ssh.py`) | ssh connections, the socket file | open, check, drop a stale socket, close | the OpenSSH client, all others |
| Session (`session.py`) | start, limit of the budget window | start (truncate, write), load, clear | login, logout, the guard |
| Command log (`cmdlog.py`) | lines of the session's commands and of their jobs | record, record_jobs, entries, clear | login, logout, run |
| Login and logout (`api.py`) | - | authenticate in the terminal, a dialog, with given credentials or through the bridge; keep or start a session; close | tunnel, session, log |
| Pty login (`pty_login.py`, `popup.py`) | what was read, which secrets were typed | answer ssh's prompts within a timeout | ssh, the person |
| Login bridge (`login_bridge.py`) | - | hand a login to a front end, wait for its outcome | a front end's own `ctun login` |
| Budget guard (`budget.py`) | - | is the command guarded (a reader of shell code); does the session have budget left | session, the budget script on the cluster |
| Run (`api.py`, `ssh.py`) | - | preflight, guard, log; run the command and scan its output for job IDs; ask for the jobs' facts, write their first records | all of the above |
| Job records (`records.py`, `records.sh`) | a record per job on the cluster | write, update in batches, read; edit; rename a project | processes on any machine |
| Job overview (`jobs.py`, `jobs.sh`) | - | read the queue, accounting and the records, and put them together | Slurm, the records |
| Facts and note references (`facts.py`, `notes.py`) | - | what a job ran, when Slurm took it; whether a note's jobs and commits exist | Slurm, git on the cluster |
| Host keys (`hostkey.py`) | pins in the config | scan, compare, confirm, pin | config file, ssh |
| Config (`config.py`, `configedit.py`) | the config file | parse, edit with a backup | the person's editor |
| Transfers, WSL, CLI, web UI | - | argument vectors, rendering | ssh, scp, wsl.exe |

What is hard about it, and the properties that make it correct:

- *Processes share files without a lock.* Two logins race for the socket; a run reads a session that
  a login is about to replace; a file is seen truncated. The tunnel, its session and its log have to
  stay consistent, and the guard sound, in every interleaving.
- *Anything may die between two steps*: the tunnel, a login before it stamped the session, a script
  on the cluster, a call that timed out while its script goes on.
- *Optimistic concurrency*: an edit reads records, and stores new versions only of those that have
  not changed, in batches, with bounded retries. No edit may be lost, and the answer must tell
  truthfully what was stored.
- *A person decides between two looks*: a host key, or an edit of the config, is shown and agreed to, and
  written later. What is written must be what was agreed to, and must not undo what others wrote meanwhile.
- *Output comes in pieces and time passes*: a line arrives in any chunks, a command submits one job after the
  other, the calls for their records take time and fail one by one. Each job must end up in the log under its
  command, and with a record or a word about it.
- *Several looks at a moving system*: queue, accounting and records are read one after the other, and put together.
- *A guard that reads shell code* has to see every command that a shell would run, and none that it would not.
- *A dialogue with a program that was made for people*: prompts in pieces, notices that look like
  prompts, secrets that must go to the right prompt and only once, a master that leaves for the
  background at the very moment the pty is closed.

`PROJECT.json` lists these hazards at their lines, each with the properties aimed at it or the reason
why none is yet.

## The modules

| Module | Models | Rests on |
|---|---|---|
| `SshMaster` | connections, the socket, `ssh -O check/exit`, the unlink | |
| `SessionFile` | the session file, with the torn file between truncate and write | |
| `TunnelSession` | login, logout, run and the guard as processes over both, and the command log | `SshMaster`, `SessionFile` |
| `TunnelSession_proofs` | its theorems, also for a single process that logs in and out | `TunnelSession` |
| `PtyLogin` | the login in a pseudo-terminal; one step (`Authenticate`) of `TunnelSession` | |
| `PtyLogin_proofs` | its theorems | `PtyLogin` |
| `RecordLog` | the abstract specification of the records: each change is one logged edit of the record as it is | |
| `RecordStore` | clients that write, edit and rename records, and their scripts on the cluster | `RecordLog` |
| `RecordStore_proofs` | its theorems | `RecordStore` |
| `ConfigFile` | the config file and its backup: the edits, planned and written in two steps | |
| `KnownHosts` | the server's key, the known_hosts files, ssh's verdict, the helper's two steps | `ConfigFile` |
| `HostKeyPin` | processes that pin a key, add a note, migrate the config | `KnownHosts` |
| `HostKeyPin_proofs` | its theorems | `HostKeyPin` |
| `ShellWords` | the guard's reader: what a command line runs, as operators | |
| `CommandLines` | shell scripts built up construct by construct, with what a shell makes of them | `ShellWords` |
| `OutputText` | output as text: lines, and how much of one is looked at | |
| `SequenceLemmas` | lemmas about sequences, recursive functions and induction that several proofs need | |
| `OutputText_proofs` | lemmas about it: text that comes in parts, of which only a beginning is kept | `OutputText`, `SequenceLemmas` |
| `OutputLines` | the abstract specification of the scanning: each line once, in order, cut | `OutputText` |
| `Submissions` | a run from the start of its command to the records of its jobs, with the log next to another run's | `OutputText`, `OutputLines` |
| `Submissions_proofs` | its theorems | `Submissions`, `OutputText_proofs` |
| `RecordFiles` | all the records of a cluster, by job ID and project | |
| `JobOverview` | `ctun jobs`, while jobs are submitted and end and records are written | `RecordFiles` |
| `ProjectRename` | `ctun projects rename`: nested projects, batches, runs that fail and are repeated | `RecordFiles` |
| `Views` | the two of them on one store of records | `JobOverview`, `ProjectRename` |
| `Views_proofs` | its theorems | `Views`, `SequenceLemmas` |
| `MCTunnelSession`, `MCPtyLogin`, `MCRecordStore`, `MCHostKeyPin`, `MCCommandLines`, `MCSubmissions`, `MCViews` | constants for TLC | |

### TunnelSession

One cluster, one user account, any number of processes. `pc[p]` is the process's position between two
accesses to shared state, `op[p]` what it has read. A process of `Operators` runs `login` and
`logout`, one of `Runners` runs `run`; each action is the code between two such accesses:

- login: `LoginLive`/`LoginNew` (the first `is_live` and the choice of how to authenticate),
  `Bridge...`, `PrepareSocket` and `DropStaleSocket` (check and unlink are two steps, as in the
  code), `Authenticate`, `Verify` (`is_live` again), `LoadKept` (a live tunnel keeps its session),
  `ClearLog`, `BeginStamp` and `FinishStamp` (truncate, write);
- logout: `CloseTunnel`, `ForgetSession`, `WipeLog`;
- run: `RunStart` (preflight), `Decide` (session load), `Probe` (budget script), `RecordCommand`,
  `Submit`, `LogJobs`.

Around them: `Crash` ends a process between any two steps, `Dies` ends a connection, with or without
its socket file, `Accrue` charges usage.

Abstractions. A connection is the number of its authentication. The budget script's measure is a
counter `spent` of usage charged so far, and a session's `start_epoch` is the value of that counter
when the clock was read, so `used_since` is a difference. Whether a command line is guarded is a free
choice. The existence test and the check in `prepare_socket` are one step, its unlink another; `ssh -O exit`
is one step. When two stamps are written into one file, the longer one's tail may remain (`Write`):
nothing parses then. The ghosts `stamped`, `current`, `auth` and `doomed` record what the properties
speak of and influence nothing.

Assumptions on the environment are constants: `CheckMayTimeOut` (`ssh -O check` on a live tunnel is
cut off by its timeout), `CloseMayFail`, `KeyAuth` (ssh can connect on its own), `MayCrash`,
`FailMode`.

### PtyLogin

The pty is a queue of pieces. ssh prints the lines of a dialogue piece by piece; a piece is what
`pty_login` can tell of it, the words that name a secret. A line ends in a newline or in a prompt, at
which ssh waits. An answer that arrives before the prompt is discarded, as ssh does (and as the
tests' fake ssh in `tests/conftest.py` does); a wrong one is asked for again up to `MaxRejected` times.
Once nothing is left to ask, ssh is authenticated, leaves the pty and comes to listen. The loop reads
any number of pieces at a time, classifies the last line, waits for the rest of it, and answers,
refuses or goes on; the timeout (`expired`) may come at any moment. Every secret may be given or not
and right or wrong (`given`, `right`).

`Stalls` and `Slow` are the assumptions of the code's two delays: output never pauses for 0.15 s in
the middle of a line, and an authenticated master listens within the last tries of the socket
(6 times 0.3 s). Without `Stalls` the loop waits for the rest of a line; without `Slow` the
last try waits for an authenticated ssh.

The check of the socket in this loop always answers. In the code it has no timeout of its own
(`pty_login.py:63`, unlike `ssh.check`).

### RecordLog and RecordStore

A record is its facts (one flag: job name, command and code are there), project, note, whether the note is
confirmed, and the log of changes. A change's log entry is the process that made it. A version is the
record's content, which is what its hash stands for. `reviewed`, the note confirmed last, is a ghost.

`RecordLog` is the promise: a job's record is created once, and from then on changes only by `Edited`
on top of what it is. `RecordStore` is the code: `WriteFirst` (`run`), `EditJobs` (`jobs edit`),
`RenameProject`, each an `Attempt` that reads, checks and edits all records it is for; `Send` sends a
batch; the script, an actor of its own, stores or refuses one record after the other; `Reply`
combines the answers and decides between the next batch, another attempt, success and giving up;
`CallFails` ends the command while its script may go on; `ScriptDies` ends a script. In
`records.sh` a version is checked and the new file moved into place by two commands, the second of which is
assumed to succeed (`mv -f`, `records.sh:216`, whose status the script ignores); with `Window` TRUE these are
two steps (`CheckVersion`, `MoveRecord`) and other scripts may store in between. `mv -n` of a first record is one step.

Abstractions: the records of one attempt are read at one instant; a run submits one job; batches are
arbitrary subsets rather than cut at a size; where a check can fail for reasons outside the model
(an unknown job, a note's reference, a read that times out), it may fail at will (`CallsMayFail`).
A task of an array without a record of its own starts from its array's (`Current`).

### ConfigFile, KnownHosts and HostKeyPin

One cluster. The config's text is the cluster's notes, whether they are a list yet, its two
host-key settings, and a form: broken, fixed (loads, but the edits refuse its layout) or editable.
`keys` is what each known_hosts file holds for the cluster, `keys[Own]` what ssh's own files hold, `server` the
key the server presents now.

A pinner follows `hostkey --pin` and then `pin_host_key`, which does the same again on a config loaded again:
`LoadConfig`, `Check`, `Scan`, `JudgeShown`, `Show`, `Ask`; `LoadConfig`, `Check`, `Scan`, `JudgeAgain`,
`Plan`, `Remove` and `Append` (the helper), `SaveCopy` and `Write` (`apply`). Only the fingerprint agreed to and
`replace` pass from the first half to the second. A note is `ReadForNote`, `Write`; a migration is `PlanMigration`,
`ConfirmMigration`, `SaveCopy`, `Write`. Around them `Login` takes a new key on first contact, `ServerChanges`
gives the server another key, and a person saves the config (`HandEdit`).

Abstractions. A login loads the config and compares the key in one step. A known_hosts file is what it holds
for this cluster: that two pins for different clusters rewrite the same file at once is not modelled. A helper that is cut
off stops where it is. A terminal and `--yes` are one choice, `person`, with the rule that only a
person at a terminal can agree to a changed key.

No lock protects the files, so an edit may overwrite what was written since it was planned. The ghost
`disturbed` records that a file was written in the middle of another's edit, that is between its last reading of the config
and its write; `PinStays`, `NotesStay` and `BackupIsWhatWasReplaced` say what holds as long as that has not happened,
and `undone_pin` what does not hold once it has.

### ShellWords and CommandLines

`ShellWords` is `budget.command_names` and `is_guarded` with the lexer under them: `Lex` goes through a script character
by character (`Unquoted`, `InLiteral`, `InDoubleQuotes`, `Substitution`, `Parameter`, `Redirection`, `Separator`,
`SkipHeredocs`), `CommandAt` follows shells, `eval`, `find -exec` and wrappers, `Script` goes into substitutions, to the
depth `MaxDepth`. A word's characters are tokens: a run that the reader never takes apart is one token
(`"sbatch"`, `"-c"`), what it tells apart is a token each. Of each kind of wrapper one or two stand for the table
(`env` and `timeout`, a script option in `flock` and `su`, joined words in `ssh` and `watch`). A group of clustered shell options
is one token, of which `ScriptClusters` says whether it holds a `c`. A guarded name is a set of words, which stands for its patterns.

`CommandLines` is the reference. A state is a script and whether a shell that is given it submits a job
(`submits`). A script starts as a single command (`Submitting`, `Harmless`) and grows by one construct at a time: another
command behind it (`Follow`), a compound command or substitution around it (`Enclose`), a string for a shell
(`HandToShell`), text that nothing runs (`Mention`). Each action knows what the construct does to `submits`; the
characters are only looked at to tell whether the text may stand there (`bars`: what a quote, say, must not hold). `submits`
is therefore independent of the reader.

### Submissions

One `ctun run` from the check of its note to its end, next to a command on the cluster that prints, other runs in the log,
and Slurm. `phase` is where `api.run` is: `note` (`Refuse`, `Start`), `run` and `scan` (`ReadChunk`, `ScanLine`,
`CopyChunk`, `EndOfOutput`: `ssh._run_scanning`), `deaf` (ctun's own output broke; ssh is waited for), `take`
(`Captured`, `TakeLine`, `AllTaken`: `ssh.capture` and the loop over what it returned), `facts` and `write`
(`CollectFacts`, `WriteRecord`, for one job after the other), `done` (`CheckCommits`).

A text is a sequence of pieces: Slurm's sentence, a digit, anything else, a line break; a job ID is a sequence of digits. `ReadChunk` reads any number of
pieces, so a chunk ends anywhere, within a number too. `LineMax` is the part of a line that is looked at, in pieces.
The command's jobs are taken by Slurm as their IDs are printed; it may print the ID of an earlier job as well, alone or far to the
right in a line. Its last line may lack its line break, and its connection may be lost (`EndOfOutput` while it runs).
Time passes while the command runs (`Tick`) and by `callTime` in each call; `submitted` is when Slurm took each job,
and the facts tell how long ago that was (`SubmittedAgo`). The clocks of Slurm and of
the host that computes this difference (`records.sh:116`) are assumed to agree. A call for facts is answered or not; a record is stored or not and its answer
arrives or not. Facts are one flag. A reference to a job and one to a commit are the two kinds a note may hold. `OtherRun` and `ClearLog`
are the other parties at the log. A run that is killed takes no more steps.

### RecordFiles, JobOverview, ProjectRename and Views

A job ID is a sequence (`<<"20", "1">>` is the task 1 of array 20), a project the sequence of its levels.

`JobOverview` follows `api.jobs`: `Begin`, `ReadQueue`, `ReadFinished` (`jobs.sh`, one call of the script but two
looks at Slurm, which other steps may come between), `ProbeFails`, `ReadRecords`. The script hides a failing `squeue` or `sacct`
(`2>/dev/null`, exit 0): then the list is empty and the overview goes on. `sacct` may also leave out any job of the window,
since accounting may not know yet that it has ended. The ghost `untold` holds what was left out in either way. That `sacct` prints
the jobs in the order in which they ended is an assumption, the one that `jobs._order` states. What it shows are operators:
`Order`, `RecordOf`, `WithoutJob`. Around them jobs are submitted and end, the history window moves on and records are
written. Each unit has two IDs, the one of `squeue` (`IdOf`) and the one of `sacct` (`RawOf`), which differ for
tasks of arrays. The history may not be asked for, asked for on a cluster without accounting, or read. `before` is what
there was at the start, a ghost.

`ProjectRename` follows `api.rename_project` for one cluster: `Run` reads all records and cuts the changes into
batches (`Batches`), `Call` stores one, `CallFails` stores its first records and ends the command, which may be run again.
`first`, a ghost, is what there was before the first run. Other writers are left to `RecordStore`, where the
rename meets conflicts and a project has no levels.

`Views` is the store with either command on it.

## What TLC checks

| Run | Bounds | Shows |
|---|---|---|
| `guard` | 2 operators, 1 runner, every failure, all may be killed, 1 authentication, 1 unit of usage, limits none, -1 and 1 | `TypeOK`, `NoGrantOnSpentSession` |
| `one_operator` | 1 operator, 2 runners that may be killed, 3 authentications, no failing close, checks that answer | tunnel, session and log stay consistent; one session per authentication |
| `pty_login` | 5 dialogues, every choice of given and right secrets, 1 rejection, 2 tries | a secret goes to its prompt; failures have reasons and leave nothing behind; the login ends, at once where no answer helps |
| `edits` | 2 jobs (an array and its task), a run and 2 edits of both jobs, 2 attempts, calls fail, scripts die, stores slip in | a command's outcome and the jobs it names are true; only reviewed notes are confirmed |
| `rename` | 2 jobs, a run, an edit and a rename, 2 attempts, no store slips in | `RecordStore` implements `RecordLog`; a rename that succeeds is complete |
| `pin_key` | a process that pins again and again, another that adds a note or migrates; 2 keys of one kind, 1 edit by hand, everything fails or is killed | only the key agreed to is pinned; a trusted key is replaced by a person only; a refusal changes nothing; undisturbed, pins, notes and backups last |
| `command_lines` | 11 commands that submit and 12 that do not, 2 constructs out of 18 and 8 ways to go on, 5 ways to hand the script to a shell | the guard's reader finds every submission and takes no text for one |
| `submissions` | 2 jobs of the command and an old one whose ID is a prefix of one of theirs, 2 lines, lines cut at 3 pieces, calls of 0 or 1 units, a slack of 1 | `Submissions` implements `OutputLines`; the log names each command's jobs; every job is accounted for; old jobs get no record, new ones only when the calls were slow |
| `views` | a job, a task and the rest of its array; records of 2 jobs and 1 task; 5 projects of up to 3 levels, all names into, out of and beside each other; calls of 6 characters, records of 2, 4 and 7; 3 runs | no job is missed that squeue and sacct tell, none is listed twice, each with the closest record; a rename moves all of a project, at most once, in calls that fit |
| `failed_close`, `undone_pin`, `late_record` | the smallest instance | the findings below |

Why these bounds are enough. *Tunnel*: each process returns to idle and starts over, so sequences of logins,
logouts and runs of any length occur. Two operators give every race between two logins or a
login and a logout; a third adds no new pair. With one authentication in `guard`, a session is still replaced
under a run's feet, because a failed close or a killed login lets the next login stamp again; in `one_operator`
three authentications give a tunnel, its successor and one to show that nothing is left of the first.
One unit of usage crosses the limit of 1 exactly. `NoGrantOnSpentSession` and `TypeOK` are also
proved for all bounds. *Records*: two jobs are the least for batches that are
partly stored, two editors the least for a conflict; two attempts (the code makes three) suffice for a retry, a
second conflict and giving up. *Pty*: the dialogues are the
two orders of password and passcode, with a notice that mentions both, a key (nothing asked), a
passcode asked for twice and a question ctun has no answer for; each prompt comes in two pieces, one of which
misleads. *Pin*: a second key is what a re-keyed server presents, and with two the server can also change back; one edit by hand makes every
combination of settings, and a broken or fixed form, meet every step. The pinner pins any number of times, so a pin
meets the traces of earlier ones, completed or cut off; the other process stands for whoever edits the config
meanwhile. Two pins at the same time are covered by the proofs, which hold for any processes. *Command lines*: what goes wrong
in such a reader is the end of a construct, and what follows it, or a construct directly inside another; two steps put every construct into
and behind every other one, around each kind of command. `MaxDepth` is the code's own limit of 8 (`_MAX_DEPTH`), which these scripts do not reach. *Submissions*: two lines are the least for a chunk with more than one line, a line that
is cut and goes on, and a job whose calls delay the next one's; the third job record would repeat the second's case. A slack of one
unit is crossed by two calls. The proofs hold for any number. *Views*: a job, a task and the pending rest of an array
are all the kinds of line that squeue prints. Three records are the least for two that fill a call to its limit and one that is
longer than any call may be; three runs allow two that fail and one that succeeds.

`CHECK_DEADLOCK FALSE` stands in every configuration since the systems may rest: the counters
`auths` and `spent` are bounded, and a command that ended does not start again in `RecordStore`,
`PtyLogin`, `Submissions` and `JobOverview`, nor a note or a migration in `HostKeyPin`; scripts grow to `MaxSteps`, and a
rename is run `MaxRuns` times. Symmetry is used in `guard`, `one_operator` and `edits` over interchangeable processes; no run that checks liveness uses it.

### Fairness

Only `PtyLogin` states any. `WF_vars(Loop)`: ctun's process is scheduled and each of its waits has a
limit, so it takes its next step. `WF_vars(Background)`: ssh finishes a line it began, and an authenticated ssh
finishes its move to the background; these are the assumptions of the two delays above. That
time passes is not part of the specification: `LoginEnds` assumes it (`WF_vars(Tick)`), while
`RefusedEndsAtOnce` does not, which is what "at once" means. ssh's dialogue, the network and the person
have no fairness.

`ImplementsLines` is a safety property: that the scan gets to the end of the output is up to the command and its connection. `OutputLines` may
stop after any line, as it has to when the connection is lost; that a scan which gets to the end looks at the last line too is
therefore not part of it.

The other modules have no liveness properties: what a command there waits for is bounded by timeouts
and attempts, and may legitimately never happen (a tunnel that dies, a script that is killed).

## What is proved

`TunnelSession_proofs`, for any processes, limits, failure modes and bounds:

- `TypeCorrect`: `TypeOK`. Its content is that what login stamps is a natural number or none.
- `GuardIsSound`: `NoGrantOnSpentSession`. The property is not inductive: a run between the guard's load and its
  probe holds a session that nothing relates to the one that was spent when the run began.
  `GuardInv` adds that a session once spent stays spent (usage never shrinks, a stamp never
  changes), that only a limited session is probed, and that the guard compares the very session the
  run is later judged by.

Also there, for one person at one machine: a single process `o` that logs in and out, while any number of
runs go on. Each theorem states what else it needs.

| Theorem | Property | Hypotheses, next to `Operators = {o}` |
|---|---|---|
| `SoleOperatorOrphansNothing` | `NoOrphanedConnection` | checks answer (`CheckMayTimeOut = FALSE`) |
| `SoleOperatorStampsOnce` | `OneSessionPerAuthentication` | checks answer, closes succeed (`CloseMayFail = FALSE`) |
| `SoleOperatorHasSession` | `TunnelHasItsSession` | the same, and `o` is not killed |
| `SoleOperatorKeepsLog` | `SessionLogComplete` | `o` is not killed |

The invariants say what is true while `o` is at each point of a login. `SoleOperatorInv`: no connection is alive between
its look at the socket and its authentication. `StampInv`: an authentication that a session was stamped for has it in the
file as long as its connection lives, and a login that is going to stamp has an authentication that nothing was stamped
for. `StampedInv`: outside such a login a live tunnel is one that a session was stamped for. `LogInv`: the log is complete but for
a login between clearing it and truncating the session file.

`RecordStore_proofs`, for any jobs, processes, edits and number of attempts:

- `TypeCorrect`, `NamesOnlyStored` (`NamedAreStored`) and `OnlyReviewedConfirmed` (`ConfirmedMeansReviewed`), windows included;
- `StoreImplementsLog`: with `Window = FALSE`, `RecordStore` implements `RecordLog`;
- `OnlyTheWindowLoses`: with `Window = FALSE`, `NothingLost`. With a window an edit is lost (below), so the window is the
  only cause.

The argument: every step is one process's client, which stores nothing and sends only sound records,
or its script, which stores only what it was sent. *Sound* (`ItemsSound`) means that a record on its way is an edit
of the version it was made from, or a first record if there was none; with `AnswersTrue` (what was
printed or answered as stored was stored) it makes the invariant `Inv`. Where the store still holds that
version, storing is a step of `RecordLog`.

What a command reports, and what a rename leaves, needs more of its history:

- `OutcomesAreTrue`: `OutcomeIsTrue`, windows included: what success and giving up say is true. (Of a command that ends with an
  error only `NamesOnlyStored` speaks.) The invariant keeps the books of each command (`Book`): every job
  it is for was stored by it, had nothing to change, or waits in exactly one place (`FreshInv`, `AccountInv`), and
  nothing is on its way where it stands between two calls (`CleanInv`). That giving up means that others stored meanwhile
  is a count: a refused record, or one bound to be refused, costs an attempt, and others have stored a record
  since the last one (`CountInv`).
- `RenamesCompletely`: `RenameComplete`, with `Window = FALSE`, `Old # New` and no edit that moves a record into `Old`.
  `OldInv` says of each command that nothing it sends brings a record back into `Old`, and of a rename that the jobs it
  has dealt with are out.

`PtyLogin_proofs`, for any dialogues, secrets and numbers of tries:

- `LoginTypeCorrect`: `TypeOK`.
- `SecretsAtTheirPrompts`: `SecretAtItsPrompt`, with `Stalls = FALSE`. `ReadInv` relates three parts of one line: what
  the loop has read of it and what waits in the pty make up what ssh has printed, whatever the pieces. `PromptInv` then says that
  a login about to answer has read all of it, and that ssh waits for that secret.
- `LoginFailsForAReason`: `FailureHasReason`, with `Slow = FALSE` (`ReasonInv`).
- `LoginLeavesNothing`: `NothingLeftBehind`, with both; it covers logins whose time ran out, too, with one exception: an ssh that has
  left for the background when the timeout comes. `EndInv` says where ssh can be when the loop has come to its end.

`Stalls` and `Slow` are the delays that `pty_login.py` itself relies on; `LoginEnds` and `RefusedEndsAtOnce` are liveness,
which TLC checks.

`HostKeyPin_proofs`, for any processes, keys, files and notes, whatever fails or is killed: every property of
`pin_key` (`TypeCorrect`, `AgreedKeysOnly`, `PersonReplaces`, `RefusalIsHarmless`, `PinHolds`, `NoteHolds`,
`BackupIsFresh`).

The properties are not inductive, since a process acts on what it learned steps ago. The invariant `Inv` says of
each process what it knows at each point (`Known`), that `MayPin` and the rule about persons, once checked,
still hold at the writes (`Agreed`), that only the points after a write can have written (`NothingWritten`), and,
undisturbed, that the planned text is still the edit of the config as it is and the key file what the
process made of it (`PinFresh`, `EditFresh`). With that, the write of a pin makes `LaterLoginsAcceptOnlyIt` true, and
the writes of the others keep it and all notes.

`Submissions_proofs`, for any jobs, output, slack, line length and duration of the command and of every call:

- `OldStayOut`: `OldJobsGetNoRecord`, and `OwnJudgedLateOnly`: `OwnJobsJudgedLate`. Both rest on `AgeInv`: nothing is
  recorded or judged before the command is over, by then the clock is at least at its start plus `ranFor`, and the job
  whose record comes next, if its facts are known, is not older than the slack allows.
- `AllAccounted`: `EveryJobAccounted`. The invariant `StillToCome` says that once the command is over each job found is
  either still to come (`left`) or accounted for, and that nothing is left at the end.
- `RunImplementsLines`: `ImplementsLines`, that is, `Submissions` implements `OutputLines`. The invariant `ScanInv` says that
  the lines of what was read, each cut, are those looked at followed by those of the last chunk that were not, and that
  what is pending is the line after them, cut. Three lemmas of `OutputText_proofs` carry it: a text that
  goes on is split together with the line it began (`SplitConcat`); nothing that is looked at depends on the part of a line
  that was not kept (`SplitKept`); what is open begins the line it becomes (`SplitBegins`). So the next line of a chunk is the next one
  that the command printed (`NextLine`), and what is pending at the end of the output begins it (`NextBeginning`).
- `RunTypeCorrect`: `TypeOK`, with the bound on what is kept of an unfinished line.
- `LogIsRight`: `LogNamesJobs`. `LogInv` also says what the log holds of the other run when its command is not in it;
  the lemmas say what a line more adds to the jobs of each command (`LogAppend`, `CommandLogged`, `JobLogged`).

`Views_proofs`, for any units, records, names and sizes: every property of `ctun jobs` and of `ctun projects rename`. (The queue
holds up to two units at first, and any number by the time the overview begins.) One invariant, `IInv`, says of the command that runs what holds of it, and that nothing has
happened to what the other one would look at.

- `MissesNoJob`: `NoJobMissed`. That a job is listed is not inductive, since for most of the overview it is not listed yet. `SeenInv`
  follows it: queued or ended since the beginning, then read from the queue or ended since, then read from one of
  the two, or left out by one of them (`untold`). `BeforeInv` says that the window of accounting has not left behind what ended since the beginning.
- `ListsLatestFirst`: `ListedOnceLatestFirst`. `ReadInv`: what was read from accounting is some of what has ended, in
  its order. The lemma `FinishedIs` says what `Finished` makes of it: each job that is not active, from exactly one place, places
  decreasing. That a raw ID stands for one unit (`OverviewAssumption`) gives the places in `ended`.
- `PlacesRecords`: `RecordsPlaced`. `PlacedInv`: what was read holds each record of a listed job that there was at the
  beginning, and only what is stored under job IDs. `ClosestIs` says which of a job's records is found first.
- `RenamesOnce`, `MovesAll`: `RenamedAtMostOnce`, `RenameMovesAll`, which speak of the first run for any names, and of later
  runs unless the rename is out of a project (`SafeToRunAgain`). `RenamedInv`: a record is as it was, or was renamed, and
  that from a name that `renamed_project` moves. Then the records still to be renamed are at every moment those that the
  remaining calls will send, and none after a run without an error (`RenameInv`; for a rename out of a project `FirstRunInv`, which
  compares with the records before the run instead). The lemma they rest on is `RenamedOnce`: unless
  the new name is a project that the old one lies in, renaming twice is renaming once.
- `CallsFit`: `BatchesFit`. `Sound` says it of any list of calls, `AddedKeeps` that one more record keeps it (by the size of what
  is appended, `SizeAppend`), `BatchesSound` that all of them are sent.

`Split`, `JobsOf`, `Finished`, `Size`, `Batches` and `ProjectName` are recursive functions. That such a function exists
(`RepeatsExists`), and what it comes to for arguments of any length, is proved by induction over a set (`Induction`,
`InductionUpTo`, `SequenceInduction`), which the provers can instantiate where they cannot instantiate
an operator; it follows from the library's theorem that strict inclusion of finite sets is well founded.

Beyond the assumptions named in the modules (`ASSUME`, which TLC evaluates in every run) a theorem uses
only the hypotheses listed with it above. Those about checks, closes, kills, windows and delays are all needed: with any one of
them dropped, in `one_operator`, `rename` or `pty_login`, TLC finds a counterexample.

Only model-checked: the properties of `CommandLines`, and the liveness of `PtyLogin`, which is out of the
prover's reach in any case. `ShellWords` is made of `RECURSIVE` operators, about which nothing can be
proved, so `command_lines` is its whole evidence.

## Findings

Each is a run that ends in a counterexample; `PROJECT.json` quotes what the code's own text says.

- `failed_close`: `logout` forgets the session also when `ssh -O exit` failed; the next login stamps a second budget
  window for the same authentication.
- `undone_pin`: an edit of the config replaces the whole file by a text planned earlier, for a migration before its prompt;
  a pin that succeeded in between is undone.
- `late_record`: how long ago Slurm took a job is measured when the job's turn comes, but compared with the time that the
  command itself took. When the calls for the jobs before it took longer than the slack of 60 s, a job of the command
  counts as older than the command, and gets no record.

### What goes wrong, without a run

Each of these can be seen in the models with the constants given here; the properties that are checked leave them out.

- *A lost edit* (`Window = TRUE` in `rename`, action property `NothingLost`): `records.sh` compares versions and moves the new file
  in two commands; a store in between is overwritten. The script says so itself (`records.sh:210`).
- *A check that fails late* (`edits`, invariant `ErrorNamesStored`): `edit_jobs` checks again on each attempt, so a check that
  fails later ends the command as if nothing had been changed, although earlier attempts stored some records.
- *Two logins* (`guard`, action property `OnlyDeadSocketDropped`): `prepare_socket` unlinks whatever is at the path after its
  check, also a socket that has become live.
- *A killed login* (`one_operator` with `MayCrash` holding `o1`, invariant `TunnelHasItsSession`): killed before its stamp, a login leaves an
  earlier tunnel's session, which the next login keeps.
- *A login during a logout* (`one_operator` with a second operator, invariant `TunnelHasItsSession`): a session that is stamped
  between the logout's two steps is forgotten with the old one.
- *An overview that lacks jobs* (`views`; `NoJobMissed` without `\ untold`): `squeue` and `sacct` run with `2>/dev/null`, and the
  script ends with `exit 0` (`jobs.sh:46`, `71-72`, `81`). When one of them fails, the overview lacks all its jobs and looks complete. A job
  that has just ended is in neither list while accounting does not have its end yet.
- *A rename out of a project* (`views` without `SafeToRunAgain`): `a/b` to `a` makes `a/b/b` into `a/b`, so a second run
  renames it again. `api.rename_project` (`api.py:1024`) and `renamed_project` (`records.py:143`) say that a
  rename is safe to run again; for this one it is not.
- *Two IDs for one task* (`views`; `ListedOnceLatestFirst` speaks of IDs): `squeue` prints `20_1`, `sacct` its raw ID 21. A task that ends
  between the two calls is listed twice; as a finished job it does not get its array's record; and that record
  is shown as one without a job once no line of its array is left.
- *Jobs that are not seen* (`Captured`, `CopyChunk`, `EndOfOutput`): a captured command that times out loses the IDs it printed; nothing is scanned
  any more once ctun's own output broke; a connection that is lost in the middle of a line may leave a shorter ID, that of another job.

Met on the way: a key of another kind than the trusted one is "new" to ssh, and so to
`hostkey --pin`, which asks to pin it and not to replace the trusted key, yet removes that one (`KnownHosts.Verdict`, by `Kind`);
`DESIGN.md:176` says that only the first prompt is answered, while the
code answers both secrets; a failed login whose timeout came during ssh's last exchange can leave an
ssh that becomes the tunnel later, without a session (the exception in `NothingLeftBehind`); an update call
that timed out makes the error name too few of the stored jobs; `--confirm-note` is
applied, on a retry, to a note the person has not seen.

`CommandLines` leaves out forms that the guard's reader simplifies: shell options with a value in a cluster with `-c`,
clustered options of a wrapper of which the last takes a value, an assignment whose quoted value holds a line break,
substitutions in a here-document without quotes, backticks nested by backslashes, comments and apostrophes within `"$( )"`.
What `command_lines` shows is shown without them.

## Not modelled, and why

- Parsing and validation of the config, rendering, argument vectors, transfers: pure functions or I/O
  without state of their own.
- The dialog and the front end: their answers are free choices.
- WSL: it wraps commands. The streaming of `pty_login` into WSL adds an outer timeout that `PtyLogin` does not have.
- Facts and note references: which git commands and Slurm fields they use. What matters to a run, when they are asked for and
  whether they are answered, is in `Submissions`; a check of references that fails is a choice of `RecordStore`.
- The budget scripts that run on the cluster: the usage they report is a counter of `TunnelSession`.

## Plan

1. A person in `RecordStore` who reviews a note before confirming it.
2. The exchange of the login bridge, with a front end that finishes after ctun gave up.
3. The budget window script against a reference over small histories of usage.
