---------------------------- MODULE RecordStore ----------------------------
(***************************************************************************)
(* The job records of one cluster and the ctun processes, on any machine,  *)
(* that store them: `run` writes the first record of a job, `jobs edit`    *)
(* and `projects rename` read records and store edited ones (api.py,       *)
(* records.py) through records.sh on the cluster, which checks that a      *)
(* record is still the version that was read before it replaces it.        *)
(*                                                                         *)
(* A process runs one command and ends.  Its script on the cluster is an   *)
(* actor of its own: it goes on after a call that timed out.               *)
(***************************************************************************)
EXTENDS RecordLog, Integers, FiniteSets

CONSTANTS
  Writers,      \* processes that run a command which submits a job
  Editors,      \* processes that edit records
  Renamers,     \* processes that rename project Old to New
  Array,        \* the array a job is a task of, by job; the job itself if none
  Targets,      \* the sets of jobs an edit may name
  Edits,        \* the edits
  Old, New,     \* the projects of the rename
  Attempts,     \* how often an edit is tried on a record that changed meanwhile
  Window,       \* TRUE: another store may slip in between a check and its mv
  CallsMayFail  \* TRUE: calls time out, break off, or know a job or reference not

ASSUME ProcsAssumption ==
  /\ Procs = Writers \cup Editors \cup Renamers
  /\ Writers \cap (Editors \cup Renamers) = {}
  /\ Editors \cap Renamers = {}
ASSUME CommandsAssumption ==
  /\ Array \in [Jobs -> Jobs]
  /\ Targets \subseteq SUBSET Jobs
  /\ Edits \subseteq Edit
  /\ {Old, New} \subseteq Projects
  /\ Attempts \in Nat \ {0}
ASSUME FailureAssumption == Window \in BOOLEAN /\ CallsMayFail \in BOOLEAN

VARIABLES
  pc,      \* where each command is
  cmd,     \* what each command has been told, has read and has been answered
  script,  \* each command's script on the cluster, from its latest call
  landed   \* ghost: which process has stored which job's record

clientVars == <<pc, cmd>>
vars == <<store, clientVars, script, landed>>

(* A record to be stored, with the version it was made from.                *)
Item == [job : Jobs, base : Record \cup {Absent}, record : Record]

(* pending: the jobs of this attempt; plan: what is still to be sent in it;  *)
(* stored, changed: what the calls answered; named: the jobs the result      *)
(* names as stored; jobs and same: ghosts, the jobs the command is for and   *)
(* those of them it found no change to make to.                              *)
Command == [edit : Edit, pending : SUBSET Jobs, attempt : Nat, plan : SUBSET Item,
            stored : SUBSET Jobs, changed : SUBSET Jobs, named : SUBSET Jobs,
            jobs : SUBSET Jobs, same : SUBSET Jobs]

(* items: what is still to be stored; checked: the item, if any, that was    *)
(* found unchanged and waits for its mv; stored, changed: the lines printed. *)
Script == [up : BOOLEAN, items : SUBSET Item, checked : SUBSET Item,
           stored : SUBSET Jobs, changed : SUBSET Jobs]

Ended == {"ok", "error", "gaveup"}
Point == {"start", "read", "send", "wait"} \cup Ended

NoEdit == [project |-> Keep, note |-> Keep, confirm |-> FALSE]
NoCommand == [edit |-> NoEdit, pending |-> {}, attempt |-> 1, plan |-> {}, stored |-> {},
              changed |-> {}, named |-> {}, jobs |-> {}, same |-> {}]
ScriptOf(items) == [up |-> TRUE, items |-> items, checked |-> {}, stored |-> {}, changed |-> {}]

Init ==
  /\ LogInit
  /\ pc = [p \in Procs |-> "start"]
  /\ cmd = [p \in Procs |-> NoCommand]
  /\ script = [p \in Procs |-> ScriptOf({})]
  /\ landed = {}

Goto(p, from, to) == pc[p] = from /\ pc' = [pc EXCEPT ![p] = to]

-----------------------------------------------------------------------------
(* The commands *)

(* run: the job is submitted, its record built and sent.                     *)
WriteFirst(p) ==
  /\ Goto(p, "start", "wait")
  /\ \E job \in Jobs, record \in Submitted :
       /\ Array[job] = job
       /\ script' = [script EXCEPT ![p] = ScriptOf({[job |-> job, base |-> Absent, record |-> record]})]
  /\ UNCHANGED <<store, cmd, landed>>

(* The command ends.                                                         *)
End(p, result, named, jobs, same) ==
  /\ pc' = [pc EXCEPT ![p] = result]
  /\ cmd' = [cmd EXCEPT ![p] = [NoCommand EXCEPT !.named = named, !.jobs = jobs, !.same = same]]

(* A mutated form of Fail: the error names all that was sent.                *)
FailNamesSent(p, printed) ==
  End(p, "error", cmd[p].stored \cup printed \cup { item.job : item \in script[p].items }, {}, {})

(* It ends with an error: a rename's lists what it stored, an edit's only if *)
(* it was a call to store that failed.                                       *)
Fail(p, printed) ==
  End(p, "error",
      IF p \in Renamers \/ (p \in Editors /\ pc[p] = "wait") THEN cmd[p].stored \cup printed ELSE {},
      {}, {})

(* What an edit of the job starts from: its record; for a task without one,  *)
(* its array's with an empty log; or nothing.                                *)
Current(job) ==
  CASE store[job] # Absent -> store[job]
    [] store[job] = Absent /\ store[Array[job]] # Absent -> [store[Array[job]] EXCEPT !.log = <<>>]
    [] OTHER -> NoRecord

(* A rename leaves the records of other projects alone.                      *)
Concerns(p, job) ==
  p \in Renamers => store[job] # Absent /\ store[job].project = Old

(* One attempt up to the storing: the records of the pending jobs are read,  *)
(* every job and the note's references are checked, the edit is applied.     *)
Attempt(p, command) ==
  LET jobs == { job \in command.pending : Concerns(p, job) }
      NewRecord(job) == Edited(Current(job), command.edit, p)
      toStore == { job \in jobs : NewRecord(job) # Current(job) }
      same == command.same \cup (command.pending \ toStore)
      allowed == \A job \in jobs : CanEdit(Current(job), command.edit)
  IN  \/ /\ allowed /\ toStore # {}
         /\ pc' = [pc EXCEPT ![p] = "send"]
         /\ cmd' = [cmd EXCEPT ![p] = [command EXCEPT
              !.plan = { [job |-> job, base |-> store[job], record |-> NewRecord(job)] : job \in toStore },
              !.changed = {},
              !.same = same]]
      \/ allowed /\ toStore = {} /\ End(p, "ok", command.stored, command.jobs, same)
      \/ (CallsMayFail \/ ~allowed) /\ Fail(p, {})

(* jobs edit                                                                 *)
EditJobs(p) ==
  /\ pc[p] = "start"
  /\ \E jobs \in Targets, edit \in Edits :
       Attempt(p, [NoCommand EXCEPT !.edit = edit, !.pending = jobs, !.jobs = jobs])
  /\ UNCHANGED <<store, script, landed>>

(* projects rename, of the records there are                                 *)
RenameProject(p) ==
  /\ pc[p] = "start"
  /\ LET jobs == { job \in Jobs : store[job] # Absent }
     IN  Attempt(p, [NoCommand EXCEPT !.edit = [NoEdit EXCEPT !.project = New],
                                      !.pending = jobs, !.jobs = jobs])
  /\ UNCHANGED <<store, script, landed>>

(* Another attempt, on what changed on another machine since it was read.    *)
Retry(p) ==
  /\ pc[p] = "read"
  /\ Attempt(p, cmd[p])
  /\ UNCHANGED <<store, script, landed>>

(* update_many sends the records in batches, one call each.                  *)
Send(p) ==
  /\ Goto(p, "send", "wait")
  /\ \E batch \in SUBSET cmd[p].plan :
       /\ batch # {}
       /\ cmd' = [cmd EXCEPT ![p].plan = @ \ batch]
       /\ script' = [script EXCEPT ![p] = ScriptOf(batch)]
  /\ UNCHANGED <<store, landed>>

(* The call comes back: the next batch, the end, or another attempt at the   *)
(* records that changed since they were read.                                *)
Answered(p, changed, attempts) ==
  LET stored == cmd[p].stored \cup script[p].stored
      last == cmd[p].plan = {}
  IN  /\ pc[p] = "wait"
      /\ p \notin Writers
      /\ script[p].items = {}
      /\ \/ /\ ~last
            /\ pc' = [pc EXCEPT ![p] = "send"]
            /\ cmd' = [cmd EXCEPT ![p].changed = changed, ![p].stored = stored]
         \/ /\ last /\ changed # {} /\ cmd[p].attempt < attempts
            /\ pc' = [pc EXCEPT ![p] = "read"]
            /\ cmd' = [cmd EXCEPT ![p].pending = changed, ![p].attempt = @ + 1, ![p].stored = stored]
         \/ /\ last /\ changed # {} /\ cmd[p].attempt = attempts
            /\ End(p, "gaveup", IF p \in Renamers THEN stored ELSE {}, {}, {})
         \/ last /\ changed = {} /\ End(p, "ok", stored, cmd[p].jobs, cmd[p].same)
      /\ script' = [script EXCEPT ![p] = ScriptOf({})]
      /\ UNCHANGED <<store, landed>>

(* Mutated forms of Reply: only the last batch's answer counts; the command  *)
(* gives up an attempt early.                                                *)
ReplyLastBatch(p) == Answered(p, script[p].changed, Attempts)
ReplyGivesUpEarly(p) == Answered(p, cmd[p].changed \cup script[p].changed, Attempts - 1)

Reply(p) == Answered(p, cmd[p].changed \cup script[p].changed, Attempts)

(* run: the record was stored, or refused.                                   *)
WriteDone(p) ==
  /\ pc[p] = "wait"
  /\ p \in Writers
  /\ script[p].items = {}
  /\ End(p, IF script[p].stored # {} THEN "ok" ELSE "error", script[p].stored, {}, {})
  /\ script' = [script EXCEPT ![p] = ScriptOf({})]
  /\ UNCHANGED <<store, landed>>

(* The call fails: it times out, and nothing the script printed counts, or   *)
(* it breaks off.  Either way the script may go on.                          *)
CallFails(p) ==
  /\ pc[p] = "wait"
  /\ CallsMayFail
  /\ Fail(p, {}) \/ Fail(p, script[p].stored)
  /\ UNCHANGED <<store, script, landed>>

-----------------------------------------------------------------------------
(* records.sh *)

Busy(p) == script[p].up /\ script[p].items # {}

Stores(p, item) ==
  /\ store' = [store EXCEPT ![item.job] = item.record]
  /\ landed' = landed \cup {<<p, item.job>>}
  /\ script' = [script EXCEPT ![p].items = @ \ {item}, ![p].checked = {}, ![p].stored = @ \cup {item.job}]

Refuses(p, item) ==
  /\ script' = [script EXCEPT ![p].items = @ \ {item}, ![p].changed = @ \cup {item.job}]
  /\ UNCHANGED <<store, landed>>

(* write: `mv -n` never replaces a record.                                   *)
WriteRecord(p) ==
  /\ p \in Writers
  /\ Busy(p)
  /\ \E item \in script[p].items :
       \/ store[item.job] = Absent /\ Stores(p, item)
       \/ store[item.job] # Absent /\ Refuses(p, item)
  /\ UNCHANGED clientVars

(* A mutated form of CheckVersion: a record is replaced if there still is one. *)
CheckExists(p) ==
  /\ p \notin Writers
  /\ Busy(p)
  /\ \E item \in script[p].items :
       IF (store[item.job] = Absent) = (item.base = Absent) THEN Stores(p, item) ELSE Refuses(p, item)
  /\ UNCHANGED clientVars

(* update: is the record still the version the new one was made from?  The   *)
(* mv comes next, with nothing in between unless there is a window.          *)
CheckVersion(p) ==
  /\ p \notin Writers
  /\ Busy(p)
  /\ script[p].checked = {}
  /\ \E item \in script[p].items :
       \/ /\ store[item.job] = item.base
          /\ IF Window
               THEN script' = [script EXCEPT ![p].checked = {item}] /\ UNCHANGED <<store, landed>>
               ELSE Stores(p, item)
       \/ store[item.job] # item.base /\ Refuses(p, item)
  /\ UNCHANGED clientVars

MoveRecord(p) ==
  /\ Busy(p)
  /\ \E item \in script[p].checked : Stores(p, item)
  /\ UNCHANGED clientVars

(* The script is killed, or fails on a record it cannot decode.              *)
ScriptDies(p) ==
  /\ CallsMayFail
  /\ Busy(p)
  /\ script' = [script EXCEPT ![p].up = FALSE, ![p].checked = {}]
  /\ UNCHANGED <<store, clientVars, landed>>

-----------------------------------------------------------------------------
Run(p) == WriteFirst(p) \/ WriteDone(p)
Store(p) == Retry(p) \/ Send(p) \/ Reply(p)
RecordsScript(p) == WriteRecord(p) \/ CheckVersion(p) \/ MoveRecord(p) \/ ScriptDies(p)

Next ==
  \/ \E p \in Writers : Run(p)
  \/ \E p \in Editors : EditJobs(p) \/ Store(p)
  \/ \E p \in Renamers : RenameProject(p) \/ Store(p)
  \/ \E p \in Procs : CallFails(p) \/ RecordsScript(p)

Spec == Init /\ [][Next]_vars

-----------------------------------------------------------------------------
(* Properties *)

TypeOK ==
  /\ store \in [Jobs -> Record \cup {Absent}]
  /\ pc \in [Procs -> Point]
  /\ cmd \in [Procs -> Command]
  /\ script \in [Procs -> Script]
  /\ landed \subseteq Procs \X Jobs

(* Without a store in the window, every store is a job's first record or one *)
(* edit on top of the record as it is: no edit and no fact is ever lost, and *)
(* each is logged (edit_jobs: "gets the edit on top of that change").        *)
ImplementsLog == LogSpec

(* The note of a record, if confirmed, is there and was the one confirmed.    *)
Reviewed(record) == record.confirmed => record.note # None /\ record.reviewed = record.note

(* A confirmed record has a note, and it is the very note that was confirmed *)
(* (JobRecord: "a changed note is unconfirmed again").                       *)
ConfirmedMeansReviewed ==
  \A job \in Jobs : store[job] # Absent => Reviewed(store[job])

(* What a result names as stored was stored, also where calls failed in      *)
(* between (UpdateError, ProjectRename.renamed).                             *)
NamedAreStored == \A p \in Procs : \A job \in cmd[p].named : <<p, job>> \in landed

(* Success and giving up are true, over all of a command's batches and       *)
(* attempts: with success each of its records was stored or had nothing to   *)
(* change, and it gives up only if other processes stored a record during    *)
(* each of its attempts, so retries never wear each other out without        *)
(* progress.  Of an error see NamedAreStored.                                *)
OutcomeIsTrue ==
  \A p \in Procs :
    /\ pc[p] = "ok" =>
         \A job \in cmd[p].jobs : <<p, job>> \in landed \/ job \in cmd[p].same
    /\ pc[p] = "gaveup" =>
         Cardinality({ done \in landed : done[1] # p }) >= Attempts

(* A rename that succeeds leaves no record in the old project, of those that *)
(* were there when it began, whatever was edited meanwhile.                  *)
RenameComplete ==
  \A p \in Renamers : pc[p] = "ok" =>
    \A job \in cmd[p].jobs : store[job].project # Old

(* No record disappears, loses its facts or an entry of its log (api.py,     *)
(* rename_project: "never overwritten with what was read before").           *)
NothingLost ==
  [][\A job \in Jobs : store[job] # Absent =>
       /\ store'[job] # Absent
       /\ store[job].facts => store'[job].facts
       /\ Len(store'[job].log) >= Len(store[job].log)
       /\ SubSeq(store'[job].log, 1, Len(store[job].log)) = store[job].log]_vars

(* An edit that ends in an error names the records it stored all the same    *)
(* (api.py, edit_jobs: a failed check "changes none of them", and if storing *)
(* fails partway, the error "names the jobs already stored").                *)
ErrorNamesStored ==
  \A p \in Editors : pc[p] \in {"error", "gaveup"} =>
    \A job \in Jobs : <<p, job>> \in landed => job \in cmd[p].named

-----------------------------------------------------------------------------
(* What makes ImplementsLog and ConfirmedMeansReviewed inductive: a record   *)
(* on its way to the store is an edit of the version it was made from, or a  *)
(* first record if there was none, and is as reviewed as it says.            *)
Sound(p, item) ==
  /\ Reviewed(item.record)
  /\ item.base = Absent => item.record \in Records({<<>>, <<p>>})
  /\ item.base # Absent =>
       \E edit \in Edit : CanEdit(item.base, edit) /\ item.record = Edited(item.base, edit, p)

ItemsSound ==
  \A p \in Procs :
    /\ script[p].checked # {} => Window
    /\ \A item \in cmd[p].plan \cup script[p].items \cup script[p].checked : Sound(p, item)

(* A run sends first records only.                                           *)
WritersSendFirst ==
  \A p \in Writers :
    cmd[p].plan = {} /\ \A item \in script[p].items : item.base = Absent

(* What makes NamedAreStored inductive: what was answered or printed as      *)
(* stored was stored.                                                        *)
AnswersTrue ==
  \A p \in Procs : \A job \in cmd[p].stored \cup cmd[p].named \cup script[p].stored :
    <<p, job>> \in landed
=============================================================================
