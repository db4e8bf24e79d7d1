---------------------------- MODULE JobOverview ----------------------------
(***************************************************************************)
(* `ctun jobs`: the live queue and the accounting of finished jobs are     *)
(* read one after the other (jobs.sh), then the job records (records.sh    *)
(* list), and put together (jobs._order, api.ClusterJobs.as_dict), while   *)
(* jobs are submitted and end and records are written.                     *)
(***************************************************************************)
EXTENDS RecordFiles

CONSTANTS
    Units,    \* what Slurm schedules: jobs, tasks of arrays, their pending rest
    IdOf,     \* the ID squeue prints for each (%i)
    RawOf     \* the ID sacct prints for each (JobIDRaw), its own

ASSUME OverviewAssumption ==
    IdOf \in [Units -> Ids] /\ RawOf \in [Units -> Ids] /\ IsInjective(RawOf)

VARIABLES
    queue,    \* the units in the live queue, as squeue lists them
    ended,    \* those that have ended, in that order
    aged,     \* how many of them ended before the history window
    recent,   \* the records written within the window
    calls,    \* how many calls are done; Idle before the first, Broken if the probe failed
    history,  \* finished jobs: "not asked" for, "asked" for without accounting, "read"
    active,   \* the IDs read from the queue
    done,     \* and those read from accounting
    read,     \* the records read; NotRead, or Failed if the call failed
    untold,   \* ghost: the units that squeue or sacct left out when they were asked
    before    \* ghost: what there was when the overview began

slurm == <<queue, ended, aged>>
overview == <<calls, history, active, done, read, untold, before>>
viewVars == <<records, recent, slurm, overview>>

Idle == -1
Broken == 4
NotRead == {<<"not read">>}
Failed == {<<"failed">>}

OverviewInit ==
    /\ queue \in SeqOf(Units, 2) /\ IsInjective(queue)
    /\ ended = <<>> /\ aged = 0
    /\ recent = {}
    /\ calls = Idle /\ history = "not asked" /\ active = <<>> /\ done = <<>> /\ read = NotRead
    /\ untold = {}
    /\ before = [queued |-> {}, ended |-> 0, records |-> {}]

-----------------------------------------------------------------------------
(* Slurm, and others who write records.                                    *)

Submitted == Range(queue) \cup Range(ended)

Submit ==
    /\ \E unit \in Units \ Submitted : queue' = Append(queue, unit)
    /\ UNCHANGED <<records, recent, ended, aged, overview>>

End ==
    /\ \E k \in DOMAIN queue :
           /\ queue' = RemoveAt(queue, k)
           /\ ended' = Append(ended, queue[k])
    /\ UNCHANGED <<records, recent, aged, overview>>

\* The window moves on; what ends during the overview stays within it.
Age ==
    /\ aged < (IF calls = Idle THEN Len(ended) ELSE before.ended)
    /\ aged' = aged + 1
    /\ UNCHANGED <<records, recent, queue, ended, overview>>

\* A run records a job or an array, an edit a single task.
WriteRecord ==
    /\ \E unit \in Submitted :
           \E id \in Range(Keys(IdOf[unit])) \ DOMAIN records :
               /\ records' = [key \in DOMAIN records \cup {id} |-> IF key = id THEN <<>> ELSE records[key]]
               /\ recent' = recent \cup {id}
    /\ UNCHANGED <<slurm, overview>>

-----------------------------------------------------------------------------
(* The overview.                                                           *)

Begin ==
    /\ calls = Idle
    /\ calls' = 0
    /\ history' \in {"not asked", "asked", "read"}
    /\ before' = [queued |-> Range(queue), ended |-> Len(ended), records |-> DOMAIN records]
    /\ UNCHANGED <<records, recent, slurm, active, done, read, untold>>

\* Mistake: accounting first.
FinishedFirst == <<"sacct", "squeue">>

\* The calls of the probe: a job that ends in between is seen by both.
Probe == <<"squeue", "sacct">>

\* A failing squeue prints nothing, and the script goes on as if nothing was queued.
ReadQueue ==
    /\ calls \in 0..1 /\ Probe[calls + 1] = "squeue"
    /\ \/ active' = [k \in DOMAIN queue |-> IdOf[queue[k]]] /\ UNCHANGED untold
       \/ active' = <<>> /\ untold' = untold \cup Range(queue)
    /\ calls' = calls + 1
    /\ UNCHANGED <<records, recent, slurm, history, done, read, before>>

Within == (aged + 1)..Len(ended)

\* Those that ended within the window, in the order in which they ended.  Of one that
\* just ended the end may not be known yet, and a failing sacct prints nothing: what
\* is left out is left out without a word.
ReadFinished ==
    /\ calls \in 0..1 /\ Probe[calls + 1] = "sacct"
    /\ \/ /\ history = "read"
          /\ \E n \in 0..(Len(ended) - aged) : \E at \in [1..n -> Within] :
                 /\ \A j, k \in 1..n : j < k => at[j] < at[k]
                 /\ done' = [k \in 1..n |-> RawOf[ended[at[k]]]]
                 /\ untold' = untold \cup {ended[k] : k \in Within \ Range(at)}
       \/ history # "read" /\ done' = <<>> /\ UNCHANGED untold
    /\ calls' = calls + 1
    /\ UNCHANGED <<records, recent, slurm, history, active, read, before>>

\* The probe fails or times out: no jobs, and no records are read.
ProbeFails ==
    /\ calls \in 0..1
    /\ calls' = Broken
    /\ active' = <<>> /\ done' = <<>>
    /\ UNCHANGED <<records, recent, slurm, history, read, untold, before>>

\* Mistake: a job read from both lists is listed twice.
OrderAll == active \o Reverse(done)

\* The finished jobs, the latest first; one read from both lists is active.
Finished ==
    LET latest[k \in 0..Len(done)] ==
            IF k = 0 THEN <<>>
            ELSE IF done[k] \in Range(active) \cup Range(SubSeq(done, 1, k - 1)) THEN latest[k - 1]
            ELSE <<done[k]>> \o latest[k - 1]
    IN  latest[Len(done)]

\* Mistake: finished jobs in accounting's order.
OrderOldestFirst == active \o Reverse(Finished)

\* _order: active jobs come first.
Order == active \o Finished

\* list: the records of the listed jobs and those of the window.
Listed(wanted) == (DOMAIN records \cap wanted) \cup (IF history # "not asked" THEN recent ELSE {})

ReadRecords ==
    /\ calls = 2
    /\ calls' = 3
    /\ read' \in {Listed(UNION {Range(Keys(id)) : id \in Range(Order)}), Failed}
    /\ UNCHANGED <<records, recent, slurm, history, active, done, untold, before>>

\* What others do after the overview is not in it.
OverviewNext ==
    \/ Begin \/ ReadQueue \/ ReadFinished \/ ProbeFails \/ ReadRecords
    \/ calls < 3 /\ (Submit \/ End \/ Age \/ WriteRecord)

-----------------------------------------------------------------------------
(* What is shown (as_dict).                                                *)

Shown == calls = 3 /\ read # Failed

\* The closest of some records of a listed job; None without one.
None == <<>>
Closest(id, recs) ==
    LET found == {k \in DOMAIN Keys(id) : Keys(id)[k] \in recs}
    IN  IF found = {} THEN None ELSE Keys(id)[Min(found)]

RecordOf(id) == Closest(id, read)

WithoutJob == read \ {RecordOf(id) : id \in Range(Order)}

-----------------------------------------------------------------------------
(* Properties.                                                             *)

\* No job that was queued when the overview began is missing from it, although
\* queue and accounting are read one after the other while jobs end, but for those
\* that squeue left out while they were queued, or sacct once they had ended (jobs.sh).
NoJobMissed ==
    calls \in 2..3 /\ history = "read" =>
        \A unit \in before.queued \ untold : {IdOf[unit], RawOf[unit]} \cap Range(Order) # {}

\* Active jobs come first, then finished ones, of two the one that ended later, and
\* a job that ended between the two calls comes once, as active, as long as sacct
\* prints them in the order in which they ended (jobs._order).  A task of an array
\* has another ID in accounting, and may come twice.
ListedOnceLatestFirst ==
    LET place(id) == CHOOSE k \in DOMAIN ended : RawOf[ended[k]] = id
        finished(k) == k > Len(active)
    IN  calls \in 2..3 =>
            /\ SubSeq(Order, 1, Len(active)) = active
            /\ \A k \in DOMAIN Order : finished(k) => Order[k] \notin Range(active)
            /\ \A j, k \in DOMAIN Order :
                   j < k /\ finished(j) => place(Order[j]) > place(Order[k])

\* A listed job comes with its own record if it had one when the overview began,
\* or else with its array's, however jobs and records change meanwhile; and no
\* record is shown as one without a job while that job is listed
\* (records.keys, api.ClusterJobs.as_dict).
RecordsPlaced ==
    Shown =>
        /\ \A id \in Range(Order) :
               LET had == Closest(id, before.records)
               IN  had # None => RecordOf(id) \in {id, had}
        /\ WithoutJob \cap Range(Order) = {}
=============================================================================
