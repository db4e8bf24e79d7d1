------------------------------- MODULE Views -------------------------------
(***************************************************************************)
(* The commands that read all the job records of a cluster, on one store:  *)
(* `ctun jobs` (JobOverview) or `ctun projects rename` (ProjectRename).    *)
(***************************************************************************)
EXTENDS JobOverview, ProjectRename

CONSTANT Stores    \* the records there may be: functions from job IDs to projects

ASSUME StoresAssumption ==
    \A store \in Stores : IsStore(store) /\ DOMAIN store \subseteq DOMAIN SizeOf

VARIABLE command   \* the command that is run

vars == <<command, viewVars, renameVars>>

\* What the command does not look at is left empty: for the overview the projects
\* and the names of a rename, for a rename the queue.
Init ==
    /\ records \in Stores
    /\ OverviewInit
    /\ RenameInit
    /\ \/ command = "jobs" /\ Range(records) \subseteq {<<>>} /\ old = <<>> /\ new = <<>>
       \/ command = "projects rename" /\ queue = <<>>

Next ==
    \/ command = "jobs" /\ OverviewNext /\ UNCHANGED <<command, renameVars>>
    \/ /\ command = "projects rename" /\ RenameNext
       /\ UNCHANGED <<command, recent, slurm, overview>>

Spec == Init /\ [][Next]_vars
=============================================================================
