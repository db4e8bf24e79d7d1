---------------------------- MODULE RecordFiles ----------------------------
(***************************************************************************)
(* The job records on one cluster as the commands that read all of them    *)
(* see them: under which job IDs there is one, and of which project.       *)
(*                                                                         *)
(* A job ID as Slurm prints it is a sequence: <<"20">> a job or an array,  *)
(* <<"20", "1">> a task of it, <<"20", "rest">> its pending tasks, which   *)
(* squeue prints as one line.  A project is the sequence of its levels;    *)
(* <<>> is no project.                                                     *)
(***************************************************************************)
EXTENDS Naturals, FiniteSets, SequencesExt

VARIABLE records    \* the project of each record, by the job ID it is stored under

Ids == {id \in Seq(STRING) : Len(id) > 0 /\ id[1] # "rest"}

IsJobId(id) == id[Len(id)] # "rest"

\* Mistake: the record of the whole array comes first.
KeysFarthestFirst(id) ==
    (IF Len(id) > 1 THEN << <<id[1]>> >> ELSE <<>>) \o (IF IsJobId(id) THEN <<id>> ELSE <<>>)

\* The records that a job as squeue lists it may have, the closest first.
Keys(id) ==
    (IF IsJobId(id) THEN <<id>> ELSE <<>>) \o (IF Len(id) > 1 THEN << <<id[1]>> >> ELSE <<>>)

\* What the records may be: they are kept under job IDs.
IsStore(recs) ==
    /\ IsFiniteSet(DOMAIN recs) /\ \A id \in DOMAIN recs : id \in Ids /\ IsJobId(id)
    /\ recs \in [DOMAIN recs -> Seq(STRING)]

\* projects: each project of a record, with the number of its jobs; an array
\* counts once.
Projects(recs) ==
    {[project |-> p,
      jobs |-> Cardinality({Last(Keys(id)) : id \in {i \in DOMAIN recs : recs[i] = p}})] :
     p \in Range(recs) \ {<<>>}}
=============================================================================
