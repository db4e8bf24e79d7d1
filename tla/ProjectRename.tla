--------------------------- MODULE ProjectRename ---------------------------
(***************************************************************************)
(* `ctun projects rename`: every record of a project, and of the projects  *)
(* nested in it, is stored under the new name, several per call            *)
(* (api.rename_project, records.renamed_project, records._update_batches). *)
(* A call may fail after it stored some records, the command be killed,    *)
(* and it is run again.  Edits by others meanwhile: see RecordStore.       *)
(***************************************************************************)
EXTENDS RecordFiles

CONSTANTS
    RawNames,    \* names a person may give: sequences of levels, "" an empty one
    SizeOf,      \* the characters that each record takes in a call
    BatchMax,    \* _UPDATE_BATCH_CHARS
    MaxRuns      \* how often the command is run

ASSUME RenameAssumption ==
    /\ RawNames \subseteq Seq(STRING)
    /\ SizeOf \in [DOMAIN SizeOf -> Nat] /\ BatchMax \in Nat /\ MaxRuns \in Nat

VARIABLES
    old, new,    \* the names given, as they are stored
    batches,     \* the calls still to be made; each is a sequence of job IDs
    runs,        \* how often the command was run
    ok,          \* whether the last run ended without an error
    first        \* the records before the first run

renameVars == <<old, new, batches, runs, ok, first>>

-----------------------------------------------------------------------------
\* project_name: no empty levels.
ProjectName(raw) ==
    LET kept[k \in 0..Len(raw)] ==
            IF k = 0 THEN <<>>
            ELSE IF raw[k] = "" THEN kept[k - 1] ELSE Append(kept[k - 1], raw[k])
    IN  kept[Len(raw)]

\* Mistake: the projects in the new name are renamed as well.
RenamedDeeper(p, from, to) ==
    IF p # <<>> /\ IsPrefix(from, p) THEN to \o SubSeq(p, Len(from) + 1, Len(p)) ELSE <<>>

\* Mistake: nested projects stay.
RenamedAlone(p, from, to) == IF p = from THEN to ELSE <<>>

\* renamed_project: <<>> if the project is neither the old one nor in it.
RenamedProject(p, from, to) ==
    IF IsPrefix(from, p) /\ ~(IsStrictPrefix(from, to) /\ IsPrefix(to, p))
    THEN to \o SubSeq(p, Len(from) + 1, Len(p)) ELSE <<>>

\* _renamed: the records that renaming changes.
Concerned(recs) ==
    {id \in DOMAIN recs : RenamedProject(recs[id], old, new) \notin {<<>>, recs[id]}}

Size(batch) ==
    LET sum[k \in 0..Len(batch)] == IF k = 0 THEN 0 ELSE sum[k - 1] + SizeOf[batch[k]]
    IN  sum[Len(batch)]

\* Mistake: the limit is checked before the record is added.
AddedUnlessFull(made, id) ==
    IF made = <<>> \/ Size(Last(made)) >= BatchMax
    THEN Append(made, <<id>>) ELSE [made EXCEPT ![Len(made)] = Append(@, id)]

\* One more record: in the last batch, or in a new one if it does not fit there.
Added(made, id) ==
    IF made = <<>> \/ Size(Last(made)) + SizeOf[id] > BatchMax
    THEN Append(made, <<id>>) ELSE [made EXCEPT ![Len(made)] = Append(@, id)]

\* _update_batches.
Batches(ids) ==
    LET upTo[k \in 0..Len(ids)] == IF k = 0 THEN <<>> ELSE Added(upTo[k - 1], ids[k])
    IN  upTo[Len(ids)]

-----------------------------------------------------------------------------
RenameInit ==
    /\ \E given, wanted \in RawNames :
           /\ old = ProjectName(given) /\ new = ProjectName(wanted)
    /\ batches = <<>> /\ runs = 0 /\ ok = FALSE
    /\ first = records

\* The records are read, in the order of their files.  An empty name is refused.
Run ==
    /\ old # <<>> /\ new # <<>>
    /\ runs < MaxRuns /\ batches = <<>>
    /\ \E ids \in SetToSeqs(Concerned(records)) : batches' = Batches(ids)
    /\ ok' = (Concerned(records) = {})
    /\ runs' = runs + 1
    /\ UNCHANGED <<records, old, new, first>>

Stored(ids) ==
    records' = [id \in DOMAIN records |->
        IF id \in ids THEN RenamedProject(records[id], old, new) ELSE records[id]]

\* One update call stores its records.
Call ==
    /\ batches # <<>>
    /\ Stored(Range(Head(batches)))
    /\ batches' = Tail(batches)
    /\ ok' = (Len(batches) = 1)
    /\ UNCHANGED <<old, new, runs, first>>

\* It fails, or ctun is killed, after the first records of the call were stored.
CallFails ==
    /\ batches # <<>>
    /\ \E n \in 0..Len(Head(batches)) : Stored(Range(SubSeq(Head(batches), 1, n)))
    /\ batches' = <<>>
    /\ ok' = FALSE
    /\ UNCHANGED <<old, new, runs, first>>

RenameNext == Run \/ Call \/ CallFails

-----------------------------------------------------------------------------
(* Properties.                                                             *)

\* A rename out of a project (`a/b` to `a`) moves what was nested there (`a/b/b`) to
\* where a second run finds it again (`a/b`).
SafeToRunAgain == ~IsStrictPrefix(new, old)

\* However often the command fails, is killed and run again, a record is renamed
\* at most once, also when the new name lies in the old one; by a rename out of a
\* project, in the first run (records.renamed_project).
RenamedAtMostOnce ==
    runs = 1 \/ SafeToRunAgain =>
        \A id \in DOMAIN first :
            records[id] = first[id] \/ records[id] = RenamedProject(first[id], old, new)

\* A run that ended without an error has moved the project, with all that is nested
\* in it: each record lies where it lay in it, but for those that were under a new
\* name in it already; none of it is listed any more but under the new name; other
\* projects keep their jobs.  For a rename out of a project this is said of the first
\* run (api.rename_project, records.projects).
RenameMovesAll ==
    ok /\ (runs = 1 \/ SafeToRunAgain) =>
        /\ \A found \in Projects(records) : IsPrefix(old, found.project) => IsPrefix(new, found.project)
        /\ \A id \in DOMAIN first :
               IsPrefix(old, first[id]) /\ (IsPrefix(new, first[id]) => IsPrefix(new, old)) =>
                   records[id] = new \o SubSeq(first[id], Len(old) + 1, Len(first[id]))
        /\ \A found \in Projects(first) :
               ~IsPrefix(old, found.project) /\ ~IsPrefix(new, found.project) => found \in Projects(records)

\* A call holds no more than the limit, or a single record that is longer; and no
\* record is sent twice (records._update_batches).
BatchesFit ==
    /\ \A k \in DOMAIN batches : Len(batches[k]) = 1 \/ Size(batches[k]) <= BatchMax
    /\ \A j, k \in DOMAIN batches : \A m \in DOMAIN batches[j], n \in DOMAIN batches[k] :
           batches[j][m] = batches[k][n] => j = k /\ m = n
=============================================================================
