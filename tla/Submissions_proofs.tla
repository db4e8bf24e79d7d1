------------------------- MODULE Submissions_proofs -------------------------
(***************************************************************************)
(* Theorems about Submissions: which jobs of a command get a record, what  *)
(* the command log names, and which lines are scanned for jobs, for any    *)
(* output, number of jobs, LineMax, slack and duration of the calls.       *)
(***************************************************************************)
EXTENDS Submissions, OutputText_proofs

-----------------------------------------------------------------------------
(* The inductive invariants for the records.                               *)

Early == {"note", "refused", "run", "scan", "deaf", "take"}
Late == {"facts", "write", "done"}

\* The clock, and what is measured with it.
Clocks ==
    /\ callTime \in Nat /\ clock \in Nat /\ ranFor \in Nat
    /\ submitted \in [Jobs \cup OldJobs -> Nat \cup {Never}]
    /\ phase \in Early \cup Late
    /\ clock >= Began
    /\ phase \in Late => clock >= Began + ranFor

\* Nothing is judged or recorded before the command is over.
NothingYet == phase \in Early => records = {} /\ judged = {}

\* The job whose facts are known and whose record comes next was not taken for an
\* old one.
NextIsYoung == phase = "write" /\ facts => submitted[Head(left)] + SubmitSlack >= Began

AgeInv == Clocks /\ NothingYet /\ NextIsYoung /\ OldJobsGetNoRecord /\ OwnJobsJudgedLate

IsSequence(s) == s \in Seq(Range(s))

\* It was recorded, a warning names it, or it is old and nothing was to be kept.
Accounted(job) ==
    \/ \E record \in kept : record.job = job
    \/ job \in noted
    \/ note = NoNote /\ \E verdict \in judged : verdict[1] = job

\* A job that is not accounted for yet is still to come.
StillToCome ==
    /\ phase \in Early \cup Late
    /\ IsSequence(found) /\ IsSequence(left)
    /\ phase = "write" => left # <<>>
    /\ phase = "done" => left = <<>>
    /\ phase \in Late => \A job \in Range(found) : job \in Range(left) \/ Accounted(job)

-----------------------------------------------------------------------------
(* How old a job is.                                                       *)

LEMMA InitAge == Init => AgeInv
BY SubmissionsAssumption
DEF Init, AgeInv, Clocks, NothingYet, NextIsYoung, OldJobsGetNoRecord, OwnJobsJudgedLate,
    Early, Late, Never

\* As long as nothing is judged or recorded, only the clock and the phase matter.
LEMMA EarlyStep ==
    ASSUME AgeInv, phase \in Early, phase' \in Early \cup {"facts"},
           clock' \in Nat, clock' >= clock,
           \/ ranFor' = ranFor /\ phase' \in Early
           \/ ranFor' = clock - Began /\ clock' = clock,
           submitted' \in [Jobs \cup OldJobs -> Nat \cup {Never}],
           UNCHANGED <<callTime, records, judged>>
    PROVE  AgeInv'
<1>1. clock - Began \in Nat /\ clock \in Nat /\ Began \in Nat
  BY SubmissionsAssumption DEF AgeInv, Clocks
<1>2. Clocks'
  BY <1>1 DEF AgeInv, Clocks, Early, Late
<1>3. records' = {} /\ judged' = {}
  BY DEF AgeInv, NothingYet
<1>4. phase' # "write"
  BY DEF Early
<1> QED
  BY <1>2, <1>3, <1>4 DEF AgeInv, NothingYet, NextIsYoung, OldJobsGetNoRecord, OwnJobsJudgedLate

LEMMA CommandAge == ASSUME AgeInv, Command PROVE AgeInv'
<1> USE DEF options, output, scan, results
<1>1. phase \in Early /\ phase' = phase /\ UNCHANGED <<callTime, records, judged, clock, ranFor>>
  BY DEF Command, Submit, PrintOther, CommandEnds, PrintLine, Early
<1>2. submitted' \in [Jobs \cup OldJobs -> Nat \cup {Never}]
  <2>1. CASE Submit
    <3>1. PICK job \in Jobs : submitted' = [submitted EXCEPT ![job] = clock]
      BY <2>1 DEF Submit
    <3> QED
      BY <3>1 DEF AgeInv, Clocks
  <2>2. CASE PrintOther \/ CommandEnds
    BY <2>2 DEF PrintOther, CommandEnds, AgeInv, Clocks
  <2> QED
    BY <2>1, <2>2 DEF Command
<1>3. clock' \in Nat /\ clock' >= clock
  BY <1>1 DEF AgeInv, Clocks
<1> QED
  BY <1>1, <1>2, <1>3, EarlyStep

\* Until the command is over.
LEMMA ScanAge ==
    ASSUME AgeInv,
           \/ Tick \/ Refuse \/ Start \/ ReadChunk \/ ScanLine \/ CopyChunk \/ Captured \/ TakeLine
           \/ OtherRun \/ ClearLog
    PROVE  AgeInv'
<1> USE DEF options, output, scan, results
<1>1. /\ phase \in Early /\ phase' \in Early
      /\ UNCHANGED <<callTime, records, judged, ranFor, submitted>>
      /\ clock' = clock \/ clock' = clock + 1
  BY DEF Tick, Refuse, Start, ReadChunk, ScanLine, CopyChunk, Captured, TakeLine, OtherRun, ClearLog, Early
<1>2. clock' \in Nat /\ clock' >= clock /\ submitted' \in [Jobs \cup OldJobs -> Nat \cup {Never}]
  BY <1>1 DEF AgeInv, Clocks
<1> QED
  BY <1>1, <1>2, EarlyStep

LEMMA OverAge ==
    ASSUME AgeInv, EndOfOutput \/ StoppedListening \/ AllTaken
    PROVE  AgeInv'
<1> USE DEF options, output, scan, results
<1>1. /\ phase \in Early /\ phase' = "facts"
      /\ UNCHANGED <<callTime, records, judged, submitted, clock>>
      /\ ranFor' = clock - Began
  BY DEF EndOfOutput, StoppedListening, AllTaken, RunOver, Early
<1>2. clock' \in Nat /\ clock' >= clock /\ submitted' \in [Jobs \cup OldJobs -> Nat \cup {Never}]
  BY <1>1 DEF AgeInv, Clocks
<1> QED
  BY <1>1, <1>2, EarlyStep

\* A verdict, and the time it is passed at.
LEMMA CollectAge == ASSUME AgeInv, CollectFacts PROVE AgeInv'
<1> USE DEF options, output, scan, results
<1>1. PICK answered \in BOOLEAN :
         LET job == Head(left)
             t == clock + callTime
             ago == IF answered THEN SubmittedAgo(job, t) ELSE Never
             old == ago # Never /\ TookBefore(ago)
         IN  /\ clock' = t
             /\ facts' = (ago # Never)
             /\ noted' = IF ago = Never \/ (old /\ note # NoNote) THEN noted \cup {job} ELSE noted
             /\ judged' = IF old THEN judged \cup {<<job, t>>} ELSE judged
             /\ phase' = IF old THEN "facts" ELSE "write"
             /\ left' = IF old THEN Tail(left) ELSE left
  BY DEF CollectFacts
<1> DEFINE job == Head(left)
           t == clock + callTime
           ago == IF answered THEN SubmittedAgo(job, t) ELSE Never
           old == ago # Never /\ TookBefore(ago)
<1>2. /\ phase = "facts"
      /\ UNCHANGED <<callTime, submitted, ranFor, records>>
  BY DEF CollectFacts
<1>3. /\ clock \in Nat /\ callTime \in Nat /\ ranFor \in Nat /\ Began \in Nat /\ SubmitSlack \in Nat
      /\ clock >= Began + ranFor
      /\ submitted \in [Jobs \cup OldJobs -> Nat \cup {Never}]
  BY <1>2, SubmissionsAssumption DEF AgeInv, Clocks, Late
<1>4. t \in Nat /\ t >= Began + ranFor /\ clock' = t
  BY <1>1, <1>3
<1>5. Clocks'
  BY <1>1, <1>2, <1>3, <1>4 DEF Clocks, Early, Late
<1>6. ago # Never => submitted[job] \in Nat /\ ago = t - submitted[job]
  BY <1>3 DEF SubmittedAgo, Never
<1>7. NothingYet'
  BY <1>1 DEF NothingYet, Early
<1>8. NextIsYoung'
  <2>1. SUFFICES ASSUME phase' = "write", facts'
                 PROVE  submitted'[Head(left')] + SubmitSlack >= Began
    BY DEF NextIsYoung
  <2>2. ~old /\ ago # Never /\ left' = left
    BY <1>1, <2>1
  <2>3. ~(ago > ranFor + SubmitSlack)
    BY <2>2 DEF TookBefore
  <2>4. submitted[job] \in Nat /\ ~(t - submitted[job] > ranFor + SubmitSlack)
    BY <1>6, <2>2, <2>3
  <2>5. submitted[job] + SubmitSlack >= Began
    BY <1>3, <1>4, <2>4
  <2> QED
    BY <1>2, <2>2, <2>5
<1>9. OldJobsGetNoRecord'
  BY <1>2 DEF AgeInv, OldJobsGetNoRecord
<1>10. OwnJobsJudgedLate'
  <2>1. SUFFICES ASSUME NEW verdict \in judged', submitted[verdict[1]] >= Began
                 PROVE  verdict[2] > Began + ranFor + SubmitSlack
    BY <1>2 DEF OwnJobsJudgedLate
  <2>2. CASE verdict \in judged
    BY <2>1, <2>2 DEF AgeInv, OwnJobsJudgedLate
  <2>3. CASE verdict \notin judged
    <3>1. old /\ verdict = <<job, t>>
      BY <1>1, <2>1, <2>3
    <3>2. submitted[job] \in Nat /\ t - submitted[job] > ranFor + SubmitSlack
      BY <1>6, <3>1 DEF TookBefore
    <3>3. submitted[job] >= Began
      BY <2>1, <3>1
    <3>4. t > Began + ranFor + SubmitSlack
      BY <1>3, <1>4, <3>2, <3>3
    <3> QED
      BY <3>1, <3>4
  <2> QED
    BY <2>2, <2>3
<1> QED
  BY <1>5, <1>7, <1>8, <1>9, <1>10 DEF AgeInv

LEMMA WriteAge == ASSUME AgeInv, WriteRecord PROVE AgeInv'
<1> USE DEF options, output, scan, results
<1>1. /\ phase = "write" /\ phase' = "facts"
      /\ clock' = clock + callTime
      /\ UNCHANGED <<callTime, submitted, ranFor, judged, facts>>
      /\ records' \subseteq records \cup {[job |-> Head(left), facts |-> facts]}
  BY DEF WriteRecord
<1>2. Clocks'
  BY <1>1, SubmissionsAssumption DEF AgeInv, Clocks, Early, Late
<1>3. NothingYet' /\ NextIsYoung'
  BY <1>1 DEF NothingYet, NextIsYoung, Early
<1>4. OldJobsGetNoRecord'
  BY <1>1 DEF AgeInv, OldJobsGetNoRecord, NextIsYoung
<1>5. OwnJobsJudgedLate'
  BY <1>1 DEF AgeInv, OwnJobsJudgedLate
<1> QED
  BY <1>2, <1>3, <1>4, <1>5 DEF AgeInv

LEMMA CheckAge == ASSUME AgeInv, CheckCommits PROVE AgeInv'
<1> USE DEF options, output, scan, results
<1>1. /\ phase = "facts" /\ phase' = "done"
      /\ UNCHANGED <<callTime, clock, submitted, ranFor, judged, facts, records>>
  BY DEF CheckCommits
<1> QED
  BY <1>1
  DEF AgeInv, Clocks, NothingYet, NextIsYoung, OldJobsGetNoRecord, OwnJobsJudgedLate, Early, Late

LEMMA NextAge == ASSUME AgeInv, [Next]_vars PROVE AgeInv'
<1>1. CASE Next
  BY <1>1, CommandAge, ScanAge, OverAge, CollectAge, WriteAge, CheckAge DEF Next, Run
<1>2. CASE UNCHANGED vars
  BY <1>2
  DEF vars, options, output, scan, results, AgeInv, Clocks, NothingYet, NextIsYoung,
      OldJobsGetNoRecord, OwnJobsJudgedLate
<1> QED
  BY <1>1, <1>2

\* A job that Slurm took more than the slack before the command started gets no
\* record with facts, for any output and any duration of the calls
\* (api._write_records).
THEOREM OldStayOut == Spec => []OldJobsGetNoRecord
<1>1. AgeInv => OldJobsGetNoRecord
  BY DEF AgeInv
<1> QED
  BY <1>1, InitAge, NextAge, PTL DEF Spec

\* A job of the command is taken for an old one only once the calls took longer
\* than the slack (api._write_records).
THEOREM OwnJudgedLateOnly == Spec => []OwnJobsJudgedLate
<1>1. AgeInv => OwnJobsJudgedLate
  BY DEF AgeInv
<1> QED
  BY <1>1, InitAge, NextAge, PTL DEF Spec

-----------------------------------------------------------------------------
(* What becomes of each job.                                               *)

LEMMA EmptyIsSequence == IsSequence(<<>>)
BY DEF IsSequence

LEMMA AppendedIsSequence ==
    ASSUME NEW s, NEW ids, IsSequence(s), IsSequence(ids)
    PROVE  IsSequence(s \o ids)
<1> DEFINE S == Range(s) \cup Range(ids)
<1>1. s \in Seq(S) /\ ids \in Seq(S)
  BY SeqMonotonic DEF IsSequence
<1> HIDE DEF S
<1>2. s \o ids \in Seq(S) /\ Len(s \o ids) \in Nat
  BY <1>1, ConcatProperties, LenProperties
<1>3. DOMAIN (s \o ids) = 1..Len(s \o ids)
  BY <1>2
<1>4. \A k \in 1..Len(s \o ids) : (s \o ids)[k] \in Range(s \o ids)
  BY <1>3 DEF Range
<1> QED
  BY <1>2, <1>3, <1>4, SeqOfRange DEF IsSequence

\* What a line names is a sequence of at most one ID (submitted_job_ids).
LEMMA JobIdsIsSequence == ASSUME NEW line PROVE IsSequence(JobIds(line))
<1>1. JobIds(line) = <<>> \/ \E id : JobIds(line) = <<id>>
  BY DEF JobIds
<1>2. ASSUME NEW id PROVE IsSequence(<<id>>)
  BY DEF IsSequence, Range
<1> QED
  BY <1>1, <1>2, EmptyIsSequence

LEMMA HeadOrTail ==
    ASSUME NEW s, IsSequence(s), s # <<>>
    PROVE  IsSequence(Tail(s)) /\ \A e \in Range(s) : e = Head(s) \/ e \in Range(Tail(s))
<1>1. s \in Seq(Range(s)) /\ Len(s) \in Nat /\ Len(s) > 0 /\ DOMAIN s = 1..Len(s)
  BY DEF IsSequence
<1>2. Tail(s) \in Seq(Range(s)) /\ DOMAIN Tail(s) = 1..(Len(s) - 1)
  BY <1>1
<1>3. \A k \in 1..(Len(s) - 1) : Tail(s)[k] = s[k + 1]
  BY <1>1
<1>4. IsSequence(Tail(s))
  BY <1>2, SeqOfRange DEF IsSequence, Range
<1>5. ASSUME NEW e \in Range(s) PROVE e = Head(s) \/ e \in Range(Tail(s))
  <2>1. PICK k \in 1..Len(s) : e = s[k]
    BY <1>1 DEF Range
  <2>2. CASE k = 1
    BY <2>1, <2>2, <1>1
  <2>3. CASE k # 1
    <3>1. k - 1 \in 1..(Len(s) - 1) /\ Tail(s)[k - 1] = s[k]
      BY <1>1, <1>3, <2>1, <2>3
    <3> QED
      BY <1>2, <2>1, <3>1 DEF Range
  <2> QED
    BY <2>2, <2>3
<1> QED
  BY <1>4, <1>5

LEMMA InitToCome == Init => StillToCome
BY EmptyIsSequence DEF Init, StillToCome, Early, Late

\* Until the command is over only what was found changes.
LEMMA EarlyToCome ==
    ASSUME StillToCome, phase \in Early, phase' \in Early, IsSequence(found'), UNCHANGED left
    PROVE  StillToCome'
BY DEF StillToCome, Early, Late

LEMMA NoteFinds ==
    ASSUME StillToCome, NEW line, Note(JobIds(line))
    PROVE  IsSequence(found')
BY JobIdsIsSequence, AppendedIsSequence DEF StillToCome, Note

LEMMA CommandToCome ==
    ASSUME StillToCome,
           \/ Command \/ Tick \/ Refuse \/ Start \/ ReadChunk \/ CopyChunk \/ Captured \/ OtherRun \/ ClearLog
    PROVE  StillToCome'
<1> USE DEF options, output, scan, results
<1>1. phase \in Early /\ phase' \in Early /\ UNCHANGED <<found, left>>
  BY DEF Command, Submit, PrintOther, CommandEnds, PrintLine, Tick, Refuse, Start, ReadChunk, CopyChunk,
         Captured, OtherRun, ClearLog, Early
<1>2. IsSequence(found')
  BY <1>1 DEF StillToCome
<1> QED
  BY <1>1, <1>2, EarlyToCome

LEMMA ScanToCome == ASSUME StillToCome, ScanLine \/ TakeLine PROVE StillToCome'
<1> USE DEF options, output, scan, results
<1>1. phase \in Early /\ phase' \in Early /\ UNCHANGED left
  BY DEF ScanLine, TakeLine, Early
<1>2. IsSequence(found')
  BY NoteFinds DEF ScanLine, TakeLine
<1> QED
  BY <1>1, <1>2, EarlyToCome

\* Once it is over everything found is still to come.
LEMMA OverToCome ==
    ASSUME StillToCome, EndOfOutput \/ StoppedListening \/ AllTaken
    PROVE  StillToCome'
<1> USE DEF options, output, scan, results
<1>1. phase' = "facts"
  BY DEF EndOfOutput, StoppedListening, AllTaken, RunOver
<1>2. IsSequence(found')
  <2>1. CASE EndOfOutput
    <3>1. UNCHANGED found \/ Note(JobIds(pending))
      BY <2>1 DEF EndOfOutput
    <3> QED
      BY <3>1, NoteFinds DEF StillToCome
  <2>2. CASE StoppedListening \/ AllTaken
    BY <2>2 DEF StoppedListening, AllTaken, StillToCome
  <2> QED
    BY <2>1, <2>2
<1>3. left' = found \/ left' = found'
  BY DEF EndOfOutput, StoppedListening, AllTaken, RunOver
<1>4. left' = found'
  BY DEF EndOfOutput, StoppedListening, AllTaken, RunOver
<1> QED
  BY <1>1, <1>2, <1>4 DEF StillToCome, Late

\* A verdict takes the job from those to come when a record is not tried.
LEMMA CollectToCome == ASSUME StillToCome, CollectFacts PROVE StillToCome'
<1> USE DEF options, output, scan, results
<1>1. PICK ago \in {Never} \cup {SubmittedAgo(Head(left), clock + callTime)} :
         LET old == ago # Never /\ TookBefore(ago)
         IN  /\ noted' = IF ago = Never \/ (old /\ note # NoNote)
                         THEN noted \cup {Head(left)} ELSE noted
             /\ judged' = IF old THEN judged \cup {<<Head(left), clock + callTime>>} ELSE judged
             /\ phase' = IF old THEN "facts" ELSE "write"
             /\ left' = IF old THEN Tail(left) ELSE left
  BY DEF CollectFacts
<1>2. phase = "facts" /\ left # <<>> /\ UNCHANGED <<found, kept, note>>
  BY DEF CollectFacts
<1>3. ASSUME NEW job \in Range(found), Accounted(job)
      PROVE  Accounted(job)'
  BY <1>1, <1>2, <1>3 DEF Accounted
<1>4. CASE left' = left
  BY <1>1, <1>2, <1>3, <1>4 DEF StillToCome, Early, Late
<1>5. CASE left' # left
  <2>1. /\ phase' = "facts" /\ left' = Tail(left)
        /\ Head(left) \in noted' \/ (note = NoNote /\ <<Head(left), clock + callTime>> \in judged')
    BY <1>1, <1>5
  <2>2. ASSUME NEW job, job = Head(left) PROVE Accounted(job)'
    BY <1>2, <2>1, <2>2 DEF Accounted
  <2>3. IsSequence(left') /\ \A job \in Range(left) : job = Head(left) \/ job \in Range(left')
    BY <1>2, <2>1, HeadOrTail DEF StillToCome
  <2>4. ASSUME NEW job \in Range(found') PROVE job \in Range(left') \/ Accounted(job)'
    BY <1>2, <1>3, <2>2, <2>3 DEF StillToCome, Late
  <2> QED
    BY <1>2, <2>1, <2>3, <2>4 DEF StillToCome, Early, Late
<1> QED
  BY <1>4, <1>5

\* A record that was tried is kept, or a warning names its job.
LEMMA WriteToCome == ASSUME StillToCome, WriteRecord PROVE StillToCome'
<1> USE DEF options, output, scan, results
<1>1. /\ phase = "write" /\ phase' = "facts" /\ left' = Tail(left)
      /\ UNCHANGED <<found, note, judged>>
  BY DEF WriteRecord
<1>2. /\ \/ kept' = kept \cup {[job |-> Head(left), facts |-> facts]} /\ noted' = noted
         \/ kept' = kept /\ noted' = noted \cup {Head(left)}
  BY DEF WriteRecord
<1>3. left # <<>>
  BY <1>1 DEF StillToCome
<1>4. ASSUME NEW job, job = Head(left) PROVE Accounted(job)'
  <2> DEFINE record == [job |-> Head(left), facts |-> facts]
  <2>1. record.job = job
    BY <1>4
  <2>2. record \in kept' \/ job \in noted'
    BY <1>2, <1>4
  <2> HIDE DEF record
  <2> QED
    BY <2>1, <2>2 DEF Accounted
<1>5. ASSUME NEW job \in Range(found), Accounted(job)
      PROVE  Accounted(job)'
  BY <1>1, <1>2, <1>5 DEF Accounted
<1>6. IsSequence(left') /\ \A job \in Range(left) : job = Head(left) \/ job \in Range(left')
  BY <1>1, <1>3, HeadOrTail DEF StillToCome
<1>7. ASSUME NEW job \in Range(found') PROVE job \in Range(left') \/ Accounted(job)'
  BY <1>1, <1>4, <1>5, <1>6 DEF StillToCome, Late
<1> QED
  BY <1>1, <1>6, <1>7 DEF StillToCome, Early, Late

LEMMA CheckToCome == ASSUME StillToCome, CheckCommits PROVE StillToCome'
<1> USE DEF options, output, scan, results
<1>1. /\ phase = "facts" /\ phase' = "done" /\ left = <<>>
      /\ UNCHANGED <<found, left, kept, noted, note, judged>>
  BY DEF CheckCommits
<1> QED
  BY <1>1 DEF StillToCome, Accounted, Early, Late

LEMMA NextToCome == ASSUME StillToCome, [Next]_vars PROVE StillToCome'
<1>1. CASE Next
  BY <1>1, CommandToCome, ScanToCome, OverToCome, CollectToCome, WriteToCome, CheckToCome DEF Next, Run
<1>2. CASE UNCHANGED vars
  BY <1>2 DEF vars, options, output, scan, results, StillToCome, Accounted
<1> QED
  BY <1>1, <1>2

\* A run that got to its end accounts for every job it found, for any output and
\* whichever of the calls for facts and records fail (api._write_records).
THEOREM AllAccounted == Spec => []EveryJobAccounted
<1>1. Range(<<>>) = {}
  BY DEF Range
<1>2. StillToCome => EveryJobAccounted
  BY <1>1 DEF StillToCome, EveryJobAccounted, Accounted, Late
<1> QED
  BY <1>2, InitToCome, NextToCome, PTL DEF Spec

-----------------------------------------------------------------------------
(* The command log.  What JobsOf comes to depends on the lines alone, and  *)
(* one more line adds at most its own job.                                 *)

\* The line names a job of the command.
Names(line, id) == "jobs_of" \in DOMAIN line /\ line.jobs_of = id

\* f is the jobs of a command in the first k lines, for each k up to n.
Gathers(f, lns, id, n) ==
    f = [k \in 0..n |->
            IF k = 0 THEN <<>>
            ELSE IF Names(lns[k], id) THEN Append(f[k - 1], lns[k].job) ELSE f[k - 1]]

\* The jobs in any number of lines can be gathered.
LEMMA GathersExist == ASSUME NEW lns, NEW id, NEW n \in Nat PROVE \E f : Gathers(f, lns, id, n)
<1> DEFINE OneMore(jobs, k) == IF Names(lns[k], id) THEN Append(jobs, lns[k].job) ELSE jobs
           S == {m \in Nat : \E f : Gathers(f, lns, id, m)}
<1>1. 0 \in S
  <2> DEFINE f == [k \in 0..0 |-> <<>>]
  <2>1. Gathers(f, lns, id, 0)
    BY DEF Gathers
  <2> QED
    BY <2>1
<1>2. ASSUME NEW m \in Nat, m \in S PROVE m + 1 \in S
  <2>1. PICK f : Gathers(f, lns, id, m)
    BY <1>2
  <2> DEFINE g == [k \in 0..(m + 1) |-> IF k = m + 1 THEN OneMore(f[m], m + 1) ELSE f[k]]
  <2>2. \A k \in 0..m : f[k] = IF k = 0 THEN <<>> ELSE OneMore(f[k - 1], k)
    BY <2>1 DEF Gathers
  <2> HIDE DEF OneMore
  <2>3. \A k \in 0..m : g[k] = f[k]
    OBVIOUS
  <2>4. ASSUME NEW k \in 0..(m + 1)
        PROVE  g[k] = IF k = 0 THEN <<>> ELSE OneMore(g[k - 1], k)
    <3>1. CASE k = 0
      BY <2>2, <2>3, <3>1
    <3>2. CASE k = m + 1
      <4>1. k - 1 = m /\ k # 0
        BY <3>2
      <4> QED
        BY <2>3, <3>2, <4>1
    <3>3. CASE k # 0 /\ k # m + 1
      <4>1. k \in 0..m /\ k - 1 \in 0..m
        BY <3>3
      <4> QED
        BY <2>2, <2>3, <3>3, <4>1
    <3> QED
      BY <3>1, <3>2, <3>3
  <2>5. g = [k \in 0..(m + 1) |-> IF k = 0 THEN <<>> ELSE OneMore(g[k - 1], k)]
    <3> g = [k \in 0..(m + 1) |-> g[k]]
      OBVIOUS
    <3> HIDE DEF g
    <3> QED
      BY <2>4
  <2>6. Gathers(g, lns, id, m + 1)
    <3> HIDE DEF g
    <3> QED
      BY <2>5 DEF Gathers, OneMore
  <2> HIDE DEF g
  <2> QED
    BY <2>6
<1> HIDE DEF S
<1>3. Nat \subseteq S
  BY <1>1, <1>2, Induction
<1> QED
  BY <1>3 DEF S

\* Two logs agree on the jobs as far as their lines do.
LEMMA GathersAgree ==
    ASSUME NEW f, NEW g, NEW s, NEW t, NEW id, NEW n \in Nat, NEW m \in Nat, NEW i \in Nat,
           Gathers(f, s, id, n), Gathers(g, t, id, m), i <= n, i <= m, \A k \in 1..i : s[k] = t[k]
    PROVE  f[i] = g[i]
<1> DEFINE S == {k \in Nat : k <= i => f[k] = g[k]}
           OneMore(jobs, line) == IF Names(line, id) THEN Append(jobs, line.job) ELSE jobs
<1>1. \A k \in 0..n : f[k] = IF k = 0 THEN <<>> ELSE OneMore(f[k - 1], s[k])
  BY DEF Gathers
<1>2. \A k \in 0..m : g[k] = IF k = 0 THEN <<>> ELSE OneMore(g[k - 1], t[k])
  BY DEF Gathers
<1> HIDE DEF OneMore
<1>3. 0 \in S
  <2>1. 0 \in 0..n /\ 0 \in 0..m
    OBVIOUS
  <2>2. f[0] = IF 0 = 0 THEN <<>> ELSE OneMore(f[0 - 1], s[0])
    BY ONLY <1>1, <2>1
  <2>3. g[0] = IF 0 = 0 THEN <<>> ELSE OneMore(g[0 - 1], t[0])
    BY ONLY <1>2, <2>1
  <2> QED
    BY <2>2, <2>3
<1>4. ASSUME NEW k \in Nat, k \in S PROVE k + 1 \in S
  <2> SUFFICES ASSUME k + 1 <= i PROVE f[k + 1] = g[k + 1]
    OBVIOUS
  <2>1. k + 1 \in 0..n /\ k + 1 \in 0..m /\ k + 1 \in 1..i /\ k + 1 # 0 /\ (k + 1) - 1 = k
    OBVIOUS
  <2>2. f[k] = g[k]
    BY <1>4
  <2> QED
    BY <1>1, <1>2, <2>1, <2>2
<1> HIDE DEF S
<1>5. Nat \subseteq S
  BY <1>3, <1>4, Induction
<1> QED
  BY <1>5 DEF S

\* JobsOf is what gathering them comes to.
LEMMA JobsOfIs ==
    ASSUME NEW lns, NEW id, Len(lns) \in Nat
    PROVE  \E f : Gathers(f, lns, id, Len(lns)) /\ JobsOf(lns, id) = f[Len(lns)]
<1> DEFINE f == CHOOSE g : Gathers(g, lns, id, Len(lns))
<1>1. JobsOf(lns, id) = f[Len(lns)]
  BY DEF JobsOf, Gathers, Names
<1>2. Gathers(f, lns, id, Len(lns))
  BY GathersExist
<1> QED
  BY <1>1, <1>2

\* No line names a job in an empty log.
LEMMA JobsOfNone == ASSUME NEW id PROVE JobsOf(<<>>, id) = <<>>
<1>1. PICK f : Gathers(f, <<>>, id, 0) /\ JobsOf(<<>>, id) = f[0]
  BY JobsOfIs
<1> QED
  BY <1>1 DEF Gathers

\* One more line of the log.
LEMMA LogAppend ==
    ASSUME NEW lns, NEW line, NEW id, IsSequence(lns)
    PROVE  /\ IsSequence(Append(lns, line))
           /\ JobsOf(Append(lns, line), id)
                = IF Names(line, id) THEN Append(JobsOf(lns, id), line.job) ELSE JobsOf(lns, id)
           /\ CommandIds(Append(lns, line))
                = CommandIds(lns) \cup (IF "id" \in DOMAIN line THEN {line.id} ELSE {})
<1> DEFINE t == Append(lns, line)
           R == Range(lns) \cup {line}
<1>1. lns \in Seq(R) /\ line \in R
  BY SeqMonotonic DEF IsSequence
<1> HIDE DEF R
<1>2. /\ Len(lns) \in Nat /\ Len(t) = Len(lns) + 1 /\ \A k \in 1..Len(lns) : t[k] = lns[k]
      /\ t[Len(lns) + 1] = line /\ DOMAIN t = 1..(Len(lns) + 1) /\ DOMAIN lns = 1..Len(lns)
      /\ t \in Seq(R)
  BY <1>1
<1> HIDE DEF t
<1>3. IsSequence(t)
  BY <1>2, SeqOfRange DEF IsSequence, Range
<1>4. JobsOf(t, id) = IF Names(line, id) THEN Append(JobsOf(lns, id), line.job) ELSE JobsOf(lns, id)
  <2>1. PICK f : Gathers(f, lns, id, Len(lns)) /\ JobsOf(lns, id) = f[Len(lns)]
    BY <1>2, JobsOfIs
  <2>2. PICK g : Gathers(g, t, id, Len(t)) /\ JobsOf(t, id) = g[Len(t)]
    BY <1>2, JobsOfIs
  <2>3. g[Len(lns)] = f[Len(lns)]
    BY <1>2, <2>1, <2>2, GathersAgree
  <2>4. g[Len(t)] = IF Names(t[Len(t)], id) THEN Append(g[Len(t) - 1], t[Len(t)].job) ELSE g[Len(t) - 1]
    <3>1. Len(t) \in 0..Len(t) /\ Len(t) # 0
      BY <1>2
    <3>2. \A k \in 0..Len(t) :
            g[k] = IF k = 0 THEN <<>> ELSE IF Names(t[k], id) THEN Append(g[k - 1], t[k].job) ELSE g[k - 1]
      BY <2>2, Zenon DEF Gathers
    <3> QED
      BY <3>1, <3>2
  <2> QED
    BY <1>2, <2>1, <2>2, <2>3, <2>4
<1>5. CommandIds(t) = CommandIds(lns) \cup (IF "id" \in DOMAIN line THEN {line.id} ELSE {})
  BY <1>2 DEF CommandIds, Commands
<1> QED
  BY <1>3, <1>4, <1>5 DEF t

\* The log names the jobs found, and under the other run only jobs of its own.
LogInv ==
    /\ IsSequence(log)
    /\ phase = "note" => log = <<>> /\ found = <<>>
    /\ "mine" \in CommandIds(log) => JobsOf(log, "mine") = found
    /\ IsSequence(JobsOf(log, "theirs")) /\ Range(JobsOf(log, "theirs")) \subseteq OldJobs

\* The log is empty at first.
LEMMA LogInit == Init => LogInv
BY JobsOfNone, EmptyIsSequence DEF Init, LogInv, CommandIds, Commands, Range

\* Append, to be cited without the axioms the provers have for it.
Grown(s, e) == Append(s, e)

\* A command is logged, and no job.
LEMMA CommandLogged ==
    ASSUME NEW lns, NEW logged, NEW id, IsSequence(lns), logged = Grown(lns, CommandLine(id))
    PROVE  /\ IsSequence(logged) /\ CommandIds(logged) = CommandIds(lns) \cup {id}
           /\ \A other : JobsOf(logged, other) = JobsOf(lns, other)
<1>1. DOMAIN CommandLine(id) = {"id"} /\ CommandLine(id).id = id
  BY DEF CommandLine
<1> QED
  BY <1>1, LogAppend DEF Names, Grown

\* A job of a command is logged, and no other.
LEMMA JobLogged ==
    ASSUME NEW lns, NEW logged, NEW id, NEW job, IsSequence(lns), logged = Grown(lns, JobsLine(id, job))
    PROVE  /\ IsSequence(logged) /\ CommandIds(logged) = CommandIds(lns)
           /\ JobsOf(logged, id) = Grown(JobsOf(lns, id), job)
           /\ \A other : other # id => JobsOf(logged, other) = JobsOf(lns, other)
<1>1. DOMAIN JobsLine(id, job) = {"jobs_of", "job"} /\ JobsLine(id, job).jobs_of = id /\ JobsLine(id, job).job = job
  BY DEF JobsLine
<1> QED
  BY <1>1, LogAppend DEF Names, Grown

\* What is found is logged at once.
LEMMA NoteLog ==
    ASSUME LogInv, IsSequence(found), NEW line, Note(JobIds(line)), phase' # "note"
    PROVE  LogInv'
<1>1. CASE JobIds(line) = <<>>
  <2>1. found' = found
    BY <1>1 DEF Note, IsSequence
  <2>2. [k \in DOMAIN JobIds(line) |-> JobsLine("mine", JobIds(line)[k])] = <<>>
    BY <1>1
  <2>3. log' = log
    BY <1>1, <2>2 DEF Note, LogInv, IsSequence
  <2> QED
    BY <2>1, <2>3 DEF LogInv
<1>2. CASE \E id : JobIds(line) = <<id>>
  <2>1. PICK id : JobIds(line) = <<id>>
    BY <1>2
  <2>2. [k \in DOMAIN JobIds(line) |-> JobsLine("mine", JobIds(line)[k])] = <<JobsLine("mine", id)>>
    BY <2>1
  <2>3. ASSUME NEW s, NEW e, IsSequence(s) PROVE s \o <<e>> = Append(s, e)
    BY <2>3 DEF IsSequence
  <2>4. found' = Grown(found, id) /\ log' = Grown(log, JobsLine("mine", id))
    BY <2>1, <2>2, <2>3 DEF Note, LogInv, Grown
  <2>5. IsSequence(log)
    BY DEF LogInv
  <2>6. /\ IsSequence(log') /\ CommandIds(log') = CommandIds(log)
        /\ JobsOf(log', "mine") = Grown(JobsOf(log, "mine"), id)
        /\ JobsOf(log', "theirs") = JobsOf(log, "theirs")
    BY <2>4, <2>5, JobLogged
  <2> QED
    BY <2>4, <2>6 DEF LogInv
<1> QED
  BY <1>1, <1>2 DEF JobIds

\* Every action keeps the log right: the run's own, the other run's and the clearing.
LEMMA LogStep == ASSUME LogInv, StillToCome, [Next]_vars PROVE LogInv'
<1> USE DEF options, output, scan, results
<1>1. IsSequence(found) /\ IsSequence(log)
  BY DEF StillToCome, LogInv
<1>2. CASE Start
  <2>1. log = <<>> /\ found = <<>> /\ found' = <<>> /\ phase' # "note" /\ log' = Grown(log, CommandLine("mine"))
    BY <1>2 DEF Start, LogInv, Grown
  <2>2. IsSequence(log') /\ \A id : JobsOf(log', id) = <<>>
    BY <1>1, <2>1, CommandLogged, JobsOfNone
  <2> QED
    BY <2>1, <2>2, EmptyIsSequence DEF LogInv, Range
<1>3. CASE ScanLine \/ TakeLine
  <2>1. (\E line : Note(JobIds(line))) /\ phase' # "note"
    BY <1>3 DEF ScanLine, TakeLine
  <2> QED
    BY <1>1, <2>1, NoteLog
<1>4. CASE EndOfOutput
  <2>1. phase' # "note"
    BY <1>4 DEF EndOfOutput, RunOver
  <2>2. CASE UNCHANGED <<found, log>>
    BY <2>1, <2>2 DEF LogInv
  <2>3. CASE Note(JobIds(pending))
    BY <1>1, <2>1, <2>3, NoteLog
  <2> QED
    BY <1>4, <2>2, <2>3 DEF EndOfOutput
<1>5. CASE OtherRun
  <2>1. UNCHANGED <<found, phase>> /\ phase # "note"
    BY <1>5 DEF OtherRun
  <2>2. CASE log' = Grown(log, CommandLine("theirs"))
    <3>1. /\ IsSequence(log') /\ CommandIds(log') = CommandIds(log) \cup {"theirs"}
          /\ JobsOf(log', "mine") = JobsOf(log, "mine") /\ JobsOf(log', "theirs") = JobsOf(log, "theirs")
      BY <1>1, <2>2, CommandLogged
    <3> QED
      BY <2>1, <3>1 DEF LogInv
  <2>3. CASE \E job \in OldJobs : log' = Grown(log, JobsLine("theirs", job))
    <3>1. PICK job \in OldJobs : log' = Grown(log, JobsLine("theirs", job))
      BY <2>3
    <3>2. /\ IsSequence(log') /\ CommandIds(log') = CommandIds(log)
          /\ JobsOf(log', "mine") = JobsOf(log, "mine")
          /\ JobsOf(log', "theirs") = Grown(JobsOf(log, "theirs"), job)
      BY <1>1, <3>1, JobLogged
    <3>3. JobsOf(log, "theirs") \in Seq(OldJobs)
      BY SeqMonotonic DEF LogInv, IsSequence
    <3>4. Grown(JobsOf(log, "theirs"), job) \in Seq(OldJobs)
      BY <3>3 DEF Grown
    <3>5. IsSequence(JobsOf(log', "theirs")) /\ Range(JobsOf(log', "theirs")) \subseteq OldJobs
      BY <3>2, <3>4, SeqOfRange, RangeOfSeq DEF IsSequence
    <3> QED
      BY <2>1, <3>2, <3>5 DEF LogInv
  <2> QED
    BY <1>5, <2>2, <2>3 DEF OtherRun, Grown
<1>6. CASE ClearLog
  <2>1. UNCHANGED <<found, phase>> /\ phase # "note" /\ log' = <<>>
    BY <1>6 DEF ClearLog
  <2>2. CommandIds(log') = {} /\ JobsOf(log', "theirs") = <<>>
    BY <2>1, JobsOfNone DEF CommandIds, Commands
  <2> QED
    BY <2>1, <2>2, EmptyIsSequence DEF LogInv, Range
<1>7. CASE UNCHANGED <<found, log>> /\ (phase' = "note" => phase = "note")
  BY <1>7 DEF LogInv
<1>8. CASE \/ Command \/ Tick \/ Refuse \/ ReadChunk \/ CopyChunk \/ StoppedListening \/ Captured \/ AllTaken
           \/ CollectFacts \/ WriteRecord \/ CheckCommits \/ UNCHANGED vars
  <2>1. UNCHANGED <<found, log>> /\ (phase' = "note" => phase = "note")
    BY <1>8 DEF Command, Submit, PrintOther, CommandEnds, PrintLine, Tick, Refuse, ReadChunk, CopyChunk,
                StoppedListening, Captured, AllTaken, RunOver, CollectFacts, WriteRecord, CheckCommits, vars
  <2> QED
    BY <1>7, <2>1
<1> QED
  BY <1>2, <1>3, <1>4, <1>5, <1>6, <1>8 DEF Next, Run

\* As long as the log was not cleared, it names for each command exactly the jobs
\* found in its output, however parallel runs append to it, at every moment
\* (api.run, cmdlog).
THEOREM LogIsRight == Spec => []LogNamesJobs
<1>1. LogInv => LogNamesJobs
  BY DEF LogInv, LogNamesJobs, Entries
<1> QED
  BY <1>1, LogInit, LogStep, InitToCome, NextToCome, PTL DEF Spec

-----------------------------------------------------------------------------
(* The scanning.  The lines of what was read, each cut, are those that were *)
(* looked at and those of the last chunk that were not.  A chunk keeps that *)
(* although only the cut beginning of a line was kept (SplitKept), and what *)
(* the command prints later leaves it alone.                                *)

Pieces == Digits \cup {"NL", "S", "x"}

\* What was read and not looked at yet is what the lines of it come to.
AsRead ==
    LET split == Split(SubSeq(stream, 1, read))
    IN  /\ lines \in Seq(Seq(Pieces))
        /\ pending = Cut(split.open)
        /\ CutAll(split.lines) = seen \o CutAll(lines)

\* Until ctun stops listening; at any time no more was looked at than printed.
ScanInv ==
    /\ stream \in Seq(Pieces) /\ seen \in Seq(Seq(Pieces))
    /\ read \in 0..Len(stream)
    /\ pending \in Seq(Pieces) /\ Len(pending) <= LineMax
    /\ running \in BOOLEAN
    /\ running => Split(stream).open = <<>>
    /\ phase = "note" => stream = <<>>
    /\ phase \in {"note", "run"} => lines = <<>>
    /\ phase \in {"note", "run", "scan", "deaf"} => AsRead
    /\ Len(seen) <= Len(LinesOf(stream))

\* What the command prints are pieces without a line break.
LEMMA LineText ==
    ASSUME NEW job \in Jobs \cup OldJobs
    PROVE  /\ Line(job) \in Seq(Pieces) /\ Unbroken(Line(job)) /\ Line(job) # <<>>
           /\ [k \in 1..LineMax |-> "x"] \o Line(job) \in Seq(Pieces)
           /\ Unbroken([k \in 1..LineMax |-> "x"] \o Line(job))
           /\ [k \in 1..LineMax |-> "x"] \o Line(job) # <<>>
<1>1. job \in Seq(Digits)
  BY SubmissionsAssumption
<1> DEFINE Letters == Digits \cup {"S", "x"}
<1>2. ASSUME NEW s \in Seq(Letters) PROVE s \in Seq(Pieces) /\ Unbroken(s)
  <2>1. s \in Seq(Pieces)
    BY SeqMonotonic DEF Pieces
  <2>2. \A k \in 1..Len(s) : s[k] \in Letters
    OBVIOUS
  <2>3. "NL" \notin Letters
    BY DEF Digits
  <2> QED
    BY <2>1, <2>2, <2>3 DEF Unbroken
<1>3. job \in Seq(Letters) /\ "S" \in Letters /\ "x" \in Letters
  BY <1>1, SeqMonotonic
<1> HIDE DEF Letters
<1>4. <<"S">> \in Seq(Letters) /\ Len(<<"S">>) = 1
  BY <1>3
<1>5. Line(job) \in Seq(Letters) /\ Len(Line(job)) = 1 + Len(job) /\ Len(job) \in Nat
  BY <1>3, <1>4, ConcatAt DEF Line
<1>6. PICK xs : xs = [k \in 1..LineMax |-> "x"]
  OBVIOUS
<1>7. xs \in Seq(Letters)
  <2>1. xs \in [1..LineMax -> Letters] /\ LineMax \in Nat
    BY <1>3, <1>6, LineMaxAssumption
  <2> QED
    BY <2>1
<1>8. xs \o Line(job) \in Seq(Letters) /\ Len(xs \o Line(job)) = Len(xs) + Len(Line(job)) /\ Len(xs) \in Nat
  <2>1. PICK line : line = Line(job)
    OBVIOUS
  <2>2. line \in Seq(Letters)
    BY <1>5, <2>1
  <2>3. xs \o line \in Seq(Letters) /\ Len(xs \o line) = Len(xs) + Len(line) /\ Len(xs) \in Nat
    BY <1>7, <2>2, ConcatAt
  <2> QED
    BY <2>1, <2>3
<1>9. Len(Line(job)) # 0 /\ Len(xs \o Line(job)) # 0
  BY <1>5, <1>8
<1> QED
  BY <1>2, <1>5, <1>6, <1>8, <1>9, EmptySeq

\* The command prints one more line.
Printing ==
    \E line \in Seq(Pieces) :
        /\ Unbroken(line) /\ line # <<>> /\ PrintLine(line)
        /\ UNCHANGED <<phase, scan>>

\* A submission and any other output are such lines.
LEMMA CommandPrints == ASSUME Submit \/ PrintOther PROVE Printing
BY LineText DEF Submit, PrintOther, Printing

\* The printed line comes after those before, as a line of its own.
LEMMA PrintedLines ==
    ASSUME ScanInv, Printing
    PROVE  \E line \in Seq(Pieces) :
             /\ \E more \in Seq(Pieces) : stream' = stream \o more
             /\ LinesOf(stream') = Append(LinesOf(stream), line)
             /\ running' \in BOOLEAN
             /\ running' => Split(stream').open = <<>>
<1>1. PICK line \in Seq(Pieces) : Unbroken(line) /\ line # <<>> /\ PrintLine(line)
  BY DEF Printing
<1>2. stream \in Seq(Pieces) /\ Split(stream).open = <<>> /\ "NL" \in Pieces
  BY <1>1 DEF PrintLine, ScanInv, Pieces
<1>3. /\ LinesOf(stream \o Append(line, "NL")) = Append(LinesOf(stream), line)
      /\ LinesOf(stream \o line) = Append(LinesOf(stream), line)
      /\ Split(stream \o Append(line, "NL")).open = <<>>
  BY <1>1, <1>2, LinesAppend
<1>4. Append(line, "NL") \in Seq(Pieces)
  BY <1>2
<1>5. \/ stream' = stream \o Append(line, "NL") /\ running' = running
      \/ stream' = stream \o line /\ running' = FALSE
  BY <1>1 DEF PrintLine
<1>6. running \in BOOLEAN
  BY DEF ScanInv
<1> QED
  BY <1>3, <1>4, <1>5, <1>6

\* Nothing is printed or read at first.
LEMMA ScanInit == Init => ScanInv
<1> SUFFICES ASSUME Init PROVE ScanInv
  OBVIOUS
<1>1. /\ stream = <<>> /\ running = FALSE /\ read = 0 /\ pending = <<>> /\ lines = <<>> /\ seen = <<>>
      /\ phase = "note"
  BY DEF Init
<1>2. <<>> \in Seq(Pieces) /\ <<>> \in Seq(Seq(Pieces)) /\ Len(<<>>) = 0
  BY EmptySeq
<1>3. SubSeq(<<>>, 1, 0) = <<>>
  BY SubSeqEmpty
<1>4. Split(<<>>).lines = <<>> /\ Split(<<>>).open = <<>>
  BY SplitEmpty DEF NoText
<1>5. Cut(<<>>) = <<>>
  <2>1. PICK none : none = <<>>
    OBVIOUS
  <2>2. none \in Seq(Pieces) /\ Len(none) <= LineMax
    BY <1>2, <2>1, LineMaxAssumption
  <2> QED
    BY <2>1, <2>2, CutShort
<1>6. CutAll(<<>>) = <<>> /\ <<>> \o <<>> = <<>>
  BY <1>2 DEF CutAll
<1>7. AsRead
  BY <1>1, <1>2, <1>3, <1>4, <1>5, <1>6 DEF AsRead
<1>8. LinesOf(<<>>) = <<>>
  BY <1>4 DEF LinesOf
<1>9. stream \in Seq(Pieces) /\ seen \in Seq(Seq(Pieces)) /\ pending \in Seq(Pieces)
  BY <1>1, <1>2
<1>10. read \in 0..Len(stream) /\ Len(pending) <= LineMax /\ Len(seen) <= Len(LinesOf(stream))
  BY <1>1, <1>2, <1>8, LineMaxAssumption
<1> QED
  BY <1>1, <1>7, <1>9, <1>10 DEF ScanInv

\* A line is printed.
LEMMA PrintScan == ASSUME ScanInv, Printing PROVE ScanInv'
<1>1. PICK line \in Seq(Pieces), more \in Seq(Pieces) :
        /\ stream' = stream \o more /\ LinesOf(stream') = Append(LinesOf(stream), line)
        /\ running' \in BOOLEAN
        /\ running' => Split(stream').open = <<>>
  BY PrintedLines
<1>2. UNCHANGED <<phase, read, pending, lines, seen>> /\ phase # "note"
  BY DEF Printing, PrintLine, scan
<1>3. stream \in Seq(Pieces) /\ read \in 0..Len(stream) /\ Len(stream) \in Nat
  BY DEF ScanInv
<1>4. stream' \in Seq(Pieces) /\ read' \in 0..Len(stream')
  BY <1>1, <1>2, <1>3, ConcatAt
<1>5. SubSeq(stream', 1, read) = SubSeq(stream, 1, read)
  <2>1. CASE read = 0
    BY <2>1, SubSeqEmpty
  <2>2. CASE read # 0
    <3>1. read \in 1..Len(stream) /\ 1 \in 1..Len(stream)
      BY <1>3, <2>2
    <3> QED
      BY <1>1, <1>3, <3>1, SubSeqOfConcat1
  <2> QED
    BY <2>1, <2>2
<1>6. AsRead => AsRead'
  BY <1>2, <1>5 DEF AsRead
<1>7. Len(seen') <= Len(LinesOf(stream'))
  <2>1. PICK all, q : all = LinesOf(stream) /\ q = LinesOf(stream')
    OBVIOUS
  <2>2. PICK Lines : Lines = Seq(Pieces)
    OBVIOUS
  <2>3. all \in Seq(Lines) /\ line \in Lines /\ q = Append(all, line)
    BY <1>1, <1>3, <2>1, <2>2, LinesType
  <2>4. Len(q) = Len(all) + 1 /\ Len(all) \in Nat
    BY <2>3
  <2>5. Len(seen) <= Len(all) /\ Len(seen) \in Nat
    BY <2>1 DEF ScanInv
  <2> QED
    BY <1>2, <2>1, <2>4, <2>5
<1> QED
  BY <1>1, <1>2, <1>4, <1>6, <1>7 DEF ScanInv

\* A chunk is read.
LEMMA ReadScan == ASSUME ScanInv, ReadChunk PROVE ScanInv'
<1>1. /\ phase = "run" /\ phase' = "scan" /\ lines = <<>> /\ UNCHANGED <<stream, running, seen>>
      /\ AsRead /\ stream \in Seq(Pieces) /\ read \in 0..Len(stream) /\ Len(stream) \in Nat
      /\ seen \in Seq(Seq(Pieces))
  BY DEF ReadChunk, ScanInv, output
<1>2. PICK n \in 1..(Len(stream) - read) :
        LET parts == Split(pending \o SubSeq(stream, read + 1, read + n))
        IN  read' = read + n /\ lines' = parts.lines /\ pending' = Cut(parts.open)
  BY DEF ReadChunk, Kept
<1>3. PICK a, chunk, o, parts, whole :
        /\ a = SubSeq(stream, 1, read) /\ chunk = SubSeq(stream, read + 1, read + n)
        /\ o = Split(a).open /\ parts = Split(Cut(o) \o chunk) /\ whole = Split(o \o chunk)
  OBVIOUS
<1>4. pending = Cut(o) /\ CutAll(Split(a).lines) = seen \o CutAll(lines)
  BY <1>1, <1>3 DEF AsRead
<1>5. read' = read + n /\ lines' = parts.lines /\ pending' = Cut(parts.open)
  BY <1>2, <1>3, <1>4
<1>6. read + n \in 0..Len(stream) /\ 1 \in Int /\ read \in Int /\ read + n \in Int
  BY <1>1, <1>2
<1>7. a \in Seq(Pieces) /\ chunk \in Seq(Pieces)
  <2>1. (\A i \in 1..read : stream[i] \in Pieces) /\ \A i \in (read + 1)..(read + n) : stream[i] \in Pieces
    BY <1>1, <1>2, <1>6
  <2> QED
    BY <1>3, <1>6, <2>1, SubSeqProperties
<1>8. SubSeq(stream, 1, read + n) = a \o chunk
  <2>1. 1 \in 1..Len(stream) + 1 /\ read \in (1 - 1)..Len(stream) /\ read + n \in read..Len(stream)
    BY <1>1, <1>2
  <2> QED
    BY <1>1, <1>3, <2>1, ConcatAdjacentSubSeq
<1>9. o \in Seq(Pieces) /\ Unbroken(o) /\ Split(a).lines \in Seq(Seq(Pieces))
  BY <1>3, <1>7, SplitType DEF IsSplit
<1>10. Cut(o) \in Seq(Pieces)
  BY <1>9, CutType
<1>11. o \o chunk \in Seq(Pieces) /\ Cut(o) \o chunk \in Seq(Pieces)
  BY <1>7, <1>9, <1>10
<1>12. /\ parts.lines \in Seq(Seq(Pieces)) /\ parts.open \in Seq(Pieces)
       /\ whole.lines \in Seq(Seq(Pieces)) /\ whole.open \in Seq(Pieces)
  BY <1>3, <1>11, SplitType DEF IsSplit
<1>13. CutAll(parts.lines) = CutAll(whole.lines) /\ Cut(parts.open) = Cut(whole.open)
  BY <1>3, <1>7, <1>9, SplitKept
<1>14. Split(a \o chunk).lines = Split(a).lines \o whole.lines /\ Split(a \o chunk).open = whole.open
  BY <1>3, <1>7, SplitConcat
<1>15. CutAll(Split(a).lines) = seen
  <2>1. CutAll(lines) = <<>>
    BY <1>1 DEF CutAll
  <2> QED
    BY <1>1, <1>4, <2>1
<1>16. CutAll(Split(a \o chunk).lines) = seen \o CutAll(lines')
  <2>1. PICK l, m : l = Split(a).lines /\ m = whole.lines
    OBVIOUS
  <2>2. l \in Seq(Seq(Pieces)) /\ m \in Seq(Seq(Pieces))
    BY <1>9, <1>12, <2>1
  <2>3. CutAll(l \o m) = CutAll(l) \o CutAll(m)
    BY <2>2, CutAllConcat
  <2>4. CutAll(l) = seen /\ CutAll(m) = CutAll(lines') /\ Split(a \o chunk).lines = l \o m
    BY <1>5, <1>13, <1>14, <1>15, <2>1
  <2> QED
    BY <2>3, <2>4
<1>17. AsRead'
  BY <1>1, <1>5, <1>8, <1>12, <1>13, <1>14, <1>16 DEF AsRead
<1>18. pending' \in Seq(Pieces) /\ Len(pending') <= LineMax
  BY <1>5, <1>12, CutType
<1> QED
  BY <1>1, <1>5, <1>6, <1>17, <1>18 DEF ScanInv

\* What was read begins the stream.
LEMMA ReadPart ==
    ASSUME ScanInv
    PROVE  \E a, b \in Seq(Pieces) : a = SubSeq(stream, 1, read) /\ stream = a \o b
<1>1. stream \in Seq(Pieces) /\ read \in 0..Len(stream) /\ Len(stream) \in Nat
  BY DEF ScanInv
<1> DEFINE a == SubSeq(stream, 1, read)
           b == SubSeq(stream, read + 1, Len(stream))
<1>2. a \in Seq(Pieces) /\ b \in Seq(Pieces)
  <2>1. (\A i \in 1..read : stream[i] \in Pieces) /\ \A i \in (read + 1)..Len(stream) : stream[i] \in Pieces
    BY <1>1
  <2>2. 1 \in Int /\ read \in Int /\ read + 1 \in Int /\ Len(stream) \in Int
    BY <1>1
  <2> QED
    BY <2>1, <2>2, SubSeqProperties
<1>3. SubSeq(stream, 1, Len(stream)) = a \o b
  <2>1. 1 \in 1..Len(stream) + 1 /\ read \in (1 - 1)..Len(stream) /\ Len(stream) \in read..Len(stream)
    BY <1>1
  <2> QED
    BY <1>1, <2>1, ConcatAdjacentSubSeq
<1>4. SubSeq(stream, 1, Len(stream)) = stream
  BY <1>1, SubSeqFull
<1> QED
  BY <1>2, <1>3, <1>4

\* The line that is looked at next is the next one the command printed.
LEMMA NextLine ==
    ASSUME ScanInv, phase = "scan", lines # <<>>
    PROVE  /\ Len(seen) < Len(LinesOf(stream))
           /\ Cut(LinesOf(stream)[Len(seen) + 1]) = Cut(Head(lines))
<1>1. PICK a \in Seq(Pieces), b \in Seq(Pieces) : a = SubSeq(stream, 1, read) /\ stream = a \o b
  BY ReadPart
<1>2. PICK l, all, u, v, Lines :
        /\ l = Split(a).lines /\ all = LinesOf(stream) /\ u = CutAll(l) /\ v = CutAll(lines)
        /\ Lines = Seq(Pieces)
  OBVIOUS
<1>3. AsRead
  BY DEF ScanInv
<1>4. lines \in Seq(Lines) /\ seen \in Seq(Lines) /\ u = seen \o v
  BY <1>1, <1>2, <1>3 DEF AsRead, ScanInv
<1>5. l \in Seq(Lines)
  BY <1>1, <1>2, SplitType DEF IsSplit
<1>6. v \in Seq(Lines) /\ Len(v) = Len(lines) /\ \A k \in 1..Len(lines) : v[k] = Cut(lines[k])
  BY <1>2, <1>4, CutAllType
<1>7. Len(u) = Len(l) /\ \A k \in 1..Len(l) : u[k] = Cut(l[k])
  BY <1>2, <1>5, CutAllType
<1>8. Len(l) <= Len(all) /\ \A k \in 1..Len(l) : all[k] = l[k]
  <2>1. /\ Len(Split(a).lines) <= Len(LinesOf(a \o b))
        /\ \A k \in 1..Len(Split(a).lines) : LinesOf(a \o b)[k] = Split(a).lines[k]
    BY LineBegins
  <2> QED
    BY <1>1, <1>2, <2>1
<1>9. /\ Len(u) = Len(seen) + Len(v) /\ Len(seen) \in Nat /\ Len(v) \in Nat
      /\ \A k \in 1..Len(v) : u[Len(seen) + k] = v[k]
  <2>1. PICK c : c = seen \o v
    OBVIOUS
  <2>2. seen \in Seq(Lines) /\ v \in Seq(Lines)
    BY <1>4, <1>6
  <2>3. /\ Len(c) = Len(seen) + Len(v) /\ Len(seen) \in Nat /\ Len(v) \in Nat
        /\ \A k \in 1..Len(v) : c[Len(seen) + k] = v[k]
    BY <2>1, <2>2, ConcatAt
  <2> QED
    BY <1>4, <2>1, <2>3
<1>10. Len(lines) \in Nat /\ Len(lines) > 0 /\ Head(lines) = lines[1]
  BY <1>4
<1>11. 1 \in 1..Len(v) /\ 1 \in 1..Len(lines)
  BY <1>6, <1>10
<1>12. u[Len(seen) + 1] = Cut(Head(lines))
  BY <1>6, <1>9, <1>10, <1>11
<1>13. Len(seen) + 1 \in 1..Len(l)
  BY <1>7, <1>9, <1>11
<1>14. l \in Seq(Lines) /\ all \in Seq(Lines) /\ Len(all) \in Nat /\ Len(l) \in Nat
  <2>1. stream \in Seq(Pieces)
    BY DEF ScanInv
  <2>2. all \in Seq(Lines)
    BY <1>2, <2>1, LinesType
  <2> QED
    BY <1>5, <2>2
<1>15. Len(seen) < Len(all)
  BY <1>8, <1>9, <1>13, <1>14
<1>16. Cut(all[Len(seen) + 1]) = Cut(Head(lines))
  BY <1>7, <1>8, <1>12, <1>13
<1> QED
  BY <1>2, <1>15, <1>16

\* What is kept of the last line, when the output ends there, begins the next one.
LEMMA NextBeginning ==
    ASSUME ScanInv, phase = "run", pending # <<>>
    PROVE  LET line == LinesOf(stream)[Len(seen) + 1]
           IN  /\ Len(seen) < Len(LinesOf(stream))
               /\ \E n \in 1..Len(line) : Cut(SubSeq(line, 1, n)) = Cut(pending)
<1>1. PICK a \in Seq(Pieces), b \in Seq(Pieces) : a = SubSeq(stream, 1, read) /\ stream = a \o b
  BY ReadPart
<1>2. PICK l, o, all, Lines :
        l = Split(a).lines /\ o = Split(a).open /\ all = LinesOf(stream) /\ Lines = Seq(Pieces)
  OBVIOUS
<1>3. AsRead /\ lines = <<>>
  BY DEF ScanInv
<1>4. pending = Cut(o) /\ CutAll(l) = seen \o CutAll(lines) /\ seen \in Seq(Lines)
  BY <1>1, <1>2, <1>3 DEF AsRead, ScanInv
<1>5. l \in Seq(Lines) /\ o \in Seq(Pieces)
  BY <1>1, <1>2, SplitType DEF IsSplit
<1>6. CutAll(l) = seen
  <2>1. CutAll(lines) = <<>>
    BY <1>3 DEF CutAll
  <2> QED
    BY <1>4, <2>1
<1>7. Len(l) = Len(seen)
  BY <1>2, <1>5, <1>6, CutAllType
<1>8. o # <<>>
  <2>1. ASSUME o = <<>> PROVE FALSE
    <3>1. Len(o) <= LineMax
      BY <2>1, LineMaxAssumption
    <3>2. Cut(o) = o
      BY <1>5, <3>1, CutShort
    <3> QED
      BY <1>4, <2>1, <3>2
  <2> QED
    BY <2>1
<1>9. /\ Len(l) < Len(all) /\ Len(o) <= Len(all[Len(l) + 1])
      /\ SubSeq(all[Len(l) + 1], 1, Len(o)) = o
  <2>1. Split(a).open # <<>>
    BY <1>2, <1>8
  <2>2. /\ Len(Split(a).lines) < Len(LinesOf(a \o b))
        /\ Len(Split(a).open) <= Len(LinesOf(a \o b)[Len(Split(a).lines) + 1])
        /\ SubSeq(LinesOf(a \o b)[Len(Split(a).lines) + 1], 1, Len(Split(a).open)) = Split(a).open
    BY <2>1, LineBegins
  <2> QED
    BY <1>1, <1>2, <2>2
<1>10. all \in Seq(Lines)
  <2>1. stream \in Seq(Pieces)
    BY DEF ScanInv
  <2> QED
    BY <1>2, <2>1, LinesType
<1>11. Len(all[Len(l) + 1]) \in Nat
  <2>1. Len(l) \in Nat /\ Len(l) + 1 \in 1..Len(all)
    BY <1>5, <1>9, <1>10
  <2>2. all[Len(l) + 1] \in Seq(Pieces)
    BY <1>2, <1>10, <2>1
  <2> QED
    BY <2>2
<1>12. Len(o) \in 1..Len(all[Len(l) + 1])
  BY <1>5, <1>8, <1>9, <1>11
<1>13. Cut(SubSeq(all[Len(l) + 1], 1, Len(o))) = Cut(pending)
  BY <1>4, <1>5, <1>9, CutCut
<1> QED
  BY <1>2, <1>7, <1>9, <1>12, <1>13

\* A line is looked at.
LEMMA LookScan == ASSUME ScanInv, ScanLine PROVE ScanInv'
<1>1. /\ phase = "scan" /\ phase' = "scan" /\ lines # <<>> /\ UNCHANGED <<stream, running, read, pending>>
      /\ lines' = Tail(lines) /\ seen' = Append(seen, Cut(Head(lines)))
  BY DEF ScanLine, output
<1>2. AsRead /\ seen \in Seq(Seq(Pieces)) /\ lines \in Seq(Seq(Pieces))
  BY <1>1 DEF ScanInv, AsRead
<1>3. PICK Lines, e : Lines = Seq(Pieces) /\ e = Cut(Head(lines))
  OBVIOUS
<1>4. Head(lines) \in Lines /\ Tail(lines) \in Seq(Lines)
  BY <1>1, <1>2, <1>3
<1>5. e \in Lines
  BY <1>3, <1>4, CutType
<1>6. seen' \in Seq(Lines) /\ Len(seen') = Len(seen) + 1
  BY <1>1, <1>2, <1>3, <1>5
<1>7. seen' \o CutAll(lines') = seen \o CutAll(lines)
  BY <1>1, <1>2, CutAllHead
<1>8. AsRead'
  BY <1>1, <1>2, <1>3, <1>4, <1>7 DEF AsRead
<1>9. Len(seen') <= Len(LinesOf(stream'))
  <2>1. Len(seen) < Len(LinesOf(stream))
    BY <1>1, NextLine
  <2>2. PICK all : all = LinesOf(stream)
    OBVIOUS
  <2>3. all \in Seq(Lines)
    BY <1>3, <2>2, LinesType DEF ScanInv
  <2>4. Len(all) \in Nat /\ Len(seen) \in Nat
    BY <1>2, <2>3
  <2> QED
    BY <1>1, <1>6, <2>1, <2>2, <2>4
<1> QED
  BY <1>1, <1>3, <1>6, <1>8, <1>9 DEF ScanInv

\* The output ends, perhaps within a line.
LEMMA EndScan == ASSUME ScanInv, EndOfOutput PROVE ScanInv'
<1>1. /\ phase = "run" /\ phase' = "facts" /\ UNCHANGED <<stream, running, read, pending>>
      /\ seen' = IF pending = <<>> THEN seen ELSE Append(seen, pending)
  BY DEF EndOfOutput, RunOver, output
<1>2. seen \in Seq(Seq(Pieces)) /\ pending \in Seq(Pieces) /\ Len(seen) <= Len(LinesOf(stream))
  BY DEF ScanInv
<1>3. PICK Lines, all : Lines = Seq(Pieces) /\ all = LinesOf(stream)
  OBVIOUS
<1>4. all \in Seq(Lines)
  BY <1>3, LinesType DEF ScanInv
<1>5. seen' \in Seq(Lines) /\ Len(seen') <= Len(all)
  <2>1. CASE pending = <<>>
    BY <1>1, <1>2, <1>3, <2>1
  <2>2. CASE pending # <<>>
    <3>1. Len(seen) < Len(all)
      BY <1>1, <1>3, <2>2, NextBeginning
    <3>2. seen \in Seq(Lines) /\ pending \in Lines /\ seen' = Append(seen, pending)
      BY <1>1, <1>2, <1>3, <2>2
    <3>3. seen' \in Seq(Lines) /\ Len(seen') = Len(seen) + 1 /\ Len(seen) \in Nat /\ Len(all) \in Nat
      BY <1>4, <3>2
    <3> QED
      BY <3>1, <3>3
  <2> QED
    BY <2>1, <2>2
<1> QED
  BY <1>1, <1>3, <1>5 DEF ScanInv

\* The command starts.
LEMMA StartScan == ASSUME ScanInv, Start PROVE ScanInv'
<1>1. phase = "note" /\ phase' = "run" /\ running' = TRUE /\ UNCHANGED <<stream, read, pending, lines, seen>>
  BY DEF Start, scan
<1>2. Split(stream').open = <<>>
  BY <1>1, SplitEmpty DEF ScanInv, NoText
<1>3. AsRead'
  BY <1>1 DEF ScanInv, AsRead
<1> QED
  BY <1>1, <1>2, <1>3 DEF ScanInv

\* Where the scan is not over.
Listening == {"note", "run", "scan"}

\* Nothing is read or looked at.
Quiet ==
    /\ UNCHANGED <<stream, read, pending, seen>>
    /\ running' \in {running, FALSE}
    /\ phase' = "note" => phase = "note"
    /\ phase' = "run" => lines' = <<>>
    /\ phase' = "deaf" => phase \in {"deaf", "scan"}
    /\ phase' \in Listening => phase \in Listening
    /\ phase' \in {"note", "run", "scan", "deaf"} => lines' = lines

\* Such a step leaves what was read and looked at alone.
LEMMA QuietScan == ASSUME ScanInv, Quiet PROVE ScanInv'
<1>1. phase' \in {"note", "run", "scan", "deaf"} => AsRead'
  BY DEF ScanInv, Quiet, AsRead, Listening
<1>2. /\ running' \in BOOLEAN
      /\ running' => running
  <2>1. running \in BOOLEAN
    BY DEF ScanInv
  <2>2. running' = running \/ running' = FALSE
    BY DEF Quiet
  <2>3. CASE running' = running
    BY <2>1, <2>3
  <2>4. CASE running' = FALSE
    BY <2>4
  <2> QED
    BY <2>2, <2>3, <2>4
<1>3. /\ stream' = stream /\ seen' = seen /\ read' = read /\ pending' = pending
      /\ phase' = "note" => phase = "note"
      /\ phase' \in {"note", "run"} => lines' = <<>>
  BY DEF ScanInv, Quiet
<1> QED
  BY <1>1, <1>2, <1>3 DEF ScanInv

\* Everything but printing, starting, reading, looking and the end of the output.
LEMMA QuietActions ==
    ASSUME ScanInv,
           \/ CommandEnds \/ Tick \/ Refuse \/ CopyChunk \/ StoppedListening \/ Captured \/ TakeLine
           \/ AllTaken \/ CollectFacts \/ WriteRecord \/ CheckCommits \/ OtherRun \/ ClearLog
           \/ UNCHANGED vars
    PROVE  Quiet
<1> USE DEF options, output, scan, results, Quiet, Listening
<1>1. CASE CommandEnds \/ Tick \/ Refuse \/ OtherRun \/ ClearLog \/ UNCHANGED vars
  BY <1>1 DEF CommandEnds, Tick, Refuse, OtherRun, ClearLog, vars, ScanInv
<1>2. CASE CopyChunk
  BY <1>2 DEF CopyChunk
<1>3. CASE StoppedListening \/ AllTaken \/ Captured \/ TakeLine
  BY <1>3 DEF StoppedListening, AllTaken, RunOver, Captured, TakeLine
<1>4. CASE CollectFacts
  <2>1. phase' \in {"facts", "write"}
    BY <1>4 DEF CollectFacts
  <2> QED
    BY <1>4, <2>1 DEF CollectFacts
<1>5. CASE WriteRecord \/ CheckCommits
  BY <1>5 DEF WriteRecord, CheckCommits
<1> QED
  BY <1>1, <1>2, <1>3, <1>4, <1>5

\* These are all kinds of steps.
LEMMA ScanKinds ==
    ASSUME ScanInv, [Next]_vars
    PROVE  Printing \/ Start \/ ReadChunk \/ ScanLine \/ EndOfOutput \/ Quiet
BY CommandPrints, QuietActions DEF Next, Command, Run

\* Every step keeps the scanning in order.
LEMMA ScanStep == ASSUME ScanInv, [Next]_vars PROVE ScanInv'
BY ScanKinds, PrintScan, StartScan, ReadScan, LookScan, EndScan, QuietScan

-----------------------------------------------------------------------------
(* The scanning implements OutputLines: a line that is printed is one more  *)
(* to look at, ScanLine looks at the next, the end of the output at the     *)
(* beginning of one, and whatever ends the scan otherwise stops it.         *)

\* The mapping: the lines printed and not looked at, and whether the scan is over.
Rest == SubSeq(LinesOf(stream), Len(seen) + 1, Len(LinesOf(stream)))
Over == phase \notin Listening

\* The operators that OutputLines has by way of its own EXTENDS.
LEMMA SameFront == ASSUME NEW s PROVE Scanned!Front(s) = Front(s)
BY DEF Scanned!Front, Front

LEMMA SameCut == ASSUME NEW s PROVE Scanned!Cut(s) = Cut(s)
BY DEF Scanned!Cut, Cut

\* Nothing is printed and nothing looked at.
LEMMA InitLines == Init => Scanned!Init
<1> SUFFICES ASSUME Init PROVE Scanned!Init
  OBVIOUS
<1>1. stream = <<>> /\ seen = <<>> /\ phase = "note"
  BY DEF Init
<1>2. Split(<<>>).lines = <<>> /\ Split(<<>>).open = <<>>
  BY SplitEmpty DEF NoText
<1>3. LinesOf(stream) = <<>>
  BY <1>1, <1>2 DEF LinesOf
<1>4. Rest = <<>>
  BY <1>1, <1>3, SubSeqEmpty DEF Rest
<1>5. Over = FALSE
  BY <1>1 DEF Over, Listening
<1> QED
  BY <1>1, <1>4, <1>5 DEF Rest, Over, Listening, Scanned!Init

\* One more line to look at.
LEMMA PrintingLines == ASSUME ScanInv, Printing PROVE Scanned!Printed
<1>1. PICK line \in Seq(Pieces) : LinesOf(stream') = Append(LinesOf(stream), line)
  BY PrintedLines
<1>2. UNCHANGED <<seen, phase>>
  BY DEF Printing, scan
<1>3. PICK all, n, Lines : all = LinesOf(stream) /\ n = Len(seen) /\ Lines = Seq(Pieces)
  OBVIOUS
<1>4. all \in Seq(Lines)
  BY <1>3, LinesType DEF ScanInv
<1>5. n \in 0..Len(all)
  <2>1. n \in Nat /\ n <= Len(all)
    BY <1>3 DEF ScanInv
  <2> QED
    BY <1>4, <2>1
<1>6. line \in Lines
  BY <1>3
<1>7. /\ SubSeq(Append(all, line), n + 1, Len(Append(all, line))) # <<>>
      /\ Front(SubSeq(Append(all, line), n + 1, Len(Append(all, line)))) = SubSeq(all, n + 1, Len(all))
  BY <1>4, <1>5, <1>6, RestGrows
<1>8. Rest' = SubSeq(Append(all, line), n + 1, Len(Append(all, line))) /\ Rest = SubSeq(all, n + 1, Len(all))
  BY <1>1, <1>2, <1>3 DEF Rest
<1>9. Rest' # <<>> /\ Scanned!Front(Rest') = Rest /\ UNCHANGED <<seen, Over>>
  BY <1>2, <1>7, <1>8, SameFront DEF Over
<1> QED
  BY <1>9 DEF Rest, Over, Listening, Scanned!Printed

\* Looking at a line, or at its beginning, moves on to the next.
LEMMA Moves ==
    ASSUME ScanInv, Len(seen) < Len(LinesOf(stream)), UNCHANGED stream, NEW line, seen' = Append(seen, line)
    PROVE  Rest # <<>> /\ Head(Rest) = LinesOf(stream)[Len(seen) + 1] /\ Rest' = Tail(Rest)
<1>1. PICK all, n, Lines : all = LinesOf(stream) /\ n = Len(seen) /\ Lines = Seq(Pieces)
  OBVIOUS
<1>2. all \in Seq(Lines)
  BY <1>1, LinesType DEF ScanInv
<1>3. n \in Nat /\ n < Len(all) /\ Len(seen') = n + 1
  BY <1>1 DEF ScanInv
<1>4. /\ SubSeq(all, n + 1, Len(all)) # <<>> /\ Head(SubSeq(all, n + 1, Len(all))) = all[n + 1]
      /\ SubSeq(all, n + 2, Len(all)) = Tail(SubSeq(all, n + 1, Len(all)))
  BY <1>2, <1>3, RestMoves
<1>5. Rest = SubSeq(all, n + 1, Len(all)) /\ Rest' = SubSeq(all, n + 2, Len(all))
  BY <1>1, <1>3 DEF Rest
<1> QED
  BY <1>1, <1>4, <1>5

\* A line of a chunk, which is the next one.
LEMMA LookLines == ASSUME ScanInv, ScanLine PROVE Scanned!Look
<1>1. /\ phase = "scan" /\ phase' = "scan" /\ lines # <<>> /\ UNCHANGED stream
      /\ seen' = Append(seen, Cut(Head(lines)))
  BY DEF ScanLine, output
<1>2. Len(seen) < Len(LinesOf(stream)) /\ Cut(LinesOf(stream)[Len(seen) + 1]) = Cut(Head(lines))
  BY <1>1, NextLine
<1>3. Rest # <<>> /\ Head(Rest) = LinesOf(stream)[Len(seen) + 1] /\ Rest' = Tail(Rest)
  BY <1>1, <1>2, Moves
<1>4. seen' = Append(seen, Scanned!Cut(Head(Rest)))
  BY <1>1, <1>2, <1>3, SameCut
<1>5. ~Over /\ ~Over'
  BY <1>1 DEF Over, Listening
<1> QED
  BY <1>3, <1>4, <1>5 DEF Rest, Over, Listening, Scanned!Look, Scanned!LookAt

\* The end of the output within a line.
LEMMA EndLines ==
    ASSUME ScanInv, EndOfOutput, pending # <<>>
    PROVE  Scanned!LookAtBeginning
<1>1. /\ phase = "run" /\ phase' = "facts" /\ UNCHANGED stream /\ seen' = Append(seen, pending)
  BY DEF EndOfOutput, RunOver, output
<1>2. PICK line : line = LinesOf(stream)[Len(seen) + 1]
  OBVIOUS
<1>3. Len(seen) < Len(LinesOf(stream)) /\ \E n \in 1..Len(line) : Cut(SubSeq(line, 1, n)) = Cut(pending)
  BY <1>1, <1>2, NextBeginning
<1>4. Rest # <<>> /\ Head(Rest) = line /\ Rest' = Tail(Rest)
  BY <1>1, <1>2, <1>3, Moves
<1>5. Cut(pending) = pending
  BY CutShort DEF ScanInv
<1>6. \E n \in 1..Len(Head(Rest)) : seen' = Append(seen, Scanned!Cut(SubSeq(Head(Rest), 1, n)))
  BY <1>1, <1>3, <1>4, <1>5, SameCut
<1>7. ~Over /\ Over'
  BY <1>1 DEF Over, Listening
<1> QED
  BY <1>4, <1>6, <1>7 DEF Rest, Over, Listening, Scanned!LookAtBeginning, Scanned!LookAt

\* A step that prints nothing and looks at nothing at most ends the scan.
LEMMA SilentLines ==
    ASSUME UNCHANGED <<stream, seen>>, phase' \in Listening => phase \in Listening
    PROVE  Scanned!Stop \/ UNCHANGED <<Rest, seen, Over>>
<1>1. UNCHANGED <<Rest, seen>>
  BY DEF Rest
<1>2. CASE Over'
  BY <1>1, <1>2 DEF Rest, Over, Listening, Scanned!Stop
<1>3. CASE ~Over'
  BY <1>1, <1>3 DEF Over
<1> QED
  BY <1>2, <1>3

\* Every step is a step of OutputLines or a stutter.
LEMMA LinesStep ==
    ASSUME ScanInv, [Next]_vars
    PROVE  Scanned!Next \/ UNCHANGED <<Rest, seen, Over>>
<1>1. CASE Printing
  BY <1>1, PrintingLines DEF Scanned!Next
<1>2. CASE ScanLine
  BY <1>2, LookLines DEF Scanned!Next
<1>3. CASE EndOfOutput /\ pending # <<>>
  BY <1>3, EndLines DEF Scanned!Next
<1>4. CASE Start \/ ReadChunk \/ Quiet \/ (EndOfOutput /\ pending = <<>>)
  <2>1. UNCHANGED <<stream, seen>> /\ (phase' \in Listening => phase \in Listening)
    BY <1>4 DEF Start, ReadChunk, Quiet, EndOfOutput, RunOver, Listening, output, scan
  <2> QED
    BY <2>1, SilentLines DEF Scanned!Next
<1> QED
  BY <1>1, <1>2, <1>3, <1>4, ScanKinds

\* Wherever the output is cut into chunks, and although a long line is forgotten
\* but for its beginning, on_line is given the printed lines in their order, each
\* as far as it is looked at (ssh._run_scanning implements OutputLines).
THEOREM RunImplementsLines == Spec => ImplementsLines
<1>1. ASSUME ScanInv, [Next]_vars
      PROVE  [Scanned!Next]_<<LET printed == LinesOf(stream) IN SubSeq(printed, Len(seen) + 1, Len(printed)),
                              seen, phase \notin {"note", "run", "scan"}>>
  BY <1>1, LinesStep DEF Rest, Over, Listening
<1> QED
  BY <1>1, ScanInit, ScanStep, InitLines, PTL DEF Spec, ImplementsLines, Scanned!Spec

\* The variables have their types, and what is kept of an unfinished line stays
\* within LineMax, however long the line gets (ssh._run_scanning).
THEOREM RunTypeCorrect == Spec => []TypeOK
<1> DEFINE Stored == kept \subseteq records
<1>1. Init => Stored
  BY DEF Init
<1>2. ASSUME Stored, [Next]_vars PROVE Stored'
  <2> USE DEF options, output, scan, results
  <2>1. CASE WriteRecord
    BY <1>2, <2>1 DEF WriteRecord
  <2>2. CASE ~WriteRecord
    <3>1. UNCHANGED <<kept, records>>
      BY <1>2, <2>2
      DEF vars, Next, Command, Submit, PrintOther, CommandEnds, Tick, Run, Refuse, Start, ReadChunk, ScanLine,
          CopyChunk, EndOfOutput, StoppedListening, Captured, TakeLine, AllTaken, RunOver, CollectFacts,
          CheckCommits, OtherRun, ClearLog
    <3> QED
      BY <1>2, <3>1
  <2> QED
    BY <2>1, <2>2
<1>3. AgeInv /\ ScanInv /\ Stored => TypeOK
  BY DEF AgeInv, Clocks, Early, Late, ScanInv, TypeOK
<1> QED
  BY <1>1, <1>2, <1>3, InitAge, NextAge, ScanInit, ScanStep, PTL DEF Spec
=============================================================================
