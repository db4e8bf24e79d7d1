------------------------ MODULE RecordStore_proofs ------------------------
(***************************************************************************)
(* Theorems about the record store: its types, what results name as        *)
(* stored, that only reviewed notes are confirmed, and that it implements  *)
(* the log of RecordLog when no store slips into a window.                 *)
(*                                                                         *)
(* Every step is one process's client, which stores nothing and sends only *)
(* sound records (ClientEffect), or its script, which stores only what was *)
(* sent (ScriptEffect); the invariant follows from the two.                *)
(***************************************************************************)
EXTENDS RecordStore, FiniteSetTheorems, SequenceTheorems, TLAPS

-----------------------------------------------------------------------------
(* Records and edits *)

LEMMA WithValuesType ==
  ASSUME NEW logs, NEW record \in Records(logs), NEW edit \in Edit
  PROVE  /\ WithValues(record, edit) \in Records(logs)
         /\ WithValues(record, edit).log = record.log
<1>1. NewNote(record, edit) \in Note
  BY DEF NewNote, Records, Edit, Note, Project
<1>2. (IF edit.project = Keep THEN record.project ELSE edit.project) \in Project
  BY DEF Records, Edit
<1>. QED
  BY <1>1, <1>2 DEF WithValues, Records, Edit

(* An edit changes the values of a record and lengthens its log by at most  *)
(* the entry of the process that made it.                                   *)
LEMMA EditedType ==
  ASSUME NEW logs, NEW record \in Records(logs), NEW edit \in Edit, NEW by,
         NEW longer, logs \subseteq longer, Append(record.log, by) \in longer
  PROVE  Edited(record, edit, by) \in Records(longer)
<1>. DEFINE new == WithValues(record, edit)
<1>1. new \in Records(logs) /\ new.log = record.log
  BY WithValuesType
<1>2. record \in Records(longer)
  BY DEF Records
<1>3. [new EXCEPT !.log = Append(@, by)] \in Records(longer)
  BY <1>1 DEF Records
<1>. QED
  BY <1>2, <1>3 DEF Edited

LEMMA EditedRecord ==
  ASSUME NEW record \in Record, NEW edit \in Edit, NEW by \in Procs
  PROVE  Edited(record, edit, by) \in Record
<1>1. record.log \in Seq(Procs)
  BY DEF Record, Records
<1>2. Append(record.log, by) \in Seq(Procs)
  BY <1>1
<1>. QED
  BY <1>2, EditedType DEF Record

LEMMA FirstEdited ==
  ASSUME NEW record \in Records({<<>>}), NEW edit \in Edit, NEW by
  PROVE  Edited(record, edit, by) \in Records({<<>>, <<by>>})
<1>1. record.log = <<>>
  BY DEF Records
<1>2. Append(<<>>, by) = <<by>>
  OBVIOUS
<1>3. Append(record.log, by) \in {<<>>, <<by>>} /\ {<<>>} \subseteq {<<>>, <<by>>}
  BY <1>1, <1>2
<1>. QED
  BY <1>3, EditedType

(* An edit drops the confirmation of a note it changes.                     *)
LEMMA EditedReviewed ==
  ASSUME NEW logs, NEW record \in Records(logs), Reviewed(record),
         NEW edit \in Edit, CanEdit(record, edit), NEW by
  PROVE  Reviewed(Edited(record, edit, by))
<1>. DEFINE new == WithValues(record, edit)
<1>1. /\ new.note = NewNote(record, edit)
      /\ new.confirmed = (edit.confirm \/ (record.confirmed /\ NewNote(record, edit) = record.note))
      /\ new.reviewed = IF edit.confirm THEN NewNote(record, edit) ELSE record.reviewed
  BY DEF WithValues, Records
<1>2. Reviewed(new)
  BY <1>1 DEF Reviewed, CanEdit
<1>3. new \in Records(logs)
  BY WithValuesType
<1>4. Reviewed([new EXCEPT !.log = Append(@, by)])
  BY <1>2, <1>3 DEF Reviewed, Records
<1>. QED
  BY <1>4 DEF Edited

LEMMA FirstIsRecord ==
  ASSUME NEW by \in Procs
  PROVE  Records({<<>>}) \subseteq Record /\ Records({<<>>, <<by>>}) \subseteq Record
<1>1. <<>> \in Seq(Procs) /\ <<by>> \in Seq(Procs)
  OBVIOUS
<1>. QED
  BY <1>1 DEF Record, Records

LEMMA SubmittedType ==
  Submitted \subseteq Records({<<>>}) /\ \A record \in Submitted : Reviewed(record)
<1>. SUFFICES ASSUME NEW project \in Project, NEW note \in Note
              PROVE  Built(project, note) \in Records({<<>>}) /\ Reviewed(Built(project, note))
  BY SubmittedAssumption
<1>1. None \in Project /\ None \in Note
  BY DEF Project, Note
<1>. QED
  BY <1>1 DEF Built, NoRecord, Records, Reviewed

LEMMA CurrentType ==
  ASSUME TypeOK, ConfirmedMeansReviewed, NEW job \in Jobs
  PROVE  /\ Current(job) \in Record /\ Reviewed(Current(job))
         /\ store[job] = Absent => Current(job) \in Records({<<>>})
         /\ store[job] # Absent => Current(job) = store[job]
<1>1. NoRecord \in Records({<<>>}) /\ Reviewed(NoRecord)
  BY DEF NoRecord, Records, Project, Note, Reviewed
<1>2. Array[job] \in Jobs
  BY CommandsAssumption
<1>3. ASSUME store[Array[job]] # Absent
      PROVE  /\ [store[Array[job]] EXCEPT !.log = <<>>] \in Records({<<>>})
             /\ Reviewed([store[Array[job]] EXCEPT !.log = <<>>])
  <2>1. store[Array[job]] \in Record /\ Reviewed(store[Array[job]])
    BY <1>2, <1>3 DEF TypeOK, ConfirmedMeansReviewed
  <2>. QED
    BY <2>1 DEF Record, Records, Reviewed
<1>4. Records({<<>>}) \subseteq Record
  <2>1. <<>> \in Seq(Procs)
    OBVIOUS
  <2>. QED
    BY <2>1 DEF Record, Records
<1>5. store[job] # Absent => store[job] \in Record /\ Reviewed(store[job])
  BY DEF TypeOK, ConfirmedMeansReviewed
<1>6. CASE store[job] # Absent
  BY <1>5, <1>6 DEF Current
<1>7. CASE store[job] = Absent /\ store[Array[job]] # Absent
  BY <1>3, <1>4, <1>7 DEF Current
<1>8. CASE store[job] = Absent /\ store[Array[job]] = Absent
  <2>1. Current(job) = NoRecord
    BY <1>8 DEF Current
  <2>. QED
    BY <1>1, <1>4, <1>8, <2>1
<1>. QED
  BY <1>6, <1>7, <1>8

-----------------------------------------------------------------------------
(* Types *)

LEMMA NoCommandType == NoCommand \in Command
  BY DEF NoCommand, Command, NoEdit, Edit

LEMMA ScriptOfType ==
  ASSUME NEW items \in SUBSET Item
  PROVE  ScriptOf(items) \in Script
  BY DEF ScriptOf, Script

LEMMA EndType ==
  ASSUME TypeOK, NEW p \in Procs, NEW result \in Ended, NEW named \in SUBSET Jobs,
         NEW jobs \in SUBSET Jobs, NEW same \in SUBSET Jobs, End(p, result, named, jobs, same)
  PROVE  /\ pc' \in [Procs -> Point]
         /\ cmd' \in [Procs -> Command]
         /\ cmd'[p].plan = {} /\ cmd'[p].stored = {} /\ cmd'[p].named = named
         /\ \A q \in Procs \ {p} : cmd'[q] = cmd[q]
<1>. DEFINE ended == [NoCommand EXCEPT !.named = named, !.jobs = jobs, !.same = same]
<1>1. /\ ended \in Command
      /\ ended.plan = {} /\ ended.stored = {} /\ ended.named = named
  BY NoCommandType DEF Command, NoCommand
<1>2. /\ cmd' = [cmd EXCEPT ![p] = ended]
      /\ pc' = [pc EXCEPT ![p] = result]
  BY DEF End
<1>. HIDE DEF ended
<1>3. cmd'[p] = ended
  BY <1>2 DEF TypeOK
<1>. QED
  BY <1>1, <1>2, <1>3 DEF TypeOK, Point

LEMMA FailType ==
  ASSUME TypeOK, NEW p \in Procs, NEW printed \in SUBSET Jobs, Fail(p, printed)
  PROVE  /\ pc' \in [Procs -> Point]
         /\ cmd' \in [Procs -> Command]
         /\ cmd'[p].plan = {} /\ cmd'[p].stored = {}
         /\ cmd'[p].named \subseteq cmd[p].stored \cup printed
         /\ \A q \in Procs \ {p} : cmd'[q] = cmd[q]
<1>. DEFINE named == IF p \in Renamers \/ (p \in Editors /\ pc[p] = "wait")
                       THEN cmd[p].stored \cup printed ELSE {}
<1>1. named \in SUBSET Jobs /\ named \subseteq cmd[p].stored \cup printed
  BY DEF TypeOK, Command
<1>2. End(p, "error", named, {}, {})
  BY DEF Fail
<1>. HIDE DEF named
<1>3. "error" \in Ended /\ {} \in SUBSET Jobs
  BY DEF Ended
<1>4. /\ pc' \in [Procs -> Point]
      /\ cmd' \in [Procs -> Command]
      /\ cmd'[p].plan = {} /\ cmd'[p].stored = {} /\ cmd'[p].named = named
      /\ \A q \in Procs \ {p} : cmd'[q] = cmd[q]
  BY <1>1, <1>2, <1>3, EndType
<1>. QED
  BY <1>1, <1>4

(* An attempt plans sound records only.                                     *)
LEMMA AttemptType ==
  ASSUME TypeOK, ConfirmedMeansReviewed,
         NEW p \in Procs, NEW command \in Command, Attempt(p, command)
  PROVE  /\ pc' \in [Procs -> Point]
         /\ cmd' \in [Procs -> Command]
         /\ \A item \in cmd'[p].plan : Sound(p, item)
         /\ cmd'[p].stored \subseteq command.stored
         /\ cmd'[p].named \subseteq command.named \cup command.stored \cup cmd[p].stored
         /\ \A q \in Procs \ {p} : cmd'[q] = cmd[q]
<1>. DEFINE jobs == { job \in command.pending : Concerns(p, job) }
            NewRecord(job) == Edited(Current(job), command.edit, p)
            toStore == { job \in jobs : NewRecord(job) # Current(job) }
            same == command.same \cup (command.pending \ toStore)
            allowed == \A job \in jobs : CanEdit(Current(job), command.edit)
            plan == { [job |-> job, base |-> store[job], record |-> NewRecord(job)] : job \in toStore }
<1>1. /\ command.edit \in Edit
      /\ command.jobs \in SUBSET Jobs /\ command.stored \in SUBSET Jobs
      /\ toStore \subseteq Jobs /\ toStore \subseteq jobs /\ same \in SUBSET Jobs
  BY DEF Command
<1>2. CASE /\ allowed
           /\ pc' = [pc EXCEPT ![p] = "send"]
           /\ cmd' = [cmd EXCEPT ![p] = [command EXCEPT !.plan = plan, !.changed = {}, !.same = same]]
  <2>1. ASSUME NEW job \in toStore
        PROVE  /\ [job |-> job, base |-> store[job], record |-> NewRecord(job)] \in Item
               /\ Sound(p, [job |-> job, base |-> store[job], record |-> NewRecord(job)])
    <3>1. job \in Jobs /\ store[job] \in Record \cup {Absent} /\ CanEdit(Current(job), command.edit)
      BY <1>1, <1>2 DEF TypeOK
    <3>2. NewRecord(job) \in Record /\ Reviewed(NewRecord(job))
      <4>1. Current(job) \in Records(Seq(Procs)) /\ Reviewed(Current(job))
        BY <3>1, CurrentType DEF Record
      <4>. QED
        BY <1>1, <3>1, <4>1, EditedRecord, EditedReviewed DEF Record
    <3>3. store[job] = Absent => NewRecord(job) \in Records({<<>>, <<p>>})
      BY <1>1, <3>1, CurrentType, FirstEdited
    <3>4. store[job] # Absent => CanEdit(store[job], command.edit)
                                 /\ NewRecord(job) = Edited(store[job], command.edit, p)
      BY <3>1, CurrentType
    <3>. HIDE DEF NewRecord
    <3>. QED
      BY <1>1, <3>1, <3>2, <3>3, <3>4 DEF Item, Sound
  <2>. HIDE DEF toStore, NewRecord, same
  <2>2. plan \in SUBSET Item /\ \A item \in plan : Sound(p, item)
    BY <2>1
  <2>. HIDE DEF plan
  <2>. DEFINE next == [command EXCEPT !.plan = plan, !.changed = {}, !.same = same]
  <2>3. /\ next \in Command
        /\ next.plan = plan /\ next.stored = command.stored /\ next.named = command.named
    BY <1>1, <2>2 DEF Command
  <2>. HIDE DEF next
  <2>4. cmd' = [cmd EXCEPT ![p] = next]
    BY <1>2 DEF next
  <2>5. cmd'[p] = next
    BY <2>4 DEF TypeOK
  <2>. QED
    BY <1>2, <2>2, <2>3, <2>4, <2>5 DEF TypeOK, Point
<1>3. CASE End(p, "ok", command.stored, command.jobs, same)
  <2>1. "ok" \in Ended
    BY DEF Ended
  <2>. HIDE DEF same
  <2>. QED
    BY <1>1, <1>3, <2>1, EndType
<1>4. CASE Fail(p, {})
  BY <1>4, FailType
<1>. QED
  BY <1>2, <1>3, <1>4 DEF Attempt

-----------------------------------------------------------------------------
(* Steps of the clients *)

(* The inductive invariant.                                                 *)
Inv == TypeOK /\ ItemsSound /\ AnswersTrue /\ ConfirmedMeansReviewed

(* What a step of a client does: it stores nothing, leaves the other        *)
(* processes alone, plans and sends sound records only, and takes for       *)
(* stored only what was answered or printed before.                         *)
ClientEffect(p) ==
  /\ pc' \in [Procs -> Point] /\ cmd' \in [Procs -> Command] /\ script' \in [Procs -> Script]
  /\ UNCHANGED <<store, landed>>
  /\ \A q \in Procs \ {p} : cmd'[q] = cmd[q] /\ script'[q] = script[q]
  /\ script'[p].checked # {} => script[p].checked # {}
  /\ \A item \in cmd'[p].plan \cup script'[p].items \cup script'[p].checked : Sound(p, item)
  /\ cmd'[p].stored \cup cmd'[p].named \cup script'[p].stored
       \subseteq cmd[p].stored \cup cmd[p].named \cup script[p].stored

(* A client that makes an attempt, at its begin or again.                   *)
LEMMA AttemptEffect ==
  ASSUME Inv, NEW p \in Procs, NEW command \in Command, Attempt(p, command),
         command.stored \subseteq cmd[p].stored, command.named \subseteq cmd[p].named,
         UNCHANGED <<store, script, landed>>
  PROVE  ClientEffect(p)
<1>1. /\ pc' \in [Procs -> Point]
      /\ cmd' \in [Procs -> Command]
      /\ \A item \in cmd'[p].plan : Sound(p, item)
      /\ cmd'[p].stored \subseteq command.stored
      /\ cmd'[p].named \subseteq command.named \cup command.stored \cup cmd[p].stored
      /\ \A q \in Procs \ {p} : cmd'[q] = cmd[q]
  BY AttemptType DEF Inv
<1>2. \A item \in script[p].items \cup script[p].checked : Sound(p, item)
  BY DEF Inv, ItemsSound
<1>. QED
  BY <1>1, <1>2 DEF ClientEffect, Inv, TypeOK

(* A client whose command ends.                                             *)
LEMMA EndEffect ==
  ASSUME Inv, NEW p \in Procs, NEW result \in Ended, NEW named \in SUBSET Jobs,
         NEW jobs \in SUBSET Jobs, NEW same \in SUBSET Jobs, End(p, result, named, jobs, same),
         named \subseteq cmd[p].stored \cup cmd[p].named \cup script[p].stored,
         script' = script \/ script' = [script EXCEPT ![p] = ScriptOf({})],
         UNCHANGED <<store, landed>>
  PROVE  ClientEffect(p)
<1>1. /\ pc' \in [Procs -> Point]
      /\ cmd' \in [Procs -> Command]
      /\ cmd'[p].plan = {} /\ cmd'[p].stored = {} /\ cmd'[p].named = named
      /\ \A q \in Procs \ {p} : cmd'[q] = cmd[q]
  BY EndType DEF Inv
<1>2. \A item \in script[p].items \cup script[p].checked : Sound(p, item)
  BY DEF Inv, ItemsSound
<1>3. CASE script' = script
  BY <1>1, <1>2, <1>3 DEF ClientEffect, Inv, TypeOK
<1>4. CASE script' = [script EXCEPT ![p] = ScriptOf({})]
  <2>1. ScriptOf({}) \in Script
    BY ScriptOfType
  <2>2. /\ script' \in [Procs -> Script]
        /\ script'[p] = ScriptOf({})
        /\ \A q \in Procs \ {p} : script'[q] = script[q]
    BY <1>4, <2>1 DEF Inv, TypeOK
  <2>3. script'[p].items = {} /\ script'[p].checked = {} /\ script'[p].stored = {}
    BY <2>2 DEF ScriptOf
  <2>. QED
    BY <1>1, <2>2, <2>3 DEF ClientEffect
<1>. QED
  BY <1>3, <1>4

LEMMA WriteFirstEffect ==
  ASSUME Inv, NEW p \in Procs, WriteFirst(p)
  PROVE  ClientEffect(p)
<1>1. PICK job \in Jobs, record \in Submitted :
        script' = [script EXCEPT ![p] = ScriptOf({[job |-> job, base |-> Absent, record |-> record]})]
  BY DEF WriteFirst
<1>. DEFINE item == [job |-> job, base |-> Absent, record |-> record]
<1>2. record \in Records({<<>>}) /\ record \in Record /\ Reviewed(record)
  BY SubmittedType, FirstIsRecord
<1>3. item \in Item /\ Sound(p, item)
  <2>1. record \in Records({<<>>, <<p>>})
    BY <1>2 DEF Records
  <2>. QED
    BY <1>2, <2>1 DEF Item, Sound
<1>. HIDE DEF item
<1>4. ScriptOf({item}) \in Script
  BY <1>3, ScriptOfType
<1>5. script' = [script EXCEPT ![p] = ScriptOf({item})]
  BY <1>1 DEF item
<1>6. /\ script' \in [Procs -> Script]
      /\ script'[p] = ScriptOf({item})
      /\ \A q \in Procs \ {p} : script'[q] = script[q]
  BY <1>4, <1>5 DEF Inv, TypeOK
<1>7. script'[p].items = {item} /\ script'[p].checked = {} /\ script'[p].stored = {}
  BY <1>6 DEF ScriptOf
<1>8. pc' \in [Procs -> Point] /\ UNCHANGED <<store, cmd, landed>>
  BY DEF WriteFirst, Goto, Inv, TypeOK, Point
<1>. QED
  BY <1>3, <1>6, <1>7, <1>8 DEF ClientEffect, Inv, TypeOK, ItemsSound

LEMMA SendEffect ==
  ASSUME Inv, NEW p \in Procs, Send(p)
  PROVE  ClientEffect(p)
<1>1. PICK batch \in SUBSET cmd[p].plan :
        /\ cmd' = [cmd EXCEPT ![p].plan = @ \ batch]
        /\ script' = [script EXCEPT ![p] = ScriptOf(batch)]
  BY DEF Send
<1>2. cmd[p] \in Command /\ batch \in SUBSET Item
  BY DEF Inv, TypeOK, Command
<1>3. /\ cmd' \in [Procs -> Command]
      /\ cmd'[p].plan \subseteq cmd[p].plan
      /\ cmd'[p].stored = cmd[p].stored /\ cmd'[p].named = cmd[p].named
      /\ \A q \in Procs \ {p} : cmd'[q] = cmd[q]
  BY <1>1, <1>2 DEF Inv, TypeOK, Command
<1>4. ScriptOf(batch) \in Script
  BY <1>2, ScriptOfType
<1>5. /\ script' \in [Procs -> Script]
      /\ script'[p] = ScriptOf(batch)
      /\ \A q \in Procs \ {p} : script'[q] = script[q]
  BY <1>1, <1>4 DEF Inv, TypeOK
<1>6. script'[p].items = batch /\ script'[p].checked = {} /\ script'[p].stored = {}
  BY <1>5 DEF ScriptOf
<1>7. pc' \in [Procs -> Point] /\ UNCHANGED <<store, landed>>
  BY DEF Send, Goto, Inv, TypeOK, Point
<1>8. \A item \in cmd[p].plan : Sound(p, item)
  BY DEF Inv, ItemsSound
<1>. QED
  BY <1>3, <1>5, <1>6, <1>7, <1>8 DEF ClientEffect

LEMMA ReplyEffect ==
  ASSUME Inv, NEW p \in Procs, Reply(p)
  PROVE  ClientEffect(p)
<1>. DEFINE changed == cmd[p].changed \cup script[p].changed
            stored == cmd[p].stored \cup script[p].stored
<1>1. /\ cmd[p] \in Command /\ script[p] \in Script
      /\ changed \in SUBSET Jobs /\ stored \in SUBSET Jobs
  BY DEF Inv, TypeOK, Command, Script
<1>2. UNCHANGED <<store, landed>> /\ script' = [script EXCEPT ![p] = ScriptOf({})]
  BY DEF Reply, Answered
<1>3. /\ script' \in [Procs -> Script]
      /\ script'[p].items = {} /\ script'[p].checked = {} /\ script'[p].stored = {}
      /\ \A q \in Procs \ {p} : script'[q] = script[q]
  <2>1. ScriptOf({}) \in Script
    BY ScriptOfType
  <2>2. script'[p] = ScriptOf({})
    BY <1>2 DEF Inv, TypeOK
  <2>. QED
    BY <1>2, <2>1, <2>2 DEF Inv, TypeOK, ScriptOf
<1>4. \A item \in cmd[p].plan : Sound(p, item)
  BY DEF Inv, ItemsSound
<1>5. CASE /\ pc' = [pc EXCEPT ![p] = "send"]
           /\ cmd' = [cmd EXCEPT ![p].changed = changed, ![p].stored = stored]
  <2>. HIDE DEF changed
  <2>1. /\ cmd' \in [Procs -> Command]
        /\ cmd'[p].plan = cmd[p].plan /\ cmd'[p].named = cmd[p].named /\ cmd'[p].stored = stored
        /\ \A q \in Procs \ {p} : cmd'[q] = cmd[q]
    BY <1>1, <1>5 DEF Inv, TypeOK, Command
  <2>2. pc' \in [Procs -> Point]
    BY <1>5 DEF Inv, TypeOK, Point
  <2>. QED
    BY <1>2, <1>3, <1>4, <2>1, <2>2 DEF ClientEffect
<1>6. CASE /\ pc' = [pc EXCEPT ![p] = "read"]
           /\ cmd' = [cmd EXCEPT ![p].pending = changed, ![p].attempt = @ + 1, ![p].stored = stored]
  <2>. HIDE DEF changed
  <2>0. cmd[p].attempt + 1 \in Nat
    BY <1>1 DEF Command
  <2>1. /\ cmd' \in [Procs -> Command]
        /\ cmd'[p].plan = cmd[p].plan /\ cmd'[p].named = cmd[p].named /\ cmd'[p].stored = stored
        /\ \A q \in Procs \ {p} : cmd'[q] = cmd[q]
    BY <1>1, <1>6, <2>0 DEF Inv, TypeOK, Command
  <2>2. pc' \in [Procs -> Point]
    BY <1>6 DEF Inv, TypeOK, Point
  <2>. QED
    BY <1>2, <1>3, <1>4, <2>1, <2>2 DEF ClientEffect
<1>7. CASE End(p, "gaveup", IF p \in Renamers THEN stored ELSE {}, {}, {})
  <2>1. "gaveup" \in Ended /\ {} \in SUBSET Jobs
    BY DEF Ended
  <2>. DEFINE named == IF p \in Renamers THEN stored ELSE {}
  <2>2. named \in SUBSET Jobs /\ named \subseteq stored /\ End(p, "gaveup", named, {}, {})
    BY <1>1, <1>7
  <2>. HIDE DEF named
  <2>. QED
    BY <1>2, <2>1, <2>2, EndEffect
<1>8. CASE End(p, "ok", stored, cmd[p].jobs, cmd[p].same)
  <2>1. /\ "ok" \in Ended
        /\ cmd[p].jobs \in SUBSET Jobs /\ cmd[p].same \in SUBSET Jobs
        /\ stored \subseteq cmd[p].stored \cup cmd[p].named \cup script[p].stored
    BY <1>1 DEF Ended, Command
  <2>. HIDE DEF stored
  <2>. QED
    BY <1>1, <1>2, <1>8, <2>1, EndEffect
<1>. QED
  BY <1>5, <1>6, <1>7, <1>8 DEF Reply, Answered

LEMMA WriteDoneEffect ==
  ASSUME Inv, NEW p \in Procs, WriteDone(p)
  PROVE  ClientEffect(p)
<1>. DEFINE result == IF script[p].stored # {} THEN "ok" ELSE "error"
<1>1. result \in Ended /\ {} \in SUBSET Jobs /\ script[p].stored \in SUBSET Jobs
  BY DEF Ended, Inv, TypeOK, Script
<1>2. /\ End(p, result, script[p].stored, {}, {})
      /\ script' = [script EXCEPT ![p] = ScriptOf({})]
      /\ UNCHANGED <<store, landed>>
  BY DEF WriteDone
<1>. HIDE DEF result
<1>. QED
  BY <1>1, <1>2, EndEffect

LEMMA CallFailsEffect ==
  ASSUME Inv, NEW p \in Procs, CallFails(p)
  PROVE  ClientEffect(p)
<1>1. script[p].stored \in SUBSET Jobs
  BY DEF Inv, TypeOK, Script
<1>2. PICK printed \in SUBSET Jobs : printed \subseteq script[p].stored /\ Fail(p, printed)
  BY <1>1 DEF CallFails
<1>3. /\ pc' \in [Procs -> Point]
      /\ cmd' \in [Procs -> Command]
      /\ cmd'[p].plan = {} /\ cmd'[p].stored = {}
      /\ cmd'[p].named \subseteq cmd[p].stored \cup printed
      /\ \A q \in Procs \ {p} : cmd'[q] = cmd[q]
  BY <1>2, FailType DEF Inv
<1>4. \A item \in script[p].items \cup script[p].checked : Sound(p, item)
  BY DEF Inv, ItemsSound
<1>. QED
  BY <1>2, <1>3, <1>4 DEF ClientEffect, CallFails, Inv, TypeOK

LEMMA EditJobsEffect ==
  ASSUME Inv, NEW p \in Procs, EditJobs(p)
  PROVE  ClientEffect(p)
<1>1. PICK jobs \in Targets, edit \in Edits :
        Attempt(p, [NoCommand EXCEPT !.edit = edit, !.pending = jobs, !.jobs = jobs])
  BY DEF EditJobs
<1>. DEFINE command == [NoCommand EXCEPT !.edit = edit, !.pending = jobs, !.jobs = jobs]
<1>2. jobs \in SUBSET Jobs /\ edit \in Edit
  BY CommandsAssumption
<1>3. command \in Command /\ command.stored = {} /\ command.named = {}
  BY <1>2, NoCommandType DEF Command, NoCommand
<1>. HIDE DEF command
<1>. QED
  BY <1>1, <1>3, AttemptEffect DEF EditJobs, command

LEMMA RenameProjectEffect ==
  ASSUME Inv, NEW p \in Procs, RenameProject(p)
  PROVE  ClientEffect(p)
<1>. DEFINE jobs == { job \in Jobs : store[job] # Absent }
            edit == [NoEdit EXCEPT !.project = New]
            command == [NoCommand EXCEPT !.edit = edit, !.pending = jobs, !.jobs = jobs]
<1>1. Attempt(p, command) /\ UNCHANGED <<store, script, landed>>
  BY DEF RenameProject
<1>2. jobs \in SUBSET Jobs /\ edit \in Edit
  BY CommandsAssumption DEF NoEdit, Edit, Project
<1>. HIDE DEF jobs, edit
<1>3. command \in Command /\ command.stored = {} /\ command.named = {}
  BY <1>2, NoCommandType DEF Command, NoCommand
<1>. HIDE DEF command
<1>. QED
  BY <1>1, <1>3, AttemptEffect

LEMMA RetryEffect ==
  ASSUME Inv, NEW p \in Procs, Retry(p)
  PROVE  ClientEffect(p)
<1>1. cmd[p] \in Command
  BY DEF Inv, TypeOK
<1>. QED
  BY <1>1, AttemptEffect DEF Retry

-----------------------------------------------------------------------------
(* Steps of the script *)

(* What a step of a script does: it leaves the clients alone, has no more   *)
(* to store than before, waits with a checked item only in a window, and    *)
(* prints as stored only what was stored.                                   *)
ScriptEffect(p) ==
  /\ store' \in [Jobs -> Record \cup {Absent}]
  /\ ConfirmedMeansReviewed'
  /\ script' \in [Procs -> Script]
  /\ landed \subseteq landed' /\ landed' \subseteq Procs \X Jobs
  /\ UNCHANGED clientVars
  /\ \A q \in Procs \ {p} : script'[q] = script[q]
  /\ script'[p].checked # {} => Window
  /\ script'[p].items \subseteq script[p].items
  /\ script'[p].checked \subseteq script[p].items \cup script[p].checked
  /\ \A job \in script'[p].stored : job \in script[p].stored \/ <<p, job>> \in landed'

LEMMA StoresEffect ==
  ASSUME Inv, NEW p \in Procs, NEW item \in script[p].items \cup script[p].checked,
         Stores(p, item), UNCHANGED clientVars
  PROVE  ScriptEffect(p)
<1>1. script[p] \in Script /\ item \in Item
  BY DEF Inv, TypeOK, Script
<1>2. item.job \in Jobs /\ item.record \in Record /\ Reviewed(item.record)
  BY <1>1 DEF Item, Inv, ItemsSound, Sound
<1>3. store' \in [Jobs -> Record \cup {Absent}] /\ ConfirmedMeansReviewed'
  BY <1>2 DEF Stores, Inv, TypeOK, ConfirmedMeansReviewed, Reviewed
<1>4. /\ landed \subseteq landed' /\ landed' \subseteq Procs \X Jobs
      /\ <<p, item.job>> \in landed'
  BY <1>2 DEF Stores, Inv, TypeOK
<1>5. /\ script' \in [Procs -> Script]
      /\ script'[p].checked = {}
      /\ script'[p].items \subseteq script[p].items
      /\ script'[p].stored = script[p].stored \cup {item.job}
      /\ \A q \in Procs \ {p} : script'[q] = script[q]
  BY <1>1, <1>2 DEF Stores, Inv, TypeOK, Script
<1>. QED
  BY <1>3, <1>4, <1>5 DEF ScriptEffect

LEMMA RefusesEffect ==
  ASSUME Inv, NEW p \in Procs, NEW item \in Item, Refuses(p, item), UNCHANGED clientVars
  PROVE  ScriptEffect(p)
<1>1. script[p] \in Script /\ item.job \in Jobs
  BY DEF Inv, TypeOK, Item
<1>2. /\ script' \in [Procs -> Script]
      /\ script'[p].checked = script[p].checked
      /\ script'[p].items \subseteq script[p].items
      /\ script'[p].stored = script[p].stored
      /\ \A q \in Procs \ {p} : script'[q] = script[q]
  BY <1>1 DEF Refuses, Inv, TypeOK, Script
<1>. QED
  BY <1>2 DEF ScriptEffect, Refuses, Inv, TypeOK, ItemsSound, ConfirmedMeansReviewed

LEMMA ItemsType ==
  ASSUME Inv, NEW p \in Procs
  PROVE  script[p].items \subseteq Item /\ script[p].checked \subseteq Item
BY DEF Inv, TypeOK, Script

LEMMA WriteRecordEffect ==
  ASSUME Inv, NEW p \in Procs, WriteRecord(p)
  PROVE  ScriptEffect(p)
BY ItemsType, StoresEffect, RefusesEffect DEF WriteRecord

LEMMA CheckVersionEffect ==
  ASSUME Inv, NEW p \in Procs, CheckVersion(p)
  PROVE  ScriptEffect(p)
<1>1. PICK item \in script[p].items :
        \/ /\ Window
           /\ script' = [script EXCEPT ![p].checked = {item}] /\ UNCHANGED <<store, landed>>
        \/ Stores(p, item)
        \/ Refuses(p, item)
  BY DEF CheckVersion
<1>2. item \in Item /\ UNCHANGED clientVars
  BY ItemsType DEF CheckVersion
<1>3. CASE /\ Window
           /\ script' = [script EXCEPT ![p].checked = {item}] /\ UNCHANGED <<store, landed>>
  <2>1. /\ script' \in [Procs -> Script]
        /\ script'[p].items = script[p].items /\ script'[p].stored = script[p].stored
        /\ \A q \in Procs \ {p} : script'[q] = script[q]
    BY <1>2, <1>3 DEF Inv, TypeOK, Script
  <2>. QED
    BY <1>2, <1>3, <2>1 DEF ScriptEffect, Inv, TypeOK, ConfirmedMeansReviewed
<1>. QED
  BY <1>1, <1>2, <1>3, StoresEffect, RefusesEffect

LEMMA MoveRecordEffect ==
  ASSUME Inv, NEW p \in Procs, MoveRecord(p)
  PROVE  ScriptEffect(p)
BY ItemsType, StoresEffect DEF MoveRecord

LEMMA ScriptDiesEffect ==
  ASSUME Inv, NEW p \in Procs, ScriptDies(p)
  PROVE  ScriptEffect(p)
<1>1. /\ script' \in [Procs -> Script]
      /\ script'[p].checked = {}
      /\ script'[p].items = script[p].items /\ script'[p].stored = script[p].stored
      /\ \A q \in Procs \ {p} : script'[q] = script[q]
  BY DEF ScriptDies, Inv, TypeOK, Script
<1>. QED
  BY <1>1 DEF ScriptEffect, ScriptDies, Inv, TypeOK, ConfirmedMeansReviewed

-----------------------------------------------------------------------------
(* The invariant *)

LEMMA EffectOfNext ==
  ASSUME Inv, Next
  PROVE  \E p \in Procs : ClientEffect(p) \/ ScriptEffect(p)
<1>1. Writers \subseteq Procs /\ Editors \subseteq Procs /\ Renamers \subseteq Procs
  BY ProcsAssumption
<1>2. ASSUME NEW p \in Writers, Run(p) PROVE ClientEffect(p)
  BY <1>1, <1>2, WriteFirstEffect, WriteDoneEffect DEF Run
<1>3. ASSUME NEW p \in Procs, Store(p) PROVE ClientEffect(p)
  BY <1>3, RetryEffect, SendEffect, ReplyEffect DEF Store
<1>4. ASSUME NEW p \in Editors, EditJobs(p) PROVE ClientEffect(p)
  BY <1>1, <1>4, EditJobsEffect
<1>5. ASSUME NEW p \in Renamers, RenameProject(p) PROVE ClientEffect(p)
  BY <1>1, <1>5, RenameProjectEffect
<1>6. ASSUME NEW p \in Procs, RecordsScript(p) PROVE ScriptEffect(p)
  BY <1>6, WriteRecordEffect, CheckVersionEffect, MoveRecordEffect, ScriptDiesEffect
     DEF RecordsScript
<1>. QED
  BY <1>1, <1>2, <1>3, <1>4, <1>5, <1>6, CallFailsEffect DEF Next

LEMMA InvInit == Init => Inv
<1>. SUFFICES ASSUME Init PROVE Inv
  OBVIOUS
<1>1. store \in [Jobs -> Record \cup {Absent}]
  <2>1. Records({<<>>}) \subseteq Record
    <3>1. <<>> \in Seq(Procs)
      OBVIOUS
    <3>. QED
      BY <3>1 DEF Record, Records
  <2>. QED
    BY <2>1, SubmittedType DEF Init, LogInit
<1>2. {} \in SUBSET Item
  OBVIOUS
<1>3. ConfirmedMeansReviewed
  BY SubmittedType DEF Init, LogInit, ConfirmedMeansReviewed
<1>4. TypeOK
  BY <1>1, <1>2, NoCommandType, ScriptOfType DEF Init, TypeOK, Point
<1>5. ItemsSound /\ AnswersTrue
  BY DEF Init, ItemsSound, AnswersTrue, NoCommand, ScriptOf
<1>. QED
  BY <1>3, <1>4, <1>5 DEF Inv

LEMMA InvStep == Inv /\ [Next]_vars => Inv'
<1>. SUFFICES ASSUME Inv, [Next]_vars PROVE Inv'
  OBVIOUS
<1>1. ASSUME NEW p \in Procs, ClientEffect(p) PROVE Inv'
  <2>1. TypeOK'
    BY <1>1 DEF ClientEffect, Inv, TypeOK
  <2>2. ItemsSound'
    <3>. SUFFICES ASSUME NEW q \in Procs
                  PROVE  /\ script'[q].checked # {} => Window
                         /\ \A item \in cmd'[q].plan \cup script'[q].items \cup script'[q].checked : Sound(q, item)
      BY DEF ItemsSound, Sound
    <3>1. CASE q = p
      BY <1>1, <3>1 DEF ClientEffect, Inv, ItemsSound
    <3>2. CASE q # p
      BY <1>1, <3>2 DEF ClientEffect, Inv, ItemsSound
    <3>. QED
      BY <3>1, <3>2
  <2>3. AnswersTrue'
    <3>. SUFFICES ASSUME NEW q \in Procs,
                         NEW job \in cmd'[q].stored \cup cmd'[q].named \cup script'[q].stored
                  PROVE  <<q, job>> \in landed'
      BY DEF AnswersTrue
    <3>1. job \in cmd[q].stored \cup cmd[q].named \cup script[q].stored
      BY <1>1 DEF ClientEffect
    <3>. QED
      BY <1>1, <3>1 DEF ClientEffect, Inv, AnswersTrue
  <2>. QED
    BY <1>1, <2>1, <2>2, <2>3 DEF Inv, ClientEffect, ConfirmedMeansReviewed
<1>2. ASSUME NEW p \in Procs, ScriptEffect(p) PROVE Inv'
  <2>1. TypeOK'
    BY <1>2 DEF ScriptEffect, Inv, TypeOK, clientVars
  <2>2. ItemsSound'
    <3>. SUFFICES ASSUME NEW q \in Procs
                  PROVE  /\ script'[q].checked # {} => Window
                         /\ \A item \in cmd'[q].plan \cup script'[q].items \cup script'[q].checked : Sound(q, item)
      BY DEF ItemsSound, Sound
    <3>1. CASE q = p
      BY <1>2, <3>1 DEF ScriptEffect, Inv, ItemsSound, clientVars
    <3>2. CASE q # p
      BY <1>2, <3>2 DEF ScriptEffect, Inv, ItemsSound, clientVars
    <3>. QED
      BY <3>1, <3>2
  <2>3. AnswersTrue'
    <3>. SUFFICES ASSUME NEW q \in Procs,
                         NEW job \in cmd'[q].stored \cup cmd'[q].named \cup script'[q].stored
                  PROVE  <<q, job>> \in landed'
      BY DEF AnswersTrue
    <3>1. \/ job \in cmd[q].stored \cup cmd[q].named \cup script[q].stored
          \/ <<q, job>> \in landed'
      BY <1>2 DEF ScriptEffect, clientVars
    <3>2. landed \subseteq landed'
      BY <1>2 DEF ScriptEffect
    <3>. QED
      BY <3>1, <3>2 DEF Inv, AnswersTrue
  <2>. QED
    BY <1>2, <2>1, <2>2, <2>3 DEF Inv, ScriptEffect
<1>3. CASE UNCHANGED vars
  BY <1>3 DEF Inv, TypeOK, ItemsSound, Sound, AnswersTrue, ConfirmedMeansReviewed, vars, clientVars
<1>. QED
  BY <1>1, <1>2, <1>3, EffectOfNext

(* Every state that is reached satisfies the inductive invariant.            *)
THEOREM InvHolds == Spec => []Inv
<1>1. Init => Inv
  BY InvInit
<1>2. Inv /\ [Next]_vars => Inv'
  BY InvStep
<1>. QED
  BY <1>1, <1>2, PTL DEF Spec

(* Records, commands and scripts keep their types (records.py, records.sh),  *)
(* for any jobs, processes and edits and any number of attempts.             *)
THEOREM TypeCorrect == Spec => []TypeOK
<1>1. Inv => TypeOK
  BY DEF Inv
<1>. QED
  BY <1>1, InvHolds, PTL

(* The result of `jobs edit`, `projects rename` and `run` names as stored    *)
(* only what was stored (UpdateError, ProjectRename.renamed), in whatever    *)
(* batches it was sent, whichever calls failed and also when stores slip     *)
(* into the windows of others.                                               *)
THEOREM NamesOnlyStored == Spec => []NamedAreStored
<1>1. Inv => NamedAreStored
  BY DEF Inv, AnswersTrue, NamedAreStored
<1>. QED
  BY <1>1, InvHolds, PTL

-----------------------------------------------------------------------------
(* The refinement *)

(* Without a window, a step that stores is a Create or an Amend.             *)
LEMMA StoresIsLogged ==
  ASSUME Inv, NEW p \in Procs, NEW item \in script[p].items, Stores(p, item),
         store[item.job] = item.base
  PROVE  LogNext
<1>1. item.job \in Jobs /\ Sound(p, item)
  BY ItemsType DEF Item, Inv, ItemsSound
<1>2. store' = [store EXCEPT ![item.job] = item.record]
  BY DEF Stores
<1>3. CASE item.base = Absent
  <2>1. item.record \in Records({<<>>, <<p>>})
    BY <1>1, <1>3 DEF Sound
  <2>2. Create(item.job, p)
    BY <1>2, <1>3, <2>1 DEF Create
  <2>. QED
    BY <1>1, <2>2 DEF LogNext
<1>4. CASE item.base # Absent
  <2>1. PICK edit \in Edit : CanEdit(item.base, edit) /\ item.record = Edited(item.base, edit, p)
    BY <1>1, <1>4 DEF Sound
  <2>2. store' = [store EXCEPT ![item.job] = Edited(store[item.job], edit, p)]
    BY <1>2, <2>1
  <2>3. Amend(item.job, p)
    BY <1>4, <2>1, <2>2 DEF Amend
  <2>. QED
    BY <1>1, <2>3 DEF LogNext
<1>. QED
  BY <1>3, <1>4

LEMMA WritersInit == Init => WritersSendFirst
BY ProcsAssumption DEF Init, WritersSendFirst, NoCommand, ScriptOf

LEMMA WritersStep ==
  Inv /\ WritersSendFirst /\ [Next]_vars => WritersSendFirst'
<1>. SUFFICES ASSUME Inv, WritersSendFirst, [Next]_vars, NEW q \in Writers
              PROVE  cmd'[q].plan = {} /\ \A item \in script'[q].items : item.base = Absent
  BY DEF WritersSendFirst
<1>1. q \in Procs /\ q \notin Editors \cup Renamers
  BY ProcsAssumption
<1>2. cmd[q].plan = {} /\ \A item \in script[q].items : item.base = Absent
  BY DEF WritersSendFirst
<1>3. CASE /\ cmd'[q] = cmd[q]
           /\ script'[q].items \subseteq script[q].items
  BY <1>2, <1>3
<1>4. ASSUME NEW p \in Procs \ {q}, ClientEffect(p) \/ ScriptEffect(p)
      PROVE  cmd'[q] = cmd[q] /\ script'[q] = script[q]
  BY <1>1, <1>4 DEF ClientEffect, ScriptEffect, clientVars
<1>5. CASE WriteFirst(q)
  <2>1. PICK job \in Jobs, record \in Submitted :
          script' = [script EXCEPT ![q] = ScriptOf({[job |-> job, base |-> Absent, record |-> record]})]
    BY <1>5 DEF WriteFirst
  <2>2. script'[q].items = {[job |-> job, base |-> Absent, record |-> record]}
    BY <1>1, <2>1 DEF ScriptOf, Inv, TypeOK
  <2>3. cmd' = cmd
    BY <1>5 DEF WriteFirst
  <2>4. \A item \in script'[q].items : item.base = Absent
    BY <2>2
  <2>. QED
    BY <1>2, <2>3, <2>4
<1>6. CASE WriteDone(q)
  <2>1. cmd'[q].plan = {}
    <3>. DEFINE result == IF script[q].stored # {} THEN "ok" ELSE "error"
    <3>1. result \in Ended /\ script[q].stored \in SUBSET Jobs /\ {} \in SUBSET Jobs
      BY <1>1 DEF Ended, Inv, TypeOK, Script
    <3>2. End(q, result, script[q].stored, {}, {})
      BY <1>6 DEF WriteDone
    <3>. HIDE DEF result
    <3>. QED
      BY <1>1, <3>1, <3>2, EndType DEF Inv
  <2>2. script'[q].items = {}
    BY <1>1, <1>6 DEF WriteDone, ScriptOf, Inv, TypeOK
  <2>. QED
    BY <2>1, <2>2
<1>7. CASE CallFails(q)
  <2>1. cmd'[q].plan = {}
    <3>1. {} \in SUBSET Jobs /\ script[q].stored \in SUBSET Jobs
      BY <1>1 DEF Inv, TypeOK, Script
    <3>. QED
      BY <1>1, <1>7, <3>1, FailType DEF CallFails, Inv
  <2>. QED
    BY <1>2, <1>7, <2>1 DEF CallFails
<1>8. CASE RecordsScript(q)
  <2>1. ScriptEffect(q)
    BY <1>1, <1>8, WriteRecordEffect, CheckVersionEffect, MoveRecordEffect, ScriptDiesEffect
       DEF RecordsScript
  <2>. QED
    BY <1>3, <2>1 DEF ScriptEffect, clientVars
<1>9. CASE UNCHANGED vars
  BY <1>3, <1>9 DEF vars, clientVars
<1>10. CASE \E p \in Procs \ {q} : ClientEffect(p) \/ ScriptEffect(p)
  BY <1>3, <1>4, <1>10
<1>11. CASE Next
  <2>1. ASSUME NEW p \in Procs,
               \/ p \in Writers /\ Run(p)
               \/ p \in Editors /\ (EditJobs(p) \/ Store(p))
               \/ p \in Renamers /\ (RenameProject(p) \/ Store(p))
               \/ CallFails(p)
               \/ RecordsScript(p)
        PROVE  \/ WriteFirst(q) \/ WriteDone(q) \/ CallFails(q) \/ RecordsScript(q)
               \/ \E r \in Procs \ {q} : ClientEffect(r) \/ ScriptEffect(r)
    <3>1. CASE p = q
      BY <1>1, <2>1, <3>1 DEF Run
    <3>2. CASE p # q
      <4>1. p \in Procs \ {q}
        BY <3>2
      <4>2. ClientEffect(p) \/ ScriptEffect(p)
        BY <2>1, WriteFirstEffect, WriteDoneEffect, EditJobsEffect, RenameProjectEffect,
           RetryEffect, SendEffect, ReplyEffect, CallFailsEffect, WriteRecordEffect,
           CheckVersionEffect, MoveRecordEffect, ScriptDiesEffect DEF Run, Store, RecordsScript
      <4>. QED
        BY <4>1, <4>2
    <3>. QED
      BY <3>1, <3>2
  <2>. QED
    BY <1>5, <1>6, <1>7, <1>8, <1>10, <1>11, <2>1, ProcsAssumption DEF Next
<1>. QED
  BY <1>9, <1>11

LEMMA WritersHold == Spec => []WritersSendFirst
BY WritersInit, WritersStep, InvHolds, PTL DEF Spec

LEMMA StepIsLogged ==
  ASSUME Window = FALSE, Inv, WritersSendFirst, [Next]_vars
  PROVE  [LogNext]_store
<1>1. ASSUME NEW p \in Procs, ClientEffect(p) PROVE UNCHANGED store
  BY <1>1 DEF ClientEffect
<1>2. ASSUME NEW p \in Procs, WriteRecord(p) PROVE [LogNext]_store
  <2>1. PICK item \in script[p].items :
          (store[item.job] = Absent /\ Stores(p, item)) \/ Refuses(p, item)
    BY <1>2 DEF WriteRecord
  <2>2. item.base = Absent
    BY <1>2, <2>1 DEF WriteRecord, WritersSendFirst
  <2>. QED
    BY <2>1, <2>2, StoresIsLogged DEF Refuses
<1>3. ASSUME NEW p \in Procs, CheckVersion(p) PROVE [LogNext]_store
  <2>1. PICK item \in script[p].items :
          (store[item.job] = item.base /\ Stores(p, item)) \/ Refuses(p, item)
    BY <1>3 DEF CheckVersion
  <2>. QED
    BY <2>1, StoresIsLogged DEF Refuses
<1>4. ASSUME NEW p \in Procs, MoveRecord(p) PROVE FALSE
  BY <1>4 DEF MoveRecord, Inv, ItemsSound
<1>5. ASSUME NEW p \in Procs, ScriptDies(p) PROVE UNCHANGED store
  BY <1>5 DEF ScriptDies
<1>6. CASE UNCHANGED vars
  BY <1>6 DEF vars
<1>7. CASE Next
  <2>1. ASSUME NEW p \in Procs,
               ClientEffect(p) \/ RecordsScript(p)
        PROVE  [LogNext]_store
    BY <1>1, <1>2, <1>3, <1>4, <1>5, <2>1 DEF RecordsScript
  <2>2. \E p \in Procs : ClientEffect(p) \/ RecordsScript(p)
    BY <1>7, ProcsAssumption, WriteFirstEffect, WriteDoneEffect, EditJobsEffect,
       RenameProjectEffect, RetryEffect, SendEffect, ReplyEffect, CallFailsEffect
       DEF Next, Run, Store
  <2>. QED
    BY <2>1, <2>2
<1>. QED
  BY <1>6, <1>7

(* If no store slips in between the check of a record's version and its mv,  *)
(* the script and its clients implement the log: each store is a job's first *)
(* record or one logged edit on top of the record as it is, whatever runs,   *)
(* edits and renames go on, time out, break off or are tried again.          *)
THEOREM StoreImplementsLog == ASSUME Window = FALSE PROVE Spec => ImplementsLog
<1>1. Init => LogInit
  BY DEF Init
<1>2. Inv /\ WritersSendFirst /\ [Next]_vars => [LogNext]_store
  BY StepIsLogged
<1>. QED
  BY <1>1, <1>2, WritersHold, InvHolds, PTL DEF Spec, ImplementsLog, LogSpec

(* A confirmed record has the very note that was confirmed, also when stores *)
(* slip into the windows of others (records.edited).                         *)
THEOREM OnlyReviewedConfirmed == Spec => []ConfirmedMeansReviewed
<1>1. Inv => ConfirmedMeansReviewed
  BY DEF Inv
<1>. QED
  BY <1>1, InvHolds, PTL

(* What an edit leaves of a record.                                          *)
LEMMA EditedKeeps ==
  ASSUME NEW record \in Record, NEW edit \in Edit, NEW by \in Procs
  PROVE  LET log == Edited(record, edit, by).log
         IN  /\ Edited(record, edit, by).facts = record.facts
             /\ Len(log) >= Len(record.log)
             /\ SubSeq(log, 1, Len(record.log)) = record.log
<1>. DEFINE new == WithValues(record, edit)
            logged == [new EXCEPT !.log = Append(@, by)]
<1>1. record.log \in Seq(Procs) /\ new.log = record.log /\ new.facts = record.facts
  BY DEF WithValues, Record, Records
<1>2. logged.log = Append(record.log, by) /\ logged.facts = record.facts
  <2>1. new \in Record
    BY WithValuesType DEF Record
  <2>. HIDE DEF new
  <2>. QED
    BY <1>1, <2>1 DEF Record, Records
<1>3. /\ Len(record.log) \in Nat
      /\ Len(Append(record.log, by)) = Len(record.log) + 1
      /\ \A i \in 1 .. Len(record.log) : Append(record.log, by)[i] = record.log[i]
  BY <1>1
<1>4. /\ SubSeq(Append(record.log, by), 1, Len(record.log)) = record.log
      /\ SubSeq(record.log, 1, Len(record.log)) = record.log
  BY <1>1, <1>3
<1>. HIDE DEF logged
<1>. QED
  BY <1>2, <1>3, <1>4 DEF Edited, logged

(* If no store slips in between the check of a record's version and its mv,  *)
(* no record disappears, loses its facts or an entry of its log: the window  *)
(* is the only way for an edit to be lost.                                   *)
THEOREM OnlyTheWindowLoses == ASSUME Window = FALSE PROVE Spec => NothingLost
<1>. DEFINE Kept == \A job \in Jobs : store[job] # Absent =>
                      /\ store'[job] # Absent
                      /\ store[job].facts => store'[job].facts
                      /\ Len(store'[job].log) >= Len(store[job].log)
                      /\ SubSeq(store'[job].log, 1, Len(store[job].log)) = store[job].log
<1>1. ASSUME Inv, WritersSendFirst, [Next]_vars
      PROVE  [Kept]_vars
  <2>. SUFFICES ASSUME NEW job \in Jobs, store[job] # Absent
                PROVE  /\ store'[job] # Absent
                       /\ store[job].facts => store'[job].facts
                       /\ Len(store'[job].log) >= Len(store[job].log)
                       /\ SubSeq(store'[job].log, 1, Len(store[job].log)) = store[job].log
    OBVIOUS
  <2>1. store[job] \in Record /\ store \in [Jobs -> Record \cup {Absent}]
    BY <1>1 DEF Inv, TypeOK
  <2>2. [LogNext]_store
    BY <1>1, StepIsLogged
  <2>3. CASE store'[job] = store[job]
    <3>1. store[job].log \in Seq(Procs)
      BY <2>1 DEF Record, Records
    <3>2. /\ Len(store[job].log) >= Len(store[job].log)
          /\ SubSeq(store[job].log, 1, Len(store[job].log)) = store[job].log
      BY <3>1
    <3>. QED
      BY <2>3, <3>2
  <2>4. CASE \E edit \in Edit, by \in Procs : store'[job] = Edited(store[job], edit, by)
    <3>1. PICK edit \in Edit, by \in Procs : store'[job] = Edited(store[job], edit, by)
      BY <2>4
    <3>2. store'[job] # Absent
      BY <2>1, <3>1, EditedRecord, AbsentAssumption
    <3>. QED
      BY <2>1, <3>1, <3>2, EditedKeeps
  <2>5. CASE LogNext
    <3>1. PICK other \in Jobs, by \in Procs : Create(other, by) \/ Amend(other, by)
      BY <2>5 DEF LogNext
    <3>. QED
      BY <2>1, <2>3, <2>4, <3>1 DEF Create, Amend
  <2>. QED
    BY <2>2, <2>3, <2>5
<1>. QED
  BY <1>1, WritersHold, InvHolds, PTL DEF Spec, NothingLost

-----------------------------------------------------------------------------
(***************************************************************************)
(* What a command on the job records ends with: its success covers every   *)
(* record it was for, it gives up only because others stored records       *)
(* meanwhile, and a rename leaves nothing of what it found in the old      *)
(* project.                                                                *)
(*                                                                         *)
(* The argument keeps the books of each command: every job it is for has   *)
(* been stored, had nothing to change, or is in exactly one of the places  *)
(* where it still waits (Book); and it counts the records that others      *)
(* stored against the attempts (CountInv).                                 *)
(***************************************************************************)

-----------------------------------------------------------------------------
(* The books of a command *)

(* The jobs whose record p stored.                                          *)
Landed(p) == { job \in Jobs : <<p, job>> \in landed }

(* What p has planned or sent and its script not yet dealt with, and the    *)
(* jobs refused in this attempt.                                            *)
Sent(p) == cmd[p].plan \cup script[p].items
Changed(p) == cmd[p].changed \cup script[p].changed

JobsOf(items) == { item.job : item \in items }

(* Where p stands between its calls: nothing is on its way, and at its      *)
(* start nothing has been done.  A run has no attempts to give up after.    *)
CleanInv(p) ==
  /\ pc[p] \in {"start", "read", "send"} => script[p] = ScriptOf({})
  /\ pc[p] = "start" => cmd[p] = NoCommand /\ Landed(p) = {}
  /\ pc[p] \notin {"send", "wait"} => cmd[p].plan = {}
  /\ p \in Writers => script[p].checked = {} /\ pc[p] # "gaveup"

(* A job waits in one place only, and none that was stored waits.           *)
FreshInv(p) ==
  /\ script[p].checked \subseteq script[p].items
  /\ JobsOf(Sent(p)) \cap Landed(p) = {}
  /\ \A x, y \in Sent(p) : x.job = y.job => x = y
  /\ cmd[p].plan \cap script[p].items = {}
  /\ pc[p] = "read" => cmd[p].pending \cap Landed(p) = {}
  /\ pc[p] \in {"send", "wait"} => Changed(p) \cap (Landed(p) \cup JobsOf(Sent(p))) = {}

(* No job of the command is forgotten.                                      *)
AccountInv(p) ==
  /\ pc[p] = "read" => cmd[p].jobs \subseteq Landed(p) \cup cmd[p].same \cup cmd[p].pending
  /\ pc[p] \in {"send", "wait"} =>
       cmd[p].jobs \subseteq Landed(p) \cup cmd[p].same \cup JobsOf(Sent(p)) \cup Changed(p)
  /\ pc[p] = "ok" => cmd[p].jobs \subseteq Landed(p) \cup cmd[p].same

Book(p) == CleanInv(p) /\ FreshInv(p) /\ AccountInv(p)

(* A step that leaves a process and what it stored alone keeps its books.   *)
LEMMA BookKept ==
  ASSUME NEW q, Book(q), pc'[q] = pc[q], cmd'[q] = cmd[q], script'[q] = script[q],
         Landed(q)' = Landed(q)
  PROVE  Book(q)'
BY DEF Book, CleanInv, FreshInv, AccountInv, Sent, Changed, JobsOf

-----------------------------------------------------------------------------
(* The client's steps *)

LEMMA ScriptOfFields ==
  ASSUME NEW items
  PROVE  /\ ScriptOf(items).items = items /\ ScriptOf(items).checked = {}
         /\ ScriptOf(items).stored = {} /\ ScriptOf(items).changed = {}
BY DEF ScriptOf

LEMMA EndFields ==
  ASSUME TypeOK, NEW p \in Procs, NEW result, NEW named, NEW jobs, NEW same,
         End(p, result, named, jobs, same)
  PROVE  /\ pc'[p] = result
         /\ cmd'[p].plan = {} /\ cmd'[p].changed = {}
         /\ cmd'[p].jobs = jobs /\ cmd'[p].same = same /\ cmd'[p].edit = NoEdit
<1>. DEFINE ended == [NoCommand EXCEPT !.named = named, !.jobs = jobs, !.same = same]
<1>1. /\ ended.plan = {} /\ ended.changed = {} /\ ended.jobs = jobs /\ ended.same = same
      /\ ended.edit = NoEdit
  BY DEF NoCommand
<1>2. pc' = [pc EXCEPT ![p] = result] /\ cmd' = [cmd EXCEPT ![p] = ended]
  BY DEF End
<1>. HIDE DEF ended
<1>. QED
  BY <1>1, <1>2 DEF TypeOK

(* A command that ends well has stored all it was for or left it as it was. *)
LEMMA EndBook ==
  ASSUME Inv, NEW p \in Procs, Book(p), NEW result \in Ended, NEW named, NEW jobs, NEW same,
         End(p, result, named, jobs, same),
         script'[p] = script[p] \/ script'[p] = ScriptOf({}),
         Landed(p)' = Landed(p),
         result = "ok" => jobs \subseteq Landed(p) \cup same,
         result = "gaveup" => p \notin Writers
  PROVE  Book(p)'
<1>1. /\ pc'[p] = result /\ cmd'[p].plan = {}
      /\ cmd'[p].jobs = jobs /\ cmd'[p].same = same
  BY EndFields DEF Inv
<1>2. pc'[p] \notin {"start", "read", "send", "wait"}
  BY <1>1 DEF Ended
<1>3. /\ script'[p].items = script[p].items \/ script'[p].items = {}
      /\ script'[p].checked \subseteq script'[p].items
      /\ p \in Writers => script'[p].checked = {}
  BY ScriptOfFields DEF Book, FreshInv, CleanInv
<1>4. CleanInv(p)'
  BY <1>1, <1>2, <1>3 DEF CleanInv
<1>5. FreshInv(p)'
  BY <1>1, <1>2, <1>3 DEF Book, FreshInv, Sent, JobsOf
<1>6. AccountInv(p)'
  BY <1>1, <1>2 DEF AccountInv
<1>. QED
  BY <1>4, <1>5, <1>6 DEF Book

LEMMA FailBook ==
  ASSUME Inv, NEW p \in Procs, Book(p), NEW printed, Fail(p, printed),
         UNCHANGED script, Landed(p)' = Landed(p)
  PROVE  Book(p)'
<1>1. "error" \in Ended /\ "error" # "ok" /\ "error" # "gaveup"
  BY DEF Ended
<1>. DEFINE named == IF p \in Renamers \/ (p \in Editors /\ pc[p] = "wait")
                       THEN cmd[p].stored \cup printed ELSE {}
<1>2. End(p, "error", named, {}, {})
  BY DEF Fail
<1>. HIDE DEF named
<1>. QED
  BY <1>1, <1>2, EndBook

(* An attempt moves each pending job to the plan or to what stays as it is. *)
LEMMA AttemptBook ==
  ASSUME Inv, NEW p \in Procs, Book(p), NEW command \in Command, Attempt(p, command),
         p \notin Writers, script[p] = ScriptOf({}),
         command.pending \cap Landed(p) = {},
         command.jobs \subseteq Landed(p) \cup command.same \cup command.pending,
         UNCHANGED <<script, landed>>
  PROVE  Book(p)'
<1>. DEFINE jobs == { job \in command.pending : Concerns(p, job) }
            NewRecord(job) == Edited(Current(job), command.edit, p)
            toStore == { job \in jobs : NewRecord(job) # Current(job) }
            same == command.same \cup (command.pending \ toStore)
            allowed == \A job \in jobs : CanEdit(Current(job), command.edit)
            planned(job) == [job |-> job, base |-> store[job], record |-> NewRecord(job)]
            plan == { planned(job) : job \in toStore }
<1>0. Landed(p)' = Landed(p)
  BY DEF Landed
<1>1. toStore \subseteq command.pending
  OBVIOUS
<1>2. CASE /\ pc' = [pc EXCEPT ![p] = "send"]
           /\ cmd' = [cmd EXCEPT ![p] = [command EXCEPT !.plan = plan, !.changed = {}, !.same = same]]
  <2>. HIDE DEF toStore, NewRecord
  <2>1. /\ JobsOf(plan) = toStore
        /\ \A x, y \in plan : x.job = y.job => x = y
    <3>1. \A job : planned(job).job = job
      OBVIOUS
    <3>. HIDE DEF planned
    <3>. QED
      BY <3>1 DEF JobsOf
  <2>. HIDE DEF plan, same
  <2>. DEFINE next == [command EXCEPT !.plan = plan, !.changed = {}, !.same = same]
  <2>2. next.plan = plan /\ next.changed = {} /\ next.same = same /\ next.jobs = command.jobs
    BY DEF Command
  <2>. HIDE DEF next
  <2>3. pc'[p] = "send" /\ cmd'[p] = next
    BY <1>2 DEF next, Inv, TypeOK
  <2>4. /\ script'[p] = ScriptOf({}) /\ script'[p].items = {} /\ script'[p].changed = {}
        /\ script'[p].checked = {}
    BY ScriptOfFields
  <2>5. Sent(p)' = plan /\ Changed(p)' = {}
    BY <2>2, <2>3, <2>4 DEF Sent, Changed
  <2>6. CleanInv(p)'
    BY <2>3, <2>4 DEF CleanInv
  <2>7. FreshInv(p)'
    BY <1>0, <1>1, <2>1, <2>3, <2>4, <2>5 DEF FreshInv, JobsOf
  <2>8. command.pending \subseteq same \cup toStore /\ command.same \subseteq same
    BY DEF same
  <2>9. JobsOf(Sent(p))' = toStore
    BY <2>1, <2>5 DEF JobsOf
  <2>10. AccountInv(p)'
    BY <1>0, <2>2, <2>3, <2>8, <2>9 DEF AccountInv
  <2>. QED
    BY <2>6, <2>7, <2>10 DEF Book
<1>3. CASE toStore = {} /\ End(p, "ok", command.stored, command.jobs, same)
  <2>1. "ok" \in Ended /\ "ok" # "gaveup"
    BY DEF Ended
  <2>2. command.jobs \subseteq Landed(p) \cup same
    BY <1>3
  <2>. HIDE DEF same
  <2>. QED
    BY <1>0, <1>3, <2>1, <2>2, EndBook
<1>4. CASE Fail(p, {})
  BY <1>0, <1>4, FailBook
<1>. QED
  BY <1>2, <1>3, <1>4 DEF Attempt

LEMMA WriteFirstBook ==
  ASSUME Inv, NEW p \in Procs, Book(p), WriteFirst(p)
  PROVE  Book(p)'
<1>1. PICK job \in Jobs, record \in Submitted :
        script' = [script EXCEPT ![p] = ScriptOf({[job |-> job, base |-> Absent, record |-> record]})]
  BY DEF WriteFirst
<1>. DEFINE item == [job |-> job, base |-> Absent, record |-> record]
<1>2. item.job = job
  OBVIOUS
<1>. HIDE DEF item
<1>3. script'[p] = ScriptOf({item})
  BY <1>1 DEF item, Inv, TypeOK
<1>4. /\ script'[p].items = {item} /\ script'[p].checked = {} /\ script'[p].changed = {}
  BY <1>3, ScriptOfFields
<1>5. /\ pc[p] = "start" /\ pc'[p] = "wait" /\ cmd' = cmd /\ Landed(p)' = Landed(p)
  BY DEF WriteFirst, Goto, Inv, TypeOK, Landed
<1>6. /\ cmd'[p].plan = {} /\ cmd'[p].changed = {} /\ cmd'[p].jobs = {} /\ Landed(p)' = {}
  BY <1>5 DEF Book, CleanInv, NoCommand
<1>7. Sent(p)' = {item} /\ Changed(p)' = {}
  BY <1>4, <1>6 DEF Sent, Changed
<1>. QED
  BY <1>4, <1>5, <1>6, <1>7 DEF Book, CleanInv, FreshInv, AccountInv

LEMMA SendBook ==
  ASSUME Inv, NEW p \in Procs, Book(p), p \notin Writers, Send(p)
  PROVE  Book(p)'
<1>1. PICK batch \in SUBSET cmd[p].plan :
        /\ cmd' = [cmd EXCEPT ![p].plan = @ \ batch]
        /\ script' = [script EXCEPT ![p] = ScriptOf(batch)]
  BY DEF Send
<1>2. /\ cmd'[p].plan = cmd[p].plan \ batch
      /\ cmd'[p].changed = cmd[p].changed /\ cmd'[p].jobs = cmd[p].jobs
      /\ cmd'[p].same = cmd[p].same
  BY <1>1 DEF Inv, TypeOK, Command
<1>3. /\ script'[p].items = batch /\ script'[p].checked = {} /\ script'[p].changed = {}
  BY <1>1, ScriptOfFields DEF Inv, TypeOK
<1>4. pc[p] = "send" /\ pc'[p] = "wait" /\ Landed(p)' = Landed(p)
  BY DEF Send, Goto, Inv, TypeOK, Landed
<1>5. script[p].items = {} /\ script[p].changed = {}
  BY <1>4, ScriptOfFields DEF Book, CleanInv
<1>6. Sent(p)' = Sent(p) /\ Changed(p)' = Changed(p)
  BY <1>2, <1>3, <1>5 DEF Sent, Changed
<1>7. CleanInv(p)'
  BY <1>3, <1>4 DEF CleanInv
<1>8. FreshInv(p)'
  BY <1>2, <1>3, <1>4, <1>6 DEF Book, FreshInv, JobsOf
<1>9. AccountInv(p)'
  BY <1>2, <1>4, <1>6 DEF Book, AccountInv, JobsOf
<1>. QED
  BY <1>7, <1>8, <1>9 DEF Book

LEMMA ReplyBook ==
  ASSUME Inv, NEW p \in Procs, Book(p), Reply(p)
  PROVE  Book(p)'
<1>. DEFINE changed == cmd[p].changed \cup script[p].changed
            stored == cmd[p].stored \cup script[p].stored
<1>0. /\ pc[p] = "wait" /\ p \notin Writers /\ script[p].items = {}
      /\ Landed(p)' = Landed(p)
      /\ script' = [script EXCEPT ![p] = ScriptOf({})]
  BY DEF Reply, Answered, Landed
<1>1. cmd[p] \in Command /\ cmd'[p] \in Command /\ changed = Changed(p)
  BY ReplyEffect DEF Inv, TypeOK, ClientEffect, Changed
<1>2. /\ script'[p] = ScriptOf({}) /\ script'[p].items = {} /\ script'[p].checked = {}
      /\ script'[p].changed = {}
  BY <1>0, ScriptOfFields DEF Inv, TypeOK
<1>3. Sent(p) = cmd[p].plan
  BY <1>0 DEF Sent
<1>. HIDE DEF changed, stored
<1>4. CASE /\ cmd[p].plan # {}
           /\ pc' = [pc EXCEPT ![p] = "send"]
           /\ cmd' = [cmd EXCEPT ![p].changed = changed, ![p].stored = stored]
  <2>1. /\ pc'[p] = "send" /\ cmd'[p].plan = cmd[p].plan /\ cmd'[p].changed = changed
        /\ cmd'[p].jobs = cmd[p].jobs /\ cmd'[p].same = cmd[p].same
    BY <1>1, <1>4 DEF Inv, TypeOK, Command
  <2>2. Sent(p)' = Sent(p) /\ Changed(p)' = Changed(p)
    BY <1>1, <1>2, <1>3, <2>1 DEF Sent, Changed
  <2>3. CleanInv(p)'
    BY <1>0, <1>2, <2>1 DEF CleanInv
  <2>4. FreshInv(p)'
    BY <1>0, <1>2, <2>1, <2>2 DEF Book, FreshInv, JobsOf
  <2>5. AccountInv(p)'
    BY <1>0, <2>1, <2>2 DEF Book, AccountInv, JobsOf
  <2>. QED
    BY <2>3, <2>4, <2>5 DEF Book
<1>5. CASE /\ cmd[p].plan = {}
           /\ pc' = [pc EXCEPT ![p] = "read"]
           /\ cmd' = [cmd EXCEPT ![p].pending = changed, ![p].attempt = @ + 1, ![p].stored = stored]
  <2>1. /\ pc'[p] = "read" /\ cmd'[p].plan = {} /\ cmd'[p].pending = changed
        /\ cmd'[p].jobs = cmd[p].jobs /\ cmd'[p].same = cmd[p].same
    BY <1>1, <1>5 DEF Inv, TypeOK, Command
  <2>2. Sent(p)' = {} /\ JobsOf(Sent(p)) = {} /\ JobsOf(Sent(p))' = {}
    BY <1>2, <1>3, <1>5, <2>1 DEF Sent, JobsOf
  <2>3. CleanInv(p)'
    BY <1>0, <1>2, <2>1 DEF CleanInv
  <2>4. FreshInv(p)'
    BY <1>0, <1>1, <1>2, <2>1, <2>2 DEF Book, FreshInv
  <2>5. AccountInv(p)'
    BY <1>0, <1>1, <2>1, <2>2 DEF Book, AccountInv
  <2>. QED
    BY <2>3, <2>4, <2>5 DEF Book
<1>6. CASE End(p, "gaveup", IF p \in Renamers THEN stored ELSE {}, {}, {})
  <2>1. "gaveup" \in Ended /\ "gaveup" # "ok"
    BY DEF Ended
  <2>. QED
    BY <1>0, <1>2, <1>6, <2>1, EndBook
<1>7. CASE /\ cmd[p].plan = {} /\ changed = {}
           /\ End(p, "ok", stored, cmd[p].jobs, cmd[p].same)
  <2>1. "ok" \in Ended /\ "ok" # "gaveup"
    BY DEF Ended
  <2>2. cmd[p].jobs \subseteq Landed(p) \cup cmd[p].same
    BY <1>0, <1>1, <1>3, <1>7 DEF Book, AccountInv, JobsOf
  <2>. QED
    BY <1>0, <1>2, <1>7, <2>1, <2>2, EndBook
<1>. QED
  BY <1>4, <1>5, <1>6, <1>7 DEF Reply, Answered, changed, stored

LEMMA ClientBook ==
  ASSUME Inv, NEW p \in Procs, Book(p),
         \/ p \in Writers /\ Run(p)
         \/ p \notin Writers /\ (EditJobs(p) \/ RenameProject(p) \/ Store(p))
         \/ CallFails(p)
  PROVE  Book(p)'
<1>1. CASE WriteDone(p)
  <2>. DEFINE result == IF script[p].stored # {} THEN "ok" ELSE "error"
  <2>1. result \in Ended /\ result # "gaveup"
    BY DEF Ended
  <2>2. End(p, result, script[p].stored, {}, {}) /\ Landed(p)' = Landed(p)
    BY <1>1 DEF WriteDone, Landed
  <2>3. script'[p] = ScriptOf({})
    BY <1>1 DEF WriteDone, Inv, TypeOK
  <2>. HIDE DEF result
  <2>. QED
    BY <2>1, <2>2, <2>3, EndBook
<1>2. CASE p \notin Writers /\ EditJobs(p)
  <2>1. PICK jobs \in Targets, edit \in Edits :
          Attempt(p, [NoCommand EXCEPT !.edit = edit, !.pending = jobs, !.jobs = jobs])
    BY <1>2 DEF EditJobs
  <2>. DEFINE command == [NoCommand EXCEPT !.edit = edit, !.pending = jobs, !.jobs = jobs]
  <2>2. command \in Command /\ command.jobs = jobs /\ command.pending = jobs
    BY CommandsAssumption, NoCommandType DEF Command, NoCommand
  <2>3. Landed(p) = {} /\ script[p] = ScriptOf({}) /\ UNCHANGED <<script, landed>>
    BY <1>2 DEF EditJobs, Book, CleanInv
  <2>4. Attempt(p, command)
    BY <2>1
  <2>. HIDE DEF command
  <2>. QED
    BY <1>2, <2>2, <2>3, <2>4, AttemptBook
<1>3. CASE p \notin Writers /\ RenameProject(p)
  <2>. DEFINE jobs == { job \in Jobs : store[job] # Absent }
              edit == [NoEdit EXCEPT !.project = New]
              command == [NoCommand EXCEPT !.edit = edit, !.pending = jobs, !.jobs = jobs]
  <2>1. Attempt(p, command)
    BY <1>3 DEF RenameProject
  <2>2. jobs \in SUBSET Jobs /\ edit \in Edit
    BY CommandsAssumption DEF NoEdit, Edit, Project
  <2>. HIDE DEF jobs, edit
  <2>3. command \in Command /\ command.jobs = jobs /\ command.pending = jobs
    BY <2>2, NoCommandType DEF Command, NoCommand
  <2>4. Landed(p) = {} /\ script[p] = ScriptOf({}) /\ UNCHANGED <<script, landed>>
    BY <1>3 DEF RenameProject, Book, CleanInv
  <2>. HIDE DEF command
  <2>. QED
    BY <1>3, <2>1, <2>3, <2>4, AttemptBook
<1>4. CASE p \notin Writers /\ Retry(p)
  <2>1. /\ pc[p] = "read" /\ Attempt(p, cmd[p]) /\ UNCHANGED <<script, landed>>
    BY <1>4 DEF Retry
  <2>2. /\ cmd[p] \in Command /\ script[p] = ScriptOf({})
        /\ cmd[p].pending \cap Landed(p) = {}
        /\ cmd[p].jobs \subseteq Landed(p) \cup cmd[p].same \cup cmd[p].pending
    BY <2>1 DEF Inv, TypeOK, Book, CleanInv, FreshInv, AccountInv
  <2>. QED
    BY <1>4, <2>1, <2>2, AttemptBook
<1>5. CASE CallFails(p)
  <2>1. Landed(p)' = Landed(p) /\ UNCHANGED script
    BY <1>5 DEF CallFails, Landed
  <2>. QED
    BY <1>5, <2>1, FailBook DEF CallFails
<1>. QED
  BY <1>1, <1>2, <1>3, <1>4, <1>5, WriteFirstBook, SendBook, ReplyBook DEF Run, Store

-----------------------------------------------------------------------------
(* The script's steps *)

(* A record that is stored moves its job from what was sent to what landed. *)
LEMMA StoresBook ==
  ASSUME Inv, NEW p \in Procs, Book(p), NEW item \in script[p].items, Stores(p, item),
         UNCHANGED clientVars
  PROVE  /\ Book(p)'
         /\ Sent(p)' = Sent(p) \ {item} /\ Changed(p)' = Changed(p)
         /\ Landed(p)' = Landed(p) \cup {item.job}
<1>1. script[p] \in Script /\ item.job \in Jobs
  BY ItemsType DEF Inv, TypeOK, Item
<1>2. /\ script'[p].items = script[p].items \ {item}
      /\ script'[p].checked = {}
      /\ script'[p].changed = script[p].changed
      /\ cmd' = cmd /\ pc' = pc
  BY <1>1 DEF Stores, Inv, TypeOK, Script, clientVars
<1>3. Landed(p)' = Landed(p) \cup {item.job}
  BY <1>1 DEF Stores, Landed
<1>4. Sent(p)' = Sent(p) \ {item} /\ Changed(p)' = Changed(p)
  BY <1>2 DEF Sent, Changed, Book, FreshInv
<1>5. JobsOf(Sent(p))' = JobsOf(Sent(p)) \ {item.job}
  BY <1>4 DEF JobsOf, Book, FreshInv, Sent
<1>6. pc[p] \notin {"start", "read", "send"}
  BY ScriptOfFields DEF Book, CleanInv
<1>7. CleanInv(p)'
  BY <1>2, <1>6 DEF Book, CleanInv
<1>8. item.job \in JobsOf(Sent(p))
  BY DEF JobsOf, Sent
<1>9. FreshInv(p)'
  BY <1>2, <1>3, <1>4, <1>5, <1>6, <1>8 DEF Book, FreshInv, JobsOf
<1>10. AccountInv(p)'
  BY <1>2, <1>3, <1>4, <1>5, <1>6 DEF Book, AccountInv
<1>. QED
  BY <1>3, <1>4, <1>7, <1>9, <1>10 DEF Book

(* A refused one moves it to what changed.                                  *)
LEMMA RefusesBook ==
  ASSUME Inv, NEW p \in Procs, Book(p), NEW item \in script[p].items, Refuses(p, item),
         script[p].checked = {}, UNCHANGED clientVars
  PROVE  /\ Book(p)'
         /\ Sent(p)' = Sent(p) \ {item} /\ Changed(p)' = Changed(p) \cup {item.job}
<1>1. script[p] \in Script /\ item.job \in Jobs
  BY ItemsType DEF Inv, TypeOK, Item
<1>2. /\ script'[p].items = script[p].items \ {item}
      /\ script'[p].checked = {}
      /\ script'[p].changed = script[p].changed \cup {item.job}
      /\ cmd' = cmd /\ pc' = pc
  BY <1>1 DEF Refuses, Inv, TypeOK, Script, clientVars
<1>3. Landed(p)' = Landed(p)
  BY DEF Refuses, Landed
<1>4. Sent(p)' = Sent(p) \ {item} /\ Changed(p)' = Changed(p) \cup {item.job}
  BY <1>2 DEF Sent, Changed, Book, FreshInv
<1>5. JobsOf(Sent(p))' = JobsOf(Sent(p)) \ {item.job}
  BY <1>4 DEF JobsOf, Book, FreshInv, Sent
<1>6. pc[p] \notin {"start", "read", "send"}
  BY ScriptOfFields DEF Book, CleanInv
<1>7. CleanInv(p)'
  BY <1>2, <1>6 DEF Book, CleanInv
<1>8. item.job \in JobsOf(Sent(p))
  BY DEF JobsOf, Sent
<1>9. FreshInv(p)'
  BY <1>2, <1>3, <1>4, <1>5, <1>6, <1>8 DEF Book, FreshInv, JobsOf
<1>10. AccountInv(p)'
  BY <1>2, <1>3, <1>4, <1>5, <1>6 DEF Book, AccountInv
<1>. QED
  BY <1>4, <1>7, <1>9, <1>10 DEF Book

(* A check that finds the version unchanged, or a script that dies.         *)
LEMMA CheckedBook ==
  ASSUME Inv, NEW p \in Procs, Book(p), NEW checked \in SUBSET script[p].items,
         p \in Writers => checked = {}, NEW up \in BOOLEAN,
         script' = [script EXCEPT ![p].up = up, ![p].checked = checked],
         script[p].items # {}, UNCHANGED landed, UNCHANGED clientVars
  PROVE  /\ Book(p)'
         /\ Sent(p)' = Sent(p) /\ Changed(p)' = Changed(p)
<1>1. /\ script'[p].items = script[p].items
      /\ script'[p].checked = checked
      /\ script'[p].changed = script[p].changed
      /\ cmd' = cmd /\ pc' = pc
  BY DEF Inv, TypeOK, Script, clientVars
<1>2. Landed(p)' = Landed(p)
  BY DEF Landed
<1>3. Sent(p)' = Sent(p) /\ Changed(p)' = Changed(p) /\ JobsOf(Sent(p))' = JobsOf(Sent(p))
  BY <1>1 DEF Sent, Changed, JobsOf
<1>4. pc[p] \notin {"start", "read", "send"}
  BY ScriptOfFields DEF Book, CleanInv
<1>5. CleanInv(p)'
  BY <1>1, <1>4 DEF Book, CleanInv
<1>6. FreshInv(p)'
  <2>1. /\ script'[p].checked \subseteq script'[p].items
        /\ cmd'[p].plan \cap script'[p].items = {}
    BY <1>1 DEF Book, FreshInv
  <2>2. \A x, y \in Sent(p)' : x.job = y.job => x = y
    BY <1>3 DEF Book, FreshInv
  <2>3. /\ JobsOf(Sent(p))' \cap Landed(p)' = {}
        /\ pc'[p] \in {"send", "wait"} =>
             Changed(p)' \cap (Landed(p)' \cup JobsOf(Sent(p))') = {}
    BY <1>1, <1>2, <1>3 DEF Book, FreshInv
  <2>4. pc'[p] # "read"
    BY <1>1, <1>4
  <2>. QED
    BY <2>1, <2>2, <2>3, <2>4 DEF FreshInv
<1>7. AccountInv(p)'
  BY <1>1, <1>2, <1>3, <1>4 DEF Book, AccountInv
<1>. QED
  BY <1>3, <1>5, <1>6, <1>7 DEF Book

(* What a step of a script comes to: an item is stored, as the first record *)
(* or with its version checked; or an item is refused, whose version no     *)
(* longer was the one in the store; or nothing was decided.                 *)
LEMMA ScriptStep ==
  ASSUME Inv, NEW p \in Procs, Book(p), RecordsScript(p)
  PROVE  \/ \E item \in script[p].items : Stores(p, item)
         \/ \E item \in script[p].items :
              /\ Refuses(p, item) /\ script[p].checked = {}
              /\ p \notin Writers => store[item.job] # item.base
         \/ \E checked \in SUBSET script[p].items, up \in BOOLEAN :
              /\ p \in Writers => checked = {}
              /\ script' = [script EXCEPT ![p].up = up, ![p].checked = checked]
              /\ script[p].items # {} /\ UNCHANGED <<store, landed>>
<1>0. script[p] \in Script
  BY DEF Inv, TypeOK
<1>1. CASE WriteRecord(p)
  BY <1>1 DEF WriteRecord, Book, CleanInv
<1>2. CASE CheckVersion(p)
  <2>1. PICK item \in script[p].items :
          \/ script' = [script EXCEPT ![p].checked = {item}] /\ UNCHANGED <<store, landed>>
          \/ Stores(p, item)
          \/ store[item.job] # item.base /\ Refuses(p, item)
    BY <1>2 DEF CheckVersion
  <2>2. script[p].checked = {} /\ script[p].up = TRUE /\ p \notin Writers
    BY <1>0, <1>2 DEF CheckVersion, Busy, Script
  <2>3. CASE script' = [script EXCEPT ![p].checked = {item}] /\ UNCHANGED <<store, landed>>
    <3>1. script' = [script EXCEPT ![p].up = TRUE, ![p].checked = {item}]
      BY <1>0, <2>2, <2>3 DEF Inv, TypeOK, Script
    <3>. QED
      BY <2>2, <2>3, <3>1
  <2>. QED
    BY <2>1, <2>2, <2>3
<1>3. CASE MoveRecord(p)
  BY <1>3 DEF MoveRecord, Book, FreshInv
<1>4. CASE ScriptDies(p)
  BY <1>4 DEF ScriptDies, Busy
<1>. QED
  BY <1>1, <1>2, <1>3, <1>4 DEF RecordsScript

LEMMA ScriptBook ==
  ASSUME Inv, NEW p \in Procs, Book(p), RecordsScript(p)
  PROVE  Book(p)'
<1>1. UNCHANGED clientVars
  BY DEF RecordsScript, WriteRecord, CheckVersion, MoveRecord, ScriptDies
<1>. QED
  BY <1>1, ScriptStep, StoresBook, RefusesBook, CheckedBook

-----------------------------------------------------------------------------
(* Steps of others *)

(* The steps of one process.                                                *)
StepOf(p) ==
  \/ p \in Writers /\ Run(p)
  \/ p \notin Writers \cup Renamers /\ EditJobs(p)
  \/ p \in Renamers \ Writers /\ RenameProject(p)
  \/ p \notin Writers /\ Store(p)
  \/ CallFails(p)
  \/ RecordsScript(p)

LEMMA NextIsStepOf == ASSUME Next PROVE \E p \in Procs : StepOf(p)
BY ProcsAssumption DEF Next, StepOf

(* A step of p leaves where another process is, what it knows and what it   *)
(* stored alone.                                                            *)
LEMMA OthersUntouched ==
  ASSUME Inv, NEW p \in Procs, StepOf(p), NEW q \in Procs, q # p
  PROVE  /\ pc'[q] = pc[q] /\ cmd'[q] = cmd[q] /\ script'[q] = script[q]
         /\ Landed(q)' = Landed(q)
<1>1. CASE RecordsScript(p)
  <2>1. ScriptEffect(p)
    BY <1>1, WriteRecordEffect, CheckVersionEffect, MoveRecordEffect, ScriptDiesEffect
       DEF RecordsScript
  <2>2. landed' = landed \/ \E job : landed' = landed \cup {<<p, job>>}
    BY <1>1 DEF RecordsScript, WriteRecord, CheckVersion, MoveRecord, ScriptDies, Stores, Refuses
  <2>3. Landed(q)' = Landed(q)
    BY <2>2 DEF Landed
  <2>. QED
    BY <2>1, <2>3 DEF ScriptEffect, clientVars
<1>2. CASE ~RecordsScript(p)
  <2>1. ClientEffect(p)
    BY <1>2, WriteFirstEffect, WriteDoneEffect, EditJobsEffect, RenameProjectEffect,
       RetryEffect, SendEffect, ReplyEffect, CallFailsEffect DEF StepOf, Run, Store
  <2>2. pc'[q] = pc[q]
    BY <1>2 DEF StepOf, Run, Store, WriteFirst, WriteDone, EditJobs, RenameProject, Retry, Send,
       Reply, Answered, CallFails, Attempt, Fail, End, Goto, Inv, TypeOK
  <2>. QED
    BY <2>1, <2>2 DEF ClientEffect, Landed
<1>. QED
  BY <1>1, <1>2

Books == \A p \in Procs : Book(p)

LEMMA BooksInit == Init => Books
<1>. SUFFICES ASSUME Init, NEW p \in Procs PROVE Book(p)
  BY DEF Books
<1>1. /\ pc[p] = "start" /\ cmd[p] = NoCommand /\ script[p] = ScriptOf({}) /\ Landed(p) = {}
  BY DEF Init, Landed
<1>2. /\ script[p].items = {} /\ script[p].checked = {} /\ script[p].changed = {}
      /\ cmd[p].plan = {}
  BY <1>1, ScriptOfFields DEF NoCommand
<1>. QED
  BY <1>1, <1>2 DEF Book, CleanInv, FreshInv, AccountInv, Sent, JobsOf

LEMMA BooksStep == Inv /\ Books /\ [Next]_vars => Books'
<1>. SUFFICES ASSUME Inv, Books, [Next]_vars, NEW q \in Procs PROVE Book(q)'
  BY DEF Books
<1>1. Book(q)
  BY DEF Books
<1>2. CASE UNCHANGED vars
  BY <1>1, <1>2, BookKept DEF vars, clientVars, Landed
<1>3. ASSUME NEW p \in Procs, StepOf(p) PROVE Book(q)'
  <2>1. CASE q = p
    BY <1>1, <1>3, <2>1, ClientBook, ScriptBook DEF StepOf
  <2>2. CASE q # p
    BY <1>1, <1>3, <2>2, OthersUntouched, BookKept
  <2>. QED
    BY <2>1, <2>2
<1>. QED
  BY <1>2, <1>3, NextIsStepOf

LEMMA BooksHold == Spec => []Books
BY BooksInit, BooksStep, InvHolds, PTL DEF Spec

-----------------------------------------------------------------------------
(* Counting what others stored *)

Others(p) == { done \in landed : done[1] # p }

LandedFinite == IsFiniteSet(landed)

(* Before the n-th attempt the others have stored n - 1 records, and n once *)
(* a record of the attempt was refused, or is bound to be since the store   *)
(* holds another version than the one it was made from.                     *)
CountInv(p) ==
  /\ pc[p] \in {"read", "send", "wait"} => Cardinality(Others(p)) + 1 >= cmd[p].attempt
  /\ (/\ pc[p] \in {"send", "wait"}
      /\ Changed(p) # {} \/ \E item \in Sent(p) : store[item.job] # item.base)
       => Cardinality(Others(p)) >= cmd[p].attempt
  /\ pc[p] = "gaveup" => Cardinality(Others(p)) >= Attempts

Counts == \A p \in Procs \ Writers : CountInv(p)

LEMMA OthersFinite ==
  ASSUME LandedFinite, NEW p
  PROVE  IsFiniteSet(Others(p)) /\ Cardinality(Others(p)) \in Nat
<1>1. Others(p) \subseteq landed
  BY DEF Others
<1>. QED
  BY <1>1, FS_Subset, FS_CardinalityType DEF LandedFinite

(* A record stored by another process counts, for no process stores the     *)
(* record of a job twice.                                                   *)
LEMMA OthersGrow ==
  ASSUME Inv, LandedFinite, NEW q \in Procs, Book(q), NEW item \in script[q].items,
         Stores(q, item), NEW p, p # q
  PROVE  Cardinality(Others(p))' = Cardinality(Others(p)) + 1
<1>1. item.job \in Jobs /\ item.job \in JobsOf(Sent(q))
  BY ItemsType DEF Item, JobsOf, Sent
<1>2. <<q, item.job>> \notin landed
  BY <1>1 DEF Book, FreshInv, Landed
<1>3. Others(p)' = Others(p) \cup {<<q, item.job>>} /\ <<q, item.job>> \notin Others(p)
  BY <1>2 DEF Others, Stores
<1>. QED
  BY <1>3, OthersFinite, FS_AddElement

(* Another process's step: it stores nothing, or its record counts.         *)
LEMMA CountOthers ==
  ASSUME Inv, Books, LandedFinite, NEW p \in Procs \ Writers, CountInv(p),
         NEW q \in Procs, q # p, StepOf(q)
  PROVE  CountInv(p)'
<1>0. /\ pc'[p] = pc[p] /\ cmd'[p] = cmd[p] /\ script'[p] = script[p]
      /\ Cardinality(Others(p)) \in Nat /\ cmd[p].attempt \in Nat
      /\ Book(q)
  BY OthersUntouched, OthersFinite DEF Inv, TypeOK, Command, Books
<1>1. Sent(p)' = Sent(p) /\ Changed(p)' = Changed(p)
  BY <1>0 DEF Sent, Changed
<1>2. CASE UNCHANGED <<store, landed>>
  <2>1. Others(p)' = Others(p)
    BY <1>2 DEF Others
  <2>. QED
    BY <1>0, <1>1, <1>2, <2>1 DEF CountInv
<1>3. ASSUME NEW item \in script[q].items, Stores(q, item) PROVE CountInv(p)'
  <2>1. Cardinality(Others(p))' = Cardinality(Others(p)) + 1
    BY <1>0, <1>3, OthersGrow
  <2>2. /\ pc[p] \in {"read", "send", "wait"} => Cardinality(Others(p))' >= cmd'[p].attempt
        /\ pc[p] = "gaveup" => Cardinality(Others(p))' >= Attempts
        /\ Cardinality(Others(p))' + 1 >= Cardinality(Others(p))'
    BY <1>0, <2>1, CommandsAssumption DEF CountInv
  <2>3. pc[p] \in {"read", "send", "wait"} => Cardinality(Others(p))' + 1 >= cmd'[p].attempt
    BY <1>0, <2>1, <2>2
  <2>. QED
    BY <1>0, <2>2, <2>3 DEF CountInv
<1>4. CASE RecordsScript(q)
  BY <1>0, <1>2, <1>3, <1>4, ScriptStep DEF Refuses
<1>5. CASE ~RecordsScript(q)
  <2>1. UNCHANGED <<store, landed>>
    BY <1>5 DEF StepOf, Run, Store, WriteFirst, WriteDone, EditJobs, RenameProject, Retry, Send,
       Reply, Answered, CallFails
  <2>. QED
    BY <1>2, <2>1
<1>. QED
  BY <1>4, <1>5

(* An attempt starts from the versions in the store.                        *)
LEMMA AttemptCount ==
  ASSUME Inv, LandedFinite, NEW p \in Procs, NEW command \in Command, Attempt(p, command),
         script[p] = ScriptOf({}), UNCHANGED <<store, script, landed>>,
         Cardinality(Others(p)) + 1 >= command.attempt
  PROVE  CountInv(p)'
<1>. DEFINE jobs == { job \in command.pending : Concerns(p, job) }
            NewRecord(job) == Edited(Current(job), command.edit, p)
            toStore == { job \in jobs : NewRecord(job) # Current(job) }
            same == command.same \cup (command.pending \ toStore)
            planned(job) == [job |-> job, base |-> store[job], record |-> NewRecord(job)]
            plan == { planned(job) : job \in toStore }
<1>0. Others(p)' = Others(p)
  BY DEF Others
<1>1. CASE /\ pc' = [pc EXCEPT ![p] = "send"]
           /\ cmd' = [cmd EXCEPT ![p] = [command EXCEPT !.plan = plan, !.changed = {}, !.same = same]]
  <2>1. \A item \in plan : store[item.job] = item.base
    <3>1. \A job : planned(job).job = job /\ planned(job).base = store[job]
      OBVIOUS
    <3>. HIDE DEF planned, toStore
    <3>. QED
      BY <3>1
  <2>. HIDE DEF plan, same
  <2>. DEFINE next == [command EXCEPT !.plan = plan, !.changed = {}, !.same = same]
  <2>2. next.plan = plan /\ next.changed = {} /\ next.attempt = command.attempt
    BY DEF Command
  <2>. HIDE DEF next
  <2>3. pc'[p] = "send" /\ cmd'[p] = next
    BY <1>1 DEF next, Inv, TypeOK
  <2>4. Sent(p)' = plan /\ Changed(p)' = {}
    BY <2>2, <2>3, ScriptOfFields DEF Sent, Changed
  <2>. QED
    BY <1>0, <2>1, <2>2, <2>3, <2>4 DEF CountInv
<1>2. CASE End(p, "ok", command.stored, command.jobs, same)
  <2>. HIDE DEF same
  <2>1. pc'[p] = "ok"
    BY <1>2, EndFields DEF Inv
  <2>. QED
    BY <2>1 DEF CountInv
<1>3. CASE Fail(p, {})
  <2>1. pc'[p] = "error"
    BY <1>3 DEF Fail, End, Inv, TypeOK
  <2>. QED
    BY <2>1 DEF CountInv
<1>. QED
  BY <1>1, <1>2, <1>3 DEF Attempt

LEMMA ReplyCount ==
  ASSUME Inv, LandedFinite, NEW p \in Procs, Book(p), CountInv(p), Reply(p)
  PROVE  CountInv(p)'
<1>. DEFINE changed == cmd[p].changed \cup script[p].changed
            stored == cmd[p].stored \cup script[p].stored
<1>0. /\ pc[p] = "wait" /\ script[p].items = {}
      /\ Others(p)' = Others(p) /\ store' = store
      /\ script' = [script EXCEPT ![p] = ScriptOf({})]
  BY DEF Reply, Answered, Others
<1>1. /\ cmd[p] \in Command /\ cmd[p].attempt \in Nat /\ changed = Changed(p)
      /\ Cardinality(Others(p)) \in Nat
  BY OthersFinite DEF Inv, TypeOK, Command, Changed
<1>2. script'[p].items = {} /\ script'[p].changed = {}
  BY <1>0, ScriptOfFields DEF Inv, TypeOK
<1>. HIDE DEF changed, stored
<1>3. changed # {} => Cardinality(Others(p)) >= cmd[p].attempt
  BY <1>0, <1>1 DEF CountInv
<1>4. CASE /\ pc' = [pc EXCEPT ![p] = "send"]
           /\ cmd' = [cmd EXCEPT ![p].changed = changed, ![p].stored = stored]
  <2>1. /\ pc'[p] = "send" /\ cmd'[p].plan = cmd[p].plan /\ cmd'[p].changed = changed
        /\ cmd'[p].attempt = cmd[p].attempt
    BY <1>1, <1>4 DEF Inv, TypeOK, Command
  <2>2. Sent(p)' = Sent(p) /\ Changed(p)' = Changed(p)
    BY <1>0, <1>1, <1>2, <2>1 DEF Sent, Changed
  <2>. QED
    BY <1>0, <2>1, <2>2 DEF CountInv
<1>5. CASE /\ changed # {}
           /\ pc' = [pc EXCEPT ![p] = "read"]
           /\ cmd' = [cmd EXCEPT ![p].pending = changed, ![p].attempt = @ + 1, ![p].stored = stored]
  <2>1. pc'[p] = "read" /\ cmd'[p].attempt = cmd[p].attempt + 1
    BY <1>1, <1>5 DEF Inv, TypeOK, Command
  <2>. QED
    BY <1>0, <1>1, <1>3, <1>5, <2>1 DEF CountInv
<1>6. CASE /\ changed # {} /\ cmd[p].attempt = Attempts
           /\ End(p, "gaveup", IF p \in Renamers THEN stored ELSE {}, {}, {})
  <2>1. pc'[p] = "gaveup"
    BY <1>6, EndFields DEF Inv
  <2>. QED
    BY <1>0, <1>3, <1>6, <2>1 DEF CountInv
<1>7. CASE End(p, "ok", stored, cmd[p].jobs, cmd[p].same)
  <2>1. pc'[p] = "ok"
    BY <1>7, EndFields DEF Inv
  <2>. QED
    BY <2>1 DEF CountInv
<1>. QED
  BY <1>4, <1>5, <1>6, <1>7 DEF Reply, Answered, changed, stored

LEMMA SendCount ==
  ASSUME Inv, LandedFinite, NEW p \in Procs, Book(p), CountInv(p), Send(p)
  PROVE  CountInv(p)'
<1>1. PICK batch \in SUBSET cmd[p].plan :
        /\ cmd' = [cmd EXCEPT ![p].plan = @ \ batch]
        /\ script' = [script EXCEPT ![p] = ScriptOf(batch)]
  BY DEF Send
<1>2. /\ cmd'[p].plan = cmd[p].plan \ batch
      /\ cmd'[p].changed = cmd[p].changed /\ cmd'[p].attempt = cmd[p].attempt
  BY <1>1 DEF Inv, TypeOK, Command
<1>3. script'[p].items = batch /\ script'[p].changed = {}
  BY <1>1, ScriptOfFields DEF Inv, TypeOK
<1>4. /\ pc[p] = "send" /\ pc'[p] = "wait" /\ Others(p)' = Others(p) /\ store' = store
  BY DEF Send, Goto, Inv, TypeOK, Others
<1>5. script[p].items = {} /\ script[p].changed = {}
  BY <1>4, ScriptOfFields DEF Book, CleanInv
<1>6. Sent(p)' = Sent(p) /\ Changed(p)' = Changed(p)
  BY <1>2, <1>3, <1>5 DEF Sent, Changed
<1>. QED
  BY <1>2, <1>4, <1>6 DEF CountInv

(* The script's own steps: a refused record was one bound to be refused.    *)
LEMMA ScriptCount ==
  ASSUME Inv, LandedFinite, NEW p \in Procs \ Writers, Book(p), CountInv(p), RecordsScript(p)
  PROVE  CountInv(p)'
<1>0. UNCHANGED clientVars
  BY DEF RecordsScript, WriteRecord, CheckVersion, MoveRecord, ScriptDies
<1>1. pc' = pc /\ cmd' = cmd
  BY <1>0 DEF clientVars
<1>2. CASE \E item \in script[p].items : Stores(p, item)
  <2>1. PICK item \in script[p].items : Stores(p, item)
    BY <1>2
  <2>2. Sent(p)' = Sent(p) \ {item} /\ Changed(p)' = Changed(p)
    BY <1>0, <2>1, StoresBook
  <2>3. Others(p)' = Others(p)
    BY <2>1 DEF Stores, Others
  <2>4. \A other \in Sent(p) \ {item} : store'[other.job] = store[other.job]
    <3>1. \A other \in Sent(p) \ {item} : other.job # item.job
      BY DEF Book, FreshInv, Sent
    <3>2. \A other \in Sent(p) : other.job \in Jobs
      BY ItemsType DEF Sent, Inv, TypeOK, Command, Item
    <3>. QED
      BY <2>1, <3>1, <3>2 DEF Stores, Inv, TypeOK
  <2>. QED
    BY <1>1, <2>2, <2>3, <2>4 DEF CountInv
<1>3. CASE \E item \in script[p].items :
             /\ Refuses(p, item) /\ script[p].checked = {}
             /\ store[item.job] # item.base
  <2>1. PICK item \in script[p].items :
          Refuses(p, item) /\ script[p].checked = {} /\ store[item.job] # item.base
    BY <1>3
  <2>2. Sent(p)' = Sent(p) \ {item} /\ Changed(p)' = Changed(p) \cup {item.job}
    BY <1>0, <2>1, RefusesBook
  <2>3. Others(p)' = Others(p) /\ store' = store /\ item \in Sent(p)
    BY <2>1 DEF Refuses, Others, Sent
  <2>. QED
    BY <1>1, <2>1, <2>2, <2>3 DEF CountInv
<1>4. CASE \E checked \in SUBSET script[p].items, up \in BOOLEAN :
             /\ script' = [script EXCEPT ![p].up = up, ![p].checked = checked]
             /\ script[p].items # {} /\ UNCHANGED <<store, landed>>
  <2>1. Sent(p)' = Sent(p) /\ Changed(p)' = Changed(p)
    BY <1>0, <1>4, CheckedBook
  <2>2. Others(p)' = Others(p)
    BY <1>4 DEF Others
  <2>. QED
    BY <1>1, <1>4, <2>1, <2>2 DEF CountInv
<1>. QED
  BY <1>2, <1>3, <1>4, ScriptStep

LEMMA ClientCount ==
  ASSUME Inv, LandedFinite, NEW p \in Procs \ Writers, Book(p), CountInv(p),
         EditJobs(p) \/ RenameProject(p) \/ Store(p) \/ CallFails(p)
  PROVE  CountInv(p)'
<1>0. Cardinality(Others(p)) \in Nat
  BY OthersFinite
<1>1. CASE EditJobs(p)
  <2>1. PICK jobs \in Targets, edit \in Edits :
          Attempt(p, [NoCommand EXCEPT !.edit = edit, !.pending = jobs, !.jobs = jobs])
    BY <1>1 DEF EditJobs
  <2>. DEFINE command == [NoCommand EXCEPT !.edit = edit, !.pending = jobs, !.jobs = jobs]
  <2>2. command \in Command /\ command.attempt = 1
    BY CommandsAssumption, NoCommandType DEF Command, NoCommand
  <2>3. script[p] = ScriptOf({}) /\ UNCHANGED <<store, script, landed>>
    BY <1>1 DEF EditJobs, Book, CleanInv
  <2>4. Attempt(p, command)
    BY <2>1
  <2>. HIDE DEF command
  <2>. QED
    BY <1>0, <2>2, <2>3, <2>4, AttemptCount
<1>2. CASE RenameProject(p)
  <2>. DEFINE jobs == { job \in Jobs : store[job] # Absent }
              edit == [NoEdit EXCEPT !.project = New]
              command == [NoCommand EXCEPT !.edit = edit, !.pending = jobs, !.jobs = jobs]
  <2>1. Attempt(p, command)
    BY <1>2 DEF RenameProject
  <2>2. jobs \in SUBSET Jobs /\ edit \in Edit
    BY CommandsAssumption DEF NoEdit, Edit, Project
  <2>. HIDE DEF jobs, edit
  <2>3. command \in Command /\ command.attempt = 1
    BY <2>2, NoCommandType DEF Command, NoCommand
  <2>4. script[p] = ScriptOf({}) /\ UNCHANGED <<store, script, landed>>
    BY <1>2 DEF RenameProject, Book, CleanInv
  <2>. HIDE DEF command
  <2>. QED
    BY <1>0, <2>1, <2>3, <2>4, AttemptCount
<1>3. CASE Retry(p)
  <2>1. /\ pc[p] = "read" /\ Attempt(p, cmd[p]) /\ UNCHANGED <<store, script, landed>>
    BY <1>3 DEF Retry
  <2>2. /\ cmd[p] \in Command /\ script[p] = ScriptOf({})
        /\ Cardinality(Others(p)) + 1 >= cmd[p].attempt
    BY <2>1 DEF Inv, TypeOK, Book, CleanInv, CountInv
  <2>. QED
    BY <2>1, <2>2, AttemptCount
<1>4. CASE CallFails(p)
  <2>1. pc'[p] = "error"
    BY <1>4 DEF CallFails, Fail, End, Inv, TypeOK
  <2>. QED
    BY <2>1 DEF CountInv
<1>. QED
  BY <1>1, <1>2, <1>3, <1>4, SendCount, ReplyCount DEF Store

LEMMA CountsStep == Inv /\ Books /\ LandedFinite /\ Counts /\ [Next]_vars => Counts'
<1>. SUFFICES ASSUME Inv, Books, LandedFinite, Counts, [Next]_vars, NEW p \in Procs \ Writers
              PROVE  CountInv(p)'
  BY DEF Counts
<1>1. Book(p) /\ CountInv(p)
  BY DEF Books, Counts
<1>2. CASE UNCHANGED vars
  BY <1>1, <1>2 DEF vars, clientVars, CountInv, Sent, Changed, Others
<1>3. ASSUME NEW q \in Procs, StepOf(q) PROVE CountInv(p)'
  <2>1. CASE q = p
    BY <1>1, <1>3, <2>1, ClientCount, ScriptCount DEF StepOf
  <2>2. CASE q # p
    BY <1>1, <1>3, <2>2, CountOthers
  <2>. QED
    BY <2>1, <2>2
<1>. QED
  BY <1>2, <1>3, NextIsStepOf

LEMMA FiniteStep == Inv /\ Books /\ LandedFinite /\ [Next]_vars => LandedFinite'
<1>. SUFFICES ASSUME LandedFinite, [Next]_vars PROVE LandedFinite'
  OBVIOUS
<1>1. landed' = landed \/ \E done : landed' = landed \cup {done}
  BY DEF Next, vars, Run, Store, RecordsScript, WriteFirst, WriteDone, EditJobs, RenameProject,
     Retry, Send, Reply, Answered, CallFails, WriteRecord, CheckVersion, MoveRecord, ScriptDies,
     Stores, Refuses
<1>. QED
  BY <1>1, FS_AddElement DEF LandedFinite

(* What success and giving up say is true (edit_jobs, rename_project): with *)
(* success, over all its batches, attempts and answers, each of a command's *)
(* records was stored or had nothing to change; and it gives up only if     *)
(* others stored as many records as it made attempts.  Nothing is said of a *)
(* command that ends with an error.  This for any jobs, processes, edits    *)
(* and number of attempts, with stores in windows, and with calls that      *)
(* fail.                                                                    *)
THEOREM OutcomesAreTrue == Spec => []OutcomeIsTrue
<1>. DEFINE Kept == Books /\ LandedFinite /\ Counts
<1>1. Init => Kept
  <2>1. Init => LandedFinite
    BY FS_EmptySet DEF Init, LandedFinite
  <2>2. Init => Counts
    BY DEF Init, Counts, CountInv
  <2>. QED
    BY <2>1, <2>2, BooksInit
<1>2. Inv /\ Kept /\ [Next]_vars => Kept'
  BY BooksStep, FiniteStep, CountsStep
<1>3. Inv /\ Kept => OutcomeIsTrue
  <2>. SUFFICES ASSUME Inv, Kept, NEW p \in Procs
                PROVE  /\ pc[p] = "ok" =>
                            \A job \in cmd[p].jobs : <<p, job>> \in landed \/ job \in cmd[p].same
                       /\ pc[p] = "gaveup" =>
                            Cardinality({ done \in landed : done[1] # p }) >= Attempts
    BY DEF OutcomeIsTrue
  <2>1. pc[p] = "ok" => \A job \in cmd[p].jobs : <<p, job>> \in landed \/ job \in cmd[p].same
    BY DEF Books, Book, AccountInv, Landed
  <2>2. CASE p \notin Writers
    BY <2>1, <2>2 DEF Counts, CountInv, Others
  <2>3. CASE p \in Writers
    BY <2>1, <2>3 DEF Books, Book, CleanInv
  <2>. QED
    BY <2>2, <2>3
<1>. HIDE DEF Kept
<1>. QED
  BY <1>1, <1>2, <1>3, InvHolds, PTL DEF Spec

-----------------------------------------------------------------------------
(* What a rename leaves in the old project *)

(* No command but the rename's has to do with the old project.              *)
NothingMovesToOld == Old # New /\ \A edit \in Edits : edit.project # Old

(* An item puts no record back into the old project, a rename's leaves none *)
(* there; but the first record of a task may get its array's project.       *)
LeavesOld(p, item) ==
  item.record.project = Old =>
    p \notin Renamers /\ (item.base = Absent \/ item.base.project = Old)

(* The jobs a rename is done with are out of the old project.               *)
Moved(p, jobs, same) ==
  p \in Renamers => \A job \in jobs :
    /\ store[job] # Absent
    /\ job \in Landed(p) \cup same => store[job].project # Old

OldInv(p) ==
  /\ cmd[p].edit.project # Old
  /\ p \in Renamers /\ pc[p] \in {"read", "send", "wait"} => cmd[p].edit.project = New
  /\ \A item \in Sent(p) : LeavesOld(p, item)
  /\ Moved(p, cmd[p].jobs, cmd[p].same)

OldInvs == \A p \in Procs \ Writers : OldInv(p)

LEMMA OldIsProject == Old \in Project /\ New \in Project /\ Old # Keep /\ New # Keep
BY CommandsAssumption, ValuesAssumption DEF Project

LEMMA EditedProject ==
  ASSUME NEW record \in Record, NEW edit \in Edit, NEW by
  PROVE  Edited(record, edit, by).project =
           IF edit.project = Keep THEN record.project ELSE edit.project
<1>. DEFINE new == WithValues(record, edit)
            project == IF edit.project = Keep THEN record.project ELSE edit.project
            logged == [new EXCEPT !.log = Append(@, by)]
            seen == [new EXCEPT !.reviewed = record.reviewed]
<1>1. record \in Records(Seq(Procs))
  BY DEF Record
<1>2. new \in Records(Seq(Procs))
  <2>. HIDE DEF new
  <2>. QED
    BY <1>1, WithValuesType DEF new
<1>3. new.project = project
  BY <1>1 DEF WithValues, Records
<1>4. logged.project = new.project /\ seen.project = new.project
  BY <1>2 DEF Records
<1>5. Edited(record, edit, by) = IF seen = record THEN record ELSE logged
  BY DEF Edited
<1>. HIDE DEF new, project, logged, seen
<1>6. Edited(record, edit, by).project = project
  BY <1>3, <1>4, <1>5
<1>. QED
  BY <1>6 DEF project

LEMMA EndOld ==
  ASSUME Inv, NEW p \in Procs, NEW result \in Ended, NEW named, NEW jobs, NEW same,
         End(p, result, named, jobs, same),
         script'[p] = script[p] \/ script'[p] = ScriptOf({}),
         \A item \in script[p].items : LeavesOld(p, item),
         UNCHANGED <<store, landed>>, Moved(p, jobs, same)
  PROVE  OldInv(p)'
<1>1. /\ pc'[p] = result /\ cmd'[p].plan = {} /\ cmd'[p].edit.project = Keep
      /\ cmd'[p].jobs = jobs /\ cmd'[p].same = same
  BY EndFields DEF Inv, NoEdit
<1>2. script'[p].items \subseteq script[p].items /\ result \notin {"read", "send", "wait"}
  BY ScriptOfFields DEF Ended
<1>3. Sent(p)' \subseteq script[p].items
  BY <1>1, <1>2 DEF Sent
<1>4. Moved(p, cmd'[p].jobs, cmd'[p].same)
  BY <1>1
<1>5. Moved(p, cmd[p].jobs, cmd[p].same)'
  BY <1>4 DEF Moved, Landed
<1>. QED
  BY <1>1, <1>2, <1>3, <1>5, OldIsProject DEF OldInv, LeavesOld

(* An attempt of a rename plans to move all that is pending in the old      *)
(* project; the others plan to move nothing there.                          *)
LEMMA AttemptOld ==
  ASSUME Inv, NothingMovesToOld, NEW p \in Procs \ Writers, NEW command \in Command,
         Attempt(p, command), script[p] = ScriptOf({}), UNCHANGED <<store, script, landed>>,
         command.edit.project # Old, p \in Renamers => command.edit.project = New,
         Moved(p, command.jobs, command.same)
  PROVE  OldInv(p)'
<1>. DEFINE jobs == { job \in command.pending : Concerns(p, job) }
            NewRecord(job) == Edited(Current(job), command.edit, p)
            toStore == { job \in jobs : NewRecord(job) # Current(job) }
            same == command.same \cup (command.pending \ toStore)
            planned(job) == [job |-> job, base |-> store[job], record |-> NewRecord(job)]
            plan == { planned(job) : job \in toStore }
<1>0. command.pending \subseteq Jobs /\ command.edit \in Edit
  BY DEF Command
<1>1. ASSUME NEW job \in command.pending
      PROVE  /\ Current(job) \in Record
             /\ NewRecord(job).project = IF command.edit.project = Keep
                                           THEN Current(job).project ELSE command.edit.project
             /\ store[job] # Absent => Current(job) = store[job]
  BY <1>0, CurrentType, EditedProject DEF Inv
<1>. HIDE DEF NewRecord
<1>2. \A item \in plan : LeavesOld(p, item)
  <2>1. ASSUME NEW job \in toStore PROVE LeavesOld(p, planned(job))
    <3>1. /\ planned(job).record = NewRecord(job) /\ planned(job).base = store[job]
          /\ job \in command.pending
      OBVIOUS
    <3>. HIDE DEF planned, toStore
    <3>. QED
      BY <1>1, <3>1, OldIsProject DEF LeavesOld, NothingMovesToOld
  <2>. QED
    BY <2>1
<1>3. Moved(p, command.jobs, same)
  <2>1. ASSUME p \in Renamers, NEW job \in command.pending \ toStore, store[job] # Absent,
               store[job].project = Old
        PROVE  FALSE
    <3>1. NewRecord(job).project = New /\ Current(job).project = Old
      BY <1>1, <2>1, OldIsProject
    <3>2. Concerns(p, job) /\ NewRecord(job) # Current(job)
      BY <2>1, <3>1 DEF Concerns, NothingMovesToOld
    <3>. QED
      BY <2>1, <3>2
  <2>. HIDE DEF toStore
  <2>. QED
    BY <2>1 DEF Moved
<1>4. CASE /\ pc' = [pc EXCEPT ![p] = "send"]
           /\ cmd' = [cmd EXCEPT ![p] = [command EXCEPT !.plan = plan, !.changed = {}, !.same = same]]
  <2>. HIDE DEF plan, same
  <2>. DEFINE next == [command EXCEPT !.plan = plan, !.changed = {}, !.same = same]
  <2>1. /\ next.plan = plan /\ next.same = same /\ next.jobs = command.jobs
        /\ next.edit = command.edit
    BY DEF Command
  <2>. HIDE DEF next
  <2>2. pc'[p] = "send" /\ cmd'[p] = next
    BY <1>4 DEF next, Inv, TypeOK
  <2>3. Sent(p)' = plan
    BY <2>1, <2>2, ScriptOfFields DEF Sent
  <2>4. Moved(p, cmd'[p].jobs, cmd'[p].same)
    BY <1>3, <2>1, <2>2
  <2>5. Moved(p, cmd[p].jobs, cmd[p].same)'
    BY <2>4 DEF Moved, Landed
  <2>. QED
    BY <1>2, <2>1, <2>2, <2>3, <2>5 DEF OldInv, LeavesOld
<1>5. CASE End(p, "ok", command.stored, command.jobs, same)
  <2>. HIDE DEF same
  <2>1. "ok" \in Ended /\ script[p].items = {}
    BY ScriptOfFields DEF Ended
  <2>. QED
    BY <1>3, <1>5, <2>1, EndOld
<1>6. CASE Fail(p, {})
  <2>. DEFINE named == IF p \in Renamers \/ (p \in Editors /\ pc[p] = "wait")
                         THEN cmd[p].stored \cup {} ELSE {}
  <2>1. End(p, "error", named, {}, {})
    BY <1>6 DEF Fail
  <2>2. "error" \in Ended /\ script[p].items = {} /\ Moved(p, {}, {})
    BY ScriptOfFields DEF Ended, Moved
  <2>. HIDE DEF named
  <2>. QED
    BY <2>1, <2>2, EndOld
<1>. QED
  BY <1>4, <1>5, <1>6 DEF Attempt, NewRecord

LEMMA SendOld ==
  ASSUME Inv, NEW p \in Procs, Book(p), OldInv(p), Send(p)
  PROVE  OldInv(p)'
<1>1. PICK batch \in SUBSET cmd[p].plan :
        /\ cmd' = [cmd EXCEPT ![p].plan = @ \ batch]
        /\ script' = [script EXCEPT ![p] = ScriptOf(batch)]
  BY DEF Send
<1>2. /\ cmd'[p].plan = cmd[p].plan \ batch
      /\ cmd'[p].edit = cmd[p].edit
      /\ cmd'[p].jobs = cmd[p].jobs /\ cmd'[p].same = cmd[p].same
  BY <1>1 DEF Inv, TypeOK, Command
<1>3. script'[p].items = batch
  BY <1>1, ScriptOfFields DEF Inv, TypeOK
<1>4. pc[p] = "send" /\ pc'[p] = "wait" /\ UNCHANGED <<store, landed>>
  BY DEF Send, Goto, Inv, TypeOK
<1>5. Sent(p)' \subseteq Sent(p)
  BY <1>2, <1>3 DEF Sent
<1>. QED
  BY <1>2, <1>4, <1>5 DEF OldInv, LeavesOld, Moved, Landed

LEMMA ReplyOld ==
  ASSUME Inv, NEW p \in Procs, OldInv(p), Reply(p)
  PROVE  OldInv(p)'
<1>. DEFINE changed == cmd[p].changed \cup script[p].changed
            stored == cmd[p].stored \cup script[p].stored
<1>0. /\ pc[p] = "wait" /\ script[p].items = {} /\ UNCHANGED <<store, landed>>
      /\ script' = [script EXCEPT ![p] = ScriptOf({})]
  BY DEF Reply, Answered
<1>1. /\ cmd[p] \in Command /\ script'[p] = ScriptOf({}) /\ script'[p].items = {}
      /\ \A item \in script[p].items : LeavesOld(p, item)
  BY <1>0, ScriptOfFields DEF Inv, TypeOK
<1>. HIDE DEF changed, stored
<1>2. CASE /\ pc' = [pc EXCEPT ![p] = "send"]
           /\ cmd' = [cmd EXCEPT ![p].changed = changed, ![p].stored = stored]
  <2>1. /\ pc'[p] = "send" /\ cmd'[p].plan = cmd[p].plan /\ cmd'[p].edit = cmd[p].edit
        /\ cmd'[p].jobs = cmd[p].jobs /\ cmd'[p].same = cmd[p].same
    BY <1>1, <1>2 DEF Inv, TypeOK, Command
  <2>2. Sent(p)' \subseteq Sent(p)
    BY <1>1, <2>1 DEF Sent
  <2>. QED
    BY <1>0, <2>1, <2>2 DEF OldInv, LeavesOld, Moved, Landed
<1>3. CASE /\ pc' = [pc EXCEPT ![p] = "read"]
           /\ cmd' = [cmd EXCEPT ![p].pending = changed, ![p].attempt = @ + 1, ![p].stored = stored]
  <2>1. /\ pc'[p] = "read" /\ cmd'[p].plan = cmd[p].plan /\ cmd'[p].edit = cmd[p].edit
        /\ cmd'[p].jobs = cmd[p].jobs /\ cmd'[p].same = cmd[p].same
    BY <1>1, <1>3 DEF Inv, TypeOK, Command
  <2>2. Sent(p)' \subseteq Sent(p)
    BY <1>1, <2>1 DEF Sent
  <2>. QED
    BY <1>0, <2>1, <2>2 DEF OldInv, LeavesOld, Moved, Landed
<1>4. CASE End(p, "gaveup", IF p \in Renamers THEN stored ELSE {}, {}, {})
  <2>1. "gaveup" \in Ended /\ Moved(p, {}, {})
    BY DEF Ended, Moved
  <2>. QED
    BY <1>0, <1>1, <1>4, <2>1, EndOld
<1>5. CASE End(p, "ok", stored, cmd[p].jobs, cmd[p].same)
  <2>1. "ok" \in Ended /\ Moved(p, cmd[p].jobs, cmd[p].same)
    BY DEF Ended, OldInv
  <2>. QED
    BY <1>0, <1>1, <1>5, <2>1, EndOld
<1>. QED
  BY <1>2, <1>3, <1>4, <1>5 DEF Reply, Answered, changed, stored

LEMMA ClientOld ==
  ASSUME Inv, NothingMovesToOld, NEW p \in Procs \ Writers, Book(p), OldInv(p),
         \/ p \notin Renamers /\ EditJobs(p)
         \/ p \in Renamers /\ RenameProject(p)
         \/ Store(p) \/ CallFails(p)
  PROVE  OldInv(p)'
<1>1. CASE p \notin Renamers /\ EditJobs(p)
  <2>1. PICK jobs \in Targets, edit \in Edits :
          Attempt(p, [NoCommand EXCEPT !.edit = edit, !.pending = jobs, !.jobs = jobs])
    BY <1>1 DEF EditJobs
  <2>. DEFINE command == [NoCommand EXCEPT !.edit = edit, !.pending = jobs, !.jobs = jobs]
  <2>2. command \in Command /\ command.edit = edit
    BY CommandsAssumption, NoCommandType DEF Command, NoCommand
  <2>3. script[p] = ScriptOf({}) /\ UNCHANGED <<store, script, landed>>
    BY <1>1 DEF EditJobs, Book, CleanInv
  <2>4. Attempt(p, command)
    BY <2>1
  <2>. HIDE DEF command
  <2>5. p \notin Renamers /\ Moved(p, command.jobs, command.same)
    BY <1>1 DEF Moved
  <2>. QED
    BY <2>2, <2>3, <2>4, <2>5, AttemptOld DEF NothingMovesToOld
<1>2. CASE p \in Renamers /\ RenameProject(p)
  <2>. DEFINE jobs == { job \in Jobs : store[job] # Absent }
              edit == [NoEdit EXCEPT !.project = New]
              command == [NoCommand EXCEPT !.edit = edit, !.pending = jobs, !.jobs = jobs]
  <2>1. Attempt(p, command)
    BY <1>2 DEF RenameProject
  <2>2. jobs \in SUBSET Jobs /\ edit \in Edit /\ edit.project = New
    BY CommandsAssumption DEF NoEdit, Edit, Project
  <2>3. \A job \in jobs : store[job] # Absent
    OBVIOUS
  <2>. HIDE DEF jobs, edit
  <2>4. /\ command \in Command /\ command.edit = edit
        /\ command.jobs = jobs /\ command.same = {}
    BY <2>2, NoCommandType DEF Command, NoCommand
  <2>5. script[p] = ScriptOf({}) /\ Landed(p) = {} /\ UNCHANGED <<store, script, landed>>
    BY <1>2 DEF RenameProject, Book, CleanInv
  <2>. HIDE DEF command
  <2>6. Moved(p, command.jobs, command.same)
    BY <2>3, <2>4, <2>5 DEF Moved
  <2>. QED
    BY <2>1, <2>2, <2>4, <2>5, <2>6, AttemptOld DEF NothingMovesToOld
<1>3. CASE Retry(p)
  <2>1. /\ pc[p] = "read" /\ Attempt(p, cmd[p]) /\ UNCHANGED <<store, script, landed>>
    BY <1>3 DEF Retry
  <2>2. /\ cmd[p] \in Command /\ script[p] = ScriptOf({})
        /\ cmd[p].edit.project # Old
        /\ p \in Renamers => cmd[p].edit.project = New
        /\ Moved(p, cmd[p].jobs, cmd[p].same)
    BY <2>1 DEF Inv, TypeOK, Book, CleanInv, OldInv
  <2>. QED
    BY <2>1, <2>2, AttemptOld
<1>4. CASE CallFails(p)
  <2>1. PICK named : End(p, "error", named, {}, {})
    BY <1>4 DEF CallFails, Fail
  <2>2. "error" \in Ended /\ Moved(p, {}, {}) /\ UNCHANGED <<store, script, landed>>
    BY <1>4 DEF Ended, Moved, CallFails
  <2>3. \A item \in script[p].items : LeavesOld(p, item)
    BY DEF OldInv, Sent
  <2>. QED
    BY <2>1, <2>2, <2>3, EndOld
<1>. QED
  BY <1>1, <1>2, <1>3, <1>4, SendOld, ReplyOld DEF Store

(* Without a window, a script stores a record only over the version it was  *)
(* made from.                                                               *)
LEMMA StoresOnBase ==
  ASSUME Inv, WritersSendFirst, Window = FALSE, NEW q \in Procs, Book(q), RecordsScript(q)
  PROVE  \/ UNCHANGED <<store, landed>>
         \/ \E item \in script[q].items : Stores(q, item) /\ store[item.job] = item.base
<1>1. CASE WriteRecord(q)
  BY <1>1 DEF WriteRecord, WritersSendFirst, Refuses
<1>2. CASE CheckVersion(q)
  BY <1>2 DEF CheckVersion, Refuses
<1>3. CASE MoveRecord(q)
  BY <1>3 DEF MoveRecord, Inv, ItemsSound
<1>4. CASE ScriptDies(q)
  BY <1>4 DEF ScriptDies
<1>. QED
  BY <1>1, <1>2, <1>3, <1>4 DEF RecordsScript

(* No record is deleted, and none comes back into the old project.          *)
StaysOut ==
  \A job \in Jobs : store[job] # Absent =>
    store'[job] # Absent /\ (store[job].project # Old => store'[job].project # Old)

LEMMA StoresStaysOut ==
  ASSUME Inv, WritersSendFirst, OldInvs, NEW q \in Procs, NEW item \in script[q].items,
         Stores(q, item), store[item.job] = item.base
  PROVE  StaysOut
<1>1. /\ item \in Item /\ item.record # Absent
      /\ store' = [store EXCEPT ![item.job] = item.record]
  BY ItemsType, AbsentAssumption DEF Stores, Item
<1>2. item.base # Absent => LeavesOld(q, item)
  BY DEF WritersSendFirst, OldInvs, OldInv, Sent
<1>. QED
  BY <1>1, <1>2 DEF StaysOut, LeavesOld, Inv, TypeOK

(* Another process's step, and a step of the script.                        *)
LEMMA OthersOld ==
  ASSUME Inv, NEW p \in Procs \ Writers, OldInv(p), StaysOut,
         pc'[p] = pc[p], cmd'[p] = cmd[p], script'[p] = script[p], Landed(p)' = Landed(p)
  PROVE  OldInv(p)'
<1>1. Sent(p)' = Sent(p) /\ cmd[p].jobs \subseteq Jobs
  BY DEF Sent, Inv, TypeOK, Command
<1>2. Moved(p, cmd[p].jobs, cmd[p].same)'
  BY <1>1 DEF OldInv, Moved, StaysOut
<1>. QED
  BY <1>1, <1>2 DEF OldInv, LeavesOld

LEMMA ScriptOld ==
  ASSUME Inv, WritersSendFirst, OldInvs, Window = FALSE, NEW p \in Procs \ Writers, Book(p),
         RecordsScript(p)
  PROVE  OldInv(p)'
<1>0. /\ UNCHANGED clientVars /\ pc' = pc /\ cmd' = cmd
      /\ OldInv(p) /\ cmd[p].jobs \subseteq Jobs
  BY DEF RecordsScript, WriteRecord, CheckVersion, MoveRecord, ScriptDies, clientVars, OldInvs,
     Inv, TypeOK, Command
<1>1. script'[p].items \subseteq script[p].items
  BY WriteRecordEffect, CheckVersionEffect, MoveRecordEffect, ScriptDiesEffect
     DEF RecordsScript, ScriptEffect
<1>2. \A item \in Sent(p)' : LeavesOld(p, item)
  BY <1>0, <1>1 DEF Sent, OldInv
<1>3. CASE UNCHANGED <<store, landed>>
  BY <1>0, <1>2, <1>3 DEF OldInv, Moved, Landed, LeavesOld
<1>4. ASSUME NEW item \in script[p].items, Stores(p, item), store[item.job] = item.base
      PROVE  OldInv(p)'
  <2>1. StaysOut
    BY <1>4, StoresStaysOut
  <2>2. /\ item.job \in Jobs /\ store'[item.job] = item.record
        /\ Landed(p)' = Landed(p) \cup {item.job}
    BY <1>0, <1>4, ItemsType, StoresBook DEF Item, Stores, Inv, TypeOK
  <2>3. p \in Renamers => item.record.project # Old
    BY <1>0 DEF OldInv, LeavesOld, Sent
  <2>4. Moved(p, cmd[p].jobs, cmd[p].same)'
    BY <1>0, <2>1, <2>2, <2>3 DEF OldInv, Moved, StaysOut
  <2>. QED
    BY <1>0, <1>2, <2>4 DEF OldInv, LeavesOld
<1>. QED
  BY <1>3, <1>4, StoresOnBase

LEMMA OldInvsStep ==
  ASSUME Window = FALSE, NothingMovesToOld
  PROVE  Inv /\ WritersSendFirst /\ Books /\ OldInvs /\ [Next]_vars => OldInvs'
<1>. SUFFICES ASSUME Inv, WritersSendFirst, Books, OldInvs, [Next]_vars, NEW p \in Procs \ Writers
              PROVE  OldInv(p)'
  BY DEF OldInvs
<1>1. OldInv(p)
  BY DEF OldInvs
<1>2. CASE UNCHANGED vars
  BY <1>1, <1>2, OthersOld DEF vars, clientVars, Landed, StaysOut
<1>3. ASSUME NEW q \in Procs, StepOf(q) PROVE OldInv(p)'
  <2>0. Book(q)
    BY DEF Books
  <2>1. CASE RecordsScript(q)
    <3>1. StaysOut
      BY <2>0, <2>1, StoresOnBase, StoresStaysOut DEF StaysOut
    <3>. QED
      BY <1>1, <1>3, <2>0, <2>1, <3>1, ScriptOld, OthersUntouched, OthersOld
  <2>2. CASE ~RecordsScript(q) /\ q # p
    <3>1. UNCHANGED store
      BY <1>3, <2>2 DEF StepOf, Run, Store, WriteFirst, WriteDone, EditJobs, RenameProject, Retry,
         Send, Reply, Answered, CallFails
    <3>. QED
      BY <1>1, <1>3, <2>2, <3>1, OthersUntouched, OthersOld DEF StaysOut
  <2>3. CASE ~RecordsScript(q) /\ q = p
    BY <1>1, <1>3, <2>0, <2>3, ClientOld DEF StepOf
  <2>. QED
    BY <2>1, <2>2, <2>3
<1>. QED
  BY <1>2, <1>3, NextIsStepOf

LEMMA OldInvsInit == Init => OldInvs
<1>. SUFFICES ASSUME Init, NEW p \in Procs PROVE OldInv(p)
  BY DEF OldInvs
<1>1. pc[p] = "start" /\ cmd[p] = NoCommand /\ script[p].items = {}
  BY ScriptOfFields DEF Init
<1>2. /\ cmd[p].plan = {} /\ cmd[p].jobs = {} /\ cmd[p].edit.project = Keep
  BY <1>1 DEF NoCommand, NoEdit
<1>. QED
  BY <1>1, <1>2, OldIsProject DEF OldInv, Sent, Moved

(* A rename that ends with success (rename_project) leaves no record it     *)
(* found in the old project there, however records are edited, written and  *)
(* retried meanwhile and calls fail, if no store slips into a window and no *)
(* edit moves a job to the old project meanwhile.                           *)
THEOREM RenamesCompletely ==
  ASSUME Window = FALSE, Old # New, \A edit \in Edits : edit.project # Old
  PROVE  Spec => []RenameComplete
<1>1. NothingMovesToOld
  BY DEF NothingMovesToOld
<1>2. Inv /\ WritersSendFirst /\ Books /\ OldInvs /\ [Next]_vars => OldInvs'
  BY <1>1, OldInvsStep
<1>3. Books /\ OldInvs => RenameComplete
  <2>. SUFFICES ASSUME Books, OldInvs, NEW p \in Renamers, pc[p] = "ok", NEW job \in cmd[p].jobs
                PROVE  store[job].project # Old
    BY DEF RenameComplete
  <2>1. Book(p) /\ OldInv(p)
    BY ProcsAssumption DEF Books, OldInvs
  <2>. QED
    BY <2>1 DEF Book, AccountInv, OldInv, Moved
<1>. QED
  BY <1>2, <1>3, OldInvsInit, InvHolds, WritersHold, BooksHold, PTL DEF Spec
=============================================================================
