-------------------------- MODULE HostKeyPin_proofs --------------------------
(***************************************************************************)
(* Proofs about HostKeyPin: for any keys, files, notes and processes, and  *)
(* with any calls failing and processes killed, only agreed keys are       *)
(* pinned, a refusal changes nothing, and what was pinned, noted and       *)
(* backed up lasts until something is written in the middle of an edit.    *)
(***************************************************************************)
EXTENDS HostKeyPin, TLAPS


(* What a process knows at each point, and who can be there.               *)
Known(p) ==
  /\ pc[p] \in {"check", "scan", "judge", "plan"} => st[p].text \in Text
  /\ pc[p] \in {"judge", "show", "ask"} => st[p].offered \in Keys
  /\ pc[p] \in {"confirm", "copy", "write", "note"} => st[p].plan \in Text
  /\ pc[p] \in {"check", "scan", "judge", "show", "ask", "load", "plan", "remove", "append"} => p \in Pinners
  /\ pc[p] \in {"confirm", "note"} => p \notin Pinners

(* What the user was asked survives to the pinning, and so does MayPin.     *)
Agreed(p) ==
  /\ st[p].again => (st[p].replace => st[p].person)
  /\ pc[p] \in {"plan"} \cup Editing => st[p].again /\ MayPin(p) /\ st[p].offered \in Keys

NothingWritten(p) == p \in wrote => pc[p] \in {"append", "copy", "write", "ok", "added", "error"}

(* Undisturbed, an edit is still the edit of the config and key file as     *)
(* they are.                                                                *)
PinFresh(p) ==
  /\ pc[p] \in {"remove", "append", "copy", "write"} => st[p].plan = PlanOf(config, st[p].file)
  /\ pc[p] = "append" => keys[st[p].file] = {}
  /\ pc[p] \in {"copy", "write"} => keys[st[p].file] = {st[p].offered}

EditFresh(p) ==
  /\ pc[p] \in {"confirm", "copy", "write"} /\ p \notin Pinners => st[p].plan = Migrated(config)
  /\ pc[p] = "note" => st[p].plan = Noted(config, p)
  /\ pc[p] = "write" => bak = config

Inv ==
  /\ TypeOK
  /\ \A p \in Procs : Known(p) /\ NothingWritten(p)
  /\ \A p \in Pinners : Agreed(p)
  /\ ~disturbed => /\ \A p \in Pinners : PinFresh(p)
                   /\ \A p \in Procs : EditFresh(p)
                   /\ LaterLoginsAcceptOnlyIt
                   /\ \A n \in Noters : pc[n] = "added" => n \in config.notes

-----------------------------------------------------------------------------
(* Only a process's own step changes what it knows and where it is.         *)
Moves(p, to, new) ==
  /\ pc' = [pc EXCEPT ![p] = to]
  /\ st' = [st EXCEPT ![p] = new]

(* No file and no ghost is touched.                                         *)
Quiet == UNCHANGED <<configVars, hostVars, handEdits, ghosts>>

(* The texts of edits are texts, and NoText is none.                        *)
LEMMA TextFacts ==
  /\ NoText \notin Text
  /\ \A text \in Text : Migrated(text) \in Text
  /\ \A text \in Text, note \in Notes : Noted(text, note) \in Text
  /\ \A text \in Text, file \in Files : Pinned(text, file) \in Text
BY DEF NoText, Text, Migrated, Noted, Pinned

LEMMA PlanFacts ==
  ASSUME NEW text \in Text, NEW file \in Files
  PROVE  PlanOf(text, file) \in Text \cup {NoText}
BY TextFacts DEF PlanOf

LEMMA NoStateFacts ==
  /\ NoState \in State
  /\ NoState.again = FALSE
BY PinKeysAssumption DEF NoState, State

(* A quiet step keeps the invariant if the process's own part of it holds.  *)
LEMMA QuietStep ==
  ASSUME Inv, NEW p \in Procs, NEW to \in Point \ {"added"}, NEW new \in State,
         Quiet, Moves(p, to, new),
         Known(p)', NothingWritten(p)', p \in Pinners => Agreed(p)',
         ~disturbed => EditFresh(p)' /\ (p \in Pinners => PinFresh(p)')
  PROVE  Inv'
PROOF
<1>1. /\ config' = config /\ bak' = bak /\ server' = server /\ keys' = keys
      /\ handEdits' = handEdits /\ disturbed' = disturbed /\ pin' = pin /\ wrote' = wrote
  BY DEF Quiet, configVars, hostVars, ghosts
<1>2. /\ pc \in [Procs -> Point] /\ st \in [Procs -> State]
      /\ pc'[p] = to /\ st'[p] = new
      /\ \A q \in Procs \ {p} : pc'[q] = pc[q] /\ st'[q] = st[q]
  BY DEF Inv, TypeOK, Moves
<1>3. TypeOK'
  BY <1>1, <1>2 DEF Inv, TypeOK, ConfigTypeOK, HostTypeOK, Moves
<1>4. \A q \in Procs : Known(q)' /\ NothingWritten(q)'
  BY <1>1, <1>2 DEF Inv, Known, NothingWritten
<1>5. \A q \in Pinners : Agreed(q)'
  BY <1>1, <1>2 DEF Inv, Agreed, MayPin, Procs
<1>6. ASSUME ~disturbed' PROVE (\A q \in Pinners : PinFresh(q)') /\ (\A q \in Procs : EditFresh(q)')
  BY <1>1, <1>2, <1>6 DEF Inv, PinFresh, EditFresh, Procs
<1>7. ASSUME ~disturbed'
      PROVE  LaterLoginsAcceptOnlyIt' /\ \A n \in Noters : pc'[n] = "added" => n \in config'.notes
  BY <1>1, <1>2, <1>7 DEF Inv, LaterLoginsAcceptOnlyIt, Procs
<1> QED
  BY <1>3, <1>4, <1>5, <1>6, <1>7 DEF Inv

(* A command that ends without a write of its own.                          *)
LEMMA QuietEnd ==
  ASSUME Inv, NEW p \in Procs, NEW from, NEW to \in {"nothing", "error"},
         End(p, from, to), Quiet, to = "nothing" => p \notin wrote
  PROVE  Inv'
PROOF
<1>1. Moves(p, to, NoState) /\ to \in Point \ {"added"}
  BY DEF End, Goto, Learn, Moves, Point, Ended
<1>2. pc'[p] = to /\ st'[p] = NoState /\ wrote' = wrote
  BY DEF Inv, TypeOK, End, Goto, Learn, Quiet, ghosts
<1>3. Known(p)' /\ NothingWritten(p)' /\ Agreed(p)' /\ EditFresh(p)' /\ PinFresh(p)'
  BY <1>2, NoStateFacts DEF Known, NothingWritten, Agreed, EditFresh, PinFresh, Editing
<1> QED
  BY <1>1, <1>3, NoStateFacts, QuietStep

-----------------------------------------------------------------------------
(* The steps of hostkey --pin that write nothing *)

(* What the invariant says of a process that is at a point before editing.  *)
LEMMA Before ==
  ASSUME Inv, NEW p \in Procs, pc[p] \in {"start", "check", "scan", "judge", "show", "ask", "load", "plan"}
  PROVE  p \notin wrote /\ st[p] \in State /\ config \in Text /\ server \in Keys
BY DEF Inv, NothingWritten, TypeOK, ConfigTypeOK, HostTypeOK

LEMMA LoadConfigKeepsInv == ASSUME Inv, NEW p \in Pinners, LoadConfig(p) PROVE Inv'
PROOF
<1> p \in Procs /\ Quiet
  BY DEF Procs, LoadConfig, Quiet
<1> DEFINE new == [st[p] EXCEPT !.text = config]
<1>1. CASE Moves(p, "check", new) /\ pc[p] \in {"start", "load"}
  <2>1. new \in State /\ new.text \in Text /\ new.again = st[p].again /\ new.replace = st[p].replace
        /\ new.person = st[p].person
    BY <1>1, Before DEF State
  <2>2. pc'[p] = "check" /\ st'[p] = new /\ wrote' = wrote
    BY <1>1 DEF Inv, TypeOK, Moves, Quiet, ghosts
  <2>3. Known(p)' /\ NothingWritten(p)' /\ Agreed(p)' /\ EditFresh(p)' /\ PinFresh(p)'
    BY <1>1, <2>1, <2>2, Before DEF Inv, Known, NothingWritten, Agreed, EditFresh, PinFresh, Editing
  <2> QED
    BY <1>1, <2>1, <2>3, QuietStep DEF Point
<1>2. CASE End(p, "start", "nothing") \/ End(p, "load", "nothing")
  BY <1>2, Before, QuietEnd DEF End, Goto
<1> QED
  BY <1>1, <1>2 DEF LoadConfig, Goto, Learn, Moves

LEMMA CheckKeepsInv == ASSUME Inv, NEW p \in Pinners, Check(p) PROVE Inv'
PROOF
<1> p \in Procs /\ Quiet
  BY DEF Procs, Check, Quiet
<1> DEFINE new == [st[p] EXCEPT !.seen = server, !.trust = Verdict(st[p].text, server)]
<1>1. Moves(p, "scan", new) /\ pc[p] = "check"
  BY DEF Check, Goto, Learn, Moves
<1>2. Verdict(st[p].text, server) \in {"known", "new", "changed"}
  BY DEF Verdict
<1>3. new \in State /\ new.again = st[p].again /\ new.replace = st[p].replace /\ new.person = st[p].person
  BY <1>1, <1>2, Before DEF State
<1>4. pc'[p] = "scan" /\ st'[p] = new /\ wrote' = wrote
  BY <1>1 DEF Inv, TypeOK, Moves, Quiet, ghosts
<1>5. Known(p)' /\ NothingWritten(p)' /\ Agreed(p)' /\ EditFresh(p)' /\ PinFresh(p)'
  BY <1>1, <1>3, <1>4, Before DEF Inv, Known, NothingWritten, Agreed, EditFresh, PinFresh, Editing
<1> QED
  BY <1>1, <1>3, <1>5, QuietStep DEF Point

LEMMA ScanKeepsInv == ASSUME Inv, NEW p \in Pinners, Scan(p) PROVE Inv'
PROOF
<1> p \in Procs /\ Quiet
  BY DEF Procs, Scan, Quiet
<1> DEFINE new == [st[p] EXCEPT !.offered = server]
<1>1. CASE Moves(p, "judge", new) /\ pc[p] = "scan"
  <2>1. new \in State /\ new.offered \in Keys /\ new.again = st[p].again /\ new.replace = st[p].replace
        /\ new.person = st[p].person
    BY <1>1, Before DEF State
  <2>2. pc'[p] = "judge" /\ st'[p] = new /\ wrote' = wrote
    BY <1>1 DEF Inv, TypeOK, Moves, Quiet, ghosts
  <2>3. Known(p)' /\ NothingWritten(p)' /\ Agreed(p)' /\ EditFresh(p)' /\ PinFresh(p)'
    BY <1>1, <2>1, <2>2, Before DEF Inv, Known, NothingWritten, Agreed, EditFresh, PinFresh, Editing
  <2> QED
    BY <1>1, <2>1, <2>3, QuietStep DEF Point
<1>2. CASE End(p, "scan", "nothing")
  BY <1>2, Before, QuietEnd DEF End, Goto
<1> QED
  BY <1>1, <1>2 DEF Scan, Goto, Learn, Moves

LEMMA JudgeKeepsInv ==
  ASSUME Inv, NEW p \in Pinners, JudgeShown(p) \/ JudgeAgain(p) PROVE Inv'
PROOF
<1> p \in Procs /\ Quiet
  BY DEF Procs, JudgeShown, JudgeAgain, Quiet
<1>1. CASE End(p, "judge", "nothing")
  BY <1>1, Before, QuietEnd DEF End, Goto
<1>2. ASSUME pc[p] = "judge", UNCHANGED st, NEW to \in {"show", "plan"}, pc' = [pc EXCEPT ![p] = to],
             to = "plan" => st[p].again /\ MayPin(p)
      PROVE  Inv'
  <2>1. Moves(p, to, st[p]) /\ st[p] \in State
    BY <1>2, Before DEF Moves, Inv, TypeOK
  <2>2. pc'[p] = to /\ st'[p] = st[p] /\ wrote' = wrote
    BY <1>2 DEF Inv, TypeOK, Quiet, ghosts
  <2>3. Known(p)' /\ NothingWritten(p)' /\ Agreed(p)' /\ EditFresh(p)' /\ PinFresh(p)'
    BY <1>2, <2>2, Before
       DEF Inv, Known, NothingWritten, Agreed, MayPin, EditFresh, PinFresh, Editing
  <2> QED
    BY <1>2, <2>1, <2>3, QuietStep DEF Point
<1> QED
  BY <1>1, <1>2 DEF JudgeShown, JudgeAgain, Goto

LEMMA ShowKeepsInv == ASSUME Inv, NEW p \in Pinners, Show(p) PROVE Inv'
PROOF
<1> p \in Procs /\ Quiet
  BY DEF Procs, Show, Quiet
<1>1. CASE pc[p] = "show" /\ pc' = [pc EXCEPT ![p] = "ask"] /\ UNCHANGED st
  <2>1. Moves(p, "ask", st[p]) /\ st[p] \in State
    BY <1>1, Before DEF Moves, Inv, TypeOK
  <2>2. pc'[p] = "ask" /\ st'[p] = st[p] /\ wrote' = wrote
    BY <1>1 DEF Inv, TypeOK, Quiet, ghosts
  <2>3. Known(p)' /\ NothingWritten(p)' /\ Agreed(p)' /\ EditFresh(p)' /\ PinFresh(p)'
    BY <1>1, <2>2, Before DEF Inv, Known, NothingWritten, Agreed, EditFresh, PinFresh, Editing
  <2> QED
    BY <2>1, <2>3, QuietStep DEF Point
<1>2. CASE End(p, "show", "nothing")
  BY <1>2, Before, QuietEnd DEF End, Goto
<1> QED
  BY <1>1, <1>2 DEF Show, Goto

(* Only a person agrees to replace: the one place where it is decided.      *)
LEMMA AskKeepsInv == ASSUME Inv, NEW p \in Pinners, Ask(p) PROVE Inv'
PROOF
<1> p \in Procs /\ Quiet
  BY DEF Procs, Ask, Quiet
<1>1. ASSUME pc[p] = "ask", NEW person \in BOOLEAN, person \/ st[p].trust # "changed",
             Moves(p, "load", [NoState EXCEPT !.told = st[p].offered, !.person = person, !.again = TRUE,
                                              !.replace = (st[p].trust = "changed")])
      PROVE  Inv'
  <2> DEFINE new == [NoState EXCEPT !.told = st[p].offered, !.person = person, !.again = TRUE,
                                    !.replace = (st[p].trust = "changed")]
  <2>1. st[p].offered \in Keys
    BY <1>1 DEF Inv, Known
  <2>2. new \in State /\ (new.replace => new.person)
    BY <1>1, <2>1, NoStateFacts DEF State, NoState
  <2>3. pc'[p] = "load" /\ st'[p] = new /\ wrote' = wrote
    BY <1>1 DEF Inv, TypeOK, Moves, Quiet, ghosts
  <2>4. Known(p)' /\ NothingWritten(p)' /\ Agreed(p)' /\ EditFresh(p)' /\ PinFresh(p)'
    BY <1>1, <2>2, <2>3, Before DEF Inv, Known, NothingWritten, Agreed, EditFresh, PinFresh, Editing
  <2> QED
    BY <1>1, <2>2, <2>4, QuietStep DEF Point
<1>2. CASE End(p, "ask", "nothing")
  BY <1>2, Before, QuietEnd DEF End, Goto
<1> QED
  BY <1>1, <1>2 DEF Ask, Goto, Learn, Moves

(* The plan is fresh as it is made.                                         *)
LEMMA PlanKeepsInv == ASSUME Inv, NEW p \in Pinners, Plan(p) PROVE Inv'
PROOF
<1> p \in Procs /\ Quiet
  BY DEF Procs, Plan, Quiet
<1> DEFINE file == TargetFile(st[p].text)
           new == [st[p] EXCEPT !.file = file, !.plan = PlanOf(config, file), !.text = NoText]
<1>1. CASE pc[p] = "plan" /\ Moves(p, "remove", new)
  <2>1. st[p].text \in Text /\ file \in Files
    BY <1>1, PinKeysAssumption DEF Inv, Known, TargetFile, Text
  <2>2. new \in State /\ new.again = st[p].again /\ new.replace = st[p].replace
        /\ new.person = st[p].person /\ new.offered = st[p].offered /\ new.told = st[p].told
        /\ new.trust = st[p].trust /\ new.plan = PlanOf(config, new.file)
    <3>1. st[p] \in State /\ config \in Text /\ PlanOf(config, file) \in Text \cup {NoText}
      BY <1>1, <2>1, Before, PlanFacts
    <3> HIDE DEF file
    <3> QED
      BY <2>1, <3>1 DEF State
  <2>3. pc'[p] = "remove" /\ st'[p] = new /\ wrote' = wrote /\ config' = config
    BY <1>1 DEF Inv, TypeOK, Moves, Quiet, ghosts, configVars
  <2>4. Agreed(p) /\ p \notin wrote
    BY <1>1, Before DEF Inv
  <2> HIDE DEF new
  <2>5. Known(p)' /\ NothingWritten(p)' /\ EditFresh(p)'
    BY <1>1, <2>3, <2>4 DEF Known, NothingWritten, EditFresh
  <2>6. Agreed(p)'
    BY <1>1, <2>2, <2>3, <2>4 DEF Agreed, MayPin, Editing
  <2>7. PinFresh(p)'
    BY <2>2, <2>3 DEF PinFresh
  <2> QED
    BY <1>1, <2>2, <2>5, <2>6, <2>7, QuietStep DEF Point, Editing
<1>2. CASE End(p, "plan", "nothing")
  BY <1>2, Before, QuietEnd DEF End, Goto
<1> QED
  BY <1>1, <1>2 DEF Plan, Goto, Learn, Moves

-----------------------------------------------------------------------------
(* The steps of note and config --migrate that write nothing *)

LEMMA ReadForNoteKeepsInv == ASSUME Inv, NEW n \in Noters, ReadForNote(n) PROVE Inv'
PROOF
<1> n \in Procs /\ n \notin Pinners /\ n \in Notes /\ Quiet
  BY PinProcsAssumption DEF Procs, ReadForNote, Quiet
<1> DEFINE new == [st[n] EXCEPT !.plan = Noted(config, n)]
<1>1. CASE pc[n] = "start" /\ Moves(n, "note", new)
  <2>1. Noted(config, n) \in Text
    BY <1>1, Before, TextFacts
  <2>2. new \in State /\ new.plan = Noted(config, n) /\ new.again = st[n].again
    BY <1>1, <2>1, Before DEF State
  <2>3. pc'[n] = "note" /\ st'[n] = new /\ wrote' = wrote /\ config' = config
    BY <1>1 DEF Inv, TypeOK, Moves, Quiet, ghosts, configVars
  <2> HIDE DEF new
  <2>4. Known(n)' /\ NothingWritten(n)'
    BY <1>1, <2>1, <2>2, <2>3, Before DEF Known, NothingWritten
  <2>5. EditFresh(n)'
    BY <2>2, <2>3 DEF EditFresh, Noted
  <2> QED
    BY <1>1, <2>2, <2>4, <2>5, QuietStep DEF Point, Editing
<1>2. CASE End(n, "start", "nothing")
  BY <1>2, Before, QuietEnd DEF End, Goto
<1> QED
  BY <1>1, <1>2 DEF ReadForNote, Goto, Learn, Moves

LEMMA PlanMigrationKeepsInv == ASSUME Inv, NEW m \in Migrators, PlanMigration(m) PROVE Inv'
PROOF
<1> m \in Procs /\ m \notin Pinners /\ Quiet
  BY PinProcsAssumption DEF Procs, PlanMigration, Quiet
<1> DEFINE new == [st[m] EXCEPT !.plan = Migrated(config)]
<1>1. CASE pc[m] = "start" /\ Moves(m, "confirm", new)
  <2>1. Migrated(config) \in Text
    BY <1>1, Before, TextFacts
  <2>2. new \in State /\ new.plan = Migrated(config)
    BY <1>1, <2>1, Before DEF State
  <2>3. pc'[m] = "confirm" /\ st'[m] = new /\ wrote' = wrote /\ config' = config
    BY <1>1 DEF Inv, TypeOK, Moves, Quiet, ghosts, configVars
  <2> HIDE DEF new
  <2>4. Known(m)' /\ NothingWritten(m)'
    BY <1>1, <2>1, <2>2, <2>3, Before DEF Known, NothingWritten
  <2>5. EditFresh(m)'
    BY <2>2, <2>3 DEF EditFresh, Migrated
  <2> QED
    BY <1>1, <2>2, <2>4, <2>5, QuietStep DEF Point, Editing
<1>2. CASE End(m, "start", "nothing")
  BY <1>2, Before, QuietEnd DEF End, Goto
<1> QED
  BY <1>1, <1>2 DEF PlanMigration, Goto, Learn, Moves

LEMMA ConfirmMigrationKeepsInv == ASSUME Inv, NEW m \in Migrators, ConfirmMigration(m) PROVE Inv'
PROOF
<1> m \in Procs /\ m \notin Pinners /\ Quiet
  BY PinProcsAssumption DEF Procs, ConfirmMigration, Quiet
<1>1. CASE pc[m] = "confirm" /\ pc' = [pc EXCEPT ![m] = "copy"] /\ UNCHANGED st
  <2>1. Moves(m, "copy", st[m]) /\ st[m] \in State
    BY <1>1 DEF Moves, Inv, TypeOK
  <2>2. pc'[m] = "copy" /\ st'[m] = st[m] /\ wrote' = wrote /\ config' = config
    BY <1>1 DEF Inv, TypeOK, Quiet, ghosts, configVars
  <2>3. Known(m)' /\ NothingWritten(m)'
    BY <1>1, <2>2 DEF Inv, Known, NothingWritten
  <2>4. ~disturbed => EditFresh(m)'
    BY <1>1, <2>2 DEF Inv, EditFresh, Migrated
  <2> QED
    BY <2>1, <2>3, <2>4, QuietStep DEF Point, Editing
<1>2. CASE End(m, "confirm", "nothing")
  <2>1. m \notin wrote
    BY <1>2 DEF Inv, NothingWritten, End, Goto
  <2> QED
    BY <1>2, <2>1, QuietEnd
<1> QED
  BY <1>1, <1>2 DEF ConfirmMigration, Goto

-----------------------------------------------------------------------------
(* The steps of writing the files *)

(* A step of p leaves the others where they are and with what they know:    *)
(* what is left to show is how they stand to the files.                     *)
LEMMA Others ==
  ASSUME Inv, NEW p \in Procs, NEW to \in Point, NEW new \in State, Moves(p, to, new),
         wrote' \subseteq wrote \cup {p}, TypeOK',
         Known(p)', NothingWritten(p)', p \in Pinners => Agreed(p)'
  PROVE  /\ \A q \in Procs : Known(q)' /\ NothingWritten(q)'
         /\ \A q \in Pinners : Agreed(q)'
         /\ pc'[p] = to /\ st'[p] = new
         /\ \A q \in Procs \ {p} : pc'[q] = pc[q] /\ st'[q] = st[q]
PROOF
<1>1. /\ pc'[p] = to /\ st'[p] = new
      /\ \A q \in Procs \ {p} : pc'[q] = pc[q] /\ st'[q] = st[q]
  BY DEF Inv, TypeOK, Moves
<1>2. \A q \in Procs : Known(q)' /\ NothingWritten(q)'
  BY <1>1 DEF Inv, Known, NothingWritten
<1>3. \A q \in Pinners : Agreed(q)'
  BY <1>1 DEF Inv, Agreed, MayPin, Procs
<1> QED
  BY <1>1, <1>2, <1>3

(* The keys leave the file: any pin of that file still holds, vacuously.    *)
LEMMA RemoveKeepsInv == ASSUME Inv, NEW p \in Pinners, Remove(p) PROVE Inv'
PROOF
<1> p \in Procs
  BY DEF Procs
<1> DEFINE file == st[p].file
<1>1. /\ pc[p] = "remove" /\ Moves(p, "append", st[p])
      /\ keys' = [keys EXCEPT ![file] = {}]
      /\ disturbed' = (disturbed \/ \E q \in (Procs \ {p}) \cap Pinners : pc[q] \in Editing)
      /\ wrote' = wrote \cup {p}
      /\ config' = config /\ bak' = bak /\ server' = server /\ handEdits' = handEdits /\ pin' = pin
  BY DEF Inv, TypeOK, Remove, Goto, Moves, RemoveKeys, KeysWritten, ConfigWritten, configVars
<1>2. st[p] \in State /\ file \in Files /\ "append" \in Point
  BY DEF Inv, TypeOK, State, Point, Editing
<1>3. TypeOK'
  BY <1>1, <1>2 DEF Inv, TypeOK, ConfigTypeOK, HostTypeOK, Moves
<1>4. pc'[p] = "append" /\ st'[p] = st[p]
  BY <1>1 DEF Inv, TypeOK, Moves
<1>5. Known(p)' /\ NothingWritten(p)' /\ Agreed(p)'
  BY <1>1, <1>4 DEF Inv, Known, NothingWritten, Agreed, MayPin, Editing
<1>6. /\ \A q \in Procs : Known(q)' /\ NothingWritten(q)'
      /\ \A q \in Pinners : Agreed(q)'
      /\ \A q \in Procs \ {p} : pc'[q] = pc[q] /\ st'[q] = st[q]
  BY <1>1, <1>2, <1>3, <1>5, Others
<1>7. ASSUME ~disturbed'
      PROVE  /\ \A q \in Pinners : PinFresh(q)'
             /\ \A q \in Procs : EditFresh(q)'
             /\ LaterLoginsAcceptOnlyIt'
             /\ \A n \in Noters : pc'[n] = "added" => n \in config'.notes
  <2>1. ~disturbed /\ \A q \in Pinners \ {p} : pc[q] \notin Editing
    BY <1>1, <1>7 DEF Procs
  <2>2. keys'[file] = {} /\ \A f \in Files : keys'[f] \subseteq keys[f]
    BY <1>1, <1>2 DEF Inv, TypeOK, HostTypeOK
  <2>3. PinFresh(p)'
    BY <1>1, <1>4, <2>1, <2>2 DEF Inv, PinFresh
  <2>4. \A q \in Pinners : PinFresh(q)'
    BY <1>6, <2>1, <2>3 DEF PinFresh, Editing, Procs
  <2>5. \A q \in Procs : EditFresh(q)'
    BY <1>1, <1>4, <1>6, <2>1 DEF Inv, EditFresh
  <2>6. LaterLoginsAcceptOnlyIt'
    BY <1>1, <2>1, <2>2 DEF Inv, TypeOK, LaterLoginsAcceptOnlyIt
  <2>7. \A n \in Noters : pc'[n] = "added" => n \in config'.notes
    BY <1>1, <1>4, <1>6, <2>1 DEF Inv, Procs
  <2> QED
    BY <2>4, <2>5, <2>6, <2>7
<1> QED
  BY <1>3, <1>6, <1>7 DEF Inv

(* The one new key is in the file: it is a pin if the config needs no edit, *)
(* and takes the place of the key of an earlier pin of that file.           *)
LEMMA AppendKeepsInv == ASSUME Inv, NEW p \in Pinners, Append(p) PROVE Inv'
PROOF
<1> p \in Procs
  BY DEF Procs
<1> DEFINE file == st[p].file
           key == st[p].offered
<1>1. /\ pc[p] = "append"
      /\ keys' = [keys EXCEPT ![file] = @ \cup {key}]
      /\ disturbed' = (disturbed \/ \E q \in (Procs \ {p}) \cap Pinners : pc[q] \in Editing)
      /\ wrote' = wrote \cup {p}
      /\ config' = config /\ bak' = bak /\ server' = server /\ handEdits' = handEdits
  BY DEF Inv, TypeOK, Append, End, Goto, AppendKey, KeysWritten, ConfigWritten, configVars
<1>2. st[p] \in State /\ file \in Files /\ key \in Keys
  BY <1>1 DEF Inv, TypeOK, State, Agreed, Editing
<1>3. ASSUME NEW to \in {"ok", "copy", "error"}, NEW new \in {NoState, st[p]}, Moves(p, to, new),
             to = "copy" => new = st[p] /\ st[p].plan # NoText,
             to # "copy" => new = NoState,
             NEW done \in BOOLEAN, HeldAfter(p, done), done => st[p].plan = NoText
      PROVE  Inv'
  <2>1. new \in State /\ to \in Point
    BY <1>2, <1>3, NoStateFacts DEF Point, Editing, Ended
  <2>2. pin' \in [file : Files, key : Keys \cup {NoKey}]
    BY <1>2, <1>3 DEF HeldAfter, Inv, TypeOK
  <2>3. TypeOK'
    BY <1>1, <1>2, <1>3, <2>1, <2>2 DEF Inv, TypeOK, ConfigTypeOK, HostTypeOK, Moves
  <2>4. pc'[p] = to /\ st'[p] = new
    BY <1>3 DEF Inv, TypeOK, Moves
  <2>5. Known(p)' /\ NothingWritten(p)'
    BY <1>1, <1>2, <1>3, <2>4 DEF Inv, TypeOK, Known, NothingWritten, State
  <2>6. Agreed(p)'
    BY <1>1, <1>3, <2>4, NoStateFacts DEF Inv, Agreed, MayPin, Editing
  <2>7. /\ \A q \in Procs : Known(q)' /\ NothingWritten(q)'
        /\ \A q \in Pinners : Agreed(q)'
        /\ \A q \in Procs \ {p} : pc'[q] = pc[q] /\ st'[q] = st[q]
    BY <1>1, <1>3, <2>1, <2>3, <2>5, <2>6, Others
  <2>8. ASSUME ~disturbed'
        PROVE  /\ \A q \in Pinners : PinFresh(q)'
               /\ \A q \in Procs : EditFresh(q)'
               /\ LaterLoginsAcceptOnlyIt'
               /\ \A n \in Noters : pc'[n] = "added" => n \in config'.notes
    <3>1. ~disturbed /\ \A q \in Pinners \ {p} : pc[q] \notin Editing
      BY <1>1, <2>8 DEF Procs
    <3>2. keys'[file] = {key} /\ \A f \in Files \ {file} : keys'[f] = keys[f]
      BY <1>1, <1>2, <3>1 DEF Inv, TypeOK, HostTypeOK, PinFresh
    <3>3. st[p].plan = PlanOf(config, file)
      BY <1>1, <3>1 DEF Inv, PinFresh
    <3>4. PinFresh(p)'
      BY <1>1, <1>3, <2>4, <3>2, <3>3 DEF PinFresh
    <3>5. \A q \in Pinners : PinFresh(q)'
      BY <2>7, <3>1, <3>4 DEF PinFresh, Editing, Procs
    <3>6. \A q \in Procs : EditFresh(q)'
      BY <1>1, <1>3, <2>4, <2>7, <3>1, PinProcsAssumption DEF Inv, EditFresh
    <3>7. CASE done
      <4>1. config \in Text /\ Pinned(config, file) \in Text
        BY <1>2, TextFacts DEF Inv, TypeOK, ConfigTypeOK
      <4>2. Pinned(config, file) = config
        BY <1>3, <3>3, <3>7, <4>1, TextFacts DEF PlanOf
      <4>3. config.strict = TRUE /\ config.file = file
        BY <4>1, <4>2 DEF Pinned, Text
      <4>4. pin' = [file |-> file, key |-> key]
        BY <1>3, <3>7 DEF HeldAfter
      <4> QED
        BY <1>1, <2>7, <1>3, <2>4, <3>1, <3>2, <3>5, <3>6, <4>3, <4>4
           DEF Inv, LaterLoginsAcceptOnlyIt, Procs
    <3>8. CASE ~done
      <4>1. LaterLoginsAcceptOnlyIt'
        BY <1>1, <1>2, <1>3, <3>1, <3>2, <3>8 DEF Inv, TypeOK, HeldAfter, LaterLoginsAcceptOnlyIt
      <4> QED
        BY <1>1, <1>3, <2>4, <2>7, <3>1, <3>5, <3>6, <4>1 DEF Inv, Procs
    <3> QED
      BY <3>7, <3>8
  <2> QED
    BY <2>3, <2>7, <2>8 DEF Inv
<1>4. CASE st[p].plan = NoText /\ End(p, "append", "ok") /\ HeldAfter(p, TRUE)
  BY <1>3, <1>4 DEF End, Goto, Learn, Moves
<1>5. CASE /\ st[p].plan # NoText /\ Goto(p, "append", "copy") /\ UNCHANGED st
           /\ HeldAfter(p, FALSE)
  <2>1. Moves(p, "copy", st[p])
    BY <1>5 DEF Goto, Moves, Inv, TypeOK
  <2> QED
    BY <1>3, <1>5, <2>1
<1>6. CASE End(p, "append", "error") /\ HeldAfter(p, FALSE)
  BY <1>3, <1>6 DEF End, Goto, Learn, Moves
<1> QED
  BY <1>4, <1>5, <1>6 DEF Append, HeldAfter

LEMMA SaveCopyKeepsInv == ASSUME Inv, NEW p \in Procs, SaveCopy(p) PROVE Inv'
PROOF
<1>1. /\ pc[p] = "copy" /\ Moves(p, "write", st[p])
      /\ bak' = config /\ config' = config /\ keys' = keys /\ server' = server
      /\ handEdits' = handEdits /\ disturbed' = disturbed /\ pin' = pin /\ wrote' = wrote
  BY DEF Inv, TypeOK, SaveCopy, BackUp, Goto, Moves, hostVars, ghosts
<1>2. st[p] \in State /\ "write" \in Point
  BY DEF Inv, TypeOK, Point, Editing
<1>3. TypeOK'
  BY <1>1, <1>2 DEF Inv, TypeOK, ConfigTypeOK, HostTypeOK, Moves
<1>4. pc'[p] = "write" /\ st'[p] = st[p]
  BY <1>1 DEF Inv, TypeOK, Moves
<1>5. Known(p)' /\ NothingWritten(p)' /\ (p \in Pinners => Agreed(p)')
  BY <1>1, <1>4 DEF Inv, Known, NothingWritten, Agreed, MayPin, Editing
<1>6. /\ \A q \in Procs : Known(q)' /\ NothingWritten(q)'
      /\ \A q \in Pinners : Agreed(q)'
      /\ \A q \in Procs \ {p} : pc'[q] = pc[q] /\ st'[q] = st[q]
  BY <1>1, <1>2, <1>3, <1>5, Others
<1>7. ASSUME ~disturbed'
      PROVE  /\ \A q \in Pinners : PinFresh(q)'
             /\ \A q \in Procs : EditFresh(q)'
             /\ LaterLoginsAcceptOnlyIt'
             /\ \A n \in Noters : pc'[n] = "added" => n \in config'.notes
  <2>1. \A q \in Pinners : PinFresh(q)'
    BY <1>1, <1>4, <1>6, <1>7 DEF Inv, PinFresh, Procs
  <2>2. \A q \in Procs : EditFresh(q)'
    BY <1>1, <1>4, <1>6, <1>7 DEF Inv, EditFresh
  <2>3. LaterLoginsAcceptOnlyIt' /\ \A n \in Noters : pc'[n] = "added" => n \in config'.notes
    BY <1>1, <1>4, <1>6, <1>7 DEF Inv, LaterLoginsAcceptOnlyIt, Procs
  <2> QED
    BY <2>1, <2>2, <2>3
<1> QED
  BY <1>3, <1>6, <1>7 DEF Inv

(* The pin is done, or the note added, or the description migrated: each    *)
(* on the config as it is, so none of them undoes another.                  *)
LEMMA WriteKeepsInv == ASSUME Inv, NEW p \in Procs, Write(p) PROVE Inv'
PROOF
<1> DEFINE file == st[p].file
           key == st[p].offered
           to == IF pc[p] = "write" THEN "ok" ELSE "added"
<1>1. /\ pc[p] \in {"write", "note"} /\ Moves(p, to, NoState)
      /\ config' = st[p].plan /\ bak' = bak /\ keys' = keys /\ server' = server
      /\ disturbed' = (disturbed \/ \E q \in Procs \ {p} : pc[q] \in Editing)
      /\ wrote' = wrote \cup {p} /\ handEdits' = handEdits
  BY DEF Inv, TypeOK, Write, End, Goto, Learn, Moves, Replace, ConfigWritten, hostVars
<1>2. /\ p \in Pinners => pin' = [file |-> file, key |-> key] /\ key \in Keys /\ pc[p] = "write"
      /\ p \notin Pinners => pin' = pin
      /\ st[p] \in State /\ file \in Files /\ st[p].plan \in Text /\ to \in Point
  BY <1>1 DEF Inv, TypeOK, State, Known, Agreed, Write, HeldAfter, Point, Editing, Ended
<1>3. TypeOK'
  <2>1. pin' \in [file : Files, key : Keys \cup {NoKey}]
    BY <1>2 DEF Inv, TypeOK
  <2> QED
    BY <1>1, <1>2, <2>1, NoStateFacts DEF Inv, TypeOK, ConfigTypeOK, HostTypeOK, Moves
<1>4. pc'[p] = to /\ st'[p] = NoState
  BY <1>1 DEF Inv, TypeOK, Moves
<1>5. Known(p)' /\ NothingWritten(p)' /\ (p \in Pinners => Agreed(p)')
  BY <1>4, NoStateFacts DEF Known, NothingWritten, Agreed, Editing
<1>6. /\ \A q \in Procs : Known(q)' /\ NothingWritten(q)'
      /\ \A q \in Pinners : Agreed(q)'
      /\ \A q \in Procs \ {p} : pc'[q] = pc[q] /\ st'[q] = st[q]
  BY <1>1, <1>2, <1>3, <1>5, NoStateFacts, Others
<1>7. ASSUME ~disturbed'
      PROVE  /\ \A q \in Pinners : PinFresh(q)'
             /\ \A q \in Procs : EditFresh(q)'
             /\ LaterLoginsAcceptOnlyIt'
             /\ \A n \in Noters : pc'[n] = "added" => n \in config'.notes
  <2>1. ~disturbed /\ \A q \in Procs \ {p} : pc[q] \notin Editing
    BY <1>1, <1>7
  <2>2. \A q \in Procs : EditFresh(q)' /\ (q \in Pinners => PinFresh(q)')
    BY <1>4, <1>6, <2>1 DEF EditFresh, PinFresh, Editing
  <2>3. config \in Text /\ EditFresh(p) /\ (p \in Pinners => PinFresh(p))
    BY <2>1 DEF Inv, TypeOK, ConfigTypeOK
  <2>4. config.notes \subseteq config'.notes
        /\ (p \notin Pinners => config'.strict = config.strict /\ config'.file = config.file)
        /\ (p \in Pinners => config'.strict = TRUE /\ config'.file = file)
    <3>1. CASE p \in Pinners
      <4>1. config' = Pinned(config, file)
        BY <1>1, <1>2, <2>3, <3>1, TextFacts DEF PinFresh, PlanOf
      <4> QED
        BY <2>3, <3>1, <4>1 DEF Pinned, Text
    <3>2. CASE p \notin Pinners /\ pc[p] = "write"
      <4>1. config' = Migrated(config)
        BY <1>1, <2>3, <3>2 DEF EditFresh
      <4> QED
        BY <2>3, <3>2, <4>1 DEF Migrated, Text
    <3>3. CASE p \notin Pinners /\ pc[p] = "note"
      <4>1. config' = Noted(config, p)
        BY <1>1, <2>3, <3>3 DEF EditFresh
      <4> QED
        BY <2>3, <3>3, <4>1 DEF Noted, Text
    <3> QED
      BY <1>1, <1>2, <3>1, <3>2, <3>3
  <2>5. pc[p] = "note" => p \in config'.notes
    <3>1. ASSUME pc[p] = "note" PROVE config' = Noted(config, p)
      BY <1>1, <2>3, <3>1 DEF EditFresh
    <3> QED
      BY <2>3, <3>1 DEF Noted, Text
  <2>6. \A n \in Noters : pc'[n] = "added" => n \in config'.notes
    BY <1>1, <1>4, <1>6, <2>1, <2>4, <2>5 DEF Inv, Procs
  <2>7. LaterLoginsAcceptOnlyIt'
    <3>1. CASE p \in Pinners
      BY <1>1, <1>2, <2>3, <2>4, <3>1 DEF PinFresh, LaterLoginsAcceptOnlyIt
    <3>2. CASE p \notin Pinners
      BY <1>1, <1>2, <2>1, <2>4, <3>2 DEF Inv, LaterLoginsAcceptOnlyIt
    <3> QED
      BY <3>1, <3>2
  <2> QED
    BY <2>2, <2>6, <2>7 DEF Procs
<1> QED
  BY <1>3, <1>6, <1>7 DEF Inv

-----------------------------------------------------------------------------
(* Failure, and the rest of the world *)

LEMMA CallFailsKeepsInv == ASSUME Inv, NEW p \in Pinners, CallFails(p) PROVE Inv'
PROOF
<1> p \in Procs /\ Quiet
  BY DEF Procs, CallFails, Quiet
<1>1. ASSUME NEW from \in {"check", "scan", "judge"}, End(p, from, "nothing") PROVE Inv'
  BY <1>1, Before, QuietEnd DEF End, Goto
<1> QED
  BY <1>1 DEF CallFails

LEMMA AbortKeepsInv == ASSUME Inv, NEW p \in Procs, EditFails(p) \/ Kill(p) PROVE Inv'
PROOF
<1> Quiet
  BY DEF EditFails, Kill, Quiet
<1>1. PICK from : End(p, from, "error")
  BY DEF EditFails, Kill
<1> QED
  BY <1>1, QuietEnd

LEMMA NextCommandKeepsInv == ASSUME Inv, NEW p \in Pinners, NextCommand(p) PROVE Inv'
PROOF
<1> p \in Procs
  BY DEF Procs
<1>1. /\ pc[p] \in Ended /\ Moves(p, "start", st[p])
      /\ config' = config /\ bak' = bak /\ keys' = keys /\ server' = server
      /\ handEdits' = handEdits /\ disturbed' = disturbed /\ pin' = pin /\ wrote' = wrote \ {p}
  BY DEF Inv, TypeOK, NextCommand, Moves, configVars, hostVars
<1>2. st[p] \in State /\ "start" \in Point
  BY DEF Inv, TypeOK, Point
<1>3. TypeOK'
  BY <1>1, <1>2 DEF Inv, TypeOK, ConfigTypeOK, HostTypeOK, Moves
<1>4. pc'[p] = "start" /\ st'[p] = st[p]
  BY <1>1 DEF Inv, TypeOK, Moves
<1>5. Known(p)' /\ NothingWritten(p)' /\ Agreed(p)'
  BY <1>1, <1>4 DEF Inv, Known, NothingWritten, Agreed, Editing
<1>6. /\ \A q \in Procs : Known(q)' /\ NothingWritten(q)'
      /\ \A q \in Pinners : Agreed(q)'
      /\ \A q \in Procs \ {p} : pc'[q] = pc[q] /\ st'[q] = st[q]
  BY <1>1, <1>2, <1>3, <1>5, Others
<1>7. ASSUME ~disturbed'
      PROVE  /\ \A q \in Pinners : PinFresh(q)'
             /\ \A q \in Procs : EditFresh(q)'
             /\ LaterLoginsAcceptOnlyIt'
             /\ \A n \in Noters : pc'[n] = "added" => n \in config'.notes
  BY <1>1, <1>4, <1>6, <1>7 DEF Inv, PinFresh, EditFresh, LaterLoginsAcceptOnlyIt, Procs
<1> QED
  BY <1>3, <1>6, <1>7 DEF Inv

LEMMA ServerChangesKeepsInv == ASSUME Inv, ServerChanges PROVE Inv'
PROOF
<1>1. /\ server' \in Keys /\ UNCHANGED <<config, bak, keys, pc, st, handEdits, disturbed, pin, wrote>>
  BY DEF ServerChanges, Rekey, configVars, ghosts
<1> QED
  BY <1>1 DEF Inv, TypeOK, ConfigTypeOK, HostTypeOK, Known, NothingWritten, Agreed, MayPin, PinFresh,
              EditFresh, LaterLoginsAcceptOnlyIt

(* A key is taken on first contact only where checking isn't strict: never  *)
(* while a pin holds.                                                       *)
LEMMA LoginKeepsInv == ASSUME Inv, Login PROVE Inv'
PROOF
<1>1. /\ ~config.strict
      /\ keys' = [keys EXCEPT ![config.file] = @ \cup {server}]
      /\ disturbed' = (disturbed \/ \E q \in Procs \cap Pinners : pc[q] \in Editing)
      /\ UNCHANGED <<config, bak, server, pc, st, handEdits, pin, wrote>>
  BY DEF Login, TakeNewKey, KeysWritten, ConfigWritten, configVars
<1>2. TypeOK'
  BY <1>1 DEF Inv, TypeOK, ConfigTypeOK, HostTypeOK, Text
<1>3. /\ \A q \in Procs : Known(q)' /\ NothingWritten(q)'
      /\ \A q \in Pinners : Agreed(q)'
  BY <1>1 DEF Inv, Known, NothingWritten, Agreed, MayPin
<1>4. ASSUME ~disturbed'
      PROVE  /\ \A q \in Pinners : PinFresh(q)'
             /\ \A q \in Procs : EditFresh(q)'
             /\ LaterLoginsAcceptOnlyIt'
             /\ \A n \in Noters : pc'[n] = "added" => n \in config'.notes
  <2>1. ~disturbed /\ \A q \in Pinners : pc[q] \notin Editing
    BY <1>1, <1>4 DEF Procs
  <2>2. \A q \in Pinners : PinFresh(q)'
    BY <1>1, <2>1 DEF PinFresh, Editing
  <2>3. \A q \in Procs : EditFresh(q)'
    BY <1>1, <2>1 DEF Inv, EditFresh
  <2> QED
    BY <1>1, <2>1, <2>2, <2>3 DEF Inv, LaterLoginsAcceptOnlyIt
<1> QED
  BY <1>2, <1>3, <1>4 DEF Inv

LEMMA HandEditKeepsInv == ASSUME Inv, HandEdit PROVE Inv'
PROOF
<1>1. /\ handEdits < MaxHandEdits /\ handEdits' = handEdits + 1
      /\ disturbed' = (disturbed \/ \E q \in Procs : pc[q] \in Editing)
      /\ pin' = IF config'.form = config.form THEN NoPin ELSE pin
      /\ UNCHANGED <<bak, keys, server, pc, st, wrote>>
  BY DEF HandEdit, EditByHand, ConfigWritten, hostVars
<1>2. /\ config' \in Text /\ config'.notes = config.notes
      /\ config'.form # config.form => config'.strict = config.strict /\ config'.file = config.file
  <2>1. config \in Text
    BY DEF Inv, TypeOK, ConfigTypeOK
  <2>2. CASE \E strict \in BOOLEAN, file \in Files \cup {Own} :
               config' = [config EXCEPT !.strict = strict, !.file = file]
    BY <2>1, <2>2 DEF Text
  <2>3. CASE \E form \in {"broken", "fixed", "editable"} : config' = [config EXCEPT !.form = form]
    BY <2>1, <2>3 DEF Text
  <2> QED
    BY <2>2, <2>3 DEF HandEdit, EditByHand
<1>3. TypeOK'
  BY <1>1, <1>2, PinKeysAssumption DEF Inv, TypeOK, ConfigTypeOK, HostTypeOK, NoPin
<1>4. /\ \A q \in Procs : Known(q)' /\ NothingWritten(q)'
      /\ \A q \in Pinners : Agreed(q)'
  BY <1>1 DEF Inv, Known, NothingWritten, Agreed, MayPin
<1>5. ASSUME ~disturbed'
      PROVE  /\ \A q \in Pinners : PinFresh(q)'
             /\ \A q \in Procs : EditFresh(q)'
             /\ LaterLoginsAcceptOnlyIt'
             /\ \A n \in Noters : pc'[n] = "added" => n \in config'.notes
  <2>1. ~disturbed /\ \A q \in Procs : pc[q] \notin Editing
    BY <1>1, <1>5
  <2>2. \A q \in Procs : EditFresh(q)' /\ (q \in Pinners => PinFresh(q)')
    BY <1>1, <2>1 DEF EditFresh, PinFresh, Editing
  <2>3. LaterLoginsAcceptOnlyIt'
    BY <1>1, <1>2, <2>1 DEF Inv, LaterLoginsAcceptOnlyIt
  <2> QED
    BY <1>1, <1>2, <2>1, <2>2, <2>3 DEF Inv, Procs
<1> QED
  BY <1>3, <1>4, <1>5 DEF Inv

-----------------------------------------------------------------------------
(* The theorems *)

LEMMA InitInv == ASSUME Init PROVE Inv
PROOF
<1>1. config \in Text
  BY DEF Init, Text
<1>2. TypeOK
  <2>1. ConfigTypeOK /\ HostTypeOK
    BY <1>1 DEF Init, ConfigTypeOK, HostTypeOK
  <2>2. pc \in [Procs -> Point] /\ st \in [Procs -> State]
    BY NoStateFacts DEF Init, Point
  <2>3. handEdits \in 0 .. MaxHandEdits
    BY PinKeysAssumption DEF Init
  <2>4. disturbed \in BOOLEAN /\ wrote \subseteq Procs
    BY DEF Init
  <2>5. pin \in [file : Files, key : Keys \cup {NoKey}]
    BY PinKeysAssumption DEF Init, NoPin
  <2> QED
    BY <2>1, <2>2, <2>3, <2>4, <2>5 DEF TypeOK
<1>3. \A p \in Procs : pc[p] = "start" /\ st[p] = NoState /\ p \notin wrote
  BY DEF Init
<1>4. /\ \A p \in Procs : Known(p) /\ NothingWritten(p) /\ EditFresh(p)
      /\ \A p \in Pinners : Agreed(p) /\ PinFresh(p)
  BY <1>3, NoStateFacts DEF Known, NothingWritten, EditFresh, Agreed, PinFresh, Editing, Procs
<1>5. LaterLoginsAcceptOnlyIt /\ \A n \in Noters : pc[n] = "added" => n \in config.notes
  BY <1>3 DEF Init, LaterLoginsAcceptOnlyIt, Procs
<1> QED
  BY <1>2, <1>4, <1>5 DEF Inv

LEMMA NextKeepsInv == ASSUME Inv, [Next]_vars PROVE Inv'
PROOF
<1>1. ASSUME NEW p \in Pinners, PinStep(p) PROVE Inv'
  BY <1>1, LoadConfigKeepsInv, CheckKeepsInv, ScanKeepsInv, JudgeKeepsInv, ShowKeepsInv, AskKeepsInv,
     PlanKeepsInv, RemoveKeepsInv, AppendKeepsInv, CallFailsKeepsInv, NextCommandKeepsInv DEF PinStep
<1>2. ASSUME NEW n \in Noters, ReadForNote(n) PROVE Inv'
  BY <1>2, ReadForNoteKeepsInv
<1>3. ASSUME NEW m \in Migrators, PlanMigration(m) \/ ConfirmMigration(m) PROVE Inv'
  BY <1>3, PlanMigrationKeepsInv, ConfirmMigrationKeepsInv
<1>4. ASSUME NEW p \in Procs, WriteStep(p) PROVE Inv'
  BY <1>4, SaveCopyKeepsInv, WriteKeepsInv, AbortKeepsInv DEF WriteStep
<1>5. CASE World
  BY <1>5, LoginKeepsInv, ServerChangesKeepsInv, HandEditKeepsInv DEF World
<1>6. CASE UNCHANGED vars
  <2>1. UNCHANGED <<config, bak, server, keys, pc, st, handEdits, disturbed, pin, wrote>>
    BY <1>6 DEF vars, configVars, hostVars, ghosts
  <2> QED
    BY <2>1 DEF Inv, TypeOK, ConfigTypeOK, HostTypeOK, Known, NothingWritten, Agreed, MayPin, PinFresh,
                EditFresh, LaterLoginsAcceptOnlyIt
<1> QED
  BY <1>1, <1>2, <1>3, <1>4, <1>5, <1>6 DEF Next

(* The strengthened invariant holds throughout.                             *)
THEOREM Invariance == Spec => []Inv
PROOF
<1>1. Init => Inv
  BY InitInv
<1>2. Inv /\ [Next]_vars => Inv'
  BY NextKeepsInv
<1> QED
  BY <1>1, <1>2, PTL DEF Spec

(* The variables have their types; the key goes to a named file.            *)
THEOREM TypeCorrect == Spec => []TypeOK
PROOF
<1>1. Inv => TypeOK
  BY DEF Inv
<1> QED
  BY <1>1, Invariance, PTL

(* A key that differs from the trusted one takes its place only if a person *)
(* was asked to replace that one, however the config, the key files and the *)
(* server change between the asking and the pinning.                        *)
THEOREM PersonReplaces == Spec => []ReplacedByAPerson
PROOF
<1>1. Inv => ReplacedByAPerson
  BY DEF Inv, Agreed, MayPin, ReplacedByAPerson
<1> QED
  BY <1>1, Invariance, PTL

(* A command that is refused, or finds nothing to do, has written nothing.  *)
THEOREM RefusalIsHarmless == Spec => []RefusedChangesNothing
PROOF
<1>1. Inv => RefusedChangesNothing
  BY DEF Inv, NothingWritten, RefusedChangesNothing
<1> QED
  BY <1>1, Invariance, PTL

(* Until something is written in the middle of an edit, a pin that          *)
(* succeeded holds: later logins are strict and know no other key.          *)
THEOREM PinHolds == Spec => []PinStays
PROOF
<1>1. Inv => PinStays
  BY DEF Inv, PinStays
<1> QED
  BY <1>1, Invariance, PTL

(* With the same exception, no pin, migration or other note loses a note.   *)
THEOREM NoteHolds == Spec => []NotesStay
PROOF
<1>1. Inv => NotesStay
  BY DEF Inv, NotesStay
<1> QED
  BY <1>1, Invariance, PTL

(* With the same exception, the backup is the config that was replaced.     *)
THEOREM BackupIsFresh == Spec => BackupIsWhatWasReplaced
PROOF
<1>1. Inv => \A p \in Pinners \cup Migrators :
               (pc[p] = "write" /\ pc'[p] = "ok" /\ ~disturbed) => bak = config
  BY DEF Inv, EditFresh, Procs
<1> QED
  BY <1>1, Invariance, PTL DEF BackupIsWhatWasReplaced

(* A step that changes a key file is one half of a pin, or a login.         *)
LEMMA KeyWriters ==
  ASSUME [Next]_vars
  PROVE  \/ keys' = keys
         \/ \E p \in Pinners : Remove(p) \/ Append(p)
         \/ Login
PROOF
<1>1. ASSUME NEW p \in Pinners, PinStep(p) PROVE keys' = keys \/ Remove(p) \/ Append(p)
  BY <1>1 DEF PinStep, LoadConfig, Check, Scan, JudgeShown, JudgeAgain, Show, Ask, Plan, CallFails,
              NextCommand, hostVars
<1>2. ASSUME NEW p \in Procs, WriteStep(p) PROVE keys' = keys
  BY <1>2 DEF WriteStep, SaveCopy, Write, EditFails, Kill, hostVars
<1>3. ASSUME NEW p, ReadForNote(p) \/ PlanMigration(p) \/ ConfirmMigration(p) PROVE keys' = keys
  BY <1>3 DEF ReadForNote, PlanMigration, ConfirmMigration, hostVars
<1>4. CASE ServerChanges \/ HandEdit \/ UNCHANGED vars
  BY <1>4 DEF ServerChanges, Rekey, HandEdit, vars, hostVars
<1> QED
  BY <1>1, <1>2, <1>3, <1>4 DEF Next, World

(* The keys that come into a file are those users agreed to, and those that *)
(* a login takes on first contact where checking is not strict.             *)
THEOREM AgreedKeysOnly == Spec => OnlyAgreedKeysPinned
PROOF
<1>1. ASSUME Inv, [Next]_vars, NEW file \in Files, NEW key \in keys'[file] \ keys[file]
      PROVE  \/ \E p \in Pinners : pc[p] = "append" /\ file = st[p].file /\ key = st[p].told
             \/ ~config.strict /\ file = config.file /\ key = server
  <2>1. keys \in [Files \cup {Own} -> SUBSET Keys]
    BY <1>1 DEF Inv, TypeOK, HostTypeOK
  <2>2. ASSUME NEW p \in Pinners, Remove(p) PROVE FALSE
    BY <1>1, <2>1, <2>2 DEF Remove, RemoveKeys
  <2>3. ASSUME NEW p \in Pinners, Append(p)
        PROVE  pc[p] = "append" /\ file = st[p].file /\ key = st[p].told
    <3>1. pc[p] = "append" /\ keys' = [keys EXCEPT ![st[p].file] = @ \cup {st[p].offered}]
      BY <2>3 DEF Append, AppendKey, End, Goto
    <3>2. st[p].offered = st[p].told
      BY <1>1, <3>1 DEF Inv, Agreed, MayPin, Editing
    <3> QED
      BY <1>1, <2>1, <3>1, <3>2
  <2>4. CASE Login
    BY <1>1, <2>1, <2>4 DEF Login, TakeNewKey
  <2> QED
    BY <1>1, <2>2, <2>3, <2>4, KeyWriters
<1>2. Inv /\ [Next]_vars => [\A file \in Files : \A key \in keys'[file] \ keys[file] :
         \/ \E p \in Pinners : pc[p] = "append" /\ file = st[p].file /\ key = st[p].told
         \/ ~config.strict /\ file = config.file /\ key = server]_vars
  BY <1>1
<1> QED
  BY <1>2, Invariance, PTL DEF Spec, OnlyAgreedKeysPinned
=============================================================================
