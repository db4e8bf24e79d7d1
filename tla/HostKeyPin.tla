----------------------------- MODULE HostKeyPin -----------------------------
(***************************************************************************)
(* ctun processes that pin the host key of a cluster (`hostkey --pin`), and *)
(* the others that edit the same config file (`note`, `config --migrate`).  *)
(*                                                                          *)
(* `hostkey --pin` loads the config, asks ssh what a login would make of    *)
(* the key (check) and fetches it (scan), each over a connection of its     *)
(* own, shows what it would do and asks.  pin_host_key then does all of     *)
(* this again, plans the edit of the config, has the helper put the key     *)
(* into the known_hosts file, and only then writes the config.  Meanwhile   *)
(* the server may be given another key, others log in, and others write to  *)
(* the two files: no lock protects either.                                  *)
(***************************************************************************)
EXTENDS KnownHosts, Naturals

CONSTANTS
  Pinners,       \* processes that run `hostkey --pin`
  Noters,        \* processes that may run `note`; each adds the note of its name
  Migrators,     \* processes that may run `config --migrate`
  Default,       \* the known_hosts file next to the config
  NoKey,         \* no key yet
  MaxHandEdits,  \* bound: how often a person saves the config
  CallsMayFail,  \* TRUE: ssh, the helper and the writing of files may fail
  MayCrash       \* TRUE: processes may be killed

Procs == Pinners \cup Noters \cup Migrators

ASSUME PinProcsAssumption ==
  /\ Pinners \cap (Noters \cup Migrators) = {}
  /\ Noters \subseteq Notes
ASSUME PinKeysAssumption ==
  /\ Default \in Files
  /\ NoKey \notin Keys
  /\ MaxHandEdits \in Nat
ASSUME PinFailureAssumption == CallsMayFail \in BOOLEAN /\ MayCrash \in BOOLEAN

VARIABLES
  pc,         \* where each process is
  st,         \* what each process has read and been told
  handEdits,  \* how often a person has saved the config
  disturbed,  \* ghost: something was written in the middle of another's edit
  pin,        \* ghost: the pin that succeeded last, or NoPin; a person may undo it
  wrote       \* ghost: the processes that have changed a file

ghosts == <<disturbed, pin, wrote>>
vars == <<configVars, hostVars, pc, st, handEdits, ghosts>>

(* text: the config as loaded; seen, trust: the check's key and verdict;     *)
(* offered: the key fetched; told: the key the user agreed to; person: it    *)
(* was a person at a terminal, not --yes; replace: as passed to              *)
(* pin_host_key; file: where the key goes; plan: the text to write.          *)
State == [text : Text \cup {NoText}, seen : Keys \cup {NoKey}, trust : {"known", "new", "changed"},
          offered : Keys \cup {NoKey}, told : Keys \cup {NoKey}, person : BOOLEAN,
          replace : BOOLEAN, again : BOOLEAN, file : Files, plan : Text \cup {NoText}]
NoState == [text |-> NoText, seen |-> NoKey, trust |-> "new", offered |-> NoKey, told |-> NoKey,
            person |-> FALSE, replace |-> FALSE, again |-> FALSE, file |-> Default, plan |-> NoText]

(* A command ends with success, for a note with the note added; with nothing *)
(* done, as refused, declined or needless; or by an error or a kill.         *)
Ended == {"ok", "added", "nothing", "error"}
Editing == {"confirm", "remove", "append", "copy", "write", "note"}
Point == {"start", "check", "scan", "judge", "show", "ask", "load", "plan"} \cup Editing \cup Ended

NoPin == [file |-> Default, key |-> NoKey]

Init ==
  /\ \E old \in SUBSET (Notes \ Noters) :
       config = [notes |-> old, list |-> FALSE, strict |-> FALSE, file |-> Own, form |-> "editable"]
  /\ bak = NoText
  /\ server \in Keys
  /\ keys = [file \in Files \cup {Own} |-> {}]
  /\ pc = [p \in Procs |-> "start"]
  /\ st = [p \in Procs |-> NoState]
  /\ handEdits = 0
  /\ disturbed = FALSE
  /\ pin = NoPin
  /\ wrote = {}

Goto(p, from, to) == pc[p] = from /\ pc' = [pc EXCEPT ![p] = to]
Learn(p, new) == st' = [st EXCEPT ![p] = new]

(* A process that ends forgets what it knew.                                 *)
End(p, from, result) == Goto(p, from, result) /\ Learn(p, NoState)

(* The config was written, and so was the known_hosts file: whoever is in    *)
(* the middle of an edit of it is disturbed.                                 *)
ConfigWritten(others) == disturbed' = (disturbed \/ \E q \in others : pc[q] \in Editing)
KeysWritten(others) == ConfigWritten(others \cap Pinners)

-----------------------------------------------------------------------------
(* hostkey --pin *)

(* The config is loaded, by the command and again by pin_host_key.           *)
LoadConfig(p) ==
  /\ \/ /\ Loads(config)
        /\ Goto(p, "start", "check") \/ Goto(p, "load", "check")
        /\ Learn(p, [st[p] EXCEPT !.text = config])
     \/ /\ ~Loads(config)
        /\ End(p, "start", "nothing") \/ End(p, "load", "nothing")
  /\ UNCHANGED <<configVars, hostVars, handEdits, ghosts>>

(* ssh -v: the key presented and what a login would make of it.              *)
Check(p) ==
  /\ Goto(p, "check", "scan")
  /\ Learn(p, [st[p] EXCEPT !.seen = server, !.trust = Verdict(st[p].text, server)])
  /\ UNCHANGED <<configVars, hostVars, handEdits, ghosts>>

(* The key is fetched over another connection; it must be the same.          *)
Scan(p) ==
  /\ \/ /\ server = st[p].seen
        /\ Goto(p, "scan", "judge")
        /\ Learn(p, [st[p] EXCEPT !.offered = server])
     \/ server # st[p].seen /\ End(p, "scan", "nothing")
  /\ UNCHANGED <<configVars, hostVars, handEdits, ghosts>>

(* Checking is strict and the cluster's known_hosts_file holds the key.      *)
AlreadyPinned(p) ==
  st[p].text.strict /\ st[p].text.file # Own /\ st[p].offered \in keys[st[p].text.file]

(* The command: a key that is pinned and strictly checked needs nothing.     *)
JudgeShown(p) ==
  /\ ~st[p].again
  /\ \/ Goto(p, "judge", "show") /\ ~AlreadyPinned(p) /\ UNCHANGED st
     \/ End(p, "judge", "nothing") /\ AlreadyPinned(p)
  /\ UNCHANGED <<configVars, hostVars, handEdits, ghosts>>

(* A mutated form of MayPin: the key may be another than the one agreed to.  *)
MayPinAnyKey(p) == st[p].trust = "changed" => st[p].replace
(* Another: a key that differs from a trusted one is taken without replace.  *)
MayPinChanged(p) == st[p].offered = st[p].told

(* pin_host_key: the key must be the one agreed to, and may differ from a    *)
(* trusted one only to replace it.                                           *)
MayPin(p) ==
  /\ st[p].offered = st[p].told
  /\ st[p].trust = "changed" => st[p].replace

JudgeAgain(p) ==
  /\ st[p].again
  /\ \/ MayPin(p) /\ Goto(p, "judge", "plan") /\ UNCHANGED st
     \/ ~MayPin(p) /\ End(p, "judge", "nothing")
  /\ UNCHANGED <<configVars, hostVars, handEdits, ghosts>>

(* The edit is planned once to show it: a config that can't be edited is     *)
(* refused before anyone is asked.                                           *)
Show(p) ==
  /\ \/ Editable(config) /\ Goto(p, "show", "ask") /\ UNCHANGED st
     \/ ~Editable(config) /\ End(p, "show", "nothing")
  /\ UNCHANGED <<configVars, hostVars, handEdits, ghosts>>

(* The user agrees or not; --yes, and what is not a terminal, can't agree to *)
(* a changed key.                                                            *)
Ask(p) ==
  /\ \/ /\ Goto(p, "ask", "load")
        /\ \E person \in BOOLEAN :
             /\ person \/ st[p].trust # "changed"
             /\ Learn(p, [NoState EXCEPT !.told = st[p].offered, !.person = person, !.again = TRUE,
                                         !.replace = (st[p].trust = "changed")])
     \/ End(p, "ask", "nothing")
  /\ UNCHANGED <<configVars, hostVars, handEdits, ghosts>>

TargetFile(text) == IF text.file # Own THEN text.file ELSE Default

(* What is written: nothing if the config says it all already.               *)
PlanOf(text, file) == IF Pinned(text, file) = text THEN NoText ELSE Pinned(text, file)

(* Mutated forms of Plan: the edit is made from the config as it was loaded; *)
(* no file is filled in; and the key is put into the file first.             *)
PlanFromLoaded(p) ==
  /\ Goto(p, "plan", IF Editable(config) THEN "remove" ELSE "nothing")
  /\ Learn(p, [st[p] EXCEPT !.file = TargetFile(st[p].text),
                            !.plan = PlanOf(st[p].text, TargetFile(st[p].text))])
  /\ UNCHANGED <<configVars, hostVars, handEdits, ghosts>>
PlanNoDefault(p) ==
  /\ Goto(p, "plan", IF Editable(config) THEN "remove" ELSE "nothing")
  /\ Learn(p, [st[p] EXCEPT !.file = st[p].text.file, !.plan = PlanOf(config, st[p].text.file)])
  /\ UNCHANGED <<configVars, hostVars, handEdits, ghosts>>
PlanAfterRemoving(p) ==
  /\ Goto(p, "plan", IF Editable(config) THEN "remove" ELSE "nothing")
  /\ Learn(p, [st[p] EXCEPT !.file = TargetFile(st[p].text), !.plan = PlanOf(config, TargetFile(st[p].text))])
  /\ RemoveKeys(TargetFile(st[p].text))
  /\ wrote' = wrote \cup {p}
  /\ UNCHANGED <<configVars, handEdits, disturbed, pin>>

(* The edit is planned on the config as it is now.                           *)
Plan(p) ==
  /\ \/ /\ Editable(config)
        /\ Goto(p, "plan", "remove")
        /\ LET file == TargetFile(st[p].text)
           IN  Learn(p, [st[p] EXCEPT !.file = file, !.plan = PlanOf(config, file), !.text = NoText])
     \/ ~Editable(config) /\ End(p, "plan", "nothing")
  /\ UNCHANGED <<configVars, hostVars, handEdits, ghosts>>

(* A mutated form of Remove: the earlier keys stay.                          *)
RemoveNothing(p) ==
  /\ Goto(p, "remove", "append")
  /\ UNCHANGED <<configVars, hostVars, st, handEdits, ghosts>>

(* The helper: the host's keys leave the file ...                            *)
Remove(p) ==
  /\ Goto(p, "remove", "append")
  /\ RemoveKeys(st[p].file)
  /\ KeysWritten(Procs \ {p})
  /\ wrote' = wrote \cup {p}
  /\ UNCHANGED <<configVars, st, handEdits, pin>>

(* The pin that holds once the key is in its file: this one if it is done,   *)
(* else an earlier one, now of this key.                                     *)
HeldAfter(p, done) ==
  pin' = IF done \/ (pin # NoPin /\ pin.file = st[p].file)
         THEN [file |-> st[p].file, key |-> st[p].offered] ELSE pin

(* ... and the new one is appended.  Its answer may still fail to arrive.    *)
Append(p) ==
  /\ AppendKey(st[p].file, st[p].offered)
  /\ \/ /\ \/ st[p].plan = NoText /\ End(p, "append", "ok")
           \/ st[p].plan # NoText /\ Goto(p, "append", "copy") /\ UNCHANGED st
        /\ HeldAfter(p, st[p].plan = NoText)
     \/ CallsMayFail /\ End(p, "append", "error") /\ HeldAfter(p, FALSE)
  /\ KeysWritten(Procs \ {p})
  /\ wrote' = wrote \cup {p}
  /\ UNCHANGED <<configVars, handEdits>>

-----------------------------------------------------------------------------
(* The other edits of the config *)

(* note: the config is read and edited.                                      *)
ReadForNote(n) ==
  /\ \/ /\ TakesNotes(config)
        /\ Goto(n, "start", "note")
        /\ Learn(n, [st[n] EXCEPT !.plan = Noted(config, n)])
     \/ ~TakesNotes(config) /\ End(n, "start", "nothing")
  /\ UNCHANGED <<configVars, hostVars, handEdits, ghosts>>

(* config --migrate: the edit is planned and shown ...                       *)
PlanMigration(m) ==
  /\ \/ /\ Migrates(config)
        /\ Goto(m, "start", "confirm")
        /\ Learn(m, [st[m] EXCEPT !.plan = Migrated(config)])
     \/ /\ Loads(config) /\ (config.list \/ config.notes = {})
        /\ End(m, "start", "nothing")
     \/ /\ ~Loads(config) \/ (~Editable(config) /\ ~config.list /\ config.notes # {})
        /\ End(m, "start", "nothing")
  /\ UNCHANGED <<configVars, hostVars, handEdits, ghosts>>

(* ... and the same edit is written once it is confirmed.                    *)
ConfirmMigration(m) ==
  /\ (Goto(m, "confirm", "copy") /\ UNCHANGED st) \/ End(m, "confirm", "nothing")
  /\ UNCHANGED <<configVars, hostVars, handEdits, ghosts>>

-----------------------------------------------------------------------------
(* Writing the config *)

(* A mutated form of SaveCopy: a backup that is there already stays.         *)
SaveFirstCopy(p) ==
  /\ Goto(p, "copy", "write")
  /\ IF bak = NoText THEN BackUp ELSE UNCHANGED configVars
  /\ UNCHANGED <<hostVars, st, handEdits, ghosts>>

(* apply with a backup copies the file as it is now ...                      *)
SaveCopy(p) ==
  /\ Goto(p, "copy", "write")
  /\ BackUp
  /\ UNCHANGED <<hostVars, st, handEdits, ghosts>>

(* ... and every edit replaces it by the text it planned; a note's has no    *)
(* backup.                                                                   *)
Write(p) ==
  /\ End(p, "write", "ok") \/ End(p, "note", "added")
  /\ Replace(st[p].plan)
  /\ ConfigWritten(Procs \ {p})
  /\ IF p \in Pinners THEN HeldAfter(p, TRUE) ELSE UNCHANGED pin
  /\ wrote' = wrote \cup {p}
  /\ UNCHANGED <<hostVars, handEdits>>

-----------------------------------------------------------------------------
(* Failure, and the rest of the world *)

(* A connection or a reading of the key file fails: nothing was written.     *)
CallFails(p) ==
  /\ CallsMayFail
  /\ \/ End(p, "check", "nothing") \/ End(p, "scan", "nothing")
     \/ End(p, "judge", "nothing") /\ st[p].text.file # Own
  /\ UNCHANGED <<configVars, hostVars, handEdits, ghosts>>

(* The helper fails or is cut off, or a file can't be written.               *)
EditFails(p) ==
  /\ CallsMayFail
  /\ \E point \in {"remove", "append", "copy", "write", "note"} : End(p, point, "error")
  /\ UNCHANGED <<configVars, hostVars, handEdits, ghosts>>

Kill(p) ==
  /\ MayCrash
  /\ \E point \in Point \ Ended : End(p, point, "error")
  /\ UNCHANGED <<configVars, hostVars, handEdits, ghosts>>

(* A login, by anyone, takes a new key on first contact.                     *)
Login ==
  /\ TakeNewKey
  /\ KeysWritten(Procs)
  /\ UNCHANGED <<configVars, pc, st, handEdits, pin, wrote>>

ServerChanges ==
  /\ Rekey
  /\ UNCHANGED <<configVars, pc, st, handEdits, ghosts>>

(* A person edits the config; other host-key settings end the pin.           *)
HandEdit ==
  /\ handEdits < MaxHandEdits
  /\ EditByHand
  /\ handEdits' = handEdits + 1
  /\ ConfigWritten(Procs)
  /\ pin' = IF config'.form = config.form THEN NoPin ELSE pin
  /\ UNCHANGED <<hostVars, pc, st, wrote>>

(* A process that pinned, or tried to, does so again.                        *)
NextCommand(p) ==
  /\ pc[p] \in Ended
  /\ pc' = [pc EXCEPT ![p] = "start"]
  /\ wrote' = wrote \ {p}
  /\ UNCHANGED <<configVars, hostVars, st, handEdits, disturbed, pin>>

-----------------------------------------------------------------------------
PinStep(p) ==
  \/ LoadConfig(p) \/ Check(p) \/ Scan(p) \/ JudgeShown(p) \/ JudgeAgain(p) \/ Show(p) \/ Ask(p)
  \/ Plan(p) \/ Remove(p) \/ Append(p) \/ CallFails(p) \/ NextCommand(p)
WriteStep(p) == SaveCopy(p) \/ Write(p) \/ EditFails(p) \/ Kill(p)
World == Login \/ ServerChanges \/ HandEdit

Next ==
  \/ \E p \in Pinners : PinStep(p)
  \/ \E n \in Noters : ReadForNote(n)
  \/ \E m \in Migrators : PlanMigration(m) \/ ConfirmMigration(m)
  \/ \E p \in Procs : WriteStep(p)
  \/ World

Spec == Init /\ [][Next]_vars

-----------------------------------------------------------------------------
(* Properties *)

(* The variables have their types; the key goes to a named file, never to    *)
(* ssh's own (api.py pin_host_key).                                          *)
TypeOK ==
  /\ ConfigTypeOK
  /\ HostTypeOK
  /\ pc \in [Procs -> Point]
  /\ st \in [Procs -> State]
  /\ handEdits \in 0 .. MaxHandEdits
  /\ disturbed \in BOOLEAN
  /\ pin \in [file : Files, key : Keys \cup {NoKey}]
  /\ wrote \subseteq Procs

(* A key comes into a known_hosts file by a login on first contact, or it is *)
(* the very key a user agreed to, however often the server's key changes     *)
(* between the showing, the agreement and the pinning.                       *)
OnlyAgreedKeysPinned ==
  [][\A file \in Files : \A key \in keys'[file] \ keys[file] :
       \/ \E p \in Pinners : pc[p] = "append" /\ file = st[p].file /\ key = st[p].told
       \/ ~config.strict /\ file = config.file /\ key = server]_vars

(* Where a login would refuse the key for the one it trusts, it is pinned    *)
(* only if a person at a terminal was asked to replace that one: never by    *)
(* --yes, also if it became so after --yes was given.                        *)
ReplacedByAPerson ==
  \A p \in Pinners :
    pc[p] \in Editing /\ st[p].trust = "changed" => st[p].person /\ st[p].replace

(* What ended with "nothing was pinned", "nothing written" or a refusal      *)
(* changed neither file: all that can be refused is refused before the       *)
(* first write.                                                              *)
RefusedChangesNothing ==
  \A p \in Procs : pc[p] = "nothing" => p \notin wrote

(* What a successful pin promises: later logins are strict and know no other *)
(* key.  It lasts until a person changes the settings.                       *)
LaterLoginsAcceptOnlyIt ==
  pin # NoPin => /\ config.strict
                 /\ config.file = pin.file
                 /\ keys[pin.file] \subseteq {pin.key}

(* It is kept, through failures, kills and later edits, unless something was *)
(* written in the middle of another's edit.                                  *)
PinStays == ~disturbed => LaterLoginsAcceptOnlyIt

(* A note that was added stays, also if a pin is being asked for meanwhile,  *)
(* with the same exception.                                                  *)
NotesStay ==
  ~disturbed => \A n \in Noters : pc[n] = "added" => n \in config.notes

(* The backup is the config as it was just before a pin or a migration       *)
(* replaced it, with the same exception.                                     *)
BackupIsWhatWasReplaced ==
  [][\A p \in Pinners \cup Migrators :
       (pc[p] = "write" /\ pc'[p] = "ok" /\ ~disturbed) => bak = config]_vars
==============================================================================
