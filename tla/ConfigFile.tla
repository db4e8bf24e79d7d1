----------------------------- MODULE ConfigFile -----------------------------
(***************************************************************************)
(* The config file, as far as ctun edits it, and the backup beside it      *)
(* (configedit.py).  An edit is planned on the text that was read and      *)
(* replaces the whole file later; nothing keeps others from writing in     *)
(* between.                                                                *)
(*                                                                         *)
(* The text is what the edits tell apart: for one cluster its notes and    *)
(* whether they are a list yet, its host-key settings, and the file's form *)
(* - broken (it does not load), fixed (it loads, but in a layout that the  *)
(* edits refuse) or editable.                                              *)
(***************************************************************************)

CONSTANTS
  Notes,    \* the notes that may be added
  Files,    \* files a cluster's known_hosts_file may name
  Own       \* stands for no known_hosts_file: ssh's own files

ASSUME OwnAssumption == Own \notin Files

VARIABLES
  config,  \* the text of the config file
  bak      \* the text of config.yaml.bak, or NoText

configVars == <<config, bak>>

Text == [notes : SUBSET Notes, list : BOOLEAN, strict : BOOLEAN, file : Files \cup {Own},
         form : {"broken", "fixed", "editable"}]
NoText == [form |-> "none"]

ConfigTypeOK ==
  /\ config \in Text
  /\ bak \in Text \cup {NoText}

Loads(text) == text.form # "broken"
Editable(text) == text.form = "editable"

(* ctun note: appends to the list; an empty description becomes one.       *)
TakesNotes(text) == Editable(text) /\ (text.list \/ text.notes = {})
Noted(text, note) == [text EXCEPT !.notes = @ \cup {note}, !.list = TRUE]

(* ctun config --migrate: a description that is a string becomes a list.   *)
Migrates(text) == Editable(text) /\ ~text.list /\ text.notes # {}
Migrated(text) == [text EXCEPT !.list = TRUE]

(* ctun hostkey --pin                                                      *)
Pinned(text, file) == [text EXCEPT !.strict = TRUE, !.file = file]

(* The two halves of apply: the copy, and the replacing of the file.       *)
BackUp ==
  /\ bak' = config
  /\ UNCHANGED config

Replace(text) ==
  /\ config' = text
  /\ UNCHANGED bak

(* A person saves the file with other host-key settings, or breaks or      *)
(* mends it.                                                               *)
EditByHand ==
  /\ \/ \E strict \in BOOLEAN, file \in Files \cup {Own} :
          config' = [config EXCEPT !.strict = strict, !.file = file]
     \/ \E form \in {"broken", "fixed", "editable"} :
          config' = [config EXCEPT !.form = form]
  /\ UNCHANGED bak
==============================================================================
