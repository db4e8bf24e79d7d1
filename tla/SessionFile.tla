----------------------------- MODULE SessionFile -----------------------------
(***************************************************************************)
(* The session file of one cluster in the cache (session.py): the stamp of *)
(* the current budget window.  session.start truncates the file and then   *)
(* writes it, so there is a moment when it holds nothing readable; a       *)
(* session.clear in between unlinks the file, and what is then written     *)
(* goes to a file without a name.                                          *)
(*                                                                         *)
(* The actions change only this module's variables; TunnelSession says     *)
(* which ctun process takes them and when.                                 *)
(***************************************************************************)
EXTENDS Integers

CONSTANTS
  None,    \* Python's None
  Procs    \* the ctun processes

ASSUME NoneAssumption == None \notin Int

VARIABLES
  session,  \* what the session file holds
  opened    \* the processes that truncated the file and have yet to write it

sessionVars == <<session, opened>>

(* A session limit as stored: None is "unguarded".                          *)
Limit == Nat \cup {None}

(* The session file's content.  `auth` is not stored by the code: it tags   *)
(* the stamp with the authentication it was made for.  `start` stands for   *)
(* start_epoch, by the usage the cluster had counted at that moment.        *)
Content == [kind : {"absent", "torn", "whole"}, auth : Nat, start : Nat, limit : Limit]

NoSession == [kind |-> "absent", auth |-> 0, start |-> 0, limit |-> None]
Torn == [NoSession EXCEPT !.kind = "torn"]
Stamp(auth, start, limit) ==
  [kind |-> "whole", auth |-> auth, start |-> start, limit |-> limit]

SessionTypeOK ==
  /\ session \in Content
  /\ opened \subseteq Procs

SessionInit ==
  /\ session = NoSession
  /\ opened = {}

(* session.load: a missing or unreadable file is no session.                *)
Loaded == IF session.kind = "whole" THEN session ELSE NoSession

(* session.start up to the open: the file is there and empty.               *)
Truncate(p) ==
  /\ session' = Torn
  /\ opened' = opened \cup {p}

(* session.start's write.  If another process wrote a longer stamp since    *)
(* the truncation, its tail stays behind this one and nothing parses.       *)
Write(p, stamp) ==
  /\ opened' = opened \ {p}
  /\ IF p \in opened
       THEN \/ session' = stamp
            \/ /\ session.kind = "whole"
               /\ session.limit # stamp.limit
               /\ session' = Torn
       ELSE UNCHANGED session

(* session.clear *)
Clear ==
  /\ session' = NoSession
  /\ opened' = {}

(* The process dies: an unwritten file stays empty.                         *)
Abandon(p) ==
  /\ opened' = opened \ {p}
  /\ UNCHANGED session
==============================================================================
