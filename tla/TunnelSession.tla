---------------------------- MODULE TunnelSession ----------------------------
(***************************************************************************)
(* The core of ctun: short-lived processes that share one cluster's tunnel *)
(* (SshMaster), session file (SessionFile) and command log without a lock. *)
(* A process of Operators runs `ctun login` and `ctun logout`, one of      *)
(* Runners `ctun run` (api.py, budget.py, cmdlog.py); each takes one step  *)
(* per call that reads or writes shared state, and may be killed between   *)
(* two of them.                                                            *)
(*                                                                         *)
(* What the budget script measures is abstracted to a counter `spent` of   *)
(* the usage the cluster has charged to the user so far.                   *)
(***************************************************************************)
EXTENDS SshMaster, SessionFile

CONSTANTS
  Operators,   \* processes that log in and out
  Runners,     \* processes that run commands
  MayCrash,    \* the processes that may be killed half-way
  Ways,        \* how a login may authenticate, out of Way
  LimitArgs,   \* limits a caller or a dialog may give; None for no answer
  Configured,  \* the cluster's session_limit, or None
  FailMode,    \* the cluster's budget fail_mode
  MaxSpent     \* bound: usage charged by the cluster

Way == {"terminal", "dialog", "credentials", "bridge"}

ASSUME ProcsAssumption == /\ Procs = Operators \cup Runners
                          /\ MayCrash \subseteq Procs
ASSUME LoginAssumption == /\ Ways \subseteq Way
                          /\ LimitArgs \subseteq Int \cup {None}
                          /\ Configured \in Int \cup {None}
ASSUME BudgetAssumption == /\ FailMode \in {"open", "closed"}
                           /\ MaxSpent \in Nat

VARIABLES
  spent,      \* usage charged to the user since the beginning
  logged,     \* the processes whose current command is in the command log
  pc,         \* where each process is
  op,         \* what each process has read or been told so far
  stamped,    \* ghost: the authentications a session was stamped for
  current     \* ghost: the processes whose command was logged under the
              \* session that is still in the session file

procVars == <<pc, op>>
ghostVars == <<stamped, current>>
vars == <<sshVars, sessionVars, spent, logged, procVars, ghostVars>>

(* The control points of login, logout and run, in the order of their code. *)
LoginPoint == {"load", "bridge", "prepare", "unlink", "authenticate", "verify",
               "clearlog", "stamp", "write"}
LogoutPoint == {"forget", "wipe"}
RunPoint == {"decide", "probe", "record", "submit", "logjobs"}
Point == {"idle"} \cup LoginPoint \cup LogoutPoint \cup RunPoint

(***************************************************************************)
(* A process's locals.  login: the limit it will stamp, whether ssh runs   *)
(* in a pty, the authentication it is for (ghost; 0 while there is none)   *)
(* and the start it read off the clock.  run: is the command guarded, the  *)
(* session the guard loaded, and the session that was already spent when   *)
(* the run began (ghost; forgotten once the guard loaded another).         *)
(***************************************************************************)
Local == [limit : Limit, pty : BOOLEAN, auth : Nat, start : Nat,
          guarded : BOOLEAN, mine : Content, doomed : Content]

Blank == [limit |-> None, pty |-> FALSE, auth |-> 0, start |-> 0,
          guarded |-> FALSE, mine |-> NoSession, doomed |-> NoSession]

Init ==
  /\ SshInit
  /\ SessionInit
  /\ spent = 0
  /\ logged = {}
  /\ pc = [p \in Procs |-> "idle"]
  /\ op = [p \in Procs |-> Blank]
  /\ stamped = {}
  /\ current = {}

Goto(p, from, to) == pc[p] = from /\ pc' = [pc EXCEPT ![p] = to]

(* The command ends, with a result or an error, and its process exits.      *)
Finish(p) ==
  /\ pc' = [pc EXCEPT ![p] = "idle"]
  /\ op' = [op EXCEPT ![p] = Blank]

-----------------------------------------------------------------------------
(* login *)

(* The limit argument, else the cluster's session_limit.                    *)
DefaultLimit(arg) == IF arg # None THEN arg ELSE Configured

(* What the person or the calling program gave beats the default: always in *)
(* the dialog, with credentials only where the argument is silent.          *)
ChosenLimit(way, arg, given) ==
  CASE way = "dialog" -> given
    [] way = "credentials" /\ arg = None /\ given # None -> given
    [] OTHER -> DefaultLimit(arg)

(* A mutated form of Normalised: the dialog's -1 is stored as it is.        *)
NormalisedNever(limit) == limit

(* A negative limit means unguarded, stored as None.                        *)
Normalised(limit) == IF limit # None /\ limit < 0 THEN None ELSE limit

(* The tunnel is already up: keep it; the session is looked at next.        *)
LoginLive(p) ==
  /\ IsLive(TRUE)
  /\ Goto(p, "idle", "load")
  /\ \E arg \in LimitArgs :
       op' = [op EXCEPT ![p].limit = Normalised(DefaultLimit(arg)),
                        ![p].auth = socket]
  /\ UNCHANGED <<sshVars, sessionVars, spent, logged, ghostVars>>

(* No tunnel: collect what the login needs and go on to open one, or offer  *)
(* it to the front end behind the login bridge.                             *)
LoginNew(p) ==
  /\ IsLive(FALSE)
  /\ \E way \in Ways, arg \in LimitArgs, given \in LimitArgs :
       /\ Goto(p, "idle", IF way = "bridge" THEN "bridge" ELSE "prepare")
       /\ op' = [op EXCEPT ![p].limit = Normalised(ChosenLimit(way, arg, given)),
                           ![p].pty = way \in {"dialog", "credentials"}]
  /\ UNCHANGED <<sshVars, sessionVars, spent, logged, ghostVars>>

(* No front end took the login: ask in the dialog.                          *)
BridgeDeclines(p) ==
  /\ Goto(p, "bridge", "prepare")
  /\ \E given \in LimitArgs :
       op' = [op EXCEPT ![p].limit = Normalised(given), ![p].pty = TRUE]

(* The front end says live and the tunnel is: look at the session it began. *)
BridgeLoggedIn(p) ==
  /\ IsLive(TRUE)
  /\ Goto(p, "bridge", "load")
  /\ op' = [op EXCEPT ![p].auth = socket]

(* Cancelled, failed, no answer in time, or live with no tunnel: an error.   *)
(* The front end may go on with the login all the same.                      *)
BridgeFails(p) == pc[p] = "bridge" /\ Finish(p)

BridgeAnswers(p) ==
  /\ BridgeDeclines(p) \/ BridgeLoggedIn(p) \/ BridgeFails(p)
  /\ UNCHANGED <<sshVars, sessionVars, spent, logged, ghostVars>>

(* A mutated form of PrepareSocket: the socket's directory is made and that *)
(* is all.                                                                  *)
PrepareSocketOnly(p) ==
  /\ Goto(p, "prepare", "authenticate")
  /\ UNCHANGED <<sshVars, sessionVars, spent, logged, op, ghostVars>>

(* prepare_socket: a socket file that doesn't answer is to be dropped.      *)
PrepareSocket(p) ==
  /\ \E live \in BOOLEAN :
       /\ IsLive(live)
       /\ Goto(p, "prepare", IF socket # NoSocket /\ ~live THEN "unlink" ELSE "authenticate")
  /\ UNCHANGED <<sshVars, sessionVars, spent, logged, op, ghostVars>>

DropStaleSocket(p) ==
  /\ Goto(p, "unlink", "authenticate")
  /\ DropSocket
  /\ UNCHANGED <<sessionVars, spent, logged, op, ghostVars>>

(* ssh asks the person, or the pty loop answers for them.  A login in a pty *)
(* that got nowhere, or that met another's tunnel, still asks whether one   *)
(* is live; in the terminal ssh's exit code ends the login.  The pty is     *)
(* closed either way.                                                       *)
Authenticate(p) ==
  /\ pc[p] = "authenticate"
  /\ \/ /\ Connect
        /\ Goto(p, "authenticate", "verify")
        /\ op' = [op EXCEPT ![p].auth = auths', ![p].pty = FALSE]
     \/ /\ op[p].pty
        /\ Goto(p, "authenticate", "verify")
        /\ op' = [op EXCEPT ![p].pty = FALSE]
        /\ UNCHANGED sshVars
     \/ /\ ~op[p].pty
        /\ Finish(p)
        /\ UNCHANGED sshVars
  /\ UNCHANGED <<sessionVars, spent, logged, ghostVars>>

(* A mutated form of Verify: any session found is kept, also when the       *)
(* tunnel is new.                                                           *)
VerifyKeepsSession(p) ==
  /\ pc[p] = "verify"
  /\ \/ /\ IsLive(TRUE)
        /\ Goto(p, "verify", "load")
        /\ op' = [op EXCEPT ![p].auth = IF @ = 0 THEN socket ELSE @]
     \/ IsLive(FALSE) /\ Finish(p)
  /\ UNCHANGED <<sshVars, sessionVars, spent, logged, ghostVars>>

(* Only a live tunnel makes the login a success.                            *)
Verify(p) ==
  /\ pc[p] = "verify"
  /\ \/ /\ IsLive(TRUE)
        /\ Goto(p, "verify", "clearlog")
        /\ op' = [op EXCEPT ![p].auth = IF @ = 0 THEN socket ELSE @]
     \/ IsLive(FALSE) /\ Finish(p)
  /\ UNCHANGED <<sshVars, sessionVars, spent, logged, ghostVars>>

(* A mutated form of LoadKept: every login starts a session.                *)
LoadKeptNever(p) ==
  /\ Goto(p, "load", "clearlog")
  /\ UNCHANGED <<sshVars, sessionVars, spent, logged, op, ghostVars>>

(* A tunnel that was up, or that the front end opened, keeps its session.   *)
LoadKept(p) ==
  /\ pc[p] = "load"
  /\ IF Loaded = NoSession
       THEN Goto(p, "load", "clearlog") /\ UNCHANGED op
       ELSE Finish(p)
  /\ UNCHANGED <<sshVars, sessionVars, spent, logged, ghostVars>>

ClearLog(p) ==
  /\ Goto(p, "clearlog", "stamp")
  /\ logged' = {}
  /\ UNCHANGED <<sshVars, sessionVars, spent, op, ghostVars>>

(* session.start: the clock is read, then the file truncated ...            *)
BeginStamp(p) ==
  /\ Goto(p, "stamp", "write")
  /\ Truncate(p)
  /\ op' = [op EXCEPT ![p].start = spent]
  /\ current' = {}
  /\ UNCHANGED <<sshVars, spent, logged, stamped>>

(* ... and written.                                                         *)
FinishStamp(p) ==
  /\ pc[p] = "write"
  /\ Write(p, Stamp(op[p].auth, op[p].start, op[p].limit))
  /\ stamped' = stamped \cup {op[p].auth}
  /\ current' = {}
  /\ Finish(p)
  /\ UNCHANGED <<sshVars, spent, logged>>

-----------------------------------------------------------------------------
(* logout *)

(* A mutated form of CloseTunnel: logout without the `ssh -O exit`.         *)
CloseTunnelNever(p) ==
  /\ Goto(p, "idle", "forget")
  /\ UNCHANGED <<sshVars, sessionVars, spent, logged, op, ghostVars>>

(* The outcome of `ssh -O exit` is not looked at.                           *)
CloseTunnel(p) ==
  /\ Goto(p, "idle", "forget")
  /\ Close
  /\ UNCHANGED <<sessionVars, spent, logged, op, ghostVars>>

(* A mutated form of ForgetSession: the log goes while the session stays.   *)
ForgetLogFirst(p) ==
  /\ Goto(p, "forget", "wipe")
  /\ logged' = {}
  /\ UNCHANGED <<sshVars, sessionVars, spent, op, ghostVars>>

ForgetSession(p) ==
  /\ Goto(p, "forget", "wipe")
  /\ Clear
  /\ current' = {}
  /\ UNCHANGED <<sshVars, spent, logged, op, stamped>>

WipeLog(p) ==
  /\ pc[p] = "wipe"
  /\ logged' = {}
  /\ Finish(p)
  /\ UNCHANGED <<sshVars, sessionVars, spent, ghostVars>>

-----------------------------------------------------------------------------
(* run *)

Used(stamp) == spent - stamp.start

(* A mutated form of OverBudget: a budget used to the last unit passes.     *)
OverBudgetByMore(stamp) == Used(stamp) > stamp.limit

(* The guard's threshold: used >= limit blocks.                             *)
OverBudget(stamp) == Used(stamp) >= stamp.limit

(* ghost: a session whose budget is used up                                 *)
Spent(content) ==
  /\ content.kind = "whole"
  /\ content.limit # None
  /\ Used(content) >= content.limit

(* _preflight: without a live tunnel the run is refused before anything.    *)
RunStart(p) ==
  /\ IsLive(TRUE)
  /\ Goto(p, "idle", "decide")
  /\ \E guarded \in BOOLEAN :
       op' = [op EXCEPT ![p].guarded = guarded,
                        ![p].doomed = IF Spent(session) THEN session ELSE NoSession]
  /\ UNCHANGED <<sshVars, sessionVars, spent, logged, ghostVars>>

(* _failure: the guard can't tell, so fail_mode does.                       *)
GuardFails(p) ==
  IF FailMode = "open"
    THEN pc' = [pc EXCEPT ![p] = "record"] /\ op' = [op EXCEPT ![p].mine = Loaded]
    ELSE Finish(p)

(* decide and check, up to the probe: an unguarded command or an unguarded  *)
(* session passes, a missing session or budget script is for fail_mode.     *)
Decide(p) ==
  /\ pc[p] = "decide"
  /\ \/ ~op[p].guarded /\ Goto(p, "decide", "record") /\ UNCHANGED op
     \/ op[p].guarded /\ Loaded = NoSession /\ GuardFails(p)
     \/ /\ op[p].guarded /\ Loaded # NoSession
        /\ Goto(p, "decide", IF Loaded.limit = None THEN "record" ELSE "probe")
        /\ op' = [op EXCEPT ![p].mine = Loaded,
                            ![p].doomed = IF @ = Loaded THEN @ ELSE NoSession]
  /\ UNCHANGED <<sshVars, sessionVars, spent, logged, ghostVars>>

(* The budget script's answer for the session loaded before, or no answer.  *)
Probe(p) ==
  /\ pc[p] = "probe"
  /\ \/ /\ CommandReaches
        /\ IF OverBudget(op[p].mine)
             THEN Finish(p)
             ELSE Goto(p, "probe", "record") /\ UNCHANGED op
     \/ GuardFails(p)
  /\ UNCHANGED <<sshVars, sessionVars, spent, logged, ghostVars>>

(* cmdlog.record: the command's line, before it runs.                       *)
RecordCommand(p) ==
  /\ Goto(p, "record", "submit")
  /\ logged' = logged \cup {p}
  /\ current' = IF Loaded = NoSession THEN current \ {p} ELSE current \cup {p}
  /\ UNCHANGED <<sshVars, sessionVars, spent, op, stamped>>

(* The command goes to the cluster, or finds no way there.                  *)
Submit(p) ==
  /\ pc[p] = "submit"
  /\ \/ CommandReaches /\ Goto(p, "submit", "logjobs") /\ UNCHANGED op
     \/ ~CommandReaches /\ Finish(p)
  /\ UNCHANGED <<sshVars, sessionVars, spent, logged, ghostVars>>

(* cmdlog.record_jobs: a line that counts only while the command's is there. *)
LogJobs(p) ==
  /\ pc[p] = "logjobs"
  /\ Finish(p)
  /\ UNCHANGED <<sshVars, sessionVars, spent, logged, ghostVars>>

-----------------------------------------------------------------------------
(* The world around the processes. *)

(* A process is killed (Ctrl-C, reboot): what it did stays done.            *)
Crash(p) ==
  /\ pc[p] # "idle"
  /\ Finish(p)
  /\ Abandon(p)
  /\ UNCHANGED <<sshVars, spent, logged, ghostVars>>

Dies ==
  /\ \E c \in conns : ConnectionDies(c)
  /\ UNCHANGED <<sessionVars, spent, logged, procVars, ghostVars>>

(* Running jobs, of this session or not, cost something.                    *)
Accrue ==
  /\ spent < MaxSpent
  /\ spent' = spent + 1
  /\ UNCHANGED <<sshVars, sessionVars, logged, procVars, ghostVars>>

Login(p) ==
  \/ LoginLive(p) \/ LoginNew(p) \/ BridgeAnswers(p) \/ PrepareSocket(p)
  \/ DropStaleSocket(p) \/ Authenticate(p) \/ Verify(p) \/ LoadKept(p)
  \/ ClearLog(p) \/ BeginStamp(p) \/ FinishStamp(p)

Logout(p) == CloseTunnel(p) \/ ForgetSession(p) \/ WipeLog(p)

Run(p) ==
  \/ RunStart(p) \/ Decide(p) \/ Probe(p) \/ RecordCommand(p) \/ Submit(p) \/ LogJobs(p)

Next ==
  \/ \E p \in Operators : Login(p) \/ Logout(p)
  \/ \E p \in Runners : Run(p)
  \/ \E p \in MayCrash : Crash(p)
  \/ Dies
  \/ Accrue

Spec == Init /\ [][Next]_vars

-----------------------------------------------------------------------------
(* Properties *)

TypeOK ==
  /\ SshTypeOK
  /\ SessionTypeOK
  /\ spent \in 0 .. MaxSpent
  /\ logged \subseteq Procs
  /\ pc \in [Procs -> Point]
  /\ op \in [Procs -> Local]
  /\ stamped \subseteq Nat
  /\ current \subseteq Procs

(* The budget guard may let a submission through.                           *)
Granted(p) == pc[p] \in {"record", "submit", "logjobs"}

(* Failing closed, the guard never lets a submission through on a session   *)
(* whose budget was already used up when the run began, nor on no session:  *)
(* however the tunnel, the session file, logins and logouts change between  *)
(* the guard's reads and the submission, only runs that were past the probe *)
(* when the budget ran out still submit (budget.check).                     *)
NoGrantOnSpentSession ==
  FailMode = "closed" =>
    \A p \in Runners : (Granted(p) /\ op[p].guarded) =>
      /\ op[p].mine.kind = "whole"
      /\ op[p].mine # op[p].doomed

(* What makes NoGrantOnSpentSession inductive: a session that was spent     *)
(* stays spent, only a session with a limit is probed, and whichever way    *)
(* the guard let a run through, the session was not spent at its beginning. *)
GuardInv ==
  \A p \in Procs :
    /\ op[p].doomed # NoSession => Spent(op[p].doomed)
    /\ pc[p] = "probe" => op[p].mine.kind = "whole" /\ op[p].mine.limit # None
    /\ (FailMode = "closed" /\ Granted(p) /\ op[p].guarded) =>
         op[p].mine.kind = "whole" /\ op[p].mine # op[p].doomed

(* One authentication gives one budget window: no second session is ever    *)
(* stamped for it (session.py: "replaced only by re-auth").                 *)
OneSessionPerAuthentication ==
  [][\A p \in Operators : FinishStamp(p) => op[p].auth \notin stamped]_vars

(* Every authenticated connection can be closed: none is left running       *)
(* behind a socket that is gone or that belongs to another, out of reach of *)
(* logout (prepare_socket, open_master).                                    *)
NoOrphanedConnection == conns \subseteq {socket}

(* Between logins and logouts a live tunnel has a readable session that was *)
(* stamped for that very tunnel (session.py: "A session == the lifetime of  *)
(* one authentication"), so the guard's failure mode is never what decides: *)
(* login starts it, and logout forgets it only with the tunnel.             *)
TunnelHasItsSession ==
  (Live /\ \A p \in Operators : pc[p] = "idle")
    => session.kind = "whole" /\ session.auth = socket

(* A command stays in the command log as long as the session it was logged  *)
(* under is the current one, but for a login on its way to replace that     *)
(* session: clearing comes before stamping in login and after forgetting in *)
(* logout.                                                                  *)
SessionLogComplete ==
  \A p \in Runners :
    (/\ pc[p] \in {"submit", "logjobs"}
     /\ p \in current
     /\ \A q \in Operators : pc[q] # "stamp")
    => p \in logged

(* Only a dead socket is dropped before a new master (prepare_socket: "drop *)
(* it if it isn't live").                                                   *)
OnlyDeadSocketDropped ==
  [][\A p \in Operators : (pc[p] = "unlink" /\ pc'[p] = "authenticate") => ~Live]_vars
==============================================================================
