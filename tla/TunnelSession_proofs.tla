------------------------ MODULE TunnelSession_proofs -------------------------
(***************************************************************************)
(* Theorems about TunnelSession, for every value of its constants.         *)
(***************************************************************************)
EXTENDS TunnelSession, TLAPS

-----------------------------------------------------------------------------
(* What the helpers return. *)

LEMMA ContentFacts ==
  /\ NoSession \in Content
  /\ Torn \in Content
  /\ NoSession.kind = "absent"
  /\ Torn.kind = "torn"
BY DEF NoSession, Torn, Content, Limit

LEMMA StampType ==
  ASSUME NEW auth \in Nat, NEW start \in Nat, NEW limit \in Limit
  PROVE  /\ Stamp(auth, start, limit) \in Content
         /\ Stamp(auth, start, limit).kind = "whole"
BY DEF Stamp, Content

LEMMA LoadedType ==
  ASSUME session \in Content
  PROVE  /\ Loaded \in Content
         /\ Loaded # NoSession => Loaded = session /\ session.kind = "whole"
BY ContentFacts DEF Loaded

(* Whatever is asked for, what login stamps is a limit: a natural number or *)
(* None (login's last step before the session).                             *)
LEMMA NormalisedType ==
  ASSUME NEW limit \in Int \cup {None}
  PROVE  Normalised(limit) \in Limit
BY NoneAssumption DEF Normalised, Limit

LEMMA ChosenLimitType ==
  ASSUME NEW way \in Way, NEW arg \in LimitArgs, NEW given \in LimitArgs
  PROVE  ChosenLimit(way, arg, given) \in Int \cup {None}
BY LoginAssumption DEF ChosenLimit, DefaultLimit

LEMMA BlankType == Blank \in Local
BY ContentFacts DEF Blank, Local, Limit

-----------------------------------------------------------------------------
(* Type correctness. *)

LEMMA InitTypeOK == Init => TypeOK
BY BlankType, ContentFacts, MaxAuthAssumption, BudgetAssumption
DEF Init, TypeOK, SshInit, SshTypeOK, SessionInit, SessionTypeOK, Point

(* Steps that leave the tunnel, the session file and the counters to their  *)
(* own modules: ending a command keeps the locals typed.                    *)
LEMMA FinishType ==
  ASSUME NEW p \in Procs, TypeOK, Finish(p)
  PROVE  pc' \in [Procs -> Point] /\ op' \in [Procs -> Local]
BY BlankType DEF TypeOK, Finish, Point

LEMMA GotoType ==
  ASSUME NEW p \in Procs, NEW from, NEW to \in Point, TypeOK, Goto(p, from, to)
  PROVE  pc' \in [Procs -> Point]
BY DEF TypeOK, Goto

LEMMA ConnectType == ASSUME SshTypeOK, Connect PROVE SshTypeOK'
BY MaxAuthAssumption DEF SshTypeOK, Connect, Conn, NoSocket

LEMMA LoginType ==
  ASSUME NEW p \in Operators, TypeOK, Login(p)
  PROVE  TypeOK'
<1> USE DEF TypeOK
<1>p. p \in Procs
  BY ProcsAssumption
<1>1. CASE LoginLive(p)
  <2>1. PICK arg \in LimitArgs :
          op' = [op EXCEPT ![p].limit = Normalised(DefaultLimit(arg)), ![p].auth = socket]
    BY <1>1 DEF LoginLive
  <2>2. Normalised(DefaultLimit(arg)) \in Limit
    BY NormalisedType, LoginAssumption DEF DefaultLimit
  <2>3. socket \in Nat
    BY MaxAuthAssumption DEF SshTypeOK, Conn, NoSocket
  <2>4. op' \in [Procs -> Local]
    BY <1>p, <2>1, <2>2, <2>3 DEF Local
  <2>5. pc' \in [Procs -> Point]
    BY <1>1, <1>p, GotoType DEF LoginLive, Point, LoginPoint
  <2>. QED
    BY <1>1, <2>4, <2>5 DEF LoginLive, ghostVars, sshVars, sessionVars, SshTypeOK, SessionTypeOK
<1>2. CASE LoginNew(p)
  <2>1. PICK way \in Ways, arg \in LimitArgs, given \in LimitArgs :
          /\ Goto(p, "idle", IF way = "bridge" THEN "bridge" ELSE "prepare")
          /\ op' = [op EXCEPT ![p].limit = Normalised(ChosenLimit(way, arg, given)),
                              ![p].pty = way \in {"dialog", "credentials"}]
    BY <1>2 DEF LoginNew
  <2>2. Normalised(ChosenLimit(way, arg, given)) \in Limit
    BY NormalisedType, ChosenLimitType, LoginAssumption
  <2>3. op' \in [Procs -> Local]
    <3> DEFINE pty == way \in {"dialog", "credentials"}
               limit == Normalised(ChosenLimit(way, arg, given))
    <3>1. op' = [op EXCEPT ![p].limit = limit, ![p].pty = pty]
      BY <2>1
    <3>2. pty \in BOOLEAN /\ limit \in Limit
      BY <2>2
    <3> HIDE DEF pty, limit
    <3>. QED
      BY <1>p, <3>1, <3>2 DEF Local
  <2>4. pc' \in [Procs -> Point]
    BY <1>p, <2>1, GotoType DEF Point, LoginPoint
  <2>. QED
    BY <1>2, <2>3, <2>4 DEF LoginNew, ghostVars, sshVars, sessionVars, SshTypeOK, SessionTypeOK
<1>3. CASE BridgeAnswers(p)
  <2>1. pc' \in [Procs -> Point] /\ op' \in [Procs -> Local]
    <3>1. CASE \E given \in LimitArgs :
                 /\ Goto(p, "bridge", "prepare")
                 /\ op' = [op EXCEPT ![p].limit = Normalised(given), ![p].pty = TRUE]
      <4>1. PICK given \in LimitArgs :
              /\ Goto(p, "bridge", "prepare")
              /\ op' = [op EXCEPT ![p].limit = Normalised(given), ![p].pty = TRUE]
        BY <3>1
      <4>2. Normalised(given) \in Limit
        BY NormalisedType, LoginAssumption
      <4>. QED
        BY <1>p, <4>1, <4>2, GotoType DEF Point, LoginPoint, Local
    <3>2. CASE Goto(p, "bridge", "load") /\ op' = [op EXCEPT ![p].auth = socket]
      <4>1. socket \in Nat
        BY MaxAuthAssumption DEF SshTypeOK, Conn, NoSocket
      <4>. QED
        BY <1>p, <3>2, <4>1, GotoType DEF Point, LoginPoint, Local
    <3>3. CASE Finish(p)
      BY <1>p, <3>3, FinishType
    <3>. QED
      BY <1>3, <3>1, <3>2, <3>3 DEF BridgeAnswers, BridgeDeclines, BridgeLoggedIn, BridgeFails
  <2>. QED
    BY <1>3, <2>1 DEF BridgeAnswers, ghostVars, sshVars, sessionVars, SshTypeOK, SessionTypeOK
<1>4. CASE PrepareSocket(p)
  <2>1. pc' \in [Procs -> Point]
    BY <1>4, <1>p, GotoType DEF PrepareSocket, Point, LoginPoint
  <2>. QED
    BY <1>4, <2>1 DEF PrepareSocket, ghostVars, sshVars, sessionVars, SshTypeOK, SessionTypeOK
<1>5. CASE DropStaleSocket(p)
  <2>1. pc' \in [Procs -> Point]
    BY <1>5, <1>p, GotoType DEF DropStaleSocket, Point, LoginPoint
  <2>. QED
    BY <1>5, <2>1 DEF DropStaleSocket, DropSocket, ghostVars, sshVars, sessionVars, SshTypeOK,
                      SessionTypeOK, NoSocket
<1>6. CASE Authenticate(p)
  <2>1. CASE /\ Connect
             /\ Goto(p, "authenticate", "verify")
             /\ op' = [op EXCEPT ![p].auth = auths', ![p].pty = FALSE]
    <3>1. SshTypeOK'
      BY <2>1, ConnectType
    <3>2. auths' \in Nat
      BY <3>1, MaxAuthAssumption DEF SshTypeOK
    <3>3. op' \in [Procs -> Local]
      BY <1>p, <2>1, <3>2 DEF Local
    <3>4. pc' \in [Procs -> Point]
      BY <1>p, <2>1, GotoType DEF Point, LoginPoint
    <3>. QED
      BY <1>6, <3>1, <3>3, <3>4 DEF Authenticate, ghostVars, sessionVars, SessionTypeOK
  <2>2. CASE /\ Goto(p, "authenticate", "verify")
             /\ op' = [op EXCEPT ![p].pty = FALSE]
             /\ UNCHANGED sshVars
    <3>1. op' \in [Procs -> Local]
      BY <1>p, <2>2 DEF Local
    <3>2. pc' \in [Procs -> Point]
      BY <1>p, <2>2, GotoType DEF Point, LoginPoint
    <3>. QED
      BY <1>6, <2>2, <3>1, <3>2
      DEF Authenticate, ghostVars, sshVars, sessionVars, SshTypeOK, SessionTypeOK
  <2>3. CASE Finish(p) /\ UNCHANGED sshVars
    BY <1>6, <1>p, <2>3, FinishType
    DEF Authenticate, ghostVars, sshVars, sessionVars, SshTypeOK, SessionTypeOK
  <2>. QED
    BY <1>6, <2>1, <2>2, <2>3 DEF Authenticate
<1>7. CASE Verify(p)
  <2>1. CASE /\ Goto(p, "verify", "clearlog")
             /\ op' = [op EXCEPT ![p].auth = IF @ = 0 THEN socket ELSE @]
    <3>1. socket \in Nat
      BY MaxAuthAssumption DEF SshTypeOK, Conn, NoSocket
    <3>2. op' \in [Procs -> Local]
      BY <1>p, <2>1, <3>1 DEF Local
    <3>3. pc' \in [Procs -> Point]
      BY <1>p, <2>1, GotoType DEF Point, LoginPoint
    <3>. QED
      BY <1>7, <3>2, <3>3 DEF Verify, ghostVars, sshVars, sessionVars, SshTypeOK, SessionTypeOK
  <2>2. CASE Finish(p)
    BY <1>7, <1>p, <2>2, FinishType
    DEF Verify, ghostVars, sshVars, sessionVars, SshTypeOK, SessionTypeOK
  <2>. QED
    BY <1>7, <2>1, <2>2 DEF Verify
<1>8. CASE LoadKept(p)
  <2>1. pc' \in [Procs -> Point] /\ op' \in [Procs -> Local]
    BY <1>8, <1>p, FinishType, GotoType DEF LoadKept, Point, LoginPoint
  <2>. QED
    BY <1>8, <2>1 DEF LoadKept, ghostVars, sshVars, sessionVars, SshTypeOK, SessionTypeOK
<1>9. CASE ClearLog(p)
  <2>1. pc' \in [Procs -> Point]
    BY <1>9, <1>p, GotoType DEF ClearLog, Point, LoginPoint
  <2>. QED
    BY <1>9, <2>1 DEF ClearLog, ghostVars, sshVars, sessionVars, SshTypeOK, SessionTypeOK
<1>10. CASE BeginStamp(p)
  <2>1. pc' \in [Procs -> Point]
    BY <1>10, <1>p, GotoType DEF BeginStamp, Point, LoginPoint
  <2>2. spent \in Nat
    BY BudgetAssumption
  <2>3. op' \in [Procs -> Local]
    BY <1>10, <1>p, <2>2 DEF BeginStamp, Local
  <2>4. SessionTypeOK'
    BY <1>10, <1>p, ContentFacts DEF BeginStamp, Truncate, SessionTypeOK
  <2>. QED
    BY <1>10, <2>1, <2>3, <2>4 DEF BeginStamp, sshVars, SshTypeOK
<1>11. CASE FinishStamp(p)
  <2>1. /\ op[p].auth \in Nat
        /\ op[p].start \in Nat
        /\ op[p].limit \in Limit
    BY <1>p DEF Local
  <2>2. SessionTypeOK'
    BY <1>11, <2>1, StampType, ContentFacts DEF FinishStamp, Write, SessionTypeOK
  <2>3. pc' \in [Procs -> Point] /\ op' \in [Procs -> Local]
    BY <1>11, <1>p, FinishType DEF FinishStamp
  <2>. QED
    BY <1>11, <2>1, <2>2, <2>3 DEF FinishStamp, sshVars, SshTypeOK
<1>. QED
  BY <1>1, <1>2, <1>3, <1>4, <1>5, <1>6, <1>7, <1>8, <1>9, <1>10, <1>11 DEF Login

LEMMA LogoutType ==
  ASSUME NEW p \in Operators, TypeOK, Logout(p)
  PROVE  TypeOK'
<1> USE DEF TypeOK
<1>p. p \in Procs
  BY ProcsAssumption
<1>1. CASE CloseTunnel(p)
  <2>1. pc' \in [Procs -> Point]
    BY <1>1, <1>p, GotoType DEF CloseTunnel, Point, LogoutPoint
  <2>2. SshTypeOK'
    BY <1>1 DEF CloseTunnel, Close, SshTypeOK, NoSocket, sshVars
  <2>. QED
    BY <1>1, <2>1, <2>2 DEF CloseTunnel, ghostVars, sessionVars, SessionTypeOK
<1>2. CASE ForgetSession(p)
  <2>1. pc' \in [Procs -> Point]
    BY <1>2, <1>p, GotoType DEF ForgetSession, Point, LogoutPoint
  <2>2. SessionTypeOK'
    BY <1>2, ContentFacts DEF ForgetSession, Clear, SessionTypeOK
  <2>. QED
    BY <1>2, <2>1, <2>2 DEF ForgetSession, sshVars, SshTypeOK
<1>3. CASE WipeLog(p)
  BY <1>3, <1>p, FinishType
  DEF WipeLog, ghostVars, sshVars, sessionVars, SshTypeOK, SessionTypeOK
<1>. QED
  BY <1>1, <1>2, <1>3 DEF Logout

LEMMA RunType ==
  ASSUME NEW p \in Runners, TypeOK, Run(p)
  PROVE  TypeOK'
<1> USE DEF TypeOK
<1>p. p \in Procs
  BY ProcsAssumption
<1>s. session \in Content
  BY DEF SessionTypeOK
<1>l. Loaded \in Content
  BY <1>s, LoadedType
<1>g. ASSUME GuardFails(p)
      PROVE  pc' \in [Procs -> Point] /\ op' \in [Procs -> Local]
  <2>1. CASE FailMode = "open"
    BY <1>g, <1>p, <1>l, <2>1 DEF GuardFails, Local, Point, RunPoint
  <2>2. CASE FailMode # "open"
    BY <1>g, <1>p, <2>2, FinishType DEF GuardFails
  <2>. QED
    BY <2>1, <2>2
<1>1. CASE RunStart(p)
  <2>1. op' \in [Procs -> Local]
    <3> DEFINE doomed == IF Spent(session) THEN session ELSE NoSession
    <3>1. PICK guarded \in BOOLEAN :
            op' = [op EXCEPT ![p].guarded = guarded, ![p].doomed = doomed]
      BY <1>1 DEF RunStart
    <3>2. doomed \in Content
      BY <1>s, ContentFacts
    <3> HIDE DEF doomed
    <3>. QED
      BY <1>p, <3>1, <3>2 DEF Local
  <2>2. pc' \in [Procs -> Point]
    BY <1>1, <1>p, GotoType DEF RunStart, Point, RunPoint
  <2>. QED
    BY <1>1, <2>1, <2>2 DEF RunStart, ghostVars, sshVars, sessionVars, SshTypeOK, SessionTypeOK
<1>2. CASE Decide(p)
  <2>1. pc' \in [Procs -> Point] /\ op' \in [Procs -> Local]
    <3>1. CASE Goto(p, "decide", "record") /\ UNCHANGED op
      BY <1>p, <3>1, GotoType DEF Point, RunPoint
    <3>2. CASE GuardFails(p)
      BY <1>g, <3>2
    <3>3. CASE /\ Goto(p, "decide", IF Loaded.limit = None THEN "record" ELSE "probe")
               /\ op' = [op EXCEPT ![p].mine = Loaded,
                                   ![p].doomed = IF @ = Loaded THEN @ ELSE NoSession]
      <4>1. op' \in [Procs -> Local]
        BY <1>p, <1>l, <3>3, ContentFacts DEF Local
      <4>2. pc' \in [Procs -> Point]
        BY <1>p, <3>3, GotoType DEF Point, RunPoint
      <4>. QED
        BY <4>1, <4>2
    <3>. QED
      BY <1>2, <3>1, <3>2, <3>3 DEF Decide
  <2>. QED
    BY <1>2, <2>1 DEF Decide, ghostVars, sshVars, sessionVars, SshTypeOK, SessionTypeOK
<1>3. CASE Probe(p)
  <2>1. pc' \in [Procs -> Point] /\ op' \in [Procs -> Local]
    BY <1>3, <1>p, <1>g, FinishType, GotoType DEF Probe, Point, RunPoint
  <2>. QED
    BY <1>3, <2>1 DEF Probe, ghostVars, sshVars, sessionVars, SshTypeOK, SessionTypeOK
<1>4. CASE RecordCommand(p)
  <2>1. pc' \in [Procs -> Point]
    BY <1>4, <1>p, GotoType DEF RecordCommand, Point, RunPoint
  <2>. QED
    BY <1>4, <1>p, <2>1 DEF RecordCommand, sshVars, sessionVars, SshTypeOK, SessionTypeOK
<1>5. CASE Submit(p)
  <2>1. pc' \in [Procs -> Point] /\ op' \in [Procs -> Local]
    BY <1>5, <1>p, FinishType, GotoType DEF Submit, Point, RunPoint
  <2>. QED
    BY <1>5, <2>1 DEF Submit, ghostVars, sshVars, sessionVars, SshTypeOK, SessionTypeOK
<1>6. CASE LogJobs(p)
  BY <1>6, <1>p, FinishType
  DEF LogJobs, ghostVars, sshVars, sessionVars, SshTypeOK, SessionTypeOK
<1>. QED
  BY <1>1, <1>2, <1>3, <1>4, <1>5, <1>6 DEF Run

LEMMA NextTypeOK == TypeOK /\ [Next]_vars => TypeOK'
<1> SUFFICES ASSUME TypeOK, [Next]_vars PROVE TypeOK'
  OBVIOUS
<1>1. ASSUME NEW p \in Operators, Login(p) \/ Logout(p) PROVE TypeOK'
  BY <1>1, LoginType, LogoutType
<1>2. ASSUME NEW p \in Runners, Run(p) PROVE TypeOK'
  BY <1>2, RunType
<1>3. ASSUME NEW p \in MayCrash, Crash(p) PROVE TypeOK'
  <2>1. p \in Procs
    BY ProcsAssumption
  <2>. QED
    BY <1>3, <2>1, FinishType
    DEF TypeOK, Crash, Abandon, ghostVars, sshVars, SshTypeOK, SessionTypeOK
<1>4. CASE Dies
  BY <1>4 DEF TypeOK, Dies, ConnectionDies, ghostVars, procVars, sshVars, sessionVars,
              SshTypeOK, SessionTypeOK, NoSocket
<1>5. CASE Accrue
  BY <1>5, BudgetAssumption
  DEF TypeOK, Accrue, ghostVars, procVars, sshVars, sessionVars, SshTypeOK, SessionTypeOK
<1>6. CASE UNCHANGED vars
  BY <1>6 DEF TypeOK, vars, ghostVars, procVars, sshVars, sessionVars, SshTypeOK, SessionTypeOK
<1>. QED
  BY <1>1, <1>2, <1>3, <1>4, <1>5, <1>6 DEF Next

(* Every reachable state is well typed: in particular no negative limit and *)
(* no session content the code can't write.                                 *)
THEOREM TypeCorrect == Spec => []TypeOK
BY InitTypeOK, NextTypeOK, PTL DEF Spec

-----------------------------------------------------------------------------
(* The guard never grants a submission on a session that was spent when the *)
(* run began.                                                               *)

(* Usage only grows, so a spent session stays spent.                        *)
LEMMA SpentIsStable ==
  ASSUME NEW content \in Content, Spent(content),
         spent \in Nat, spent' \in Nat, spent <= spent'
  PROVE  Spent(content)'
<1>1. content.start \in Nat /\ content.limit \in Limit
  BY DEF Content
<1>2. content.limit \in Nat
  BY <1>1 DEF Spent, Limit
<1>. QED
  BY <1>1, <1>2 DEF Spent, Used

GuardInvAt(p) ==
  /\ op[p].doomed # NoSession => Spent(op[p].doomed)
  /\ pc[p] = "probe" => op[p].mine.kind = "whole" /\ op[p].mine.limit # None
  /\ (FailMode = "closed" /\ Granted(p) /\ op[p].guarded) =>
       op[p].mine.kind = "whole" /\ op[p].mine # op[p].doomed

(* A process keeps its part of the invariant in a step that leaves what its *)
(* guard read alone and does not take it into the probe or past it.         *)
LEMMA GuardInvKept ==
  ASSUME NEW p \in Procs, TypeOK, TypeOK', GuardInvAt(p), spent <= spent',
         op'[p].mine = op[p].mine, op'[p].doomed = op[p].doomed,
         op'[p].guarded = op[p].guarded,
         pc'[p] = "probe" => pc[p] = "probe",
         Granted(p)' => Granted(p)
  PROVE  GuardInvAt(p)'
<1>1. op[p].doomed \in Content
  BY DEF TypeOK, Local
<1>2. spent \in Nat /\ spent' \in Nat
  BY BudgetAssumption DEF TypeOK
<1>3. op'[p].doomed # NoSession => Spent(op[p].doomed)'
  BY <1>1, <1>2, SpentIsStable DEF GuardInvAt
<1>. QED
  BY <1>3 DEF GuardInvAt, Spent, Used

LEMMA GuardInvFinish ==
  ASSUME NEW p \in Procs, TypeOK, Finish(p)
  PROVE  GuardInvAt(p)'
<1>1. pc'[p] = "idle" /\ op'[p] = Blank
  BY DEF TypeOK, Finish
<1>. QED
  BY <1>1 DEF GuardInvAt, Blank, Granted

(* The steps of a login or a logout are not steps of a guard.               *)
LEMMA GuardInvLogin ==
  ASSUME NEW p \in Procs, TypeOK, TypeOK', GuardInvAt(p), Login(p) \/ Logout(p)
  PROVE  GuardInvAt(p)'
<1> DEFINE Kept == /\ op'[p].mine = op[p].mine
                   /\ op'[p].doomed = op[p].doomed
                   /\ op'[p].guarded = op[p].guarded
                   /\ pc'[p] # "probe"
                   /\ ~Granted(p)'
<1>0. /\ pc \in [Procs -> Point]
      /\ op \in [Procs -> Local]
      /\ spent \in Nat
  BY BudgetAssumption DEF TypeOK
<1>1. ASSUME Kept, spent' = spent PROVE GuardInvAt(p)'
  BY <1>0, <1>1, GuardInvKept
<1>2. ASSUME NEW from, NEW to \in LoginPoint \cup LogoutPoint, Goto(p, from, to)
      PROVE  pc'[p] # "probe" /\ ~Granted(p)'
  BY <1>0, <1>2 DEF Goto, Granted, LoginPoint, LogoutPoint
<1>3. CASE LoginLive(p)
  <2>1. Kept
    BY <1>0, <1>2, <1>3 DEF LoginLive, LoginPoint, Local
  <2>. QED
    BY <1>1, <1>3, <2>1 DEF LoginLive
<1>4. CASE LoginNew(p)
  <2>1. Kept
    BY <1>0, <1>2, <1>4 DEF LoginNew, LoginPoint, Local
  <2>. QED
    BY <1>1, <1>4, <2>1 DEF LoginNew
<1>5. CASE BridgeAnswers(p)
  <2>1. Kept \/ Finish(p)
    BY <1>0, <1>2, <1>5
       DEF BridgeAnswers, BridgeDeclines, BridgeLoggedIn, BridgeFails, LoginPoint, Local
  <2>. QED
    BY <1>1, <1>5, <2>1, GuardInvFinish DEF BridgeAnswers
<1>6. CASE PrepareSocket(p)
  <2>1. Kept
    BY <1>0, <1>2, <1>6 DEF PrepareSocket, LoginPoint
  <2>. QED
    BY <1>1, <1>6, <2>1 DEF PrepareSocket
<1>7. CASE DropStaleSocket(p)
  <2>1. Kept
    BY <1>0, <1>2, <1>7 DEF DropStaleSocket, LoginPoint
  <2>. QED
    BY <1>1, <1>7, <2>1 DEF DropStaleSocket
<1>8. CASE Authenticate(p)
  <2>1. Kept \/ Finish(p)
    BY <1>0, <1>2, <1>8 DEF Authenticate, LoginPoint, Local
  <2>. QED
    BY <1>1, <1>8, <2>1, GuardInvFinish DEF Authenticate
<1>9. CASE Verify(p)
  <2>1. Kept \/ Finish(p)
    BY <1>0, <1>2, <1>9 DEF Verify, LoginPoint, Local
  <2>. QED
    BY <1>1, <1>9, <2>1, GuardInvFinish DEF Verify
<1>10. CASE LoadKept(p)
  <2>1. Kept \/ Finish(p)
    BY <1>0, <1>2, <1>10 DEF LoadKept, LoginPoint
  <2>. QED
    BY <1>1, <1>10, <2>1, GuardInvFinish DEF LoadKept
<1>11. CASE ClearLog(p)
  <2>1. Kept
    BY <1>0, <1>2, <1>11 DEF ClearLog, LoginPoint
  <2>. QED
    BY <1>1, <1>11, <2>1 DEF ClearLog
<1>12. CASE BeginStamp(p)
  <2>1. Kept
    BY <1>0, <1>2, <1>12 DEF BeginStamp, LoginPoint, Local
  <2>. QED
    BY <1>1, <1>12, <2>1 DEF BeginStamp
<1>13. CASE CloseTunnel(p)
  <2>1. Kept
    BY <1>0, <1>2, <1>13 DEF CloseTunnel, LogoutPoint
  <2>. QED
    BY <1>1, <1>13, <2>1 DEF CloseTunnel
<1>14. CASE ForgetSession(p)
  <2>1. Kept
    BY <1>0, <1>2, <1>14 DEF ForgetSession, LogoutPoint
  <2>. QED
    BY <1>1, <1>14, <2>1 DEF ForgetSession
<1>15. CASE FinishStamp(p) \/ WipeLog(p)
  BY <1>15, GuardInvFinish DEF FinishStamp, WipeLog
<1>. QED
  BY <1>3, <1>4, <1>5, <1>6, <1>7, <1>8, <1>9, <1>10, <1>11, <1>12, <1>13, <1>14, <1>15
  DEF Login, Logout

(* A guard's own steps: the decision and the probe let a run through only   *)
(* on a session that was not spent.                                         *)
LEMMA GuardInvRun ==
  ASSUME NEW p \in Procs, TypeOK, TypeOK', GuardInvAt(p), Run(p)
  PROVE  GuardInvAt(p)'
<1>0. /\ pc \in [Procs -> Point]
      /\ op \in [Procs -> Local]
      /\ spent \in Nat
      /\ session \in Content
  BY BudgetAssumption DEF TypeOK, SessionTypeOK
<1>f. ASSUME GuardFails(p), spent' = spent PROVE GuardInvAt(p)'
  <2>1. CASE FailMode = "open"
    BY <1>0, <1>f, <2>1 DEF GuardFails, GuardInvAt, Local, Spent, Used
  <2>2. CASE FailMode # "open"
    BY <1>f, <2>2, GuardInvFinish DEF GuardFails
  <2>. QED
    BY <2>1, <2>2
<1>1. CASE RunStart(p)
  <2> DEFINE doomed == IF Spent(session) THEN session ELSE NoSession
  <2>1. PICK guarded \in BOOLEAN :
          op' = [op EXCEPT ![p].guarded = guarded, ![p].doomed = doomed]
    BY <1>1 DEF RunStart
  <2>2. op'[p].doomed = doomed
    BY <1>0, <2>1 DEF Local
  <2>3. spent' = spent /\ pc'[p] = "decide"
    BY <1>0, <1>1 DEF RunStart, Goto
  <2>4. doomed # NoSession => Spent(doomed)
    OBVIOUS
  <2> HIDE DEF doomed
  <2>. QED
    BY <2>2, <2>3, <2>4 DEF GuardInvAt, Granted, Spent, Used
<1>2. CASE Decide(p)
  <2>0. spent' = spent
    BY <1>2 DEF Decide
  <2>1. CASE ~op[p].guarded /\ Goto(p, "decide", "record") /\ UNCHANGED op
    BY <1>0, <2>0, <2>1 DEF Goto, GuardInvAt, Spent, Used
  <2>2. CASE GuardFails(p)
    BY <1>f, <2>0, <2>2
  <2>3. CASE /\ Loaded # NoSession
             /\ Goto(p, "decide", IF Loaded.limit = None THEN "record" ELSE "probe")
             /\ op' = [op EXCEPT ![p].mine = Loaded,
                                 ![p].doomed = IF @ = Loaded THEN @ ELSE NoSession]
    <3>1. Loaded.kind = "whole"
      BY <1>0, <2>3, LoadedType
    <3>2. /\ op'[p].mine = Loaded
          /\ op'[p].doomed = IF op[p].doomed = Loaded THEN op[p].doomed ELSE NoSession
      BY <1>0, <2>3 DEF Local
    <3>3. pc'[p] = IF Loaded.limit = None THEN "record" ELSE "probe"
      BY <1>0, <2>3 DEF Goto
    <3>4. op'[p].doomed # NoSession =>
            Spent(op[p].doomed) /\ op'[p].doomed = op[p].doomed /\ op[p].doomed = Loaded
      BY <3>2 DEF GuardInvAt
    <3>5. op'[p].doomed # NoSession => Spent(op'[p].doomed) /\ Loaded.limit # None
      BY <3>4 DEF Spent
    <3>6. op'[p].doomed # NoSession => Spent(op[p].doomed)'
      BY <2>0, <3>4, <3>5 DEF Spent, Used
    <3>7. pc'[p] = "record" => op'[p].mine # op'[p].doomed
      BY <2>3, <3>2, <3>3, <3>5
    <3>. QED
      BY <3>1, <3>2, <3>3, <3>6, <3>7 DEF GuardInvAt, Granted
  <2>. QED
    BY <1>2, <2>1, <2>2, <2>3 DEF Decide
<1>3. CASE Probe(p)
  <2>0. spent' = spent /\ pc[p] = "probe"
    BY <1>3 DEF Probe
  <2>1. CASE OverBudget(op[p].mine) /\ Finish(p)
    BY <2>1, GuardInvFinish
  <2>2. CASE ~OverBudget(op[p].mine) /\ Goto(p, "probe", "record") /\ UNCHANGED op
    <3>1. op[p].mine # op[p].doomed
      BY <2>0, <2>2, ContentFacts DEF GuardInvAt, Spent, OverBudget
    <3>2. pc'[p] = "record"
      BY <1>0, <2>2 DEF Goto
    <3>. QED
      BY <2>0, <2>2, <3>1, <3>2 DEF GuardInvAt, Spent, Used
  <2>3. CASE GuardFails(p)
    BY <1>f, <2>0, <2>3
  <2>. QED
    BY <1>3, <2>1, <2>2, <2>3 DEF Probe
<1>4. CASE RecordCommand(p)
  <2>1. pc[p] = "record" /\ pc'[p] = "submit"
    BY <1>0, <1>4 DEF RecordCommand, Goto
  <2>. QED
    BY <1>0, <1>4, <2>1, GuardInvKept DEF RecordCommand, Granted
<1>5. CASE Submit(p)
  <2>1. CASE Goto(p, "submit", "logjobs") /\ UNCHANGED op
    BY <1>0, <1>5, <2>1, GuardInvKept DEF Submit, Granted, Goto
  <2>2. CASE Finish(p)
    BY <2>2, GuardInvFinish
  <2>. QED
    BY <1>5, <2>1, <2>2 DEF Submit
<1>6. CASE LogJobs(p)
  BY <1>6, GuardInvFinish DEF LogJobs
<1>. QED
  BY <1>1, <1>2, <1>3, <1>4, <1>5, <1>6 DEF Run

(* A step of one process leaves the locals of the others alone.             *)
LEMMA OthersUntouched ==
  ASSUME NEW p \in Procs, TypeOK, Login(p) \/ Logout(p) \/ Run(p) \/ Crash(p),
         NEW q \in Procs, q # p
  PROVE  pc'[q] = pc[q] /\ op'[q] = op[q] /\ spent' = spent
<1>1. pc \in [Procs -> Point] /\ op \in [Procs -> Local]
  BY DEF TypeOK
<1>2. CASE Login(p)
  BY <1>1, <1>2 DEF Login, LoginLive, LoginNew, BridgeAnswers, BridgeDeclines, BridgeLoggedIn,
     BridgeFails, PrepareSocket, DropStaleSocket, Authenticate, Verify, LoadKept, ClearLog,
     BeginStamp, FinishStamp, Finish, Goto
<1>3. CASE Logout(p)
  BY <1>1, <1>3 DEF Logout, CloseTunnel, ForgetSession, WipeLog, Finish, Goto
<1>4. CASE Run(p)
  BY <1>1, <1>4 DEF Run, RunStart, Decide, Probe, RecordCommand, Submit, LogJobs, GuardFails,
     Finish, Goto
<1>5. CASE Crash(p)
  BY <1>1, <1>5 DEF Crash, Finish
<1>. QED
  BY <1>2, <1>3, <1>4, <1>5

LEMMA GuardInvStep == TypeOK /\ TypeOK' /\ GuardInv /\ [Next]_vars => GuardInv'
<1> SUFFICES ASSUME TypeOK, TypeOK', GuardInv, [Next]_vars, NEW q \in Procs
             PROVE  GuardInvAt(q)'
  BY DEF GuardInv, GuardInvAt
<1>0. GuardInvAt(q) /\ spent \in Nat
  BY BudgetAssumption DEF GuardInv, GuardInvAt, TypeOK
<1>1. ASSUME NEW p \in Procs, Login(p) \/ Logout(p) \/ Run(p) \/ Crash(p)
      PROVE  GuardInvAt(q)'
  <2>1. CASE q # p
    <3>1. pc'[q] = pc[q] /\ op'[q] = op[q] /\ spent' = spent
      BY <1>1, <2>1, OthersUntouched
    <3>. QED
      BY <1>0, <3>1, GuardInvKept DEF Granted
  <2>2. CASE q = p
    BY <1>0, <1>1, <2>2, GuardInvLogin, GuardInvRun, GuardInvFinish DEF Crash
  <2>. QED
    BY <2>1, <2>2
<1>2. CASE Dies \/ UNCHANGED vars
  BY <1>0, <1>2, GuardInvKept DEF Dies, vars, procVars, Granted
<1>3. CASE Accrue
  BY <1>0, <1>3, GuardInvKept DEF Accrue, procVars, Granted
<1>. QED
  BY <1>1, <1>2, <1>3, ProcsAssumption DEF Next

(* Failing closed, no run that began on a spent session is ever past the    *)
(* guard on that session, nor on none.                                      *)
THEOREM GuardIsSound == Spec => []NoGrantOnSpentSession
<1>1. Init => GuardInv
  BY DEF Init, GuardInv, Blank, Granted
<1>2. GuardInv => NoGrantOnSpentSession
  BY ProcsAssumption DEF GuardInv, NoGrantOnSpentSession
<1>. QED
  BY <1>1, <1>2, GuardInvStep, TypeCorrect, PTL DEF Spec

-----------------------------------------------------------------------------
(***************************************************************************)
(* When one process at a time logs in and out (one person at one machine), *)
(* while any number of runs go on.                                         *)
(***************************************************************************)

(* The points of a login past its check of the new tunnel.                  *)
StampPoint == {"clearlog", "stamp", "write"}

-----------------------------------------------------------------------------
(* Steps that are no login and no logout. *)

(* A run, or the death of a process, changes neither the tunnel nor the     *)
(* session; a process that dies forgets the file it had opened.             *)
LEMMA RunLeavesSession ==
  ASSUME NEW p, Run(p) \/ Crash(p)
  PROVE  /\ UNCHANGED <<sshVars, session, stamped>>
         /\ Run(p) => UNCHANGED opened
         /\ Crash(p) => opened' = opened \ {p}
<1>1. Run(p) => UNCHANGED <<sshVars, sessionVars, stamped>>
  BY DEF Run, RunStart, Decide, Probe, RecordCommand, Submit, LogJobs, ghostVars
<1>2. Crash(p) => UNCHANGED <<sshVars, session, stamped>> /\ opened' = opened \ {p}
  BY DEF Crash, Abandon, ghostVars
<1>. QED
  BY <1>1, <1>2 DEF sessionVars

(* A run's own step stays within the run, or ends it.                       *)
LEMMA RunStaysInRun ==
  ASSUME NEW p \in Procs, TypeOK, Run(p)
  PROVE  /\ pc[p] \in RunPoint \cup {"idle"}
         /\ pc'[p] \in RunPoint \cup {"idle"}
BY DEF TypeOK, Run, RunStart, Decide, Probe, RecordCommand, Submit, LogJobs, GuardFails,
   Finish, Goto, RunPoint

-----------------------------------------------------------------------------
(* With a check that answers, no connection is ever out of reach of logout. *)

(* While o is on its way to a new master there is no connection, and no     *)
(* socket file either once prepare_socket is done.                          *)
SoleOperatorInv(o) ==
  /\ conns \subseteq {socket}
  /\ pc[o] \in {"bridge", "prepare", "unlink", "authenticate"} => conns = {}
  /\ pc[o] = "authenticate" => socket = NoSocket

(* A step that opens no connection and moves no socket, of a process that   *)
(* is not on its way to a new master afterwards.                            *)
LEMMA SoleOperatorKept ==
  ASSUME NEW o, SoleOperatorInv(o), UNCHANGED sshVars,
         \/ pc'[o] = pc[o]
         \/ pc'[o] \notin {"bridge", "prepare", "unlink", "authenticate"}
  PROVE  SoleOperatorInv(o)'
BY DEF SoleOperatorInv, sshVars

LEMMA SoleOperatorLogin ==
  ASSUME NEW o \in Procs, CheckMayTimeOut = FALSE, TypeOK, SoleOperatorInv(o),
         Login(o) \/ Logout(o)
  PROVE  SoleOperatorInv(o)'
<1>0. /\ pc \in [Procs -> Point]
      /\ NoSocket \notin conns
  BY DEF TypeOK, SshTypeOK, Conn, NoSocket
<1>1. CASE LoginNew(o)
  <2>1. conns = {}
    BY <1>1 DEF LoginNew, IsLive, Live, SoleOperatorInv
  <2>2. pc'[o] \in {"bridge", "prepare"} /\ UNCHANGED sshVars
    BY <1>0, <1>1 DEF LoginNew, Goto
  <2>. QED
    BY <2>1, <2>2 DEF SoleOperatorInv, sshVars
<1>2. CASE BridgeAnswers(o)
  <2>1. conns = {} /\ UNCHANGED sshVars
    <3>1. pc[o] = "bridge" /\ UNCHANGED sshVars
      BY <1>2 DEF BridgeAnswers, BridgeDeclines, BridgeLoggedIn, BridgeFails, Goto
    <3>. QED
      BY <3>1 DEF SoleOperatorInv
  <2>2. pc'[o] \in {"prepare", "load", "idle"}
    BY <1>0, <1>2 DEF BridgeAnswers, BridgeDeclines, BridgeLoggedIn, BridgeFails, Goto, Finish
  <2>. QED
    BY <2>1, <2>2 DEF SoleOperatorInv, sshVars
<1>3. CASE PrepareSocket(o)
  <2>1. conns = {} /\ UNCHANGED sshVars
    BY <1>3 DEF PrepareSocket, Goto, SoleOperatorInv
  <2>2. pc'[o] = IF socket # NoSocket THEN "unlink" ELSE "authenticate"
    BY <1>0, <1>3, <2>1 DEF PrepareSocket, Goto, IsLive, Live
  <2>. QED
    BY <2>1, <2>2 DEF SoleOperatorInv, sshVars
<1>4. CASE DropStaleSocket(o)
  BY <1>0, <1>4 DEF DropStaleSocket, DropSocket, Goto, SoleOperatorInv
<1>5. CASE Authenticate(o)
  <2>1. conns = {} /\ socket = NoSocket
    BY <1>5 DEF Authenticate, SoleOperatorInv
  <2>2. pc'[o] \in {"verify", "idle"}
    BY <1>0, <1>5 DEF Authenticate, Goto, Finish
  <2>3. conns' \subseteq {socket'}
    BY <1>5, <2>1 DEF Authenticate, Connect, sshVars
  <2>. QED
    BY <2>2, <2>3 DEF SoleOperatorInv
<1>6. CASE CloseTunnel(o)
  <2>1. pc'[o] = "forget"
    BY <1>0, <1>6 DEF CloseTunnel, Goto
  <2>. QED
    BY <1>6, <2>1 DEF CloseTunnel, Close, SoleOperatorInv, sshVars
<1>7. CASE LoginLive(o) \/ Verify(o) \/ LoadKept(o) \/ ClearLog(o) \/ BeginStamp(o) \/ FinishStamp(o)
  <2>1. pc'[o] \in {"load", "clearlog", "stamp", "write", "idle"} /\ UNCHANGED sshVars
    BY <1>0, <1>7
    DEF LoginLive, Verify, LoadKept, ClearLog, BeginStamp, FinishStamp, Goto, Finish
  <2>. QED
    BY <2>1, SoleOperatorKept
<1>8. CASE ForgetSession(o) \/ WipeLog(o)
  <2>1. pc'[o] \in {"wipe", "idle"} /\ UNCHANGED sshVars
    BY <1>0, <1>8 DEF ForgetSession, WipeLog, Goto, Finish
  <2>. QED
    BY <2>1, SoleOperatorKept
<1>. QED
  BY <1>1, <1>2, <1>3, <1>4, <1>5, <1>6, <1>7, <1>8 DEF Login, Logout

(* A run may be by the same process, between its logins.                    *)
LEMMA SoleOperatorRun ==
  ASSUME NEW o \in Procs, NEW p \in Procs, TypeOK, SoleOperatorInv(o), Run(p) \/ Crash(p)
  PROVE  SoleOperatorInv(o)'
<1>0. pc \in [Procs -> Point]
  BY DEF TypeOK
<1>1. UNCHANGED sshVars
  BY DEF Run, RunStart, Decide, Probe, RecordCommand, Submit, LogJobs, Crash
<1>2. CASE Run(p)
  <2>1. pc'[p] \in RunPoint \cup {"idle"} /\ (p # o => pc'[o] = pc[o])
    BY <1>0, <1>2 DEF Run, RunStart, Decide, Probe, RecordCommand, Submit, LogJobs, GuardFails,
       Finish, Goto, RunPoint
  <2>. QED
    BY <1>1, <2>1, SoleOperatorKept DEF RunPoint
<1>3. CASE Crash(p)
  <2>1. pc'[p] = "idle" /\ (p # o => pc'[o] = pc[o])
    BY <1>0, <1>3 DEF Crash, Finish
  <2>. QED
    BY <1>1, <2>1, SoleOperatorKept
<1>. QED
  BY <1>2, <1>3

LEMMA SoleOperatorStep ==
  ASSUME NEW o, Operators = {o}, CheckMayTimeOut = FALSE
  PROVE  TypeOK /\ SoleOperatorInv(o) /\ [Next]_vars => SoleOperatorInv(o)'
<1> SUFFICES ASSUME TypeOK, SoleOperatorInv(o), [Next]_vars PROVE SoleOperatorInv(o)'
  OBVIOUS
<1>0. o \in Procs
  BY ProcsAssumption
<1>1. ASSUME NEW p \in Operators, Login(p) \/ Logout(p) PROVE SoleOperatorInv(o)'
  BY <1>0, <1>1, SoleOperatorLogin
<1>2. ASSUME NEW p \in Procs, Run(p) \/ Crash(p) PROVE SoleOperatorInv(o)'
  BY <1>0, <1>2, SoleOperatorRun
<1>3. CASE Dies
  BY <1>3 DEF Dies, ConnectionDies, SoleOperatorInv, procVars
<1>4. CASE Accrue \/ UNCHANGED vars
  BY <1>4, SoleOperatorKept DEF Accrue, vars, procVars
<1>. QED
  BY <1>1, <1>2, <1>3, <1>4, ProcsAssumption DEF Next

(* One person, checks that answer: logout reaches every connection that is  *)
(* alive, whatever dies or is killed in between.                            *)
THEOREM SoleOperatorOrphansNothing ==
  ASSUME NEW o, Operators = {o}, CheckMayTimeOut = FALSE
  PROVE  Spec => []NoOrphanedConnection
<1>1. Init => SoleOperatorInv(o)
  BY ProcsAssumption DEF Init, SshInit, SoleOperatorInv
<1>2. TypeOK /\ SoleOperatorInv(o) /\ [Next]_vars => SoleOperatorInv(o)'
  BY SoleOperatorStep
<1>3. SoleOperatorInv(o) => NoOrphanedConnection
  BY DEF SoleOperatorInv, NoOrphanedConnection
<1>. QED
  BY <1>1, <1>2, <1>3, TypeCorrect, PTL DEF Spec

-----------------------------------------------------------------------------
(* One authentication, one session. *)

(* While its connection lives, an authentication that a session was stamped *)
(* for has that session in the file; and a login that is going to stamp has *)
(* an authentication that nothing was stamped for, of the only connection.  *)
StampInv(o) ==
  /\ stamped \subseteq 0 .. auths
  /\ socket <= auths
  /\ op[o].auth <= auths
  /\ Live /\ socket \in stamped => session.kind = "whole" /\ session.auth = socket
  /\ pc[o] \in {"idle", "bridge", "prepare", "unlink", "authenticate"} => op[o].auth = 0
  /\ pc[o] = "load" =>
       (op[o].auth \in stamped => session.kind = "whole") /\ (Live => socket = op[o].auth)
  /\ (pc[o] = "verify" /\ op[o].auth # 0) \/ pc[o] \in StampPoint =>
       op[o].auth \notin stamped /\ (Live => socket = op[o].auth)
  /\ pc[o] = "verify" /\ op[o].auth = 0 => conns = {}
  /\ pc[o] = "write" => o \in opened /\ session.kind = "torn"
  /\ pc[o] \in {"forget", "wipe"} => conns = {}

(* A step that adds no connection and no session keeps the invariant, as    *)
(* long as it leaves o where it is, or takes it into a run or to its end.   *)
LEMMA StampInvKept ==
  ASSUME NEW o \in Procs, TypeOK, TypeOK', StampInv(o),
         UNCHANGED <<session, stamped, auths>>,
         conns' \subseteq conns, socket' \in {socket, NoSocket},
         \/ pc'[o] = pc[o] /\ op'[o] = op[o] /\ (o \in opened => o \in opened')
         \/ pc'[o] \in RunPoint /\ op'[o].auth = op[o].auth
         \/ pc'[o] = "idle" /\ op'[o].auth = 0
  PROVE  StampInv(o)'
<1>0. /\ socket \in Nat /\ auths \in Nat /\ NoSocket \notin conns
      /\ socket' <= auths
  BY MaxAuthAssumption DEF TypeOK, SshTypeOK, Conn, NoSocket, StampInv
<1>1. Live' => Live /\ socket' = socket
  BY <1>0 DEF Live
<1>2. CASE pc'[o] = pc[o] /\ op'[o] = op[o] /\ (o \in opened => o \in opened')
  BY <1>0, <1>1, <1>2 DEF StampInv
<1>3. CASE pc'[o] \in RunPoint /\ op'[o].auth = op[o].auth
  BY <1>0, <1>1, <1>3 DEF StampInv, RunPoint, StampPoint
<1>4. CASE pc'[o] = "idle" /\ op'[o].auth = 0
  BY <1>0, <1>1, <1>4 DEF StampInv, StampPoint
<1>. QED
  BY <1>2, <1>3, <1>4

LEMMA StampInvOthers ==
  ASSUME NEW o \in Procs, NEW p \in Procs, TypeOK, TypeOK', StampInv(o), Run(p) \/ Crash(p)
  PROVE  StampInv(o)'
<1>0. pc \in [Procs -> Point] /\ op \in [Procs -> Local]
  BY DEF TypeOK
<1>1. /\ UNCHANGED <<session, stamped, auths, conns, socket>>
      /\ opened' \in {opened, opened \ {p}}
  BY RunLeavesSession DEF sshVars
<1>2. CASE p # o
  <2>1. pc'[o] = pc[o] /\ op'[o] = op[o]
    BY <1>2, OthersUntouched
  <2>. QED
    BY <1>1, <1>2, <2>1, StampInvKept
<1>3. CASE p = o /\ Run(o)
  <2>1. pc'[o] \in RunPoint \/ pc'[o] = "idle"
    BY <1>3, RunStaysInRun
  <2>2. op'[o].auth = op[o].auth \/ Finish(o)
    BY <1>0, <1>3
    DEF Run, RunStart, Decide, Probe, RecordCommand, Submit, LogJobs, GuardFails, Local
  <2>3. Finish(o) => pc'[o] = "idle" /\ op'[o].auth = 0
    BY <1>0 DEF Finish, Blank
  <2>4. ~Finish(o) => pc'[o] # "idle"
    BY <1>0, <1>3 DEF Run, RunStart, Decide, Probe, RecordCommand, Submit, LogJobs, GuardFails, Goto
  <2>. QED
    BY <1>1, <2>1, <2>2, <2>3, <2>4, StampInvKept
<1>4. CASE p = o /\ Crash(o)
  <2>1. pc'[o] = "idle" /\ op'[o].auth = 0
    BY <1>0, <1>4 DEF Crash, Finish, Blank
  <2>. QED
    BY <1>1, <2>1, StampInvKept
<1>. QED
  BY <1>2, <1>3, <1>4

(* The login of the only operator, action by action.                        *)
LEMMA StampInvLogin ==
  ASSUME NEW o \in Procs, TypeOK, TypeOK', StampInv(o), SoleOperatorInv(o), Login(o)
  PROVE  StampInv(o)'
<1>0. /\ pc \in [Procs -> Point]
      /\ op \in [Procs -> Local]
      /\ socket \in Nat /\ auths \in Nat
      /\ NoSocket \notin conns
  BY MaxAuthAssumption DEF TypeOK, SshTypeOK, Conn, NoSocket
<1>a. op[o].auth \in Nat
  BY <1>0 DEF Local
<1>f. ASSUME Finish(o), UNCHANGED <<sshVars, session, stamped>> PROVE StampInv(o)'
  <2>1. pc'[o] = "idle" /\ op'[o].auth = 0
    BY <1>0, <1>f DEF Finish, Blank
  <2>. QED
    BY <1>f, <2>1, StampInvKept DEF sshVars
<1> DEFINE Quiet == UNCHANGED <<sshVars, session, opened, stamped>>
<1>1. CASE LoginLive(o)
  <2>1. pc'[o] = "load" /\ op'[o].auth = socket /\ Quiet /\ Live
    BY <1>0, <1>1 DEF LoginLive, Goto, Local, IsLive, ghostVars, sessionVars
  <2>. QED
    BY <1>0, <2>1 DEF StampInv, StampPoint, sshVars, Live
<1>2. CASE LoginNew(o)
  <2>1. pc'[o] \in {"bridge", "prepare"} /\ op'[o].auth = op[o].auth /\ pc[o] = "idle" /\ Quiet
    BY <1>0, <1>2 DEF LoginNew, Goto, Local, ghostVars, sessionVars
  <2>. QED
    BY <1>0, <2>1 DEF StampInv, StampPoint, sshVars, Live
<1>3. CASE BridgeAnswers(o)
  <2>1. pc[o] = "bridge" /\ Quiet
    BY <1>3 DEF BridgeAnswers, BridgeDeclines, BridgeLoggedIn, BridgeFails, Goto, ghostVars, sessionVars
  <2>2. ~BridgeLoggedIn(o)
    BY <2>1 DEF BridgeLoggedIn, IsLive, Live, SoleOperatorInv
  <2>3. BridgeDeclines(o) => pc'[o] = "prepare" /\ op'[o].auth = op[o].auth
    BY <1>0 DEF BridgeDeclines, Goto, Local
  <2>4. BridgeDeclines(o) => StampInv(o)'
    BY <1>0, <2>1, <2>3 DEF StampInv, StampPoint, sshVars, Live
  <2>. QED
    BY <1>3, <1>f, <2>1, <2>2, <2>4 DEF BridgeAnswers, BridgeFails
<1>4. CASE PrepareSocket(o)
  <2>1. /\ pc[o] = "prepare" /\ pc'[o] \in {"unlink", "authenticate"}
        /\ op' = op /\ Quiet
    BY <1>0, <1>4 DEF PrepareSocket, Goto, ghostVars, sessionVars
  <2>. QED
    BY <1>0, <2>1 DEF StampInv, StampPoint, sshVars, Live
<1>5. CASE DropStaleSocket(o)
  <2>1. /\ pc[o] = "unlink" /\ pc'[o] = "authenticate" /\ op' = op
        /\ UNCHANGED <<conns, auths, session, opened, stamped>> /\ socket' = NoSocket
    BY <1>0, <1>5 DEF DropStaleSocket, DropSocket, Goto, ghostVars, sessionVars
  <2>2. ~Live'
    BY <1>0, <2>1 DEF Live
  <2>. QED
    BY <1>0, <2>1, <2>2 DEF StampInv, StampPoint, NoSocket
<1>6. CASE Authenticate(o)
  <2>0. /\ pc[o] = "authenticate" /\ conns = {} /\ socket = NoSocket /\ op[o].auth = 0
        /\ UNCHANGED <<session, opened, stamped>>
    BY <1>6 DEF Authenticate, SoleOperatorInv, StampInv, ghostVars, sessionVars
  <2>1. CASE Connect /\ Goto(o, "authenticate", "verify")
             /\ op' = [op EXCEPT ![o].auth = auths', ![o].pty = FALSE]
    <3>1. pc'[o] = "verify" /\ op'[o].auth = auths + 1
      BY <1>0, <2>1 DEF Goto, Connect, Local
    <3>2. /\ auths' = auths + 1 /\ conns' = {auths + 1} /\ socket' = auths + 1
      BY <2>0, <2>1 DEF Connect
    <3>3. auths + 1 \notin stamped
      BY <1>0 DEF StampInv
    <3>. QED
      BY <1>0, <2>0, <3>1, <3>2, <3>3 DEF StampInv, StampPoint
  <2>2. CASE Goto(o, "authenticate", "verify") /\ op' = [op EXCEPT ![o].pty = FALSE]
             /\ UNCHANGED sshVars
    <3>1. pc'[o] = "verify" /\ op'[o].auth = 0
      BY <1>0, <2>0, <2>2 DEF Goto, Local
    <3>. QED
      BY <1>0, <2>0, <2>2, <3>1 DEF StampInv, StampPoint, sshVars, Live
  <2>3. CASE Finish(o) /\ UNCHANGED sshVars
    BY <1>f, <2>0, <2>3
  <2>. QED
    BY <1>6, <2>1, <2>2, <2>3 DEF Authenticate
<1>7. CASE Verify(o)
  <2>0. pc[o] = "verify" /\ Quiet
    BY <1>7 DEF Verify, ghostVars, sessionVars
  <2>1. CASE IsLive(TRUE) /\ Goto(o, "verify", "clearlog")
             /\ op' = [op EXCEPT ![o].auth = IF @ = 0 THEN socket ELSE @]
    <3>1. Live /\ op[o].auth # 0
      BY <2>0, <2>1 DEF IsLive, Live, StampInv
    <3>2. pc'[o] = "clearlog" /\ op'[o].auth = op[o].auth
      BY <1>0, <2>1, <3>1 DEF Goto, Local
    <3>. QED
      BY <1>0, <2>0, <3>1, <3>2 DEF StampInv, StampPoint, sshVars, Live
  <2>2. CASE Finish(o)
    BY <1>f, <2>0, <2>2
  <2>. QED
    BY <1>7, <2>1, <2>2 DEF Verify
<1>8. CASE LoadKept(o)
  <2>0. pc[o] = "load" /\ Quiet
    BY <1>8 DEF LoadKept, ghostVars, sessionVars
  <2>1. CASE Loaded = NoSession /\ Goto(o, "load", "clearlog") /\ UNCHANGED op
    <3>1. session.kind # "whole"
      BY <2>1, ContentFacts DEF Loaded
    <3>2. pc'[o] = "clearlog"
      BY <1>0, <2>1 DEF Goto
    <3>. QED
      BY <1>0, <2>0, <2>1, <3>1, <3>2 DEF StampInv, StampPoint, sshVars, Live
  <2>2. CASE Finish(o)
    BY <1>f, <2>0, <2>2
  <2>. QED
    BY <1>8, <2>1, <2>2 DEF LoadKept
<1>9. CASE ClearLog(o)
  <2>1. pc[o] = "clearlog" /\ pc'[o] = "stamp" /\ op' = op /\ Quiet
    BY <1>0, <1>9 DEF ClearLog, Goto, ghostVars, sessionVars
  <2>. QED
    BY <1>0, <2>1 DEF StampInv, StampPoint, sshVars, Live
<1>10. CASE BeginStamp(o)
  <2>1. /\ pc[o] = "stamp" /\ pc'[o] = "write" /\ op'[o].auth = op[o].auth
        /\ session' = Torn /\ o \in opened' /\ UNCHANGED <<sshVars, stamped>>
    BY <1>0, <1>10 DEF BeginStamp, Truncate, Goto, Local
  <2>. QED
    BY <1>0, <2>1, ContentFacts DEF StampInv, StampPoint, sshVars, Live
<1>11. CASE FinishStamp(o)
  <2>1. /\ pc'[o] = "idle" /\ op'[o].auth = 0
        /\ stamped' = stamped \cup {op[o].auth} /\ UNCHANGED sshVars
    BY <1>0, <1>11 DEF FinishStamp, Finish, Blank
  <2>2. pc[o] = "write" /\ o \in opened /\ session.kind = "torn"
    BY <1>11 DEF FinishStamp, StampInv
  <2>3. session'.kind = "whole" /\ session'.auth = op[o].auth
    BY <1>11, <2>2 DEF FinishStamp, Write, Stamp
  <2>4. stamped' \subseteq 0 .. auths'
    <3>1. op[o].auth \in 0 .. auths /\ stamped \subseteq 0 .. auths
      BY <1>0, <1>a DEF StampInv
    <3>. QED
      BY <2>1, <3>1 DEF sshVars
  <2>5. Live' => socket' = op[o].auth
    BY <2>1, <2>2 DEF StampInv, StampPoint, sshVars, Live
  <2>6. socket' <= auths' /\ op'[o].auth <= auths'
    BY <1>0, <2>1 DEF StampInv, sshVars
  <2>. QED
    BY <2>1, <2>3, <2>4, <2>5, <2>6 DEF StampInv, StampPoint
<1>. QED
  BY <1>1, <1>2, <1>3, <1>4, <1>5, <1>6, <1>7, <1>8, <1>9, <1>10, <1>11 DEF Login

LEMMA StampInvLogout ==
  ASSUME NEW o \in Procs, CloseMayFail = FALSE, TypeOK, TypeOK', StampInv(o),
         SoleOperatorInv(o), Logout(o)
  PROVE  StampInv(o)'
<1>0. /\ pc \in [Procs -> Point]
      /\ op \in [Procs -> Local]
      /\ socket \in Nat /\ auths \in Nat
      /\ NoSocket \notin conns
  BY MaxAuthAssumption DEF TypeOK, SshTypeOK, Conn, NoSocket
<1>1. CASE CloseTunnel(o)
  <2>1. pc'[o] = "forget" /\ UNCHANGED <<session, stamped, op, auths>>
    BY <1>0, <1>1 DEF CloseTunnel, Close, Goto, sshVars, sessionVars, ghostVars
  <2>2. conns' = {} /\ socket' \in {socket, NoSocket}
    BY <1>1 DEF CloseTunnel, Close, Live, SoleOperatorInv, sshVars
  <2>. QED
    BY <1>0, <2>1, <2>2 DEF StampInv, StampPoint, Live, NoSocket
<1>2. CASE ForgetSession(o)
  <2>1. pc[o] = "forget" /\ pc'[o] = "wipe" /\ UNCHANGED <<sshVars, stamped, op>>
    BY <1>0, <1>2 DEF ForgetSession, Goto
  <2>2. conns = {}
    BY <2>1 DEF StampInv
  <2>. QED
    BY <1>0, <2>1, <2>2 DEF StampInv, StampPoint, Live, sshVars
<1>3. CASE WipeLog(o)
  <2>1. pc'[o] = "idle" /\ op'[o].auth = 0 /\ UNCHANGED <<sshVars, session, stamped>>
    BY <1>0, <1>3 DEF WipeLog, Finish, Blank, sessionVars, ghostVars
  <2>. QED
    BY <2>1, StampInvKept DEF sshVars
<1>. QED
  BY <1>1, <1>2, <1>3 DEF Logout

LEMMA StampInvStep ==
  ASSUME NEW o, Operators = {o}, CheckMayTimeOut = FALSE, CloseMayFail = FALSE
  PROVE  TypeOK /\ TypeOK' /\ SoleOperatorInv(o) /\ StampInv(o) /\ [Next]_vars => StampInv(o)'
<1> SUFFICES ASSUME TypeOK, TypeOK', SoleOperatorInv(o), StampInv(o), [Next]_vars
             PROVE  StampInv(o)'
  OBVIOUS
<1>0. o \in Procs
  BY ProcsAssumption
<1>1. ASSUME NEW p \in Operators, Login(p) \/ Logout(p) PROVE StampInv(o)'
  BY <1>0, <1>1, StampInvLogin, StampInvLogout
<1>2. ASSUME NEW p \in Procs, Run(p) \/ Crash(p) PROVE StampInv(o)'
  BY <1>0, <1>2, StampInvOthers
<1>3. CASE Dies
  <2>1. /\ UNCHANGED <<session, opened, stamped, auths, pc, op>>
        /\ conns' \subseteq conns /\ socket' \in {socket, NoSocket}
    BY <1>3 DEF Dies, ConnectionDies, sessionVars, ghostVars, procVars
  <2>. QED
    BY <1>0, <2>1, StampInvKept
<1>4. CASE Accrue \/ UNCHANGED vars
  <2>1. UNCHANGED <<session, opened, stamped, auths, pc, op, conns, socket>>
    BY <1>4 DEF Accrue, vars, sshVars, sessionVars, ghostVars, procVars
  <2>. QED
    BY <1>0, <2>1, StampInvKept
<1>. QED
  BY <1>1, <1>2, <1>3, <1>4, ProcsAssumption DEF Next

LEMMA InitStampInv ==
  ASSUME NEW o \in Procs
  PROVE  Init => StampInv(o) /\ SoleOperatorInv(o)
BY DEF Init, SshInit, SessionInit, StampInv, StampPoint, SoleOperatorInv, Blank, Live, NoSocket

(* One person, checks that answer, and closes that succeed: no session is   *)
(* ever stamped twice for one authentication (login, session.start), even   *)
(* when the login, the logout or a run is killed half-way.                  *)
THEOREM SoleOperatorStampsOnce ==
  ASSUME NEW o, Operators = {o}, CheckMayTimeOut = FALSE, CloseMayFail = FALSE
  PROVE  Spec => OneSessionPerAuthentication
<1>1. o \in Procs
  BY ProcsAssumption
<1>2. Init => StampInv(o) /\ SoleOperatorInv(o)
  BY <1>1, InitStampInv
<1>3. TypeOK /\ TypeOK' /\ SoleOperatorInv(o) /\ StampInv(o) /\ [Next]_vars
        => StampInv(o)' /\ SoleOperatorInv(o)'
  BY SoleOperatorStep, StampInvStep
<1>4. StampInv(o) => \A p \in Operators : FinishStamp(p) => op[p].auth \notin stamped
  BY DEF StampInv, StampPoint, FinishStamp
<1>. QED
  BY <1>2, <1>3, <1>4, TypeCorrect, PTL DEF Spec, OneSessionPerAuthentication

-----------------------------------------------------------------------------
(* A tunnel has its session. *)

(* Outside a login that has its tunnel and not yet its session, a live      *)
(* tunnel is one that a session was stamped for.                            *)
StampedInv(o) ==
  (Live /\ pc[o] \notin StampPoint \cup {"verify"}) => socket \in stamped

(* A step that opens no connection and forgets no stamp, of a process that  *)
(* leaves verify and the stamp only by way of them.                         *)
LEMMA StampedInvKept ==
  ASSUME NEW o, TypeOK, StampedInv(o), stamped \subseteq stamped',
         conns' \subseteq conns, socket' \in {socket, NoSocket},
         \/ pc[o] \notin StampPoint \cup {"verify"}
         \/ pc'[o] \in StampPoint \cup {"verify"}
  PROVE  StampedInv(o)'
<1>1. NoSocket \notin conns
  BY DEF TypeOK, SshTypeOK, Conn, NoSocket
<1>. QED
  BY <1>1 DEF StampedInv, Live

LEMMA StampedInvOperator ==
  ASSUME NEW o \in Procs, CheckMayTimeOut = FALSE, TypeOK, TypeOK', SoleOperatorInv(o),
         StampInv(o), StampedInv(o), Login(o) \/ Logout(o)
  PROVE  StampedInv(o)'
<1>0. pc \in [Procs -> Point] /\ NoSocket \notin conns
  BY DEF TypeOK, SshTypeOK, Conn, NoSocket
<1> DEFINE Quiet == UNCHANGED <<conns, socket, stamped>>
<1>1. CASE LoginLive(o) \/ LoginNew(o) \/ BridgeAnswers(o) \/ PrepareSocket(o) \/ LoadKept(o)
  <2>1. Quiet /\ pc[o] \in {"idle", "bridge", "prepare", "load"}
    BY <1>1 DEF LoginLive, LoginNew, BridgeAnswers, BridgeDeclines, BridgeLoggedIn, BridgeFails,
       PrepareSocket, LoadKept, Goto, sshVars, ghostVars
  <2>. QED
    BY <2>1, StampedInvKept DEF StampPoint
<1>2. CASE DropStaleSocket(o)
  BY <1>0, <1>2 DEF DropStaleSocket, DropSocket, StampedInv, Live
<1>3. CASE Authenticate(o)
  <2>1. conns = {}
    BY <1>3 DEF Authenticate, SoleOperatorInv
  <2>2. pc'[o] = "verify" \/ UNCHANGED sshVars
    BY <1>0, <1>3 DEF Authenticate, Goto
  <2>. QED
    BY <2>1, <2>2 DEF StampedInv, Live, sshVars
<1>4. CASE Verify(o)
  <2>1. Quiet /\ pc[o] = "verify"
    BY <1>4 DEF Verify, sshVars, ghostVars
  <2>2. CASE Goto(o, "verify", "clearlog")
    BY <1>0, <2>2 DEF Goto, StampedInv, StampPoint
  <2>3. CASE IsLive(FALSE)
    BY <1>0, <1>4, <2>1, <2>3 DEF Verify, IsLive, StampedInv, Live
  <2>. QED
    BY <1>4, <2>2, <2>3 DEF Verify
<1>5. CASE ClearLog(o) \/ BeginStamp(o)
  <2>1. pc'[o] \in StampPoint
    BY <1>0, <1>5 DEF ClearLog, BeginStamp, Goto, StampPoint
  <2>. QED
    BY <2>1 DEF StampedInv
<1>6. CASE FinishStamp(o)
  <2>1. Live => socket = op[o].auth
    BY <1>6 DEF FinishStamp, StampInv, StampPoint
  <2>. QED
    BY <1>6, <2>1 DEF FinishStamp, StampedInv, Live, sshVars
<1>7. CASE CloseTunnel(o)
  <2>1. pc[o] = "idle" /\ conns' \subseteq conns /\ socket' \in {socket, NoSocket} /\ stamped' = stamped
    BY <1>7 DEF CloseTunnel, Close, Goto, sshVars, ghostVars
  <2>. QED
    BY <2>1, StampedInvKept DEF StampPoint
<1>8. CASE ForgetSession(o) \/ WipeLog(o)
  <2>1. Quiet /\ pc[o] \in {"forget", "wipe"}
    BY <1>8 DEF ForgetSession, WipeLog, Goto, sshVars, ghostVars
  <2>. QED
    BY <2>1, StampedInvKept DEF StampPoint
<1>. QED
  BY <1>1, <1>2, <1>3, <1>4, <1>5, <1>6, <1>7, <1>8 DEF Login, Logout

LEMMA StampedInvStep ==
  ASSUME NEW o, Operators = {o}, o \notin MayCrash, CheckMayTimeOut = FALSE
  PROVE  /\ TypeOK /\ TypeOK' /\ SoleOperatorInv(o) /\ StampInv(o) /\ StampedInv(o)
         /\ [Next]_vars
         => StampedInv(o)'
<1> SUFFICES ASSUME TypeOK, TypeOK', SoleOperatorInv(o), StampInv(o), StampedInv(o), [Next]_vars
             PROVE  StampedInv(o)'
  OBVIOUS
<1>0. o \in Procs /\ pc \in [Procs -> Point]
  BY ProcsAssumption DEF TypeOK
<1>1. ASSUME NEW p \in Operators, Login(p) \/ Logout(p) PROVE StampedInv(o)'
  BY <1>0, <1>1, StampedInvOperator
<1>2. ASSUME NEW p \in Procs, Run(p) \/ (p \in MayCrash /\ Crash(p)) PROVE StampedInv(o)'
  <2>1. UNCHANGED <<conns, socket, stamped>>
    BY <1>2, RunLeavesSession DEF sshVars
  <2>2. CASE p # o
    <3>1. pc'[o] = pc[o]
      BY <1>0, <1>2, <2>2, OthersUntouched
    <3>. QED
      BY <2>1, <3>1, StampedInvKept
  <2>3. CASE p = o
    <3>1. pc[o] \in RunPoint \cup {"idle"}
      BY <1>0, <1>2, <2>3, RunStaysInRun
    <3>. QED
      BY <2>1, <3>1, StampedInvKept DEF RunPoint, StampPoint
  <2>. QED
    BY <2>2, <2>3
<1>3. CASE Dies
  <2>1. conns' \subseteq conns /\ socket' \in {socket, NoSocket} /\ UNCHANGED <<stamped, pc>>
    BY <1>3 DEF Dies, ConnectionDies, ghostVars, procVars
  <2>. QED
    BY <2>1, StampedInvKept
<1>4. CASE Accrue \/ UNCHANGED vars
  BY <1>4, StampedInvKept DEF Accrue, vars, sshVars, ghostVars, procVars
<1>. QED
  BY <1>1, <1>2, <1>3, <1>4, ProcsAssumption DEF Next

(* One person whose logins and logouts are not killed, checks that answer,  *)
(* closes that succeed: between them a live tunnel has the session of its   *)
(* own authentication, so that a run never falls to fail_mode for want of   *)
(* one.                                                                     *)
THEOREM SoleOperatorHasSession ==
  ASSUME NEW o, Operators = {o}, o \notin MayCrash,
         CheckMayTimeOut = FALSE, CloseMayFail = FALSE
  PROVE  Spec => []TunnelHasItsSession
<1> DEFINE Inv == SoleOperatorInv(o) /\ StampInv(o) /\ StampedInv(o)
<1>1. Init => Inv
  <2>1. Init => StampedInv(o)
    BY DEF Init, SshInit, StampedInv, Live
  <2>. QED
    BY <2>1, InitStampInv, ProcsAssumption
<1>2. TypeOK /\ TypeOK' /\ Inv /\ [Next]_vars => Inv'
  BY SoleOperatorStep, StampInvStep, StampedInvStep
<1>3. Inv => TunnelHasItsSession
  BY DEF StampInv, StampedInv, StampPoint, TunnelHasItsSession
<1> HIDE DEF Inv
<1>. QED
  BY <1>1, <1>2, <1>3, TypeCorrect, PTL DEF Spec

-----------------------------------------------------------------------------
(* The command log of the session. *)

(* Whatever was logged under the current session is in the log, but while a *)
(* login that has cleared the log is about to truncate the session file;    *)
(* and a logout that is about to clear it has no session left.              *)
LogInv(o) ==
  /\ pc[o] # "stamp" => current \subseteq logged
  /\ pc[o] = "wipe" => current = {} /\ session.kind # "whole"

(* A step that logs nothing and takes o neither to nor from the two points. *)
LEMMA LogInvKept ==
  ASSUME NEW o, LogInv(o), UNCHANGED <<session, current, logged>>,
         pc'[o] = "stamp" \/ pc[o] # "stamp",
         pc'[o] = "wipe" => pc[o] = "wipe"
  PROVE  LogInv(o)'
BY DEF LogInv

LEMMA LogInvOperator ==
  ASSUME NEW o \in Procs, TypeOK, LogInv(o), Login(o) \/ Logout(o)
  PROVE  LogInv(o)'
<1>0. pc \in [Procs -> Point]
  BY DEF TypeOK
<1>1. CASE \/ LoginLive(o) \/ LoginNew(o) \/ BridgeAnswers(o) \/ PrepareSocket(o)
           \/ DropStaleSocket(o) \/ Authenticate(o) \/ Verify(o) \/ LoadKept(o) \/ CloseTunnel(o)
  <2>1. /\ UNCHANGED <<session, current, logged>>
        /\ pc[o] \notin {"stamp", "wipe"}
    BY <1>1 DEF LoginLive, LoginNew, BridgeAnswers, BridgeDeclines, BridgeLoggedIn, BridgeFails,
       PrepareSocket, DropStaleSocket, Authenticate, Verify, LoadKept, CloseTunnel, Goto,
       sessionVars, ghostVars
  <2>2. pc'[o] # "wipe"
    BY <1>0, <1>1
    DEF LoginLive, LoginNew, BridgeAnswers, BridgeDeclines, BridgeLoggedIn, BridgeFails,
       PrepareSocket, DropStaleSocket, Authenticate, Verify, LoadKept, CloseTunnel, Goto, Finish
  <2>. QED
    BY <2>1, <2>2, LogInvKept
<1>2. CASE ClearLog(o)
  BY <1>0, <1>2 DEF ClearLog, Goto, LogInv
<1>3. CASE BeginStamp(o)
  BY <1>0, <1>3 DEF BeginStamp, Goto, LogInv
<1>4. CASE FinishStamp(o)
  BY <1>0, <1>4 DEF FinishStamp, Finish, LogInv
<1>5. CASE ForgetSession(o)
  BY <1>0, <1>5, ContentFacts DEF ForgetSession, Clear, Goto, LogInv
<1>6. CASE WipeLog(o)
  BY <1>0, <1>6 DEF WipeLog, Finish, LogInv, ghostVars
<1>. QED
  BY <1>1, <1>2, <1>3, <1>4, <1>5, <1>6 DEF Login, Logout

LEMMA LogInvRun ==
  ASSUME NEW o \in Procs, NEW p \in Procs, TypeOK, LogInv(o),
         Run(p) \/ (p # o /\ Crash(p))
  PROVE  LogInv(o)'
<1>0. pc \in [Procs -> Point] /\ session' = session
  BY RunLeavesSession DEF TypeOK
<1>1. /\ pc'[o] = "stamp" \/ pc[o] # "stamp"
      /\ pc'[o] = "wipe" => pc[o] = "wipe"
  <2>1. CASE p # o
    BY <2>1, OthersUntouched
  <2>2. CASE p = o
    BY <2>2, RunStaysInRun DEF RunPoint
  <2>. QED
    BY <2>1, <2>2
<1>2. CASE RecordCommand(p)
  <2>1. /\ logged' = logged \cup {p}
        /\ current' \subseteq current \cup {p}
        /\ session.kind # "whole" => current' \subseteq current
    BY <1>2 DEF RecordCommand, Loaded
  <2>. QED
    BY <1>0, <1>1, <2>1 DEF LogInv
<1>3. CASE ~RecordCommand(p)
  <2>1. UNCHANGED <<current, logged>>
    BY <1>3 DEF Run, RunStart, Decide, Probe, Submit, LogJobs, Crash, ghostVars
  <2>. QED
    BY <1>0, <1>1, <2>1, LogInvKept
<1>. QED
  BY <1>2, <1>3

(* One person whose logins and logouts are not killed: a command that was   *)
(* logged under the session in the file is in the command log until a login *)
(* replaces that session or a logout forgets it, whatever becomes of the    *)
(* tunnel and of the other runs (cmdlog.record, cmdlog.clear).              *)
THEOREM SoleOperatorKeepsLog ==
  ASSUME NEW o, Operators = {o}, o \notin MayCrash
  PROVE  Spec => []SessionLogComplete
<1>0. o \in Procs
  BY ProcsAssumption
<1>1. Init => LogInv(o)
  BY <1>0 DEF Init, LogInv
<1>2. TypeOK /\ LogInv(o) /\ [Next]_vars => LogInv(o)'
  <2> SUFFICES ASSUME TypeOK, LogInv(o), [Next]_vars PROVE LogInv(o)'
    OBVIOUS
  <2>1. ASSUME NEW p \in Operators, Login(p) \/ Logout(p) PROVE LogInv(o)'
    BY <1>0, <2>1, LogInvOperator
  <2>2. ASSUME NEW p \in Procs, Run(p) \/ (p # o /\ Crash(p)) PROVE LogInv(o)'
    BY <1>0, <2>2, LogInvRun
  <2>3. CASE Dies \/ Accrue \/ UNCHANGED vars
    BY <2>3, LogInvKept DEF Dies, Accrue, vars, sessionVars, ghostVars, procVars
  <2>. QED
    BY <2>1, <2>2, <2>3, ProcsAssumption DEF Next
<1>3. LogInv(o) => SessionLogComplete
  BY DEF LogInv, SessionLogComplete
<1>. QED
  BY <1>1, <1>2, <1>3, TypeCorrect, PTL DEF Spec
==============================================================================
