------------------------------ MODULE PtyLogin ------------------------------
(***************************************************************************)
(* The login in a pseudo-terminal (pty_login.py): ctun runs the ssh master *)
(* in a pty, reads what it prints, and types the password and the one-time *)
(* passcode at its prompts.  ssh, an actor of its own, prints in pieces,   *)
(* asks, checks what is typed, and once authenticated leaves the pty for   *)
(* the background, where it comes to listen at the control socket.         *)
(*                                                                         *)
(* TunnelSession sees all of this as one step, Authenticate.               *)
(***************************************************************************)
EXTENDS Integers, SequencesExt

CONSTANTS
  Dialogues,   \* what ssh may print and ask, in order
  MaxRejected, \* bound: how often ssh asks again
  GraceChecks, \* how often the socket is tried again at the end
  Stalls,      \* TRUE: output may pause in the middle of a line
  Slow         \* TRUE: an authenticated master may take longer than that to listen

Secrets == {"password", "otp"}

(* A line of output: the words that name a secret in each of its pieces, and *)
(* what ssh waits for at its end; a line with which it waits for nothing     *)
(* ends in a newline.                                                        *)
Line == [pieces : Seq(SUBSET Secrets), asks : Secrets \cup {"nothing", "other"}]

(* classify_prompt: a prompt that names both asks for the passcode.          *)
Kind(words) ==
  CASE "otp" \in words -> "otp"
    [] "otp" \notin words /\ "password" \in words -> "password"
    [] OTHER -> "none"

(* The prompts are worded such that they are recognised.                     *)
ASSUME DialoguesAssumption ==
  /\ Dialogues \subseteq Seq(Line)
  /\ \A dialogue \in Dialogues : \A i \in DOMAIN dialogue :
       LET line == dialogue[i]
       IN  /\ line.pieces # <<>>
           /\ line.asks \in Secrets => Kind(UNION ToSet(line.pieces)) = line.asks
           /\ line.asks = "other" => UNION ToSet(line.pieces) = {}
ASSUME BoundsAssumption == /\ MaxRejected \in Nat
                           /\ GraceChecks \in Nat
                           /\ Stalls \in BOOLEAN
                           /\ Slow \in BOOLEAN

VARIABLES
  given,     \* the secrets the person gave
  right,     \* those of them the cluster accepts
  ssh,       \* what ssh is doing
  todo,      \* the lines of the dialogue from the one being printed on
  shown,     \* how many pieces of it are printed
  unread,    \* what is printed and not yet read
  rejected,  \* how often a secret was rejected
  pc,        \* where the login is
  words,     \* the words that name a secret in the last, unfinished line read
  sent,      \* the secrets typed so far
  expired,   \* the timeout is over
  checks,    \* the tries of the socket at the end
  live,      \* the login's result
  typed,     \* ghost: each secret ssh was typed, with what it waited for then
  troubles   \* ghost: why the login may fail

sshVars == <<ssh, todo, shown, unread, rejected>>
loopVars == <<pc, words, sent, checks, live>>
person == <<given, right>>
vars == <<person, sshVars, loopVars, expired, typed, troubles>>

SshPoint == {"prints", "asks", "authenticated", "detached", "listens", "gone"}
Point == {"check", "read", "pause", "answer", "close", "grace", "kill", "done"}

(* Once nothing is left of the dialogue, ssh is authenticated.               *)
Continues(lines) == IF lines = <<>> THEN "authenticated" ELSE "prints"

Init ==
  /\ given \in SUBSET Secrets
  /\ right \in SUBSET given
  /\ todo \in Dialogues
  /\ ssh = Continues(todo)
  /\ shown = 0
  /\ unread = <<>>
  /\ rejected = 0
  /\ pc = "check"
  /\ words = {}
  /\ sent = {}
  /\ expired = FALSE
  /\ checks = 0
  /\ live = FALSE
  /\ typed = {}
  /\ troubles = {}

-----------------------------------------------------------------------------
(* ssh *)

(* The next piece of a line; after the last one ssh waits or goes on.        *)
Output ==
  /\ ssh = "prints"
  /\ LET line == Head(todo)
         last == shown + 1 = Len(line.pieces)
         ends == last /\ line.asks = "nothing"
     IN  /\ unread' = Append(unread, [words |-> line.pieces[shown + 1], newline |-> ends])
         /\ todo' = IF ends THEN Tail(todo) ELSE todo
         /\ shown' = IF ends THEN 0 ELSE shown + 1
         /\ ssh' = CASE ends -> Continues(Tail(todo))
                     [] last /\ ~ends -> "asks"
                     [] OTHER -> "prints"
  /\ UNCHANGED <<rejected, loopVars, expired, typed, troubles>>

(* ssh takes a typed line, or discards it if it came before the prompt.  A   *)
(* wrong answer is asked for again a few times.                              *)
Takes(secret) ==
  \/ /\ ssh # "asks"
     /\ UNCHANGED <<ssh, todo, shown, rejected, troubles>>
  \/ /\ ssh = "asks" /\ Head(todo).asks = secret /\ secret \in right
     /\ todo' = Tail(todo)
     /\ shown' = 0
     /\ ssh' = Continues(Tail(todo))
     /\ UNCHANGED <<rejected, troubles>>
  \/ /\ ssh = "asks" /\ ~(Head(todo).asks = secret /\ secret \in right)
     /\ rejected < MaxRejected
     /\ rejected' = rejected + 1
     /\ shown' = 0
     /\ ssh' = "prints"
     /\ UNCHANGED <<todo, troubles>>
  \/ /\ ssh = "asks" /\ ~(Head(todo).asks = secret /\ secret \in right)
     /\ ssh' = "gone"
     /\ troubles' = troubles \cup {"ssh"}
     /\ UNCHANGED <<todo, shown, rejected>>

(* A mutated form of Detach: SIGHUP is not ignored, and the hangup of the    *)
(* pty kills the master before it is in a session of its own.                *)
DetachHungUp ==
  /\ ssh = "authenticated"
  /\ ssh' \in {"detached", "gone"}
  /\ UNCHANGED <<todo, shown, unread, rejected, loopVars, expired, typed, troubles>>

(* `ssh -f` goes to the background; its parent, which led the pty, exits.    *)
Detach ==
  /\ ssh = "authenticated"
  /\ ssh' = "detached"
  /\ UNCHANGED <<todo, shown, unread, rejected, loopVars, expired, typed, troubles>>

Listen ==
  /\ ssh = "detached"
  /\ ssh' = "listens"
  /\ UNCHANGED <<todo, shown, unread, rejected, loopVars, expired, typed, troubles>>

(* No route, a dropped connection, a kill.                                   *)
SshFails ==
  /\ ssh # "gone"
  /\ ssh' = "gone"
  /\ troubles' = troubles \cup {"ssh"}
  /\ UNCHANGED <<todo, shown, unread, rejected, loopVars, expired, typed>>

-----------------------------------------------------------------------------
(* login *)

Goto(from, to) == pc = from /\ pc' = to

(* Nobody holds the pty's other end any more.                                *)
HungUp == ssh \in {"detached", "listens", "gone"}

(* More can be read at once, or an end of file.                              *)
Readable == unread # <<>> \/ HungUp

(* A mutated form of CheckLive: the deadline is not looked at.               *)
CheckLiveForever ==
  /\ Goto("check", IF ssh = "listens" THEN "close" ELSE "read")
  /\ UNCHANGED <<sshVars, words, sent, checks, live, expired, typed, troubles>>

(* The head of the loop: until the deadline, or until the tunnel is up.      *)
CheckLive ==
  /\ Goto("check", IF expired \/ ssh = "listens" THEN "close" ELSE "read")
  /\ UNCHANGED <<sshVars, words, sent, checks, live, expired, typed, troubles>>

(* What was read since the last newline, as far as it names a secret.        *)
LastLine(before, pieces) ==
  LET ends == { i \in DOMAIN pieces : pieces[i].newline }
      unfinished == { i \in DOMAIN pieces : \A end \in ends : end < i }
  IN  (IF ends = {} THEN before ELSE {}) \cup UNION { pieces[i].words : i \in unfinished }

(* Some output, none in time, or the end of it.                              *)
ReadOutput ==
  /\ pc = "read"
  /\ \/ \E n \in 1 .. Len(unread) :
          LET line == LastLine(words, SubSeq(unread, 1, n))
          IN  /\ words' = line
              /\ unread' = SubSeq(unread, n + 1, Len(unread))
              /\ pc' = IF Kind(line) = "none" THEN "check" ELSE "pause"
     \/ ~Readable /\ pc' = "check" /\ UNCHANGED <<words, unread>>
     \/ unread = <<>> /\ HungUp /\ pc' = "close" /\ UNCHANGED <<words, unread>>
  /\ UNCHANGED <<ssh, todo, shown, rejected, sent, checks, live, expired, typed, troubles>>

(* A mutated form of AwaitRest: whatever names a secret is a prompt.         *)
AwaitNothing ==
  /\ Goto("pause", "answer")
  /\ UNCHANGED <<sshVars, words, sent, checks, live, expired, typed, troubles>>

(* More output at once means that the line is not a prompt yet.  Without     *)
(* stalls, the rest of a line that was begun is there in time.               *)
AwaitRest ==
  /\ \/ Goto("pause", "check") /\ Readable
     \/ /\ Goto("pause", "answer")
        /\ ~Readable
        /\ (ssh = "prints" /\ shown > 0) => Stalls
  /\ UNCHANGED <<sshVars, words, sent, checks, live, expired, typed, troubles>>

CanAnswer == Kind(words) \in given \ sent

(* A mutated form of Refuse: a prompt asked again is waited out.             *)
RefuseNever ==
  /\ ~CanAnswer
  /\ Goto("answer", "check")
  /\ troubles' = troubles \cup {"refused"}
  /\ UNCHANGED <<sshVars, words, sent, checks, live, expired, typed>>

(* A prompt that was answered before, or for a secret there is none of.      *)
Refuse ==
  /\ ~CanAnswer
  /\ Goto("answer", "close")
  /\ troubles' = troubles \cup {"refused"}
  /\ UNCHANGED <<sshVars, words, sent, checks, live, expired, typed>>

(* The secret is typed, or the pty is gone by now.                           *)
TypeSecret ==
  LET secret == Kind(words)
  IN  /\ CanAnswer
      /\ \/ /\ Goto("answer", "check")
            /\ Takes(secret)
            /\ sent' = sent \cup {secret}
            /\ words' = {}
            /\ typed' = IF HungUp THEN typed ELSE typed \cup
                 {[secret |-> secret, asked |-> IF ssh = "asks" THEN Head(todo).asks ELSE "nothing"]}
         \/ /\ HungUp
            /\ Goto("answer", "close")
            /\ UNCHANGED <<ssh, todo, shown, rejected, words, sent, typed, troubles>>
      /\ UNCHANGED <<unread, checks, live, expired>>

(* The pty is closed: ssh, which ignores the hangup, can be asked nothing    *)
(* any more.                                                                 *)
ClosePty ==
  /\ Goto("close", "grace")
  /\ UNCHANGED <<sshVars, words, sent, checks, live, expired, typed, troubles>>

(* A mutated form of Grace: one try too many.                                *)
GraceOnceMore ==
  /\ pc = "grace"
  /\ \/ ssh = "listens" /\ live' = TRUE /\ pc' = "done" /\ UNCHANGED checks
     \/ ssh # "listens" /\ checks <= GraceChecks /\ checks' = checks + 1 /\ UNCHANGED <<pc, live>>
     \/ ssh # "listens" /\ checks > GraceChecks /\ pc' = "kill" /\ UNCHANGED <<checks, live>>
  /\ UNCHANGED <<sshVars, words, sent, expired, typed, troubles>>

(* The socket is tried a few times more.                                     *)
Grace ==
  /\ pc = "grace"
  /\ \/ ssh = "listens" /\ live' = TRUE /\ pc' = "done" /\ UNCHANGED checks
     \/ ssh # "listens" /\ checks < GraceChecks /\ checks' = checks + 1 /\ UNCHANGED <<pc, live>>
     \/ /\ ssh # "listens" /\ checks = GraceChecks
        /\ ssh \in {"authenticated", "detached"} => Slow
        /\ pc' = "kill"
        /\ UNCHANGED <<checks, live>>
  /\ UNCHANGED <<sshVars, words, sent, expired, typed, troubles>>

(* A mutated form of Kill: ssh is left as it is.                             *)
KillNever ==
  /\ Goto("kill", "done")
  /\ UNCHANGED <<sshVars, words, sent, checks, live, expired, typed, troubles>>

(* SIGTERM reaches the process that was forked, not one that it left behind. *)
Kill ==
  /\ Goto("kill", "done")
  /\ ssh' = IF HungUp THEN ssh ELSE "gone"
  /\ UNCHANGED <<todo, shown, unread, rejected, words, sent, checks, live, expired, typed, troubles>>

Tick ==
  /\ pc # "done"
  /\ ~expired
  /\ expired' = TRUE
  /\ UNCHANGED <<sshVars, loopVars, typed, troubles>>

Loop ==
  /\ \/ CheckLive \/ ReadOutput \/ AwaitRest \/ Refuse \/ TypeSecret
     \/ ClosePty \/ Grace \/ Kill
  /\ UNCHANGED person

(* What ssh does soon, once it may: the rest of a line, the background.      *)
Background == ((shown > 0 /\ Output) \/ Detach \/ Listen) /\ UNCHANGED person

Next ==
  \/ Loop
  \/ Background
  \/ (Output \/ SshFails \/ Tick) /\ UNCHANGED person

(* ctun goes on, and ssh finishes a line it began and, authenticated, its    *)
(* move to the background.                                                   *)
Spec == Init /\ [][Next]_vars /\ WF_vars(Loop) /\ WF_vars(Background)

-----------------------------------------------------------------------------
(* Properties *)

Piece == [words : SUBSET Secrets, newline : BOOLEAN]

TypeOK ==
  /\ given \subseteq Secrets
  /\ right \subseteq given
  /\ ssh \in SshPoint
  /\ todo \in Seq(Line)
  /\ shown \in Nat
  /\ ssh = "prints" => todo # <<>> /\ shown < Len(Head(todo).pieces)
  /\ unread \in Seq(Piece)
  /\ rejected \in 0 .. MaxRejected
  /\ pc \in Point
  /\ words \subseteq Secrets
  /\ sent \subseteq given
  /\ expired \in BOOLEAN
  /\ checks \in 0 .. GraceChecks
  /\ live \in BOOLEAN
  /\ typed \subseteq [secret : Secrets, asked : Secrets \cup {"nothing", "other"}]
  /\ troubles \subseteq {"ssh", "refused"}

(* A secret is typed only where ssh waits for that very secret, whatever     *)
(* banners mention and however the output is cut into pieces, as long as no  *)
(* line stalls half-way (login: "Only the unfinished last line of output can *)
(* be a prompt, and only once the output pauses").                           *)
SecretAtItsPrompt == \A try \in typed : try.asked = try.secret

(* A login fails only for a reason: the timeout is over, ssh failed, or it   *)
(* asked again or for what there is none of.  In particular one that is      *)
(* authenticated in time is never reported as failed.                        *)
FailureHasReason == (pc = "done" /\ ~live) => expired \/ troubles # {}

(* A failed login leaves no ssh behind: none that waits at a prompt or could *)
(* get on ("don't leave ssh waiting at a prompt"), and none that could still *)
(* become the tunnel, unless the timeout came and ssh had authenticated and  *)
(* left for the background by the time it was killed.                        *)
NothingLeftBehind ==
  (pc = "done" /\ ~live) =>
    ssh = "gone" \/ (expired /\ ssh \in {"detached", "listens"})

(* The login ends, whatever ssh does, given that time passes.                *)
LoginEnds == WF_vars(Tick /\ UNCHANGED person) => <>(pc = "done")

(* ssh waits for a secret it was given before, or that nobody has.           *)
Refusable ==
  /\ ssh = "asks"
  /\ Head(todo).asks \in Secrets
  /\ Head(todo).asks \in given => Head(todo).asks \in sent

(* A prompt asked again, or for a secret there is none of, ends the attempt  *)
(* without the help of the timeout (login: "ends the attempt at once instead *)
(* of waiting out `timeout`").                                               *)
RefusedEndsAtOnce == Refusable ~> (pc = "done")
=============================================================================
