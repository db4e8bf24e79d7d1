-------------------------- MODULE PtyLogin_proofs --------------------------
(***************************************************************************)
(* Theorems about the login in a pseudo-terminal: that a secret is typed   *)
(* only at its own prompt, that a login fails only for a reason, and that  *)
(* a failed one leaves no ssh behind.                                      *)
(*                                                                         *)
(* The invariant relates what ssh has printed of its line to what the      *)
(* login has read of it and what still waits in the pty (ReadInv): the     *)
(* login's last line is ssh's, whatever the pieces.                        *)
(***************************************************************************)
EXTENDS PtyLogin, SequenceTheorems, TLAPS

-----------------------------------------------------------------------------
(* The last line *)

LEMMA LastLineIn ==
  ASSUME NEW before, NEW pieces \in Seq(Piece), NEW word
  PROVE  word \in LastLine(before, pieces) <=>
           \/ word \in before /\ \A i \in 1 .. Len(pieces) : ~pieces[i].newline
           \/ \E i \in 1 .. Len(pieces) :
                /\ word \in pieces[i].words
                /\ \A j \in 1 .. Len(pieces) : pieces[j].newline => j < i
<1>1. DOMAIN pieces = 1 .. Len(pieces)
  OBVIOUS
<1>. QED
  BY <1>1 DEF LastLine

LEMMA LastLineEmpty ==
  ASSUME NEW before
  PROVE  LastLine(before, <<>>) = before
<1>1. <<>> \in Seq(Piece) /\ 1 .. Len(<<>>) = {}
  OBVIOUS
<1>2. ASSUME NEW word PROVE word \in LastLine(before, <<>>) <=> word \in before
  BY <1>1, LastLineIn
<1>. QED
  BY <1>2

LEMMA LastLineType ==
  ASSUME NEW before \in SUBSET Secrets, NEW pieces \in Seq(Piece)
  PROVE  LastLine(before, pieces) \subseteq Secrets
<1>1. ASSUME NEW i \in 1 .. Len(pieces) PROVE pieces[i].words \subseteq Secrets
  <2>1. pieces[i] \in Piece
    OBVIOUS
  <2>. QED
    BY <2>1 DEF Piece
<1>2. ASSUME NEW word \in LastLine(before, pieces) PROVE word \in Secrets
  BY <1>1, LastLineIn
<1>. QED
  BY <1>2

(* What is appended goes on with the line, or ends it.                      *)
LEMMA LastLineAppend ==
  ASSUME NEW before, NEW pieces \in Seq(Piece), NEW piece \in Piece
  PROVE  LastLine(before, Append(pieces, piece)) =
           IF piece.newline THEN {} ELSE LastLine(before, pieces) \cup piece.words
<1>. DEFINE longer == Append(pieces, piece)
            n == Len(pieces)
<1>1. /\ longer \in Seq(Piece) /\ Len(longer) = n + 1 /\ n \in Nat
      /\ longer[n + 1] = piece /\ \A i \in 1 .. n : longer[i] = pieces[i]
      /\ 1 .. n + 1 = (1 .. n) \cup {n + 1}
  BY AppendProperties
<1>. HIDE DEF longer, n
<1>2. SUFFICES ASSUME NEW word
               PROVE  word \in LastLine(before, longer) <=>
                        ~piece.newline /\ (word \in LastLine(before, pieces) \/ word \in piece.words)
  BY <1>2 DEF longer
<1>3. word \in LastLine(before, longer) <=>
        \/ word \in before /\ \A i \in 1 .. n + 1 : ~longer[i].newline
        \/ \E i \in 1 .. n + 1 :
             word \in longer[i].words /\ \A j \in 1 .. n + 1 : longer[j].newline => j < i
  BY <1>1, LastLineIn
<1>4. word \in LastLine(before, pieces) <=>
        \/ word \in before /\ \A i \in 1 .. n : ~pieces[i].newline
        \/ \E i \in 1 .. n :
             word \in pieces[i].words /\ \A j \in 1 .. n : pieces[j].newline => j < i
  BY LastLineIn DEF n
<1>5. CASE piece.newline
  BY <1>1, <1>3, <1>5
<1>6. CASE ~piece.newline
  <2>1. \A j \in 1 .. n : j < n + 1
    BY <1>1
  <2>. QED
    BY <1>1, <1>3, <1>4, <1>6, <2>1
<1>. QED
  BY <1>5, <1>6

(* Reading on from the last line read is reading all at once.               *)
LEMMA LastLineReadOn ==
  ASSUME NEW before, NEW pieces \in Seq(Piece), NEW n \in 1 .. Len(pieces)
  PROVE  LET first == SubSeq(pieces, 1, n)
             rest == SubSeq(pieces, n + 1, Len(pieces))
         IN  /\ first \in Seq(Piece) /\ rest \in Seq(Piece)
             /\ LastLine(LastLine(before, first), rest) = LastLine(before, pieces)
<1>. DEFINE first == SubSeq(pieces, 1, n)
            rest == SubSeq(pieces, n + 1, Len(pieces))
            len == Len(pieces)
<1>1. /\ len \in Nat /\ n \in 1 .. len
      /\ first \in Seq(Piece) /\ Len(first) = n /\ \A i \in 1 .. n : first[i] = pieces[i]
  BY SubSeqProperties
<1>2. /\ rest \in Seq(Piece) /\ Len(rest) = len - n
      /\ \A i \in 1 .. len - n : rest[i] = pieces[i + n]
  BY SubSeqProperties
<1>. HIDE DEF first, rest, len
<1>3. SUFFICES ASSUME NEW word
               PROVE  word \in LastLine(LastLine(before, first), rest)
                        <=> word \in LastLine(before, pieces)
  BY <1>1, <1>2, <1>3 DEF first, rest
<1>. DEFINE start == LastLine(before, first)
<1>4. word \in start <=>
        \/ word \in before /\ \A i \in 1 .. n : ~first[i].newline
        \/ \E i \in 1 .. n : word \in first[i].words /\ \A j \in 1 .. n : first[j].newline => j < i
  BY <1>1, LastLineIn
<1>. HIDE DEF start
<1>5. word \in LastLine(start, rest) <=>
        \/ word \in start /\ \A i \in 1 .. len - n : ~rest[i].newline
        \/ \E i \in 1 .. len - n :
             word \in rest[i].words /\ \A j \in 1 .. len - n : rest[j].newline => j < i
  BY <1>2, LastLineIn
<1>6. word \in LastLine(before, pieces) <=>
        \/ word \in before /\ \A i \in 1 .. len : ~pieces[i].newline
        \/ \E i \in 1 .. len :
             word \in pieces[i].words /\ \A j \in 1 .. len : pieces[j].newline => j < i
  BY LastLineIn DEF len
<1>7. \A k \in 1 .. len : k \in 1 .. n \/ (k > n /\ k - n \in 1 .. len - n /\ rest[k - n] = pieces[k])
  BY <1>1, <1>2
<1>8. \A k \in 1 .. len - n : k + n \in 1 .. len /\ k + n > n /\ rest[k] = pieces[k + n]
  BY <1>1, <1>2
<1>9. \A k \in 1 .. n : k \in 1 .. len /\ k <= n
  BY <1>1
<1>10. ASSUME NEW k \in 1 .. len - n, rest[k].newline
       PROVE  word \in LastLine(start, rest) <=> word \in LastLine(before, pieces)
  <2>1. ASSUME NEW i \in 1 .. len - n, word \in rest[i].words,
               \A j \in 1 .. len - n : rest[j].newline => j < i
        PROVE  word \in LastLine(before, pieces)
    <3>1. i + n \in 1 .. len /\ word \in pieces[i + n].words
      BY <1>8, <2>1
    <3>2. ASSUME NEW j \in 1 .. len, pieces[j].newline PROVE j < i + n
      <4>1. CASE j \in 1 .. n
        BY <1>1, <2>1, <4>1
      <4>2. CASE j - n \in 1 .. len - n /\ rest[j - n] = pieces[j]
        BY <1>1, <2>1, <3>2, <4>2
      <4>. QED
        BY <1>7, <4>1, <4>2
    <3>. QED
      BY <1>6, <3>1, <3>2
  <2>2. ASSUME NEW i \in 1 .. len, word \in pieces[i].words,
               \A j \in 1 .. len : pieces[j].newline => j < i
        PROVE  word \in LastLine(start, rest)
    <3>1. k + n < i
      BY <1>8, <1>10, <2>2
    <3>2. i - n \in 1 .. len - n /\ rest[i - n] = pieces[i]
      BY <1>1, <1>7, <3>1
    <3>3. ASSUME NEW j \in 1 .. len - n, rest[j].newline PROVE j < i - n
      <4>1. j + n < i
        BY <1>8, <2>2, <3>3
      <4>. QED
        BY <1>1, <4>1
    <3>. QED
      BY <1>5, <2>2, <3>2, <3>3
  <2>3. ~ \A i \in 1 .. len : ~pieces[i].newline
    BY <1>8, <1>10
  <2>4. ~ \A i \in 1 .. len - n : ~rest[i].newline
    BY <1>10
  <2>. QED
    BY <1>5, <1>6, <2>1, <2>2, <2>3, <2>4
<1>11. ASSUME \A k \in 1 .. len - n : ~rest[k].newline
       PROVE  word \in LastLine(start, rest) <=> word \in LastLine(before, pieces)
  <2>1. \A j \in 1 .. len : pieces[j].newline => j \in 1 .. n /\ first[j].newline
    BY <1>1, <1>7, <1>11
  <2>2. \A j \in 1 .. n : first[j].newline => j \in 1 .. len /\ pieces[j].newline
    BY <1>1, <1>9
  <2>3. ASSUME word \in start PROVE word \in LastLine(before, pieces)
    BY <1>1, <1>4, <1>6, <1>9, <2>1, <2>3
  <2>4. ASSUME NEW i \in 1 .. len - n, word \in rest[i].words PROVE word \in LastLine(before, pieces)
    <3>1. i + n \in 1 .. len /\ word \in pieces[i + n].words /\ i + n > n
      BY <1>8, <2>4
    <3>2. \A j \in 1 .. len : pieces[j].newline => j < i + n
      BY <1>1, <2>1, <3>1
    <3>. QED
      BY <1>6, <3>1, <3>2
  <2>5. ASSUME word \in before, \A i \in 1 .. len : ~pieces[i].newline PROVE word \in start
    BY <1>4, <2>2, <2>5
  <2>6. ASSUME NEW i \in 1 .. len, word \in pieces[i].words,
               \A j \in 1 .. len : pieces[j].newline => j < i
        PROVE  word \in LastLine(start, rest)
    <3>1. CASE i \in 1 .. n
      <4>1. word \in start
        BY <1>1, <1>4, <2>2, <2>6, <3>1
      <4>. QED
        BY <1>5, <1>11, <4>1
    <3>2. CASE i - n \in 1 .. len - n /\ rest[i - n] = pieces[i]
      BY <1>5, <1>11, <2>6, <3>2
    <3>. QED
      BY <1>7, <3>1, <3>2
  <2>. QED
    BY <1>5, <1>6, <1>11, <2>3, <2>4, <2>5, <2>6
<1>. QED
  BY <1>10, <1>11 DEF start

-----------------------------------------------------------------------------
(* Types *)

(* What the dialogues have in common.                                       *)
GoodLine(line) ==
  /\ line.pieces # <<>>
  /\ line.asks \in Secrets => Kind(UNION ToSet(line.pieces)) = line.asks
  /\ line.asks = "other" => UNION ToSet(line.pieces) = {}

GoodLines(lines) == lines \in Seq(Line) /\ \A i \in DOMAIN lines : GoodLine(lines[i])

(* ssh waits only after a whole line, and prints nothing once authenticated. *)
SshInv ==
  /\ GoodLines(todo)
  /\ ssh = "asks" =>
       todo # <<>> /\ shown = Len(Head(todo).pieces) /\ Head(todo).asks # "nothing"
  /\ ssh = "authenticated" => shown = 0

LEMMA DialoguesGood == \A dialogue \in Dialogues : GoodLines(dialogue)
BY DialoguesAssumption DEF GoodLines, GoodLine

LEMMA HeadTailGood ==
  ASSUME NEW lines, GoodLines(lines), lines # <<>>
  PROVE  /\ Head(lines) \in Line /\ GoodLine(Head(lines))
         /\ Len(Head(lines).pieces) \in Nat \ {0}
         /\ GoodLines(Tail(lines))
<1>1. lines \in Seq(Line) /\ Len(lines) \in Nat \ {0}
  BY EmptySeq DEF GoodLines
<1>2. Head(lines) \in Line /\ Head(lines) = lines[1] /\ GoodLine(lines[1])
  BY <1>1 DEF GoodLines
<1>3. Len(Head(lines).pieces) \in Nat \ {0}
  <2>1. Head(lines).pieces \in Seq(SUBSET Secrets) /\ Head(lines).pieces # <<>>
    BY <1>2 DEF Line, GoodLine
  <2>. QED
    BY <2>1
<1>4. GoodLines(Tail(lines))
  <2>1. /\ Tail(lines) \in Seq(Line) /\ DOMAIN Tail(lines) = 1 .. Len(lines) - 1
        /\ \A i \in 1 .. Len(lines) - 1 : Tail(lines)[i] = lines[i + 1]
    BY <1>1
  <2>2. \A i \in 1 .. Len(lines) - 1 : i + 1 \in DOMAIN lines
    BY <1>1
  <2>. QED
    BY <2>1, <2>2 DEF GoodLines
<1>. QED
  BY <1>2, <1>3, <1>4

LEMMA ContinuesGood ==
  ASSUME NEW lines, GoodLines(lines)
  PROVE  /\ Continues(lines) \in {"prints", "authenticated"}
         /\ Continues(lines) = "prints" => lines # <<>> /\ 0 < Len(Head(lines).pieces)
BY HeadTailGood DEF Continues

LEMMA TypeInit == Init => TypeOK /\ SshInv
<1>. SUFFICES ASSUME Init PROVE TypeOK /\ SshInv
  OBVIOUS
<1>1. /\ GoodLines(todo) /\ shown = 0 /\ ssh \in {"prints", "authenticated"}
      /\ ssh = "prints" => todo # <<>> /\ 0 < Len(Head(todo).pieces)
  BY DialoguesGood, ContinuesGood DEF Init
<1>2. SshInv
  BY <1>1 DEF SshInv
<1>3. unread \in Seq(Piece)
  BY DEF Init
<1>4. given \in SUBSET Secrets /\ right \subseteq given /\ todo \in Seq(Line)
  BY <1>1 DEF Init, GoodLines
<1>5. rejected \in 0 .. MaxRejected /\ checks \in 0 .. GraceChecks
  BY BoundsAssumption DEF Init
<1>6. /\ ssh \in SshPoint /\ pc \in Point /\ words = {} /\ sent = {} /\ typed = {} /\ troubles = {}
      /\ expired = FALSE /\ live = FALSE
  BY <1>1 DEF Init, SshPoint, Point
<1>. QED
  BY <1>1, <1>2, <1>3, <1>4, <1>5, <1>6 DEF TypeOK

(* What ssh prints, and where that leaves it.                               *)
LEMMA OutputEffect ==
  ASSUME TypeOK, SshInv, Output
  PROVE  /\ SshInv'
         /\ ssh' \in SshPoint /\ todo' \in Seq(Line) /\ shown' \in Nat
         /\ ssh' = "prints" => todo' # <<>> /\ shown' < Len(Head(todo').pieces)
         /\ unread' \in Seq(Piece)
<1>. DEFINE line == Head(todo)
            last == shown + 1 = Len(line.pieces)
            ends == last /\ line.asks = "nothing"
            piece == [words |-> line.pieces[shown + 1], newline |-> ends]
<1>1. /\ todo # <<>> /\ shown < Len(line.pieces) /\ shown \in Nat
      /\ line \in Line /\ GoodLine(line) /\ Len(line.pieces) \in Nat \ {0}
      /\ GoodLines(Tail(todo)) /\ GoodLines(todo)
  BY HeadTailGood DEF Output, TypeOK, SshInv
<1>2. line.pieces[shown + 1] \in SUBSET Secrets
  BY <1>1 DEF Line
<1>3. piece \in Piece
  BY <1>2 DEF Piece
<1>4. /\ unread' = Append(unread, piece)
      /\ todo' = IF ends THEN Tail(todo) ELSE todo
      /\ shown' = IF ends THEN 0 ELSE shown + 1
      /\ ssh' = CASE ends -> Continues(Tail(todo))
                   [] last /\ ~ends -> "asks"
                   [] OTHER -> "prints"
  BY DEF Output
<1>. HIDE DEF piece
<1>5. unread' \in Seq(Piece)
  BY <1>3, <1>4 DEF TypeOK
<1>6. CASE ends
  <2>1. /\ ssh' \in {"prints", "authenticated"} /\ todo' = Tail(todo) /\ shown' = 0
        /\ ssh' = "prints" => todo' # <<>> /\ 0 < Len(Head(todo').pieces)
    BY <1>1, <1>4, <1>6, ContinuesGood
  <2>2. SshInv'
    BY <1>1, <2>1 DEF SshInv, GoodLines
  <2>. QED
    BY <1>1, <1>5, <2>1, <2>2 DEF SshPoint, GoodLines
<1>7. CASE ~ends
  <2>1. /\ todo' = todo /\ shown' = shown + 1
        /\ last => ssh' = "asks" /\ line.asks # "nothing"
        /\ ~last => ssh' = "prints" /\ shown + 1 < Len(line.pieces)
    BY <1>1, <1>4, <1>7
  <2>2. SshInv'
    BY <1>1, <2>1 DEF SshInv, GoodLines
  <2>. QED
    BY <1>1, <1>5, <2>1, <2>2 DEF SshPoint, GoodLines
<1>. QED
  BY <1>6, <1>7

(* Where a typed secret leaves ssh.                                         *)
LEMMA TakesEffect ==
  ASSUME TypeOK, SshInv, NEW secret, Takes(secret)
  PROVE  /\ SshInv'
         /\ ssh' \in SshPoint /\ todo' \in Seq(Line) /\ shown' \in Nat
         /\ ssh' = "prints" => todo' # <<>> /\ shown' < Len(Head(todo').pieces)
         /\ rejected' \in 0 .. MaxRejected /\ troubles' \subseteq {"ssh", "refused"}
         /\ ssh = "asks" /\ ssh' # "gone" => ssh' \in {"prints", "authenticated"} /\ shown' = 0
<1>0. GoodLines(todo) /\ rejected \in 0 .. MaxRejected /\ MaxRejected \in Nat
  BY BoundsAssumption DEF SshInv, TypeOK
<1>1. CASE ssh # "asks" /\ UNCHANGED <<ssh, todo, shown, rejected, troubles>>
  BY <1>0, <1>1 DEF TypeOK, SshInv, GoodLines
<1>2. CASE ssh = "asks"
  <2>0. /\ todo # <<>> /\ GoodLines(Tail(todo)) /\ Len(Head(todo).pieces) \in Nat \ {0}
    BY <1>0, <1>2, HeadTailGood DEF SshInv
  <2>1. CASE /\ todo' = Tail(todo) /\ shown' = 0 /\ ssh' = Continues(Tail(todo))
             /\ UNCHANGED <<rejected, troubles>>
    <3>1. /\ ssh' \in {"prints", "authenticated"}
          /\ ssh' = "prints" => todo' # <<>> /\ 0 < Len(Head(todo').pieces)
      BY <2>0, <2>1, ContinuesGood
    <3>. QED
      BY <1>0, <2>0, <2>1, <3>1 DEF TypeOK, SshInv, SshPoint, GoodLines
  <2>2. CASE /\ rejected < MaxRejected /\ rejected' = rejected + 1 /\ shown' = 0
             /\ ssh' = "prints" /\ UNCHANGED <<todo, troubles>>
    <3>1. rejected' \in 0 .. MaxRejected
      BY <1>0, <2>2
    <3>. QED
      BY <1>0, <2>0, <2>2, <3>1 DEF TypeOK, SshInv, SshPoint, GoodLines
  <2>3. CASE /\ ssh' = "gone" /\ troubles' = troubles \cup {"ssh"}
             /\ UNCHANGED <<todo, shown, rejected>>
    BY <1>0, <2>3 DEF TypeOK, SshInv, SshPoint, GoodLines
  <2>. QED
    BY <1>2, <2>1, <2>2, <2>3 DEF Takes
<1>. QED
  BY <1>1, <1>2 DEF Takes

(* What is read, and what is left to read.                                  *)
LEMMA ReadEffect ==
  ASSUME TypeOK, ReadOutput
  PROVE  /\ words' \subseteq Secrets /\ unread' \in Seq(Piece)
         /\ LastLine(words', unread') = LastLine(words, unread)
         /\ pc' \in {"check", "pause", "close"}
         /\ pc' = "pause" => Kind(words') # "none"
         /\ pc' = "close" => HungUp
<1>0. words \in SUBSET Secrets /\ unread \in Seq(Piece)
  BY DEF TypeOK
<1>1. ASSUME NEW n \in 1 .. Len(unread),
             words' = LastLine(words, SubSeq(unread, 1, n)),
             unread' = SubSeq(unread, n + 1, Len(unread))
      PROVE  /\ words' \subseteq Secrets /\ unread' \in Seq(Piece)
             /\ LastLine(words', unread') = LastLine(words, unread)
  BY <1>0, <1>1, LastLineReadOn, LastLineType
<1>. QED
  BY <1>0, <1>1 DEF ReadOutput

LEMMA TypeStep == TypeOK /\ SshInv /\ [Next]_vars => TypeOK' /\ SshInv'
<1>. SUFFICES ASSUME TypeOK, SshInv, [Next]_vars PROVE TypeOK' /\ SshInv'
  OBVIOUS
<1>. USE DEF loopVars, sshVars, person
<1>1. CASE UNCHANGED vars
  BY <1>1 DEF vars, TypeOK, SshInv, GoodLines
<1>2. CASE Output /\ UNCHANGED person
  <2>1. UNCHANGED <<rejected, loopVars, expired, typed, troubles>>
    BY <1>2 DEF Output
  <2>. QED
    BY <1>2, <2>1, OutputEffect DEF TypeOK
<1>3. CASE (Detach \/ Listen \/ SshFails) /\ UNCHANGED person
  BY <1>3 DEF Detach, Listen, SshFails, TypeOK, SshInv, SshPoint, GoodLines
<1>4. CASE Tick /\ UNCHANGED person
  BY <1>4 DEF Tick, TypeOK, SshInv, GoodLines
<1>5. CASE (CheckLive \/ AwaitRest \/ Refuse \/ ClosePty) /\ UNCHANGED person
  BY <1>5 DEF CheckLive, AwaitRest, Refuse, ClosePty, Goto, TypeOK, SshInv, GoodLines, Point
<1>6. CASE ReadOutput /\ UNCHANGED person
  <2>1. UNCHANGED <<ssh, todo, shown, rejected, sent, checks, live, expired, typed, troubles>>
    BY <1>6 DEF ReadOutput
  <2>. QED
    BY <1>6, <2>1, ReadEffect DEF TypeOK, SshInv, GoodLines, Point
<1>7. CASE TypeSecret /\ UNCHANGED person
  <2>. DEFINE secret == Kind(words)
              try == [secret |-> secret, asked |-> IF ssh = "asks" THEN Head(todo).asks ELSE "nothing"]
  <2>1. secret \in given /\ secret \in Secrets
    BY <1>7 DEF TypeSecret, CanAnswer, TypeOK
  <2>2. try \in [secret : Secrets, asked : Secrets \cup {"nothing", "other"}]
    <3>1. ssh = "asks" => Head(todo) \in Line
      BY HeadTailGood DEF SshInv
    <3>. QED
      BY <2>1, <3>1 DEF Line
  <2>. HIDE DEF try
  <2>3. CASE /\ Goto("answer", "check") /\ Takes(secret) /\ sent' = sent \cup {secret}
             /\ words' = {} /\ typed' = IF HungUp THEN typed ELSE typed \cup {try}
             /\ UNCHANGED <<unread, checks, live, expired>>
    <3>1. pc' \in Point
      BY <2>3 DEF Goto, Point
    <3>. QED
      BY <1>7, <2>1, <2>2, <2>3, <3>1, TakesEffect DEF TypeOK
  <2>4. CASE /\ Goto("answer", "close")
             /\ UNCHANGED <<ssh, todo, shown, rejected, words, sent, typed, troubles, unread,
                             checks, live, expired>>
    BY <1>7, <2>4 DEF Goto, TypeOK, SshInv, GoodLines, Point
  <2>. QED
    BY <1>7, <2>3, <2>4 DEF TypeSecret, try
<1>8. CASE Grace /\ UNCHANGED person
  <2>1. checks' \in 0 .. GraceChecks
    BY <1>8, BoundsAssumption DEF Grace, TypeOK
  <2>. QED
    BY <1>8, <2>1 DEF Grace, TypeOK, SshInv, GoodLines, Point
<1>9. CASE Kill /\ UNCHANGED person
  BY <1>9 DEF Kill, Goto, TypeOK, SshInv, SshPoint, GoodLines, Point
<1>. QED
  BY <1>1, <1>2, <1>3, <1>4, <1>5, <1>6, <1>7, <1>8, <1>9 DEF Next, Loop, Background

(* The types of the variables, for any dialogues and bounds.                *)
THEOREM LoginTypeCorrect == Spec => []TypeOK
BY TypeInit, TypeStep, PTL DEF Spec

-----------------------------------------------------------------------------
(* Why a login fails *)

(* The login goes to its end for a reason, or with ssh in the background,   *)
(* where it is given the time to listen.                                    *)
ReasonInv ==
  /\ pc # "done" /\ ssh = "gone" => troubles # {}
  /\ pc \in {"close", "grace"} => expired \/ troubles # {} \/ ssh \in {"detached", "listens"}
  /\ pc = "kill" => expired \/ troubles # {}
  /\ FailureHasReason

LEMMA ReasonStep ==
  ASSUME Slow = FALSE
  PROVE  TypeOK /\ ReasonInv /\ [Next]_vars => ReasonInv'
<1>. SUFFICES ASSUME TypeOK, ReasonInv, [Next]_vars PROVE ReasonInv'
  OBVIOUS
<1>. USE DEF loopVars, sshVars, person, ReasonInv, FailureHasReason
<1>1. CASE UNCHANGED vars
  BY <1>1 DEF vars
<1>2. CASE Output
  <2>1. ssh = "prints" /\ ssh' \in {"prints", "authenticated", "asks"}
    BY <1>2 DEF Output, Continues
  <2>. QED
    BY <1>2, <2>1 DEF Output
<1>3. CASE Detach \/ Listen \/ SshFails \/ Tick
  BY <1>3 DEF Detach, Listen, SshFails, Tick
<1>4. CASE CheckLive \/ AwaitRest \/ Refuse \/ ClosePty
  BY <1>4 DEF CheckLive, AwaitRest, Refuse, ClosePty, Goto
<1>5. CASE ReadOutput
  BY <1>5, ReadEffect DEF ReadOutput, HungUp
<1>6. CASE TypeSecret
  <2>1. CASE Goto("answer", "check") /\ Takes(Kind(words))
    <3>1. troubles \subseteq troubles' /\ (ssh' = "gone" => ssh = "gone" \/ "ssh" \in troubles')
      BY <2>1 DEF Takes, Continues
    <3>. QED
      BY <2>1, <3>1 DEF Goto
  <2>2. CASE HungUp /\ Goto("answer", "close")
    BY <1>6, <2>2 DEF TypeSecret, Goto, HungUp
  <2>. QED
    BY <1>6, <2>1, <2>2 DEF TypeSecret
<1>7. CASE Grace
  <2>1. pc' = "kill" => ssh \notin {"authenticated", "detached", "listens"}
    BY <1>7 DEF Grace
  <2>. QED
    BY <1>7, <2>1 DEF Grace
<1>8. CASE Kill
  BY <1>8 DEF Kill, Goto
<1>. QED
  BY <1>1, <1>2, <1>3, <1>4, <1>5, <1>6, <1>7, <1>8 DEF Next, Loop, Background

(* A login (login) fails only because its time was over, because ssh did,   *)
(* or because a prompt was refused, whatever ssh prints and asks and however *)
(* the output is cut, if an authenticated master listens within the grace   *)
(* checks.                                                                  *)
THEOREM LoginFailsForAReason == ASSUME Slow = FALSE PROVE Spec => []FailureHasReason
<1>1. Init => ReasonInv
  BY DEF Init, ReasonInv, FailureHasReason, Continues
<1>2. ReasonInv => FailureHasReason
  BY DEF ReasonInv
<1>. QED
  BY <1>1, <1>2, ReasonStep, TypeInit, TypeStep, PTL DEF Spec

-----------------------------------------------------------------------------
(* Prompts *)

(* The words of ssh's line that are printed.                                *)
Shown(lines, n) == UNION { Head(lines).pieces[i] : i \in 1 .. n }

(* What the login read of ssh's line, and what waits to be read, is what ssh *)
(* printed of it; a pause and an answer are for a line that names a secret. *)
ReadInv ==
  /\ ssh \in {"prints", "asks", "authenticated"} => LastLine(words, unread) = Shown(todo, shown)
  /\ pc \in {"pause", "answer"} => Kind(words) # "none"

(* When the login is about to answer, ssh waits for that very secret.       *)
PromptInv ==
  pc = "answer" =>
    \/ ssh = "gone"
    \/ ssh = "asks" /\ unread = <<>> /\ Kind(words) = Head(todo).asks

LEMMA ShownNothing == ASSUME NEW lines PROVE Shown(lines, 0) = {}
BY DEF Shown

LEMMA ShownMore ==
  ASSUME NEW lines, NEW n \in Nat
  PROVE  Shown(lines, n + 1) = Shown(lines, n) \cup Head(lines).pieces[n + 1]
<1>1. 1 .. n + 1 = (1 .. n) \cup {n + 1}
  OBVIOUS
<1>. QED
  BY <1>1 DEF Shown

LEMMA ShownAll ==
  ASSUME NEW lines, GoodLines(lines), lines # <<>>
  PROVE  Shown(lines, Len(Head(lines).pieces)) = UNION ToSet(Head(lines).pieces)
<1>1. Head(lines).pieces \in Seq(SUBSET Secrets)
  BY HeadTailGood DEF Line
<1>. QED
  BY <1>1 DEF Shown, ToSet

LEMMA OutputReads ==
  ASSUME TypeOK, SshInv, ReadInv, Output
  PROVE  LastLine(words, unread)' = Shown(todo, shown)'
<1>. DEFINE line == Head(todo)
            ends == shown + 1 = Len(line.pieces) /\ line.asks = "nothing"
            piece == [words |-> line.pieces[shown + 1], newline |-> ends]
<1>1. /\ todo # <<>> /\ shown \in Nat /\ line \in Line /\ shown < Len(line.pieces)
      /\ LastLine(words, unread) = Shown(todo, shown)
  BY HeadTailGood DEF Output, TypeOK, SshInv, ReadInv
<1>2. /\ unread' = Append(unread, piece)
      /\ todo' = IF ends THEN Tail(todo) ELSE todo
      /\ shown' = IF ends THEN 0 ELSE shown + 1
      /\ words' = words /\ unread \in Seq(Piece)
  BY DEF Output, loopVars, TypeOK
<1>3. piece \in Piece /\ piece.newline = ends /\ piece.words = line.pieces[shown + 1]
  <2>1. line.pieces[shown + 1] \in SUBSET Secrets
    BY <1>1 DEF Line
  <2>. QED
    BY <2>1 DEF Piece
<1>. HIDE DEF piece
<1>4. LastLine(words, unread') = IF ends THEN {} ELSE Shown(todo, shown) \cup line.pieces[shown + 1]
  <2>1. LastLine(words, Append(unread, piece)) =
          IF piece.newline THEN {} ELSE LastLine(words, unread) \cup piece.words
    BY <1>2, <1>3, LastLineAppend
  <2>. QED
    BY <1>1, <1>2, <1>3, <2>1
<1>5. Shown(todo', shown') = IF ends THEN {} ELSE Shown(todo, shown) \cup line.pieces[shown + 1]
  BY <1>1, <1>2, ShownNothing, ShownMore
<1>6. LastLine(words', unread') = Shown(todo', shown')
  BY <1>2, <1>4, <1>5
<1>. QED
  BY <1>6

(* A pause with nothing to read is ssh waiting for what its line names.     *)
LEMMA PauseIsPrompt ==
  ASSUME Stalls = FALSE, TypeOK, SshInv, ReadInv, AwaitRest, pc' = "answer"
  PROVE  ssh = "asks" /\ unread = <<>> /\ Kind(words) = Head(todo).asks
<1>1. /\ pc = "pause" /\ unread = <<>> /\ ssh \in {"prints", "asks", "authenticated"}
      /\ ssh = "prints" => ~(shown > 0)
  BY DEF AwaitRest, Goto, Readable, HungUp, TypeOK, SshPoint
<1>2. words = Shown(todo, shown) /\ Kind(words) # "none"
  BY <1>1, LastLineEmpty DEF ReadInv
<1>3. Kind({}) = "none"
  BY DEF Kind
<1>4. ssh = "asks"
  <2>1. ssh # "asks" => shown = 0
    BY <1>1 DEF TypeOK, SshInv
  <2>. QED
    BY <1>1, <1>2, <1>3, <2>1, ShownNothing
<1>5. /\ words = UNION ToSet(Head(todo).pieces)
      /\ Head(todo) \in Line /\ GoodLine(Head(todo)) /\ Head(todo).asks # "nothing"
  BY <1>2, <1>4, ShownAll, HeadTailGood DEF SshInv
<1>6. Head(todo).asks \in Secrets \cup {"other"}
  BY <1>5 DEF Line
<1>. QED
  BY <1>1, <1>2, <1>3, <1>4, <1>5, <1>6 DEF GoodLine

PtyInv == TypeOK /\ SshInv /\ ReadInv /\ PromptInv /\ SecretAtItsPrompt

LEMMA PromptStep ==
  ASSUME Stalls = FALSE
  PROVE  PtyInv /\ [Next]_vars => PtyInv'
<1>. SUFFICES ASSUME TypeOK, SshInv, ReadInv, PromptInv, SecretAtItsPrompt, [Next]_vars
              PROVE  ReadInv' /\ PromptInv' /\ SecretAtItsPrompt'
  BY TypeStep DEF PtyInv
<1>. USE DEF loopVars, sshVars, person
<1>1. CASE UNCHANGED vars
  BY <1>1 DEF vars, ReadInv, PromptInv, SecretAtItsPrompt
<1>2. CASE Output
  BY <1>2, OutputReads DEF Output, ReadInv, PromptInv, SecretAtItsPrompt
<1>3. CASE Detach \/ Listen \/ SshFails \/ Tick
  BY <1>3 DEF Detach, Listen, SshFails, Tick, ReadInv, PromptInv, SecretAtItsPrompt
<1>4. CASE CheckLive \/ Refuse \/ ClosePty
  BY <1>4 DEF CheckLive, Refuse, ClosePty, Goto, ReadInv, PromptInv, SecretAtItsPrompt
<1>5. CASE AwaitRest
  <2>1. /\ UNCHANGED <<sshVars, words, sent, checks, live, expired, typed, troubles>>
        /\ pc = "pause" /\ pc' \in {"check", "answer"}
    BY <1>5 DEF AwaitRest, Goto
  <2>2. PromptInv'
    BY <1>5, <2>1, PauseIsPrompt DEF PromptInv
  <2>. QED
    BY <2>1, <2>2 DEF ReadInv, SecretAtItsPrompt
<1>6. CASE ReadOutput
  <2>1. UNCHANGED <<ssh, todo, shown, typed>>
    BY <1>6 DEF ReadOutput
  <2>. QED
    BY <1>6, <2>1, ReadEffect DEF ReadInv, PromptInv, SecretAtItsPrompt
<1>7. CASE TypeSecret
  <2>. DEFINE try == [secret |-> Kind(words),
                      asked |-> IF ssh = "asks" THEN Head(todo).asks ELSE "nothing"]
  <2>1. CASE /\ Goto("answer", "check") /\ Takes(Kind(words)) /\ words' = {}
             /\ typed' = IF HungUp THEN typed ELSE typed \cup {try}
             /\ UNCHANGED unread
    <3>1. \/ ssh = "gone"
          \/ ssh = "asks" /\ unread = <<>> /\ Kind(words) = Head(todo).asks
      BY <2>1 DEF PromptInv, Goto
    <3>2. CASE ssh = "gone"
      <4>1. ssh' = "gone" /\ typed' = typed
        BY <2>1, <3>2 DEF Takes, HungUp
      <4>. QED
        BY <2>1, <4>1 DEF ReadInv, PromptInv, SecretAtItsPrompt, Goto
    <3>3. CASE ssh = "asks" /\ unread = <<>> /\ Kind(words) = Head(todo).asks
      <4>1. try.asked = try.secret
        BY <3>3
      <4>. HIDE DEF try
      <4>2. SecretAtItsPrompt'
        BY <2>1, <4>1 DEF SecretAtItsPrompt
      <4>3. ssh' # "gone" => shown' = 0
        BY <2>1, <3>3, TakesEffect
      <4>4. ssh' # "gone" => LastLine(words', unread') = Shown(todo', shown')
        BY <2>1, <3>3, <4>3, LastLineEmpty, ShownNothing
      <4>. QED
        BY <2>1, <4>2, <4>4 DEF ReadInv, PromptInv, Goto
    <3>. QED
      BY <3>1, <3>2, <3>3
  <2>2. CASE Goto("answer", "close") /\ UNCHANGED <<ssh, todo, shown, words, unread, typed>>
    BY <2>2 DEF Goto, ReadInv, PromptInv, SecretAtItsPrompt
  <2>. QED
    BY <1>7, <2>1, <2>2 DEF TypeSecret
<1>8. CASE Grace
  BY <1>8 DEF Grace, ReadInv, PromptInv, SecretAtItsPrompt
<1>9. CASE Kill
  BY <1>9 DEF Kill, Goto, ReadInv, PromptInv, SecretAtItsPrompt, HungUp
<1>. QED
  BY <1>1, <1>2, <1>3, <1>4, <1>5, <1>6, <1>7, <1>8, <1>9 DEF Next, Loop, Background

LEMMA PromptInit == Init => PtyInv
<1>. SUFFICES ASSUME Init PROVE ReadInv /\ PromptInv /\ SecretAtItsPrompt
  BY TypeInit DEF PtyInv
<1>. QED
  BY LastLineEmpty, ShownNothing DEF Init, ReadInv, PromptInv, SecretAtItsPrompt

(* A secret is typed only where ssh waits for that very one (login: "Only   *)
(* the unfinished last line of output can be a prompt, and only once the    *)
(* output pauses"), for any notices and prompts that classify_prompt        *)
(* recognises, cut into pieces in any way, if no line stalls half-way.      *)
THEOREM SecretsAtTheirPrompts == ASSUME Stalls = FALSE PROVE Spec => []SecretAtItsPrompt
<1>1. PtyInv => SecretAtItsPrompt
  BY DEF PtyInv
<1>. QED
  BY <1>1, PromptInit, PromptStep, PTL DEF Spec

-----------------------------------------------------------------------------
(* What a failed login leaves behind *)

(* Unless its time is over, a login ends with ssh in the background, at a   *)
(* prompt that is not answered, or gone; and it kills one at a prompt.      *)
EndInv ==
  /\ pc \in {"close", "grace"} => expired \/ ssh \in {"asks", "gone", "detached", "listens"}
  /\ pc = "kill" => expired \/ ssh \in {"asks", "gone"}
  /\ NothingLeftBehind

LEMMA EndStep ==
  ASSUME Stalls = FALSE, Slow = FALSE
  PROVE  PtyInv /\ EndInv /\ [Next]_vars => EndInv'
<1>. SUFFICES ASSUME TypeOK, PromptInv, EndInv, [Next]_vars PROVE EndInv'
  BY DEF PtyInv
<1>. USE DEF loopVars, sshVars, person, EndInv, NothingLeftBehind
<1>1. CASE UNCHANGED vars
  BY <1>1 DEF vars
<1>2. CASE Output \/ Detach \/ Listen \/ SshFails \/ Tick
  BY <1>2 DEF Output, Detach, Listen, SshFails, Tick
<1>3. CASE CheckLive \/ AwaitRest \/ ClosePty
  BY <1>3 DEF CheckLive, AwaitRest, ClosePty, Goto
<1>4. CASE Refuse
  BY <1>4 DEF Refuse, Goto, PromptInv
<1>5. CASE ReadOutput
  BY <1>5, ReadEffect DEF ReadOutput, HungUp
<1>6. CASE TypeSecret
  BY <1>6 DEF TypeSecret, Goto, HungUp
<1>7. CASE Grace
  <2>1. pc' = "kill" => ssh \notin {"authenticated", "detached", "listens"}
    BY <1>7 DEF Grace
  <2>. QED
    BY <1>7, <2>1 DEF Grace
<1>8. CASE Kill
  BY <1>8 DEF Kill, Goto, HungUp
<1>. QED
  BY <1>1, <1>2, <1>3, <1>4, <1>5, <1>6, <1>7, <1>8 DEF Next, Loop, Background

(* A failed login, also one whose time ran out, leaves no ssh at a prompt   *)
(* or on its way through the dialogue (login: "don't leave ssh waiting at a *)
(* prompt"), and none that could still become the tunnel, but for one that  *)
(* had authenticated and left for the background when the timeout came;     *)
(* under the same two conditions.                                           *)
THEOREM LoginLeavesNothing ==
  ASSUME Stalls = FALSE, Slow = FALSE
  PROVE  Spec => []NothingLeftBehind
<1>1. Init => EndInv
  BY DEF Init, EndInv, NothingLeftBehind
<1>2. EndInv => NothingLeftBehind
  BY DEF EndInv
<1>. QED
  BY <1>1, <1>2, EndStep, PromptInit, PromptStep, PTL DEF Spec

=============================================================================
