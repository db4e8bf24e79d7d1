------------------------- MODULE OutputText_proofs -------------------------
(***************************************************************************)
(* Lemmas about OutputText: what splitting a text comes to when the text   *)
(* arrives in parts, and when only the beginning of a long line is kept    *)
(* between two of them, for any text and any LineMax.                      *)
(***************************************************************************)
EXTENDS OutputText, SequenceLemmas

-----------------------------------------------------------------------------
(* Split is a recursive function of the number of pieces: there is one, and *)
(* what it comes to depends on those pieces alone.                          *)

NoText == [lines |-> <<>>, open |-> <<>>]

\* f splits what text begins with, up to each of n pieces.
Splits(f, text, n) ==
    f = [k \in 0..n |-> IF k = 0 THEN NoText ELSE Further(f[k - 1], text[k])]

\* Any number of pieces can be split.
LEMMA SplitsExist == ASSUME NEW text, NEW n \in Nat PROVE \E f : Splits(f, text, n)
<1> DEFINE S == {m \in Nat : \E f : Splits(f, text, m)}
<1>1. 0 \in S
  <2> DEFINE f == [k \in 0..0 |-> NoText]
  <2>1. Splits(f, text, 0)
    BY DEF Splits
  <2> QED
    BY <2>1
<1>2. ASSUME NEW m \in Nat, m \in S PROVE m + 1 \in S
  <2>1. PICK f : Splits(f, text, m)
    BY <1>2
  <2> DEFINE g == [k \in 0..(m + 1) |-> IF k = m + 1 THEN Further(f[m], text[m + 1]) ELSE f[k]]
  <2>2. \A k \in 0..m : f[k] = IF k = 0 THEN NoText ELSE Further(f[k - 1], text[k])
    BY <2>1 DEF Splits
  <2>3. \A k \in 0..m : g[k] = f[k]
    OBVIOUS
  <2>4. ASSUME NEW k \in 0..(m + 1)
        PROVE  g[k] = IF k = 0 THEN NoText ELSE Further(g[k - 1], text[k])
    <3>1. CASE k = 0
      BY <2>2, <2>3, <3>1
    <3>2. CASE k = m + 1
      <4>1. k - 1 = m /\ k # 0
        BY <3>2
      <4> QED
        BY <2>3, <3>2, <4>1
    <3>3. CASE k # 0 /\ k # m + 1
      <4>1. k \in 0..m /\ k - 1 \in 0..m
        BY <3>3
      <4> QED
        BY <2>2, <2>3, <3>3, <4>1
    <3> QED
      BY <3>1, <3>2, <3>3
  <2>5. g = [k \in 0..(m + 1) |-> IF k = 0 THEN NoText ELSE Further(g[k - 1], text[k])]
    <3> g = [k \in 0..(m + 1) |-> g[k]]
      OBVIOUS
    <3> HIDE DEF g
    <3> QED
      BY <2>4
  <2>6. Splits(g, text, m + 1)
    <3> HIDE DEF g
    <3> QED BY <2>5 DEF Splits
  <2> HIDE DEF g
  <2> QED
    BY <2>6
<1> HIDE DEF S
<1>3. Nat \subseteq S
  BY <1>1, <1>2, Induction
<1> QED
  BY <1>3 DEF S

\* Two splittings agree as far as the texts do.
LEMMA SplitsAgree ==
    ASSUME NEW f, NEW g, NEW s, NEW t, NEW n \in Nat, NEW m \in Nat, NEW i \in Nat,
           Splits(f, s, n), Splits(g, t, m), i <= n, i <= m, \A k \in 1..i : s[k] = t[k]
    PROVE  f[i] = g[i]
<1> DEFINE S == {k \in Nat : k <= i => f[k] = g[k]}
<1>1. \A k \in 0..n : f[k] = IF k = 0 THEN NoText ELSE Further(f[k - 1], s[k])
  BY DEF Splits
<1>2. \A k \in 0..m : g[k] = IF k = 0 THEN NoText ELSE Further(g[k - 1], t[k])
  BY DEF Splits
<1>3. 0 \in S
  BY <1>1, <1>2
<1>4. ASSUME NEW k \in Nat, k \in S PROVE k + 1 \in S
  <2> SUFFICES ASSUME k + 1 <= i PROVE f[k + 1] = g[k + 1]
    OBVIOUS
  <2>1. k + 1 \in 0..n /\ k + 1 \in 0..m /\ k + 1 \in 1..i /\ k + 1 # 0 /\ (k + 1) - 1 = k
    OBVIOUS
  <2>2. f[k] = g[k]
    BY <1>4
  <2> QED
    BY <1>1, <1>2, <2>1, <2>2
<1> HIDE DEF S
<1>5. Nat \subseteq S
  BY <1>3, <1>4, Induction
<1> QED
  BY <1>5 DEF S

\* Split is what such a splitting comes to.
LEMMA SplitIs ==
    ASSUME NEW text, Len(text) \in Nat
    PROVE  \E f : Splits(f, text, Len(text)) /\ Split(text) = f[Len(text)]
<1> DEFINE f == CHOOSE g : Splits(g, text, Len(text))
<1>1. Split(text) = f[Len(text)]
  BY DEF Split, Splits, NoText
<1>2. Splits(f, text, Len(text))
  BY SplitsExist
<1> QED
  BY <1>1, <1>2

\* Before the first piece there is no line and nothing open.
LEMMA SplitEmpty == Split(<<>>) = NoText
<1>1. PICK f : Splits(f, <<>>, 0) /\ Split(<<>>) = f[0]
  BY SplitIs
<1> QED
  BY <1>1 DEF Splits

\* One more piece is added to what was split.
LEMMA SplitAppend ==
    ASSUME NEW P, NEW s \in Seq(P), NEW piece \in P
    PROVE  Split(Append(s, piece)) = Further(Split(s), piece)
<1> DEFINE t == Append(s, piece)
<1>1. Len(s) \in Nat /\ Len(t) = Len(s) + 1 /\ \A k \in 1..Len(s) : t[k] = s[k]
  OBVIOUS
<1>2. t[Len(s) + 1] = piece
  OBVIOUS
<1> HIDE DEF t
<1>3. PICK f : Splits(f, s, Len(s)) /\ Split(s) = f[Len(s)]
  BY <1>1, SplitIs
<1>4. PICK g : Splits(g, t, Len(t)) /\ Split(t) = g[Len(t)]
  BY <1>1, SplitIs
<1>5. g[Len(s)] = f[Len(s)]
  BY <1>1, <1>3, <1>4, SplitsAgree
<1>6. g[Len(t)] = Further(g[Len(t) - 1], t[Len(t)])
  BY <1>1, <1>4 DEF Splits
<1> QED
  BY <1>1, <1>2, <1>3, <1>4, <1>5, <1>6 DEF t

-----------------------------------------------------------------------------
(* What a text is split into.                                               *)

\* Neither a line nor the beginning of one holds a line break.
Unbroken(s) == \A k \in 1..Len(s) : s[k] # "NL"

IsSplit(split, P) ==
    /\ split = [lines |-> split.lines, open |-> split.open]
    /\ split.lines \in Seq(Seq(P)) /\ split.open \in Seq(P)
    /\ Unbroken(split.open)

\* One more piece keeps the beginning of a line free of line breaks.
LEMMA FurtherType ==
    ASSUME NEW P, NEW e \in P, NEW split, IsSplit(split, P)
    PROVE  IsSplit(Further(split, e), P)
<1>1. CASE e = "NL"
  <2>1. Further(split, e) = [lines |-> Append(split.lines, split.open), open |-> <<>>]
    BY <1>1 DEF Further
  <2>2. Append(split.lines, split.open) \in Seq(Seq(P)) /\ <<>> \in Seq(P) /\ Unbroken(<<>>)
    BY EmptySeq DEF IsSplit, Unbroken
  <2> QED
    BY <2>1, <2>2 DEF IsSplit
<1>2. CASE e # "NL"
  <2>1. Further(split, e) = [lines |-> split.lines, open |-> Append(split.open, e)]
    BY <1>2 DEF Further, IsSplit
  <2>2. Append(split.open, e) \in Seq(P) /\ Unbroken(Append(split.open, e))
    BY <1>2 DEF IsSplit, Unbroken
  <2> QED
    BY <2>1, <2>2 DEF IsSplit
<1> QED
  BY <1>1, <1>2

\* A text is split into lines and the beginning of one more.
LEMMA SplitType == ASSUME NEW P, NEW text \in Seq(P) PROVE IsSplit(Split(text), P)
<1> DEFINE S == {s \in Seq(P) : IsSplit(Split(s), P)}
<1>1. <<>> \in S
  <2>1. NoText.lines = <<>> /\ NoText.open = <<>> /\ NoText = [lines |-> <<>>, open |-> <<>>]
    BY DEF NoText
  <2>2. <<>> \in Seq(P) /\ <<>> \in Seq(Seq(P)) /\ Unbroken(<<>>)
    BY EmptySeq DEF Unbroken
  <2>3. IsSplit(NoText, P)
    BY <2>1, <2>2 DEF IsSplit
  <2> QED
    BY <2>2, <2>3, SplitEmpty
<1>2. ASSUME NEW s \in Seq(P), NEW e \in P, s \in S PROVE Append(s, e) \in S
  <2>1. Split(Append(s, e)) = Further(Split(s), e) /\ Append(s, e) \in Seq(P)
    BY SplitAppend
  <2> QED
    BY <1>2, <2>1, FurtherType
<1> HIDE DEF S
<1>3. Seq(P) \subseteq S
  BY <1>1, <1>2, SequenceInduction
<1> QED
  BY <1>3 DEF S

\* Without a line break all of it is open.
LEMMA SplitUnbroken ==
    ASSUME NEW P, NEW text \in Seq(P), Unbroken(text)
    PROVE  Split(text) = [lines |-> <<>>, open |-> text]
<1> DEFINE S == {s \in Seq(P) : Unbroken(s) => Split(s) = [lines |-> <<>>, open |-> s]}
<1>1. <<>> \in S
  BY SplitEmpty, EmptySeq DEF NoText
<1>2. ASSUME NEW s \in Seq(P), NEW e \in P, s \in S PROVE Append(s, e) \in S
  <2> SUFFICES ASSUME Unbroken(Append(s, e))
               PROVE  Split(Append(s, e)) = [lines |-> <<>>, open |-> Append(s, e)]
    OBVIOUS
  <2>1. Unbroken(s) /\ e # "NL"
    <3>1. Len(s) \in Nat /\ Len(Append(s, e)) = Len(s) + 1 /\ Append(s, e)[Len(s) + 1] = e
      OBVIOUS
    <3>2. \A k \in 1..Len(s) : Append(s, e)[k] = s[k]
      OBVIOUS
    <3> QED
      BY <3>1, <3>2 DEF Unbroken
  <2>2. Split(s) = [lines |-> <<>>, open |-> s]
    BY <1>2, <2>1
  <2> QED
    BY <2>1, <2>2, SplitAppend DEF Further
<1> HIDE DEF S
<1>3. Seq(P) \subseteq S
  BY <1>1, <1>2, SequenceInduction
<1> QED
  BY <1>3 DEF S

\* What follows a text is split together with the line it began.
LEMMA SplitConcat ==
    ASSUME NEW P, NEW a \in Seq(P), NEW b \in Seq(P)
    PROVE  /\ Split(a \o b).lines = Split(a).lines \o Split(Split(a).open \o b).lines
           /\ Split(a \o b).open = Split(Split(a).open \o b).open
<1> DEFINE o == Split(a).open
           Holds(s) == /\ Split(a \o s).lines = Split(a).lines \o Split(o \o s).lines
                       /\ Split(a \o s).open = Split(o \o s).open
           S == {s \in Seq(P) : Holds(s)}
<1>1. o \in Seq(P) /\ Unbroken(o) /\ Split(a).lines \in Seq(Seq(P))
  BY SplitType DEF IsSplit
<1> HIDE DEF o
<1>2. Holds(<<>>)
  <2>1. a \o <<>> = a /\ o \o <<>> = o /\ Split(a).lines \o <<>> = Split(a).lines
    BY <1>1
  <2>2. Split(o) = [lines |-> <<>>, open |-> o]
    BY <1>1, SplitUnbroken
  <2>3. Split(o).lines = <<>> /\ Split(o).open = o
    BY <2>2
  <2>4. Split(a).open = o
    BY DEF o
  <2> QED
    BY <2>1, <2>3, <2>4
<1>3. ASSUME NEW s \in Seq(P), NEW e \in P, Holds(s) PROVE Holds(Append(s, e))
  <2>1. /\ a \o Append(s, e) = Append(a \o s, e) /\ o \o Append(s, e) = Append(o \o s, e)
        /\ a \o s \in Seq(P) /\ o \o s \in Seq(P)
    BY <1>1
  <2>2. PICK A, B : A = Split(a \o s) /\ B = Split(o \o s)
    OBVIOUS
  <2>3. /\ Split(a \o Append(s, e)) = Further(A, e)
        /\ Split(o \o Append(s, e)) = Further(B, e)
    BY <2>1, <2>2, SplitAppend
  <2>4. IsSplit(A, P) /\ IsSplit(B, P)
    BY <2>1, <2>2, SplitType
  <2>5. A.lines = Split(a).lines \o B.lines /\ A.open = B.open
    BY <1>3, <2>2
  <2>6. CASE e = "NL"
    <3>1. /\ Further(A, e).lines = Append(A.lines, A.open) /\ Further(A, e).open = <<>>
          /\ Further(B, e).lines = Append(B.lines, B.open) /\ Further(B, e).open = <<>>
      BY <2>6 DEF Further
    <3>2. Append(Split(a).lines \o B.lines, B.open) = Split(a).lines \o Append(B.lines, B.open)
      <4>1. PICK Lines, l, m, q : Lines = Seq(P) /\ l = Split(a).lines /\ m = B.lines /\ q = B.open
        OBVIOUS
      <4>2. l \in Seq(Lines) /\ m \in Seq(Lines) /\ q \in Lines
        BY <1>1, <2>4, <4>1 DEF IsSplit
      <4>3. Append(l \o m, q) = l \o Append(m, q)
        <5>1. Append(l \o m, q) = (l \o m) \o <<q>> /\ Append(m, q) = m \o <<q>> /\ <<q>> \in Seq(Lines)
          BY ONLY <4>2, AppendIsConcat, ConcatProperties
        <5> QED
          BY ONLY <4>2, <5>1, ConcatAssociative
      <4> QED
        BY <4>1, <4>3
    <3> QED
      BY <2>3, <2>5, <3>1, <3>2
  <2>7. CASE e # "NL"
    <3>1. /\ Further(A, e).lines = A.lines /\ Further(A, e).open = Append(A.open, e)
          /\ Further(B, e).lines = B.lines /\ Further(B, e).open = Append(B.open, e)
      BY <2>4, <2>7 DEF Further, IsSplit
    <3> QED
      BY <2>3, <2>5, <3>1
  <2> QED
    BY <2>6, <2>7
<1>4. <<>> \in S /\ \A s \in Seq(P), e \in P : s \in S => Append(s, e) \in S
  <2> HIDE DEF Holds
  <2> QED
    BY <1>2, <1>3, EmptySeq, AppendProperties
<1>5. Seq(P) \subseteq S
  <2> HIDE DEF S
  <2> QED
    BY <1>4, SequenceInduction
<1> QED
  BY <1>5 DEF o

-----------------------------------------------------------------------------
(* Lines that are cut.                                                     *)

\* What is cut begins the line, and is as long as it may be.
LEMMA CutType == ASSUME NEW P, NEW s \in Seq(P)
    PROVE /\ Cut(s) \in Seq(P) /\ Len(Cut(s)) <= LineMax /\ Len(Cut(s)) <= Len(s)
          /\ Len(Cut(s)) = IF Len(s) < LineMax THEN Len(s) ELSE LineMax
          /\ \A k \in 1..Len(Cut(s)) : Cut(s)[k] = s[k]
BY LineMaxAssumption DEF Cut

\* A short line is not cut.
LEMMA CutShort == ASSUME NEW P, NEW s \in Seq(P), Len(s) <= LineMax PROVE Cut(s) = s
<1>1. Cut(s) = SubSeq(s, 1, Len(s))
  BY LineMaxAssumption DEF Cut
<1> QED
  BY <1>1, SubSeqFull

\* Nor is one that was cut already.
LEMMA CutCut == ASSUME NEW P, NEW s \in Seq(P) PROVE Cut(Cut(s)) = Cut(s)
BY CutType, CutShort

\* Two lines that are cut alike are cut alike when they go on alike.
LEMMA CutAppend ==
    ASSUME NEW P, NEW s \in Seq(P), NEW t \in Seq(P), NEW e \in P, Cut(s) = Cut(t)
    PROVE  Cut(Append(s, e)) = Cut(Append(t, e))
<1>1. CASE Len(s) < LineMax
  <2>1. Len(t) < LineMax
    BY <1>1, CutType
  <2>2. s = t
    BY <1>1, <2>1, CutShort, LineMaxAssumption
  <2> QED
    BY <2>2
<1>2. CASE Len(s) >= LineMax
  <2>1. Len(t) >= LineMax
    BY <1>2, CutType, LineMaxAssumption
  <2>2. ASSUME NEW u \in Seq(P), Len(u) >= LineMax PROVE Cut(Append(u, e)) = Cut(u)
    <3>1. /\ Append(u, e) \in Seq(P) /\ Len(Append(u, e)) = Len(u) + 1
          /\ \A k \in 1..Len(u) : Append(u, e)[k] = u[k]
      OBVIOUS
    <3>2. Len(Cut(Append(u, e))) = LineMax /\ Len(Cut(u)) = LineMax
      <4>1. Len(Cut(u)) = IF Len(u) < LineMax THEN Len(u) ELSE LineMax
        BY CutType
      <4>2. Len(Cut(Append(u, e))) = IF Len(u) + 1 < LineMax THEN Len(u) + 1 ELSE LineMax
        BY <3>1, CutType
      <4>3. Len(u) \in Nat
        OBVIOUS
      <4> QED
        BY <2>2, <4>1, <4>2, <4>3, LineMaxAssumption
    <3>3. \A k \in 1..LineMax : Cut(Append(u, e))[k] = Cut(u)[k]
      <4>1. ASSUME NEW k \in 1..LineMax PROVE Cut(Append(u, e))[k] = Cut(u)[k]
        <5>1. Cut(Append(u, e))[k] = Append(u, e)[k] /\ Cut(u)[k] = u[k]
          BY <3>1, <3>2, CutType
        <5>2. k \in 1..Len(u)
          BY <2>2, LineMaxAssumption
        <5> QED
          BY <3>1, <5>1, <5>2
      <4> QED
        BY <4>1
    <3>4. Cut(u) \in Seq(P) /\ Cut(Append(u, e)) \in Seq(P)
      BY <3>1, CutType
    <3> QED
      BY <3>2, <3>3, <3>4, SeqEqual
  <2> QED
    BY <1>2, <2>1, <2>2
<1> QED
  BY <1>1, <1>2, LineMaxAssumption

\* Each line cut, as the scanning looks at it.
CutAll(lns) == [k \in DOMAIN lns |-> Cut(lns[k])]

\* Nothing that is looked at depends on the part of a line that was not kept.
LEMMA SplitKept ==
    ASSUME NEW P, NEW x \in Seq(P), Unbroken(x), NEW b \in Seq(P)
    PROVE  /\ CutAll(Split(Cut(x) \o b).lines) = CutAll(Split(x \o b).lines)
           /\ Cut(Split(Cut(x) \o b).open) = Cut(Split(x \o b).open)
<1> DEFINE y == Cut(x)
           Holds(s) == /\ Len(Split(y \o s).lines) = Len(Split(x \o s).lines)
                       /\ \A k \in 1..Len(Split(x \o s).lines) :
                             Cut(Split(y \o s).lines[k]) = Cut(Split(x \o s).lines[k])
                       /\ Cut(Split(y \o s).open) = Cut(Split(x \o s).open)
           S == {s \in Seq(P) : Holds(s)}
<1>1. y \in Seq(P) /\ Unbroken(y) /\ Cut(y) = Cut(x)
  BY CutType, CutCut DEF Unbroken
<1> HIDE DEF y
<1>2. Holds(<<>>)
  <2>1. y \o <<>> = y /\ x \o <<>> = x
    BY <1>1
  <2>2. Split(x) = [lines |-> <<>>, open |-> x] /\ Split(y) = [lines |-> <<>>, open |-> y]
    BY <1>1, SplitUnbroken
  <2>3. Split(x).lines = <<>> /\ Split(y).lines = <<>> /\ Split(x).open = x /\ Split(y).open = y
    BY <2>2
  <2> QED
    BY <1>1, <2>1, <2>3
<1>3. ASSUME NEW s \in Seq(P), NEW e \in P, Holds(s) PROVE Holds(Append(s, e))
  <2>1. /\ x \o Append(s, e) = Append(x \o s, e) /\ y \o Append(s, e) = Append(y \o s, e)
        /\ x \o s \in Seq(P) /\ y \o s \in Seq(P)
    BY <1>1
  <2>2. PICK A, B : A = Split(x \o s) /\ B = Split(y \o s)
    OBVIOUS
  <2>3. /\ Split(x \o Append(s, e)) = Further(A, e)
        /\ Split(y \o Append(s, e)) = Further(B, e)
    BY <2>1, <2>2, SplitAppend
  <2>4. IsSplit(A, P) /\ IsSplit(B, P)
    BY <2>1, <2>2, SplitType
  <2>5. /\ Len(B.lines) = Len(A.lines) /\ Cut(B.open) = Cut(A.open)
        /\ \A k \in 1..Len(A.lines) : Cut(B.lines[k]) = Cut(A.lines[k])
    BY <1>3, <2>2
  <2>6. CASE e = "NL"
    <3>1. /\ Further(A, e).lines = Append(A.lines, A.open) /\ Further(A, e).open = <<>>
          /\ Further(B, e).lines = Append(B.lines, B.open) /\ Further(B, e).open = <<>>
      BY <2>6 DEF Further
    <3>2. /\ Len(A.lines) \in Nat
          /\ Len(Append(A.lines, A.open)) = Len(A.lines) + 1
          /\ Len(Append(B.lines, B.open)) = Len(A.lines) + 1
      <4>1. /\ A.lines \in Seq(Seq(P)) /\ A.open \in Seq(P)
            /\ B.lines \in Seq(Seq(P)) /\ B.open \in Seq(P)
        BY <2>4 DEF IsSplit
      <4> QED
        BY <2>5, <4>1, AppendProperties, LenProperties
    <3>3. ASSUME NEW k \in 1..(Len(A.lines) + 1)
          PROVE  Cut(Append(B.lines, B.open)[k]) = Cut(Append(A.lines, A.open)[k])
      <4>1. CASE k = Len(A.lines) + 1
        BY <2>4, <2>5, <4>1 DEF IsSplit
      <4>2. CASE k \in 1..Len(A.lines)
        <5>1. Append(A.lines, A.open)[k] = A.lines[k] /\ Append(B.lines, B.open)[k] = B.lines[k]
          BY <2>4, <2>5, <4>2 DEF IsSplit
        <5> QED
          BY <2>5, <4>2, <5>1
      <4> QED
        BY <3>2, <4>1, <4>2
    <3> QED
      BY <2>3, <3>1, <3>2, <3>3
  <2>7. CASE e # "NL"
    <3>1. /\ Further(A, e).lines = A.lines /\ Further(A, e).open = Append(A.open, e)
          /\ Further(B, e).lines = B.lines /\ Further(B, e).open = Append(B.open, e)
      BY <2>4, <2>7 DEF Further, IsSplit
    <3>2. Cut(Append(B.open, e)) = Cut(Append(A.open, e))
      BY <2>4, <2>5, CutAppend DEF IsSplit
    <3> QED
      BY <2>3, <2>5, <3>1, <3>2
  <2> QED
    BY <2>6, <2>7
<1>4. <<>> \in S /\ \A s \in Seq(P), e \in P : s \in S => Append(s, e) \in S
  <2> HIDE DEF Holds
  <2> QED
    BY <1>2, <1>3, EmptySeq, AppendProperties
<1>5. Holds(b)
  <2>1. Seq(P) \subseteq S
    <3> HIDE DEF S
    <3> QED
      BY <1>4, SequenceInduction
  <2> HIDE DEF Holds
  <2> QED
    BY <2>1
<1>6. y \o b \in Seq(P) /\ x \o b \in Seq(P)
  BY <1>1
<1>7. Split(y \o b).lines \in Seq(Seq(P)) /\ Split(x \o b).lines \in Seq(Seq(P))
  BY <1>6, SplitType DEF IsSplit
<1>8. /\ DOMAIN Split(y \o b).lines = 1..Len(Split(x \o b).lines)
      /\ DOMAIN Split(x \o b).lines = 1..Len(Split(x \o b).lines)
  BY <1>5, <1>7
<1>9. CutAll(Split(y \o b).lines) = CutAll(Split(x \o b).lines)
  BY <1>5, <1>8 DEF CutAll
<1> QED
  BY <1>5, <1>9 DEF y

\* What is open stays the beginning of the line it becomes.
LEMMA SplitBegins ==
    ASSUME NEW P, NEW x \in Seq(P), Unbroken(x), NEW b \in Seq(P)
    PROVE  LET split == Split(x \o b)
               line == IF split.lines = <<>> THEN split.open ELSE split.lines[1]
           IN  Len(x) <= Len(line) /\ SubSeq(line, 1, Len(x)) = x
<1> DEFINE Begins(line) == Len(x) <= Len(line) /\ \A k \in 1..Len(x) : line[k] = x[k]
           Holds(s) == /\ Split(x \o s).lines = <<>> => Begins(Split(x \o s).open)
                       /\ Split(x \o s).lines # <<>> => Begins(Split(x \o s).lines[1])
           S == {s \in Seq(P) : Holds(s)}
<1>1. Holds(<<>>)
  <2>1. x \o <<>> = x
    OBVIOUS
  <2>2. Split(x) = [lines |-> <<>>, open |-> x]
    BY SplitUnbroken
  <2>3. Split(x).lines = <<>> /\ Split(x).open = x
    BY <2>2
  <2>4. Begins(x)
    OBVIOUS
  <2> QED
    BY <2>1, <2>3, <2>4
<1>2. ASSUME NEW s \in Seq(P), NEW e \in P, Holds(s) PROVE Holds(Append(s, e))
  <2>1. x \o Append(s, e) = Append(x \o s, e) /\ x \o s \in Seq(P)
    OBVIOUS
  <2>2. PICK A : A = Split(x \o s)
    OBVIOUS
  <2>3. Split(x \o Append(s, e)) = Further(A, e)
    BY <2>1, <2>2, SplitAppend
  <2>4. IsSplit(A, P)
    BY <2>1, <2>2, SplitType
  <2>5. /\ A.lines = <<>> => Begins(A.open)
        /\ A.lines # <<>> => Begins(A.lines[1])
    BY <1>2, <2>2
  <2>6. A.lines \in Seq(Seq(P)) /\ A.open \in Seq(P)
    BY <2>4 DEF IsSplit
  <2>7. CASE e = "NL"
    <3>1. Further(A, e).lines = Append(A.lines, A.open)
      BY <2>7 DEF Further
    <3>2. /\ Append(A.lines, A.open) # <<>>
          /\ Append(A.lines, A.open)[1] = IF A.lines = <<>> THEN A.open ELSE A.lines[1]
      <4>1. PICK Lines, l, q : Lines = Seq(P) /\ l = A.lines /\ q = A.open
        OBVIOUS
      <4>2. l \in Seq(Lines) /\ q \in Lines
        BY <2>6, <4>1
      <4>3. Len(l) \in Nat /\ Len(Append(l, q)) = Len(l) + 1 /\ (l = <<>> <=> Len(l) = 0)
        BY ONLY <4>2
      <4>4. Append(l, q)[1] = IF l = <<>> THEN q ELSE l[1]
        BY ONLY <4>2, <4>3
      <4>5. Append(l, q) # <<>>
        BY ONLY <4>2
      <4> QED
        BY <4>1, <4>4, <4>5
    <3> QED
      BY <2>3, <2>5, <3>1, <3>2
  <2>8. CASE e # "NL"
    <3>1. Further(A, e).lines = A.lines /\ Further(A, e).open = Append(A.open, e)
      BY <2>4, <2>8 DEF Further, IsSplit
    <3>2. Begins(A.open) => Begins(Append(A.open, e))
      <4>1. Len(Append(A.open, e)) = Len(A.open) + 1 /\ \A k \in 1..Len(A.open) : Append(A.open, e)[k] = A.open[k]
        BY <2>6
      <4>2. Len(A.open) \in Nat /\ Len(x) \in Nat
        BY <2>6
      <4> QED
        BY <4>1, <4>2
    <3> HIDE DEF Begins
    <3> QED
      BY <2>3, <2>5, <3>1, <3>2
  <2> QED
    BY <2>7, <2>8
<1>3. <<>> \in S /\ \A s \in Seq(P), e \in P : s \in S => Append(s, e) \in S
  <2> HIDE DEF Holds
  <2> QED
    BY <1>1, <1>2, EmptySeq, AppendProperties
<1>4. Holds(b)
  <2>1. Seq(P) \subseteq S
    <3> HIDE DEF S
    <3> QED
      BY <1>3, SequenceInduction
  <2> HIDE DEF Holds
  <2> QED
    BY <2>1
<1>5. ASSUME NEW line \in Seq(P), Begins(line) PROVE SubSeq(line, 1, Len(x)) = x
  <2>1. Len(x) \in Nat /\ \A i \in 1..Len(x) : line[i] \in P
    BY <1>5
  <2>2. /\ SubSeq(line, 1, Len(x)) \in Seq(P) /\ Len(SubSeq(line, 1, Len(x))) = Len(x)
        /\ \A i \in 1..Len(x) : SubSeq(line, 1, Len(x))[i] = line[i]
    BY <2>1
  <2> QED
    BY <1>5, <2>2, SeqEqual
<1>6. x \o b \in Seq(P)
  OBVIOUS
<1>7. Split(x \o b).open \in Seq(P) /\ Split(x \o b).lines \in Seq(Seq(P))
  BY <1>6, SplitType DEF IsSplit
<1>8. Split(x \o b).lines # <<>> => Split(x \o b).lines[1] \in Seq(P)
  BY <1>7
<1> QED
  BY <1>4, <1>5, <1>7, <1>8

-----------------------------------------------------------------------------
(* The lines of a text.                                                    *)

\* They are texts.
LEMMA LinesType == ASSUME NEW P, NEW text \in Seq(P) PROVE LinesOf(text) \in Seq(Seq(P))
<1>1. Split(text).lines \in Seq(Seq(P)) /\ Split(text).open \in Seq(P)
  BY SplitType DEF IsSplit
<1> QED
  BY <1>1 DEF LinesOf

\* The lines of a text that is continued: those before, and the last one further on.
LEMMA LinesConcat ==
    ASSUME NEW P, NEW a \in Seq(P), NEW b \in Seq(P)
    PROVE  LinesOf(a \o b) = Split(a).lines \o LinesOf(Split(a).open \o b)
<1>1. PICK o, A, B : o = Split(a).open /\ A = Split(a \o b) /\ B = Split(o \o b)
  OBVIOUS
<1>2. A.lines = Split(a).lines \o B.lines /\ A.open = B.open
  BY <1>1, SplitConcat
<1>3. o \in Seq(P) /\ Split(a).lines \in Seq(Seq(P))
  BY <1>1, SplitType DEF IsSplit
<1>4. o \o b \in Seq(P)
  BY <1>3
<1>5. B.lines \in Seq(Seq(P)) /\ B.open \in Seq(P)
  BY <1>1, <1>4, SplitType DEF IsSplit
<1>6. Append(Split(a).lines \o B.lines, B.open) = Split(a).lines \o Append(B.lines, B.open)
  <2>1. PICK Lines, l, m, q : Lines = Seq(P) /\ l = Split(a).lines /\ m = B.lines /\ q = B.open
    OBVIOUS
  <2>2. l \in Seq(Lines) /\ m \in Seq(Lines) /\ q \in Lines
    BY <1>3, <1>5, <2>1
  <2>3. Append(l \o m, q) = l \o Append(m, q)
    <3>1. Append(l \o m, q) = (l \o m) \o <<q>> /\ Append(m, q) = m \o <<q>> /\ <<q>> \in Seq(Lines)
      BY ONLY <2>2, AppendIsConcat, ConcatProperties
    <3> QED
      BY ONLY <2>2, <3>1, ConcatAssociative
  <2> QED
    BY <2>1, <2>3
<1> QED
  BY <1>1, <1>2, <1>6 DEF LinesOf

\* A line is added, with its line break or without.
LEMMA LinesAppend ==
    ASSUME NEW P, NEW s \in Seq(P), NEW line \in Seq(P), "NL" \in P,
           Split(s).open = <<>>, Unbroken(line), line # <<>>
    PROVE  /\ LinesOf(s \o Append(line, "NL")) = Append(LinesOf(s), line)
           /\ LinesOf(s \o line) = Append(LinesOf(s), line)
           /\ Split(s \o Append(line, "NL")).open = <<>>
<1>1. Split(s).lines \in Seq(Seq(P)) /\ LinesOf(s) = Split(s).lines
  BY SplitType DEF IsSplit, LinesOf
<1>2. Split(line) = [lines |-> <<>>, open |-> line]
  BY SplitUnbroken
<1>3. Split(Append(line, "NL")) = Further(Split(line), "NL")
  BY SplitAppend
<1>4. Split(Append(line, "NL")).lines = <<line>> /\ Split(Append(line, "NL")).open = <<>>
  BY <1>2, <1>3 DEF Further
<1>5. LinesOf(line) = <<line>> /\ LinesOf(Append(line, "NL")) = <<line>>
  BY <1>2, <1>4 DEF LinesOf
<1>6. Append(line, "NL") \in Seq(P) /\ <<>> \o Append(line, "NL") = Append(line, "NL") /\ <<>> \o line = line
  OBVIOUS
<1>7. Split(s).lines \o <<line>> = Append(Split(s).lines, line)
  <2>1. PICK Lines, l : Lines = Seq(P) /\ l = Split(s).lines
    OBVIOUS
  <2>2. l \in Seq(Lines) /\ line \in Lines
    BY <1>1, <2>1
  <2>3. l \o <<line>> = Append(l, line)
    BY ONLY <2>2, SMTT(30)
  <2> QED
    BY <2>1, <2>3
<1>8. /\ LinesOf(s \o Append(line, "NL")) = Split(s).lines \o <<line>>
      /\ LinesOf(s \o line) = Split(s).lines \o <<line>>
  <2>1. /\ LinesOf(s \o Append(line, "NL")) = Split(s).lines \o LinesOf(<<>> \o Append(line, "NL"))
        /\ LinesOf(s \o line) = Split(s).lines \o LinesOf(<<>> \o line)
    <3>1. ASSUME NEW t \in Seq(P) PROVE LinesOf(s \o t) = Split(s).lines \o LinesOf(<<>> \o t)
      <4>1. LinesOf(s \o t) = Split(s).lines \o LinesOf(Split(s).open \o t)
        BY LinesConcat
      <4> QED
        BY <4>1
    <3> QED
      BY <1>6, <3>1
  <2> QED
    BY <1>5, <1>6, <2>1
<1>9. Split(s \o Append(line, "NL")).open = <<>>
  <2>1. ASSUME NEW t \in Seq(P) PROVE Split(s \o t).open = Split(Split(s).open \o t).open
    BY SplitConcat
  <2> QED
    BY <1>4, <1>6, <2>1
<1> QED
  BY <1>1, <1>7, <1>8, <1>9

-----------------------------------------------------------------------------
(* Sequences of lines that are cut.                                        *)

\* They are as many, and each is cut.
LEMMA CutAllType ==
    ASSUME NEW P, NEW lns \in Seq(Seq(P))
    PROVE  /\ CutAll(lns) \in Seq(Seq(P)) /\ Len(CutAll(lns)) = Len(lns)
           /\ \A k \in 1..Len(lns) : CutAll(lns)[k] = Cut(lns[k])
<1>1. DOMAIN lns = 1..Len(lns) /\ Len(lns) \in Nat /\ \A k \in 1..Len(lns) : lns[k] \in Seq(P)
  OBVIOUS
<1>2. \A k \in 1..Len(lns) : Cut(lns[k]) \in Seq(P)
  BY <1>1, CutType
<1>3. CutAll(lns) = [k \in 1..Len(lns) |-> Cut(lns[k])]
  BY <1>1 DEF CutAll
<1> QED
  BY <1>1, <1>2, <1>3

\* The lines of two sequences are cut one after the other.
LEMMA CutAllConcat ==
    ASSUME NEW P, NEW s \in Seq(Seq(P)), NEW t \in Seq(Seq(P))
    PROVE  CutAll(s) \o CutAll(t) = CutAll(s \o t)
<1>1. PICK Lines, r, u, v, w :
        Lines = Seq(P) /\ r = s \o t /\ u = CutAll(s) /\ v = CutAll(t) /\ w = CutAll(r)
  OBVIOUS
<1>2. s \in Seq(Lines) /\ t \in Seq(Lines)
  BY <1>1
<1>3. /\ r \in Seq(Lines) /\ Len(r) = Len(s) + Len(t) /\ Len(s) \in Nat /\ Len(t) \in Nat
      /\ \A k \in 1..Len(s) : r[k] = s[k]
      /\ \A k \in 1..Len(t) : r[Len(s) + k] = t[k]
  BY <1>1, <1>2, ConcatAt
<1>4. /\ u \in Seq(Lines) /\ Len(u) = Len(s) /\ \A k \in 1..Len(s) : u[k] = Cut(s[k])
      /\ v \in Seq(Lines) /\ Len(v) = Len(t) /\ \A k \in 1..Len(t) : v[k] = Cut(t[k])
      /\ w \in Seq(Lines) /\ Len(w) = Len(r) /\ \A k \in 1..Len(r) : w[k] = Cut(r[k])
  BY <1>1, <1>3, CutAllType
<1>5. \A k \in 1..Len(s) : w[k] = u[k]
  BY <1>3, <1>4
<1>6. \A k \in 1..Len(t) : w[Len(u) + k] = v[k]
  BY <1>3, <1>4
<1>7. u \o v = w
  <2>1. u \in Seq(Lines) /\ v \in Seq(Lines) /\ w \in Seq(Lines) /\ Len(w) = Len(u) + Len(v)
    BY <1>3, <1>4
  <2>2. (\A k \in 1..Len(u) : w[k] = u[k]) /\ (\A k \in 1..Len(v) : w[Len(u) + k] = v[k])
    BY <1>4, <1>5, <1>6
  <2> QED
    BY <2>1, <2>2, ConcatIs
<1> QED
  BY <1>1, <1>7

\* The first of the lines that were read is looked at.
LEMMA CutAllHead ==
    ASSUME NEW P, NEW s \in Seq(Seq(P)), NEW t \in Seq(Seq(P)), t # <<>>
    PROVE  Append(s, Cut(Head(t))) \o CutAll(Tail(t)) = s \o CutAll(t)
<1>1. PICK Lines, h, q, e, u : Lines = Seq(P) /\ h = Head(t) /\ q = Tail(t) /\ e = Cut(h) /\ u = CutAll(q)
  OBVIOUS
<1>2. s \in Seq(Lines) /\ t \in Seq(Lines)
  BY <1>1
<1>3. h \in Lines /\ q \in Seq(Lines) /\ <<h>> \in Seq(Lines) /\ <<h>> \o q = t
  BY <1>1, <1>2
<1>4. e \in Lines /\ u \in Seq(Lines)
  BY <1>1, <1>3, CutType, CutAllType
<1>5. CutAll(<<h>>) = <<e>>
  BY <1>1 DEF CutAll
<1>6. CutAll(t) = <<e>> \o u
  <2>1. <<h>> \in Seq(Seq(P)) /\ q \in Seq(Seq(P))
    BY <1>1, <1>3
  <2>2. CutAll(<<h>>) \o CutAll(q) = CutAll(<<h>> \o q)
    BY <2>1, CutAllConcat
  <2> QED
    BY <1>1, <1>3, <1>5, <2>2
<1>7. Append(s, e) = s \o <<e>> /\ <<e>> \in Seq(Lines)
  BY <1>2, <1>4, AppendIsConcat
<1>8. (s \o <<e>>) \o u = s \o (<<e>> \o u)
  BY <1>2, <1>4, <1>7, ConcatAssociative
<1> QED
  BY <1>1, <1>6, <1>7, <1>8

\* What is open and not empty begins the line after those that have ended.
LEMMA LineBegins ==
    ASSUME NEW P, NEW a \in Seq(P), NEW b \in Seq(P)
    PROVE  LET split == Split(a)
               all == LinesOf(a \o b)
               n == Len(split.lines)
           IN  /\ n <= Len(all) /\ \A k \in 1..n : all[k] = split.lines[k]
               /\ split.open # <<>> =>
                    /\ n < Len(all) /\ Len(split.open) <= Len(all[n + 1])
                    /\ SubSeq(all[n + 1], 1, Len(split.open)) = split.open
<1>1. PICK o, l, all, m, n, Lines :
        /\ o = Split(a).open /\ l = Split(a).lines /\ all = LinesOf(a \o b) /\ m = LinesOf(o \o b)
        /\ n = Len(l) /\ Lines = Seq(P)
  OBVIOUS
<1>2. o \in Seq(P) /\ Unbroken(o) /\ l \in Seq(Lines)
  BY <1>1, SplitType DEF IsSplit
<1>3. o \o b \in Seq(P)
  BY <1>2
<1>4. m \in Seq(Lines)
  BY <1>1, <1>3, LinesType
<1>5. all = l \o m
  BY <1>1, LinesConcat
<1>6. /\ Len(all) = n + Len(m) /\ n \in Nat /\ Len(m) \in Nat
      /\ \A k \in 1..n : all[k] = l[k]
      /\ \A k \in 1..Len(m) : all[n + k] = m[k]
  <2>1. PICK c : c = l \o m
    OBVIOUS
  <2>2. /\ Len(c) = Len(l) + Len(m) /\ Len(l) \in Nat /\ Len(m) \in Nat
        /\ \A k \in 1..Len(l) : c[k] = l[k]
        /\ \A k \in 1..Len(m) : c[Len(l) + k] = m[k]
    BY <1>2, <1>4, <2>1, ConcatAt
  <2> QED
    BY <1>1, <1>5, <2>1, <2>2
<1>7. n <= Len(all) /\ \A k \in 1..n : all[k] = l[k]
  BY <1>6
<1>8. ASSUME o # <<>>
      PROVE  n < Len(all) /\ Len(o) <= Len(all[n + 1]) /\ SubSeq(all[n + 1], 1, Len(o)) = o
  <2>1. PICK sp : sp = Split(o \o b)
    OBVIOUS
  <2>2. sp.lines \in Seq(Lines) /\ sp.open \in Seq(P)
    BY <1>1, <1>3, <2>1, SplitType DEF IsSplit
  <2>3. /\ sp.lines = <<>> => Len(o) <= Len(sp.open) /\ SubSeq(sp.open, 1, Len(o)) = o
        /\ sp.lines # <<>> => Len(o) <= Len(sp.lines[1]) /\ SubSeq(sp.lines[1], 1, Len(o)) = o
    BY <1>2, <2>1, SplitBegins
  <2>4. m = IF sp.open = <<>> THEN sp.lines ELSE Append(sp.lines, sp.open)
    BY <1>1, <2>1 DEF LinesOf
  <2>5. Len(o) > 0
    BY <1>2, <1>8
  <2>6. Len(m) > 0 /\ Len(o) <= Len(m[1]) /\ SubSeq(m[1], 1, Len(o)) = o
    <3>1. CASE sp.lines = <<>>
      <4>1. sp.open # <<>>
        BY <2>2, <2>3, <2>5, <3>1
      <4>2. m = <<sp.open>>
        BY <2>4, <3>1, <4>1
      <4>3. Len(m) = 1 /\ m[1] = sp.open
        BY <4>2
      <4> QED
        BY <2>3, <3>1, <4>3
    <3>2. CASE sp.lines # <<>>
      <4>1. PICK q, r : q = sp.lines /\ r = sp.open
        OBVIOUS
      <4>2. q \in Seq(Lines) /\ q # <<>> /\ r \in Lines
        BY <1>1, <2>2, <3>2, <4>1
      <4>3. Len(q) > 0 /\ Len(Append(q, r)) = Len(q) + 1 /\ Append(q, r)[1] = q[1] /\ Len(q) \in Nat
        BY <4>2
      <4>4. Len(m) > 0 /\ m[1] = q[1]
        BY <2>4, <4>1, <4>3
      <4> QED
        BY <2>3, <3>2, <4>1, <4>4
    <3> QED
      BY <3>1, <3>2
  <2>7. all[n + 1] = m[1] /\ n < Len(all)
    <3>1. 1 \in 1..Len(m)
      BY <1>6, <2>6
    <3> QED
      BY <1>6, <3>1
  <2> QED
    BY <2>6, <2>7
<1> QED
  BY <1>1, <1>7, <1>8

=============================================================================
