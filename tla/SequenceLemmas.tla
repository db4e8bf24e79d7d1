-------------------------- MODULE SequenceLemmas --------------------------
(***************************************************************************)
(* Lemmas about numbers, sequences and recursive functions that the proofs *)
(* about several modules need.                                             *)
(***************************************************************************)
EXTENDS Integers, Sequences, SequencesExt, FiniteSetTheorems, SequenceTheorems, TLAPS

-----------------------------------------------------------------------------
(* Induction.  The intervals that end outside a set are finite sets, whose *)
(* strict inclusion is well founded: a smallest one would have to be 0..n  *)
(* with n - 1 in the set, and n not.                                       *)

\* A set that holds 0 and with each number the next one holds all numbers.
LEMMA Induction ==
    ASSUME NEW S, 0 \in S, \A n \in Nat : n \in S => n + 1 \in S
    PROVE  Nat \subseteq S
<1> DEFINE Missing == {0..n : n \in Nat \ S}
<1> SUFFICES ASSUME ~(Nat \subseteq S) PROVE FALSE
  OBVIOUS
<1>1. Missing \subseteq FiniteSubsetsOf(Nat) /\ Missing # {}
  <2>1. \A n \in Nat : 0..n \in FiniteSubsetsOf(Nat)
    BY FS_Interval DEF FiniteSubsetsOf
  <2>2. \E n : n \in Nat \ S
    OBVIOUS
  <2> QED
    BY <2>1, <2>2
<1>2. PICK least \in Missing : \A other \in Missing : <<other, least>> \notin StrictSubsetOrdering(Nat)
  <2> HIDE DEF Missing
  <2> QED BY <1>1, FS_StrictSubsetOrderingWellFounded, WFMin
<1>3. PICK n \in Nat \ S : least = 0..n
  OBVIOUS
<1>4. n # 0 /\ n - 1 \in Nat
  BY <1>3
<1>5. n - 1 \notin S
  BY <1>3, <1>4
<1>6. 0..(n - 1) \in Missing
  BY <1>4, <1>5
<1>7. 0..(n - 1) \subseteq 0..n /\ n \in 0..n /\ n \notin 0..(n - 1)
  BY <1>3, <1>4
<1>8. <<0..(n - 1), least>> \in StrictSubsetOrdering(Nat)
  BY <1>3, <1>7 DEF StrictSubsetOrdering
<1> QED
  BY <1>2, <1>6, <1>8

\* A set that holds 0, and each number up to n with the one before, holds them all.
LEMMA InductionUpTo ==
    ASSUME NEW S, NEW n \in Nat, 0 \in S, \A k \in 1..n : k - 1 \in S => k \in S
    PROVE  0..n \subseteq S
<1> DEFINE N == {k \in Nat : k <= n => k \in S}
<1>1. 0 \in N
  OBVIOUS
<1>2. ASSUME NEW k \in Nat, k \in N PROVE k + 1 \in N
  <2> SUFFICES ASSUME k + 1 <= n PROVE k + 1 \in S
    OBVIOUS
  <2>1. k + 1 \in 1..n /\ (k + 1) - 1 = k /\ k <= n
    OBVIOUS
  <2>2. k \in S
    BY <1>2, <2>1
  <2> QED
    BY <2>1, <2>2
<1> HIDE DEF N
<1>3. Nat \subseteq N
  BY <1>1, <1>2, Induction
<1> QED
  BY <1>3 DEF N

\* A set that holds the empty sequence and what extends its members holds them all.
LEMMA SequenceInduction ==
    ASSUME NEW P, NEW S, <<>> \in S, \A s \in Seq(P), e \in P : s \in S => Append(s, e) \in S
    PROVE  Seq(P) \subseteq S
<1> DEFINE N == {n \in Nat : \A s \in Seq(P) : Len(s) = n => s \in S}
<1>1. 0 \in N
  BY EmptySeq
<1>2. ASSUME NEW n \in Nat, n \in N PROVE n + 1 \in N
  <2> SUFFICES ASSUME NEW s \in Seq(P), Len(s) = n + 1 PROVE s \in S
    OBVIOUS
  <2>1. s # <<>>
    OBVIOUS
  <2>2. PICK t \in Seq(P), e \in P : s = Append(t, e)
    BY <2>1, SequenceEmptyOrAppend
  <2>3. Len(t) = n
    BY <2>2
  <2> QED
    BY <1>2, <2>2, <2>3
<1>3. \A s \in Seq(P) : Len(s) \in Nat
  OBVIOUS
<1>4. Nat \subseteq N
  <2> HIDE DEF N
  <2> QED
    BY <1>1, <1>2, Induction
<1> QED
  BY <1>3, <1>4

-----------------------------------------------------------------------------
(* Recursive functions of how many elements were looked at; a step of one  *)
(* is given as a function, so that the lemmas hold for any.                *)

\* f begins with base, and each value comes from the one before.
Repeats(f, base, step, n) ==
    f = [k \in 0..n |-> IF k = 0 THEN base ELSE step[k][f[k - 1]]]

\* There is such a function, with values in T.
LEMMA RepeatsExists ==
    ASSUME NEW T, NEW base \in T, NEW n \in Nat, NEW step \in [1..n -> [T -> T]]
    PROVE  \E f \in [0..n -> T] : Repeats(f, base, step, n)
<1> DEFINE S == {m \in Nat : m <= n => \E f \in [0..m -> T] : Repeats(f, base, step, m)}
<1>1. 0 \in S
  <2> DEFINE f == [k \in 0..0 |-> base]
  <2>1. f \in [0..0 -> T] /\ Repeats(f, base, step, 0)
    BY DEF Repeats
  <2> QED
    BY <2>1
<1>2. ASSUME NEW m \in Nat, m \in S PROVE m + 1 \in S
  <2> SUFFICES ASSUME m + 1 <= n PROVE \E f \in [0..(m + 1) -> T] : Repeats(f, base, step, m + 1)
    OBVIOUS
  <2>1. PICK f \in [0..m -> T] : Repeats(f, base, step, m)
    BY <1>2
  <2> DEFINE v == step[m + 1][f[m]]
             g == [k \in 0..(m + 1) |-> IF k = m + 1 THEN v ELSE f[k]]
  <2>2. \A k \in 0..m : f[k] = IF k = 0 THEN base ELSE step[k][f[k - 1]]
    BY <2>1 DEF Repeats
  <2>3. f[m] \in T /\ m + 1 \in 1..n
    OBVIOUS
  <2>4. v \in T
    BY <2>3
  <2>5. g \in [0..(m + 1) -> T] /\ g[m + 1] = v /\ \A k \in 0..m : g[k] = f[k]
    BY <2>4
  <2> HIDE DEF g
  <2>6. ASSUME NEW k \in 0..(m + 1)
        PROVE  g[k] = IF k = 0 THEN base ELSE step[k][g[k - 1]]
    <3>1. CASE k \in 0..m
      <4>1. k = 0 \/ k - 1 \in 0..m
        BY <3>1
      <4> QED
        BY <2>2, <2>5, <3>1, <4>1
    <3>2. CASE k = m + 1
      <4>1. k - 1 = m /\ k # 0
        BY <3>2
      <4> QED
        BY <2>5, <3>2, <4>1
    <3> QED
      BY <3>1, <3>2
  <2>7. Repeats(g, base, step, m + 1)
    <3>1. g = [k \in 0..(m + 1) |-> g[k]]
      BY <2>5
    <3> QED
      BY <2>6, <3>1 DEF Repeats
  <2> QED
    BY <2>5, <2>7
<1> HIDE DEF S
<1>3. Nat \subseteq S
  BY <1>1, <1>2, Induction
<1> QED
  BY <1>3 DEF S

-----------------------------------------------------------------------------
(* Parts of sequences. *)

\* A concatenation, by its elements.
LEMMA ConcatAt ==
    ASSUME NEW S, NEW s, NEW t, s \in Seq(S), t \in Seq(S)
    PROVE  /\ s \o t \in Seq(S) /\ Len(s \o t) = Len(s) + Len(t) /\ Len(s) \in Nat /\ Len(t) \in Nat
           /\ \A k \in 1..Len(s) : (s \o t)[k] = s[k]
           /\ \A k \in 1..Len(t) : (s \o t)[Len(s) + k] = t[k]
OBVIOUS

\* A sequence with these elements is the concatenation.
LEMMA ConcatIs ==
    ASSUME NEW S, NEW r, NEW s, NEW t, s \in Seq(S), t \in Seq(S), r \in Seq(S),
           Len(r) = Len(s) + Len(t),
           \A k \in 1..Len(s) : r[k] = s[k], \A k \in 1..Len(t) : r[Len(s) + k] = t[k]
    PROVE  s \o t = r
<1>1. /\ s \o t \in Seq(S) /\ Len(s \o t) = Len(s) + Len(t) /\ Len(s) \in Nat /\ Len(t) \in Nat
      /\ \A k \in 1..Len(s) : (s \o t)[k] = s[k]
      /\ \A k \in 1..Len(t) : (s \o t)[Len(s) + k] = t[k]
  BY ConcatAt
<1>2. ASSUME NEW k \in 1..Len(r) PROVE (s \o t)[k] = r[k]
  <2>1. CASE k \in 1..Len(s)
    BY <1>1, <2>1
  <2>2. CASE k > Len(s)
    <3>1. PICK j \in 1..Len(t) : k = Len(s) + j
      <4>1. k - Len(s) \in 1..Len(t) /\ k = Len(s) + (k - Len(s))
        BY <1>1, <2>2
      <4> QED
        BY <4>1
    <3> QED
      BY <1>1, <3>1
  <2> QED
    BY <1>1, <2>1, <2>2
<1>3. Len(s \o t) = Len(r)
  BY <1>1
<1> QED
  BY <1>1, <1>2, <1>3, SeqEqual

\* Two elements, one after the other.
LEMMA ConcatPair == ASSUME NEW a, NEW b PROVE <<a>> \o <<b>> = <<a, b>>
<1> DEFINE S == {a, b}
           r == <<a, b>>
           s == <<a>>
           t == <<b>>
<1>1. r \in Seq(S) /\ Len(r) = 2 /\ r[1] = a /\ r[2] = b
  OBVIOUS
<1>2. s \in Seq(S) /\ Len(s) = 1 /\ s[1] = a /\ t \in Seq(S) /\ Len(t) = 1 /\ t[1] = b
  OBVIOUS
<1> HIDE DEF S, r, s, t
<1>3. Len(r) = Len(s) + Len(t)
      /\ (\A k \in 1..Len(s) : r[k] = s[k]) /\ (\A k \in 1..Len(t) : r[Len(s) + k] = t[k])
  BY <1>1, <1>2
<1>4. s \o t = r
  BY <1>1, <1>2, <1>3, ConcatIs
<1> QED
  BY <1>4 DEF r, s, t

\* What comes after the first n elements, and after one more.
LEMMA RestMoves ==
    ASSUME NEW S, NEW all \in Seq(S), NEW n \in Nat, n < Len(all)
    PROVE  LET rest == SubSeq(all, n + 1, Len(all))
           IN  rest # <<>> /\ Head(rest) = all[n + 1] /\ SubSeq(all, n + 2, Len(all)) = Tail(rest)
<1> DEFINE rest == SubSeq(all, n + 1, Len(all))
           next == SubSeq(all, n + 2, Len(all))
<1>1. Len(all) \in Nat /\ \A k \in 1..Len(all) : all[k] \in S
  OBVIOUS
<1>2. /\ rest \in Seq(S) /\ Len(rest) = Len(all) - n
      /\ \A k \in 1..(Len(all) - n) : rest[k] = all[n + k]
  BY <1>1
<1>3. /\ next \in Seq(S) /\ Len(next) = Len(all) - n - 1
      /\ \A k \in 1..(Len(all) - n - 1) : next[k] = all[n + 1 + k]
  BY <1>1
<1> HIDE DEF rest, next
<1>4. rest # <<>> /\ Head(rest) = all[n + 1]
  BY <1>1, <1>2
<1>5. Tail(rest) \in Seq(S) /\ Len(Tail(rest)) = Len(next)
  BY <1>1, <1>2, <1>3, <1>4
<1>6. \A k \in 1..Len(next) : Tail(rest)[k] = next[k]
  BY <1>1, <1>2, <1>3, <1>4
<1>7. next = Tail(rest)
  BY <1>3, <1>5, <1>6, SeqEqual
<1> QED
  BY <1>4, <1>7 DEF rest, next

\* One more element at the end.
LEMMA RestGrows ==
    ASSUME NEW S, NEW all \in Seq(S), NEW e \in S, NEW n \in 0..Len(all)
    PROVE  LET more == Append(all, e)
               rest == SubSeq(more, n + 1, Len(more))
           IN  rest # <<>> /\ Front(rest) = SubSeq(all, n + 1, Len(all))
<1> DEFINE more == Append(all, e)
           rest == SubSeq(more, n + 1, Len(more))
           old == SubSeq(all, n + 1, Len(all))
<1>1. Len(all) \in Nat /\ \A k \in 1..Len(all) : all[k] \in S
  OBVIOUS
<1>2. more \in Seq(S) /\ Len(more) = Len(all) + 1 /\ \A k \in 1..Len(all) : more[k] = all[k]
  OBVIOUS
<1>3. /\ old \in Seq(S) /\ Len(old) = Len(all) - n
      /\ \A k \in 1..(Len(all) - n) : old[k] = all[n + k]
  BY <1>1
<1> HIDE DEF more
<1>4. /\ rest \in Seq(S) /\ Len(rest) = Len(all) + 1 - n
      /\ \A k \in 1..(Len(all) + 1 - n) : rest[k] = more[n + k]
  BY <1>1, <1>2
<1> HIDE DEF rest, old
<1>5. Front(rest) = SubSeq(rest, 1, Len(rest) - 1)
  BY DEF Front
<1>6. /\ Front(rest) \in Seq(S) /\ Len(Front(rest)) = Len(all) - n
      /\ \A k \in 1..(Len(all) - n) : Front(rest)[k] = rest[k]
  BY <1>1, <1>4, <1>5
<1>7. \A k \in 1..(Len(all) - n) : Front(rest)[k] = old[k]
  BY <1>1, <1>2, <1>3, <1>4, <1>6
<1>8. Front(rest) = old
  BY <1>3, <1>6, <1>7, SeqEqual
<1>9. rest # <<>>
  BY <1>1, <1>4
<1> QED
  BY <1>8, <1>9 DEF more, rest, old
=============================================================================
