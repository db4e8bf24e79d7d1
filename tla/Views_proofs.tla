--------------------------- MODULE Views_proofs ----------------------------
(***************************************************************************)
(* Theorems about the commands that read all the records of a cluster, for *)
(* any queue, any records, any names, and however often a rename is run.   *)
(***************************************************************************)
EXTENDS Views, SequenceLemmas

-----------------------------------------------------------------------------
(* The keys of a job, and which of its records is the closest. *)

\* The keys of a job are job IDs; it has its own, or its array's, or both.
LEMMA KeysAre ==
    ASSUME NEW id \in Ids
    PROVE  /\ Keys(id) = IF ~IsJobId(id) THEN << <<id[1]>> >>
                         ELSE IF Len(id) > 1 THEN <<id, <<id[1]>> >> ELSE <<id>>
           /\ \A key \in Range(Keys(id)) : key \in Ids /\ IsJobId(key)
           /\ Range(Keys(id)) = (IF IsJobId(id) THEN {id} ELSE {})
                                \cup (IF Len(id) > 1 THEN {<<id[1]>>} ELSE {})
<1> DEFINE array == <<id[1]>>
<1>1. /\ id \in Seq(STRING) /\ Len(id) \in Nat /\ Len(id) > 0
      /\ id[1] \in STRING /\ id[1] # "rest"
  BY DEF Ids
<1>2. array \in Ids /\ IsJobId(array)
  BY <1>1 DEF Ids, IsJobId
<1>3. ~IsJobId(id) => Len(id) > 1
  BY <1>1 DEF IsJobId
<1> HIDE DEF array
<1>4. Keys(id) = (IF IsJobId(id) THEN <<id>> ELSE <<>>) \o (IF Len(id) > 1 THEN <<array>> ELSE <<>>)
  BY DEF Keys, array
<1>5. CASE ~IsJobId(id)
  <2>1. Keys(id) = <<array>>
    BY <1>3, <1>4, <1>5
  <2>2. Range(Keys(id)) = {array}
    BY <2>1 DEF Range
  <2> QED
    BY <1>2, <1>3, <1>5, <2>1, <2>2 DEF array
<1>6. CASE IsJobId(id) /\ Len(id) > 1
  <2>1. Keys(id) = <<id>> \o <<array>>
    BY <1>4, <1>6
  <2>2. <<id>> \o <<array>> = <<id, array>>
    BY ConcatPair
  <2>3. Keys(id) = <<id, array>>
    BY <2>1, <2>2
  <2>4. Range(Keys(id)) = {id, array}
    BY <2>3 DEF Range
  <2> QED
    BY <1>2, <1>6, <2>3, <2>4 DEF array
<1>7. CASE IsJobId(id) /\ ~(Len(id) > 1)
  <2>1. Keys(id) = <<id>>
    BY <1>4, <1>7
  <2>2. Range(Keys(id)) = {id}
    BY <2>1 DEF Range
  <2> QED
    BY <1>2, <1>7, <2>1, <2>2 DEF array
<1> QED
  BY <1>5, <1>6, <1>7

\* The closest record is the job's own, or else its array's.
LEMMA ClosestIs ==
    ASSUME NEW id \in Ids, NEW recs
    PROVE  Closest(id, recs) = IF IsJobId(id) /\ id \in recs THEN id
                               ELSE IF Len(id) > 1 /\ <<id[1]>> \in recs THEN <<id[1]>> ELSE None
<1> DEFINE array == <<id[1]>>
           found == {k \in DOMAIN Keys(id) : Keys(id)[k] \in recs}
<1>1. Closest(id, recs) = IF found = {} THEN None ELSE Keys(id)[Min(found)]
  BY DEF Closest
<1>2. Min(found) = CHOOSE k \in found : \A j \in found : k <= j
  BY DEF Min
<1>3. Len(id) \in Nat /\ (~IsJobId(id) => Len(id) > 1)
  BY DEF Ids, IsJobId
<1>4. Keys(id) = IF ~IsJobId(id) THEN <<array>>
                 ELSE IF Len(id) > 1 THEN <<id, array>> ELSE <<id>>
  BY KeysAre
<1>5. CASE ~IsJobId(id) \/ ~(Len(id) > 1)
  <2> DEFINE key == IF IsJobId(id) THEN id ELSE array
  <2>1. Keys(id) = <<key>>
    BY <1>4, <1>5
  <2> HIDE DEF key
  <2>2. found = IF key \in recs THEN {1} ELSE {}
    BY <2>1
  <2> HIDE DEF found
  <2>3. found # {} => Min(found) = 1
    BY <1>2, <2>2
  <2> QED
    BY <1>1, <1>3, <1>5, <2>1, <2>2, <2>3 DEF key
<1>6. CASE IsJobId(id) /\ Len(id) > 1
  <2>1. Keys(id) = <<id, array>>
    BY <1>4, <1>6
  <2>2. found = (IF id \in recs THEN {1} ELSE {}) \cup (IF array \in recs THEN {2} ELSE {})
    <3> HIDE DEF array
    <3>1. DOMAIN Keys(id) = {1, 2} /\ Keys(id)[1] = id /\ Keys(id)[2] = array
      BY <2>1
    <3> QED
      BY <3>1
  <2> HIDE DEF found
  <2>3. id \in recs => Min(found) = 1
    BY <1>2, <2>2
  <2>4. id \notin recs /\ array \in recs => Min(found) = 2
    BY <1>2, <2>2
  <2> HIDE DEF array
  <2>5. Keys(id)[1] = id /\ Keys(id)[2] = array
    BY <2>1
  <2> QED
    BY <1>1, <1>6, <2>2, <2>3, <2>4, <2>5 DEF array
<1> QED
  BY <1>5, <1>6

-----------------------------------------------------------------------------
(* The names of projects. *)

\* A name without its empty levels is a name.
LEMMA ProjectNameType == ASSUME NEW raw \in Seq(STRING) PROVE ProjectName(raw) \in Seq(STRING)
<1> DEFINE n == Len(raw)
           Kept(f) == f = [k \in 0..n |->
               IF k = 0 THEN <<>>
               ELSE IF raw[k] = "" THEN f[k - 1] ELSE Append(f[k - 1], raw[k])]
           step == [k \in 1..n |-> [s \in Seq(STRING) |->
               IF raw[k] = "" THEN s ELSE Append(s, raw[k])]]
<1>1. n \in Nat /\ \A k \in 1..n : raw[k] \in STRING
  OBVIOUS
<1>2. <<>> \in Seq(STRING) /\ \A s \in Seq(STRING), e \in STRING : Append(s, e) \in Seq(STRING)
  BY EmptySeq, AppendProperties
<1>3. step \in [1..n -> [Seq(STRING) -> Seq(STRING)]]
  BY <1>1, <1>2
<1>4. \A k \in 1..n, s \in Seq(STRING) : step[k][s] = IF raw[k] = "" THEN s ELSE Append(s, raw[k])
  OBVIOUS
<1> HIDE DEF n, step
<1>5. PICK f \in [0..n -> Seq(STRING)] : Repeats(f, <<>>, step, n)
  BY <1>1, <1>2, <1>3, RepeatsExists
<1>6. Kept(f)
  <2>1. \A k \in 0..n : k = 0 \/ (k \in 1..n /\ f[k - 1] \in Seq(STRING))
    BY <1>1, <1>5
  <2> QED
    BY <1>4, <1>5, <2>1 DEF Repeats
<1> DEFINE g == CHOOSE h : Kept(h)
<1>7. Kept(g)
  BY <1>6
<1>8. ProjectName(raw) = g[n]
  BY DEF ProjectName, n
<1> HIDE DEF g
<1> DEFINE S == {k \in 0..n : g[k] \in Seq(STRING)}
<1>9. 0 \in S /\ \A k \in 1..n : k - 1 \in S => k \in S
  <2>1. 0 \in S
    <3>1. \A k \in 0..n : g[k] =
              IF k = 0 THEN <<>>
              ELSE IF raw[k] = "" THEN g[k - 1] ELSE Append(g[k - 1], raw[k])
      BY <1>7
    <3>2. 0 \in 0..n
      BY <1>1
    <3> QED
      BY <1>2, <3>1, <3>2
  <2>2. ASSUME NEW k \in 1..n, k - 1 \in S PROVE k \in S
    <3>1. k \in 0..n /\ k # 0 /\ raw[k] \in STRING /\ g[k - 1] \in Seq(STRING)
      BY <1>1, <2>2
    <3>2. g[k] = IF raw[k] = "" THEN g[k - 1] ELSE Append(g[k - 1], raw[k])
      BY <1>7, <3>1
    <3> QED
      BY <1>2, <3>1, <3>2
  <2> QED
    BY <2>1, <2>2
<1> HIDE DEF S
<1>10. 0..n \subseteq S
  BY <1>1, <1>9, InductionUpTo
<1> QED
  BY <1>1, <1>8, <1>10 DEF S

\* A prefix, by its elements.
LEMMA PrefixIs ==
    ASSUME NEW S, NEW s \in Seq(S), NEW t \in Seq(S)
    PROVE  IsPrefix(s, t) <=> Len(s) <= Len(t) /\ \A k \in 1..Len(s) : s[k] = t[k]
<1>1. Len(s) \in Nat /\ Len(t) \in Nat /\ SubSeq(s, 1, Len(s)) = s
  BY SubSeqFull
<1>2. ASSUME Len(s) <= Len(t)
      PROVE  SubSeq(s, 1, Len(s)) = SubSeq(t, 1, Len(s)) <=> \A k \in 1..Len(s) : s[k] = t[k]
  <2> DEFINE u == SubSeq(t, 1, Len(s))
  <2>1. u \in Seq(S) /\ Len(u) = Len(s) /\ \A k \in 1..Len(s) : u[k] = t[k]
    BY <1>1, <1>2
  <2> HIDE DEF u
  <2>2. s = u <=> \A k \in 1..Len(s) : s[k] = u[k]
    BY <2>1, SeqEqual
  <2> QED
    BY <1>1, <2>1, <2>2 DEF u
<1> QED
  BY <1>1, <1>2 DEF IsPrefix

\* A project is renamed if it lies in the old one, but not in a new one within that.
Moves(p, from, to) == IsPrefix(from, p) /\ ~(IsStrictPrefix(from, to) /\ IsPrefix(to, p))

\* Then it lies in the new one as it lay in the old one.
LEMMA RenamedIs ==
    ASSUME NEW p \in Seq(STRING), NEW from \in Seq(STRING), NEW to \in Seq(STRING), to # <<>>
    PROVE  LET q == RenamedProject(p, from, to)
           IN  /\ q \in Seq(STRING)
               /\ IF Moves(p, from, to)
                  THEN /\ q # <<>> /\ IsPrefix(to, q)
                       /\ q = to \o SubSeq(p, Len(from) + 1, Len(p))
                       /\ Len(q) = Len(to) + Len(p) - Len(from)
                       /\ \A k \in 1..Len(to) : q[k] = to[k]
                       /\ \A k \in 1..(Len(p) - Len(from)) : q[Len(to) + k] = p[Len(from) + k]
                  ELSE q = <<>>
<1> DEFINE rest == SubSeq(p, Len(from) + 1, Len(p))
           q == to \o rest
<1>1. <<>> \in Seq(STRING) /\ Len(to) \in Nat \ {0} /\ Len(p) \in Nat /\ Len(from) \in Nat
  BY EmptySeq
<1>2. CASE Moves(p, from, to)
  <2>1. RenamedProject(p, from, to) = q
    BY <1>2 DEF RenamedProject, Moves
  <2>2. Len(from) <= Len(p)
    BY <1>2, PrefixIs DEF Moves
  <2>3. /\ rest \in Seq(STRING) /\ Len(rest) = Len(p) - Len(from)
        /\ \A k \in 1..(Len(p) - Len(from)) : rest[k] = p[Len(from) + k]
    BY <1>1, <2>2
  <2> HIDE DEF rest
  <2>4. /\ q \in Seq(STRING) /\ Len(q) = Len(to) + Len(rest)
        /\ \A k \in 1..Len(to) : q[k] = to[k]
        /\ \A k \in 1..Len(rest) : q[Len(to) + k] = rest[k]
    <3>1. to \o rest \in Seq(STRING) /\ Len(to \o rest) = Len(to) + Len(rest)
      BY <2>3, ConcatProperties
    <3> QED
      BY <2>3, <3>1, ConcatAt
  <2> HIDE DEF q
  <2>5. q # <<>> /\ Len(to) <= Len(q)
    BY <1>1, <2>2, <2>3, <2>4
  <2>6. IsPrefix(to, q)
    BY <2>4, <2>5, PrefixIs
  <2>7. Len(q) = Len(to) + Len(p) - Len(from)
    BY <1>1, <2>2, <2>3, <2>4
  <2>8. \A k \in 1..(Len(p) - Len(from)) : q[Len(to) + k] = p[Len(from) + k]
    BY <2>3, <2>4
  <2> QED
    BY <1>2, <2>1, <2>4, <2>5, <2>6, <2>7, <2>8 DEF q, rest
<1>3. CASE ~Moves(p, from, to)
  BY <1>1, <1>3 DEF RenamedProject, Moves
<1> QED
  BY <1>2, <1>3

\* A project that was renamed is not renamed again, unless out of itself.
LEMMA RenamedOnce ==
    ASSUME NEW p \in Seq(STRING), NEW from \in Seq(STRING), NEW to \in Seq(STRING), to # <<>>,
           Moves(p, from, to), ~IsStrictPrefix(to, from)
    PROVE  LET q == RenamedProject(p, from, to) IN RenamedProject(q, from, to) \in {<<>>, q}
<1>1. PICK q \in Seq(STRING) :
        /\ q = RenamedProject(p, from, to) /\ q # <<>> /\ IsPrefix(to, q)
        /\ \A k \in 1..Len(to) : q[k] = to[k]
  BY RenamedIs
<1>2. SUFFICES ASSUME Moves(q, from, to) PROVE RenamedProject(q, from, to) = q
  BY <1>1, RenamedIs
<1>3. Len(from) \in Nat /\ Len(to) \in Nat /\ Len(q) \in Nat
  OBVIOUS
<1>4. /\ Len(from) <= Len(q) /\ \A k \in 1..Len(from) : from[k] = q[k]
      /\ Len(to) <= Len(q)
  BY <1>1, <1>2, PrefixIs DEF Moves
<1>5. from = to
  <2>1. CASE Len(from) <= Len(to)
    <3>1. IsPrefix(from, to)
      BY <1>1, <1>3, <1>4, <2>1, PrefixIs
    <3> QED
      BY <1>1, <1>2, <3>1 DEF Moves, IsStrictPrefix
  <2>2. CASE Len(to) < Len(from)
    <3>1. IsPrefix(to, from)
      BY <1>1, <1>3, <1>4, <2>2, PrefixIs
    <3> QED
      BY <3>1 DEF IsStrictPrefix
  <2> QED
    BY <1>3, <2>1, <2>2
<1>6. PICK r \in Seq(STRING) :
        /\ r = RenamedProject(q, from, to) /\ Len(r) = Len(q)
        /\ \A k \in 1..Len(to) : r[k] = to[k]
        /\ \A k \in 1..(Len(q) - Len(to)) : r[Len(to) + k] = q[Len(to) + k]
  <2>1. Len(to) + Len(q) - Len(from) = Len(q)
    BY <1>3, <1>5
  <2> DEFINE r == RenamedProject(q, from, to)
  <2>2. /\ r \in Seq(STRING) /\ Len(r) = Len(to) + Len(q) - Len(from)
        /\ \A k \in 1..Len(to) : r[k] = to[k]
        /\ \A k \in 1..(Len(q) - Len(from)) : r[Len(to) + k] = q[Len(from) + k]
    BY <1>2, RenamedIs
  <2> HIDE DEF r
  <2>3. Len(from) = Len(to)
    BY <1>5
  <2>4. r \in Seq(STRING) /\ Len(r) = Len(q) /\ (\A k \in 1..Len(to) : r[k] = to[k])
        /\ \A k \in 1..(Len(q) - Len(to)) : r[Len(to) + k] = q[Len(to) + k]
    BY <2>1, <2>2, <2>3
  <2> QED
    BY <2>4 DEF r
<1>7. ASSUME NEW k \in 1..Len(q) PROVE r[k] = q[k]
  <2>1. CASE k <= Len(to)
    BY <1>1, <1>3, <1>6, <2>1
  <2>2. CASE k > Len(to)
    <3>1. k - Len(to) \in 1..(Len(q) - Len(to)) /\ Len(to) + (k - Len(to)) = k
      BY <1>3, <2>2
    <3> QED
      BY <1>6, <3>1
  <2> QED
    BY <1>3, <2>1, <2>2
<1>8. r = q
  BY <1>6, <1>7, SeqEqual
<1> QED
  BY <1>6, <1>8

-----------------------------------------------------------------------------
(* The calls that store the records. *)

\* f is what the first records of a call take.
Sums(f, batch) ==
    f = [k \in 0..Len(batch) |-> IF k = 0 THEN 0 ELSE f[k - 1] + SizeOf[batch[k]]]

\* Size is what such a function comes to.
LEMMA SizeIs ==
    ASSUME NEW batch \in Seq(DOMAIN SizeOf)
    PROVE  \E f : Sums(f, batch) /\ Size(batch) = f[Len(batch)]
<1> DEFINE n == Len(batch)
           step == [k \in 1..n |-> [sum \in Nat |-> sum + SizeOf[batch[k]]]]
           g == CHOOSE f : Sums(f, batch)
<1>1. n \in Nat /\ \A k \in 1..n : SizeOf[batch[k]] \in Nat
  BY RenameAssumption
<1>2. step \in [1..n -> [Nat -> Nat]]
  BY <1>1
<1>3. \A k \in 1..n, sum \in Nat : step[k][sum] = sum + SizeOf[batch[k]]
  OBVIOUS
<1> HIDE DEF step
<1>4. PICK f \in [0..n -> Nat] : Repeats(f, 0, step, n)
  BY <1>1, <1>2, RepeatsExists
<1>5. Sums(f, batch)
  <2>1. \A k \in 0..n : k = 0 \/ (k \in 1..n /\ f[k - 1] \in Nat)
    BY <1>1, <1>4
  <2> QED
    BY <1>3, <1>4, <2>1 DEF Repeats, Sums
<1>6. Sums(g, batch)
  BY <1>5
<1>7. Size(batch) = g[n]
  BY DEF Size, Sums
<1> QED
  BY <1>6, <1>7

\* What a call takes is a number, and one more record adds what it takes.
LEMMA SizeAppend ==
    ASSUME NEW batch \in Seq(DOMAIN SizeOf), NEW id \in DOMAIN SizeOf
    PROVE  Size(batch) \in Nat /\ Size(Append(batch, id)) = Size(batch) + SizeOf[id]
<1> DEFINE more == Append(batch, id)
           n == Len(batch)
<1>1. /\ more \in Seq(DOMAIN SizeOf) /\ Len(more) = n + 1 /\ n \in Nat
      /\ more[n + 1] = id /\ \A k \in 1..n : more[k] = batch[k]
  BY AppendProperties
<1>2. \A k \in 1..n : SizeOf[batch[k]] \in Nat
  BY RenameAssumption
<1> HIDE DEF more
<1>3. PICK f : Sums(f, batch) /\ Size(batch) = f[n]
  BY SizeIs
<1>4. PICK g : Sums(g, more) /\ Size(more) = g[n + 1]
  BY <1>1, SizeIs
<1>5. f[0] = 0 /\ g[0] = 0
  BY <1>1, <1>3, <1>4 DEF Sums
<1>6. \A k \in 1..n : /\ f[k] = f[k - 1] + SizeOf[batch[k]]
                      /\ g[k] = g[k - 1] + SizeOf[batch[k]]
  <2> SUFFICES ASSUME NEW k \in 1..n
               PROVE  f[k] = f[k - 1] + SizeOf[batch[k]] /\ g[k] = g[k - 1] + SizeOf[batch[k]]
    OBVIOUS
  <2>1. k # 0 /\ k \in 0..n /\ k \in 0..(n + 1)
    BY <1>1
  <2> QED
    BY <1>1, <1>3, <1>4, <2>1 DEF Sums
<1>7. g[n + 1] = g[n] + SizeOf[id]
  <2>1. n + 1 # 0 /\ n + 1 \in 0..(n + 1) /\ (n + 1) - 1 = n
    BY <1>1
  <2> QED
    BY <1>1, <1>4, <2>1 DEF Sums
<1> DEFINE S == {k \in 0..n : f[k] \in Nat /\ f[k] = g[k]}
<1>8. 0 \in S
  BY <1>1, <1>5
<1>9. \A k \in 1..n : k - 1 \in S => k \in S
  <2> SUFFICES ASSUME NEW k \in 1..n, k - 1 \in S PROVE k \in S
    OBVIOUS
  <2> QED
    BY <1>1, <1>2, <1>6
<1> HIDE DEF S
<1>10. 0..n \subseteq S
  BY <1>1, <1>8, <1>9, InductionUpTo
<1>11. n \in 0..n
  BY <1>1
<1> QED
  BY <1>3, <1>4, <1>7, <1>10, <1>11 DEF S, more

\* The jobs whose records the calls store.
Sent(calling) == UNION {Range(calling[k]) : k \in DOMAIN calling}

\* No call is empty, none is too long, and no record is sent twice.
Sound(calling) ==
    /\ calling \in Seq(Seq(DOMAIN SizeOf))
    /\ \A k \in DOMAIN calling : calling[k] # <<>> /\ (Len(calling[k]) = 1 \/ Size(calling[k]) <= BatchMax)
    /\ \A j, k \in DOMAIN calling : \A m \in DOMAIN calling[j], n \in DOMAIN calling[k] :
           calling[j][m] = calling[k][n] => j = k /\ m = n

\* One more record is in the last call, or in a call of its own.
LEMMA AddedKeeps ==
    ASSUME NEW made, Sound(made), NEW id \in DOMAIN SizeOf, id \notin Sent(made)
    PROVE  Sound(Added(made, id)) /\ Sent(Added(made, id)) = Sent(made) \cup {id}
<1> DEFINE T == DOMAIN SizeOf
           B == Seq(T)
           n == Len(made)
<1>1. /\ made \in Seq(B) /\ n \in Nat /\ DOMAIN made = 1..n
      /\ \A k \in 1..n : made[k] \in B /\ Len(made[k]) \in Nat /\ DOMAIN made[k] = 1..Len(made[k])
  BY DEF Sound
<1>2. ASSUME NEW k \in 1..n, NEW m \in DOMAIN made[k] PROVE made[k][m] # id
  <2>1. made[k][m] \in Range(made[k])
    BY DEF Range
  <2>2. made[k][m] \in Sent(made)
    BY <1>1, <2>1 DEF Sent
  <2> QED
    BY <2>2
<1>6. \A j, k \in 1..n : \A m \in DOMAIN made[j], i \in DOMAIN made[k] :
          made[j][m] = made[k][i] => j = k /\ m = i
  BY <1>1 DEF Sound
<1>3. <<id>> \in B /\ Len(<<id>>) = 1 /\ DOMAIN <<id>> = {1} /\ <<id>>[1] = id /\ <<id>> # <<>>
      /\ Range(<<id>>) = {id}
  BY DEF Range
<1>4. CASE made = <<>> \/ Size(Last(made)) + SizeOf[id] > BatchMax
  <2> DEFINE more == Append(made, <<id>>)
  <2>1. Added(made, id) = more
    BY <1>4 DEF Added
  <2>2. /\ more \in Seq(B) /\ DOMAIN more = 1..(n + 1)
        /\ more[n + 1] = <<id>> /\ \A k \in 1..n : more[k] = made[k]
    BY <1>1, <1>3, AppendProperties, LenProperties
  <2> HIDE DEF more
  <2>3. ASSUME NEW k \in 1..(n + 1)
        PROVE  more[k] # <<>> /\ (Len(more[k]) = 1 \/ Size(more[k]) <= BatchMax)
    <3>1. CASE k = n + 1
      BY <1>3, <2>2, <3>1
    <3>2. CASE k # n + 1
      <4>1. k \in 1..n
        BY <1>1, <3>2
      <4> QED
        BY <1>1, <2>2, <4>1 DEF Sound
    <3> QED
      BY <3>1, <3>2
  <2>4. ASSUME NEW j \in 1..(n + 1), NEW k \in 1..(n + 1),
               NEW m \in DOMAIN more[j], NEW i \in DOMAIN more[k], more[j][m] = more[k][i]
        PROVE  j = k /\ m = i
    <3>1. CASE j \in 1..n /\ k \in 1..n
      <4>1. more[j] = made[j] /\ more[k] = made[k]
        BY <2>2, <3>1
      <4> QED
        BY <1>6, <2>4, <3>1, <4>1
    <3>2. CASE j \in 1..n /\ k = n + 1
      BY <1>2, <1>3, <2>2, <2>4, <3>2
    <3>3. CASE j = n + 1 /\ k \in 1..n
      <4>1. more[j][m] = id /\ more[k] = made[k]
        BY <1>3, <2>2, <3>3
      <4> QED
        BY <1>2, <2>4, <3>3, <4>1
    <3>4. CASE j = n + 1 /\ k = n + 1
      BY <1>3, <2>2, <2>4, <3>4
    <3> QED
      BY <1>1, <3>1, <3>2, <3>3, <3>4
  <2>5. Sound(more)
    BY <2>2, <2>3, <2>4 DEF Sound
  <2>6. Sent(more) = Sent(made) \cup {id}
    <3>1. 1..(n + 1) = 1..n \cup {n + 1}
      BY <1>1
    <3> QED
      BY <1>1, <1>3, <2>2, <3>1 DEF Sent
  <2> QED
    BY <2>1, <2>5, <2>6
<1>5. CASE ~(made = <<>> \/ Size(Last(made)) + SizeOf[id] > BatchMax)
  <2> DEFINE last == made[n]
             grown == Append(last, id)
             more == [made EXCEPT ![n] = grown]
  <2>1. Added(made, id) = more
    BY <1>5 DEF Added
  <2>2. n \in 1..n /\ last \in B /\ Len(last) \in Nat
    BY <1>1, <1>5
  <2>3. /\ grown \in B /\ Len(grown) = Len(last) + 1 /\ grown # <<>> /\ grown[Len(last) + 1] = id
        /\ \A m \in 1..Len(last) : grown[m] = last[m]
        /\ DOMAIN grown = 1..(Len(last) + 1)
    BY <2>2, AppendProperties, LenProperties
  <2>4. /\ more \in Seq(B) /\ DOMAIN more = 1..n
        /\ \A k \in 1..n : more[k] = IF k = n THEN grown ELSE made[k]
    <3> HIDE DEF grown
    <3> QED
      BY <1>1, <2>2, <2>3, ExceptSeq, LenProperties
  <2>5. Size(grown) <= BatchMax
    <3>1. Size(last) \in Nat /\ Size(grown) = Size(last) + SizeOf[id]
      BY <2>2, SizeAppend
    <3>2. SizeOf[id] \in Nat /\ BatchMax \in Nat
      BY RenameAssumption
    <3>3. ~(Size(last) + SizeOf[id] > BatchMax)
      BY <1>5 DEF Last
    <3> QED
      BY <3>1, <3>2, <3>3
  <2> HIDE DEF grown, more, last
  <2>6. ASSUME NEW k \in 1..n
        PROVE  more[k] # <<>> /\ (Len(more[k]) = 1 \/ Size(more[k]) <= BatchMax)
    BY <1>1, <2>3, <2>4, <2>5 DEF Sound
  <2>7. \A k \in 1..n : \A m \in DOMAIN more[k] :
            \/ k = n /\ m = Len(last) + 1 /\ more[k][m] = id
            \/ m \in DOMAIN made[k] /\ more[k][m] = made[k][m]
    <3> SUFFICES ASSUME NEW k \in 1..n, NEW m \in DOMAIN more[k]
                 PROVE  \/ k = n /\ m = Len(last) + 1 /\ more[k][m] = id
                        \/ m \in DOMAIN made[k] /\ more[k][m] = made[k][m]
      OBVIOUS
    <3>1. CASE k = n
      <4>1. more[k] = grown /\ made[k] = last
        BY <2>4, <3>1 DEF last
      <4>2. m \in 1..(Len(last) + 1) /\ DOMAIN made[k] = 1..Len(last)
        BY <1>1, <2>3, <4>1
      <4> QED
        BY <2>2, <2>3, <3>1, <4>1, <4>2
    <3>2. CASE k # n
      BY <2>4, <3>2
    <3> QED
      BY <3>1, <3>2
  <2>8. ASSUME NEW j \in 1..n, NEW k \in 1..n,
               NEW m \in DOMAIN more[j], NEW i \in DOMAIN more[k], more[j][m] = more[k][i]
        PROVE  j = k /\ m = i
    <3>1. \/ j = n /\ m = Len(last) + 1 /\ more[j][m] = id
          \/ m \in DOMAIN made[j] /\ more[j][m] = made[j][m]
      BY <2>7
    <3>2. \/ k = n /\ i = Len(last) + 1 /\ more[k][i] = id
          \/ i \in DOMAIN made[k] /\ more[k][i] = made[k][i]
      BY <2>7
    <3>3. CASE more[j][m] = id
      BY <1>2, <2>8, <3>1, <3>2, <3>3
    <3>4. CASE more[j][m] # id
      BY <1>6, <2>8, <3>1, <3>2, <3>4
    <3> QED
      BY <3>3, <3>4
  <2>9. Sound(more)
    BY <2>4, <2>6, <2>8 DEF Sound
  <2>10. Sent(more) = Sent(made) \cup {id}
    <3>1. Sent(more) \subseteq Sent(made) \cup {id}
      <4> SUFFICES ASSUME NEW k \in 1..n, NEW m \in DOMAIN more[k]
                   PROVE  more[k][m] \in Sent(made) \cup {id}
        BY <2>4 DEF Sent, Range
      <4>1. CASE m \in DOMAIN made[k] /\ more[k][m] = made[k][m]
        <5>1. made[k][m] \in Range(made[k])
          BY <4>1 DEF Range
        <5> QED
          BY <1>1, <4>1, <5>1 DEF Sent
      <4> QED
        BY <2>7, <4>1
    <3>2. id \in Sent(more)
      <4>1. id \in Range(more[n])
        BY <2>2, <2>3, <2>4 DEF Range
      <4> QED
        BY <2>2, <2>4, <4>1 DEF Sent
    <3>3. ASSUME NEW k \in 1..n, NEW m \in DOMAIN made[k] PROVE made[k][m] \in Sent(more)
      <4>1. m \in DOMAIN more[k] /\ more[k][m] = made[k][m]
        <5>1. CASE k = n
          <6>1. more[k] = grown /\ made[k] = last /\ m \in 1..Len(last)
            BY <1>1, <2>4, <5>1 DEF last
          <6> QED
            BY <2>2, <2>3, <6>1
        <5>2. CASE k # n
          BY <2>4, <5>2
        <5> QED
          BY <5>1, <5>2
      <4>2. made[k][m] \in Range(more[k])
        BY <4>1 DEF Range
      <4> QED
        BY <2>4, <4>2 DEF Sent
    <3>4. Sent(made) \subseteq Sent(more)
      <4> SUFFICES ASSUME NEW k \in 1..n, NEW m \in DOMAIN made[k] PROVE made[k][m] \in Sent(more)
        BY <1>1 DEF Sent, Range
      <4> QED
        BY <3>3
    <3> QED
      BY <3>1, <3>2, <3>4
  <2> QED
    BY <2>1, <2>9, <2>10
<1> QED
  BY <1>4, <1>5

\* StoredByCall without any record are no calls.
LEMMA SentNone == ASSUME NEW calling, Sound(calling), Sent(calling) = {} PROVE calling = <<>>
<1>1. /\ calling \in Seq(Seq(DOMAIN SizeOf)) /\ Len(calling) \in Nat /\ DOMAIN calling = 1..Len(calling)
      /\ \A k \in 1..Len(calling) : calling[k] \in Seq(DOMAIN SizeOf) /\ calling[k] # <<>>
  BY DEF Sound
<1>2. ASSUME Len(calling) # 0 PROVE FALSE
  <2>1. 1 \in 1..Len(calling)
    BY <1>1, <1>2
  <2>2. 1 \in DOMAIN calling[1]
    BY <1>1, <2>1
  <2>3. calling[1][1] \in Range(calling[1])
    BY <2>2 DEF Range
  <2>4. calling[1][1] \in Sent(calling)
    BY <1>1, <2>1, <2>3 DEF Sent
  <2> QED
    BY <2>4
<1> QED
  BY <1>1, <1>2

\* The calls send each record once.
LEMMA BatchesSound ==
    ASSUME NEW ids \in Seq(DOMAIN SizeOf), IsInjective(ids)
    PROVE  Sound(Batches(ids)) /\ Sent(Batches(ids)) = Range(ids)
<1> DEFINE D == DOMAIN SizeOf
           T == Seq(Seq(D))
           n == Len(ids)
           Makes(f) == f = [k \in 0..n |-> IF k = 0 THEN <<>> ELSE Added(f[k - 1], ids[k])]
           step == [k \in 1..n |-> [made \in T |-> Added(made, ids[k])]]
           g == CHOOSE f : Makes(f)
<1>1. /\ n \in Nat /\ DOMAIN ids = 1..n /\ <<>> \in T
      /\ \A k \in 1..n : ids[k] \in D
  BY EmptySeq
<1>2. ASSUME NEW made \in T, NEW id \in D PROVE Added(made, id) \in T
  <2>1. <<id>> \in Seq(D) /\ Len(made) \in Nat
    OBVIOUS
  <2>2. Append(made, <<id>>) \in T
    BY <2>1, AppendProperties
  <2>3. ASSUME made # <<>> PROVE [made EXCEPT ![Len(made)] = Append(@, id)] \in T
    <3>1. Len(made) \in 1..Len(made)
      BY <2>1, <2>3
    <3>2. made[Len(made)] \in Seq(D)
      BY <3>1
    <3>3. Append(made[Len(made)], id) \in Seq(D)
      BY <3>2, AppendProperties
    <3> QED
      BY <3>1, <3>3, ExceptSeq
  <2> QED
    BY <2>2, <2>3 DEF Added
<1>3. step \in [1..n -> [T -> T]]
  BY <1>1, <1>2
<1>4. \A k \in 1..n, made \in T : step[k][made] = Added(made, ids[k])
  OBVIOUS
<1> HIDE DEF step, T
<1>5. PICK f \in [0..n -> T] : Repeats(f, <<>>, step, n)
  BY <1>1, <1>3, RepeatsExists
<1>6. Makes(f)
  <2>1. \A k \in 0..n : k = 0 \/ (k \in 1..n /\ f[k - 1] \in T)
    BY <1>1, <1>5
  <2> QED
    BY <1>4, <1>5, <2>1 DEF Repeats
<1>7. Makes(g)
  BY <1>6
<1>8. Batches(ids) = g[n]
  BY DEF Batches
<1> HIDE DEF g
<1>9. \A k \in 0..n : g[k] = IF k = 0 THEN <<>> ELSE Added(g[k - 1], ids[k])
  BY <1>7
<1> HIDE DEF Makes
<1> DEFINE S == {k \in 0..n : Sound(g[k]) /\ Sent(g[k]) = {ids[m] : m \in 1..k}}
<1>10. 0 \in S
  <2>1. g[0] = <<>> /\ 0 \in 0..n
    BY <1>1, <1>9
  <2>2. Sound(<<>>) /\ Sent(<<>>) = {}
    BY EmptySeq DEF Sound, Sent
  <2> QED
    BY <2>1, <2>2
<1>11. ASSUME NEW k \in 1..n, k - 1 \in S PROVE k \in S
  <2>1. k \in 0..n /\ k # 0 /\ 1..k = 1..(k - 1) \cup {k} /\ k \notin 1..(k - 1)
    BY <1>1
  <2>2. g[k] = Added(g[k - 1], ids[k])
    BY <1>9, <2>1
  <2>3. Sound(g[k - 1]) /\ Sent(g[k - 1]) = {ids[m] : m \in 1..(k - 1)}
    BY <1>11
  <2>4. ids[k] \in D /\ ids[k] \notin Sent(g[k - 1])
    <3>1. \A m \in 1..(k - 1) : ids[m] # ids[k]
      BY <1>1, <2>1 DEF IsInjective
    <3> QED
      BY <1>1, <2>3, <3>1
  <2>5. Sound(g[k]) /\ Sent(g[k]) = Sent(g[k - 1]) \cup {ids[k]}
    BY <2>2, <2>3, <2>4, AddedKeeps
  <2> QED
    BY <2>1, <2>3, <2>5
<1>12. 0..n \subseteq S
  <2> HIDE DEF S
  <2> QED
    BY <1>1, <1>10, <1>11, InductionUpTo
<1>13. Sound(g[n]) /\ Sent(g[n]) = {ids[m] : m \in 1..n}
  <2>1. n \in 0..n
    BY <1>1
  <2> QED
    BY <1>12, <2>1
<1> QED
  BY <1>1, <1>8, <1>13 DEF Range

\* An order of a finite set names each of its members once.
LEMMA OrderOfSet ==
    ASSUME NEW S, IsFiniteSet(S), NEW ids \in SetToSeqs(S)
    PROVE  ids \in Seq(S) /\ IsInjective(ids) /\ Range(ids) = S
<1> DEFINE n == Cardinality(S)
<1>1. n \in Nat
  BY FS_CardinalityType
<1>2. ids \in [1..n -> S] /\ \A i, j \in 1..n : i # j => ids[i] # ids[j]
  BY DEF SetToSeqs
<1>3. ids \in Injection(1..n, S) /\ IsInjective(ids)
  BY <1>2 DEF Injection, IsInjective
<1>4. IsFiniteSet(1..n) /\ Cardinality(1..n) = n
  BY <1>1, FS_Interval
<1>5. ids \in Surjection(1..n, S)
  BY <1>3, <1>4, FS_Injection
<1>6. \A e \in S : \E k \in 1..n : ids[k] = e
  BY <1>5 DEF Surjection
<1>7. Range(ids) = S
  BY <1>2, <1>6 DEF Range
<1>8. ids \in Seq(S)
  BY <1>1, <1>2, SeqDef
<1> QED
  BY <1>3, <1>7, <1>8

\* The first call, and those after it, send other records.
LEMMA FirstCall ==
    ASSUME NEW calling, Sound(calling), calling # <<>>
    PROVE  /\ Head(calling) \in Seq(DOMAIN SizeOf) /\ Sound(Tail(calling))
           /\ Sent(calling) = Range(Head(calling)) \cup Sent(Tail(calling))
           /\ Range(Head(calling)) \cap Sent(Tail(calling)) = {}
           /\ Len(calling) = 1 <=> Tail(calling) = <<>>
<1> DEFINE B == Seq(DOMAIN SizeOf)
           rest == Tail(calling)
           n == Len(calling)
<1>1. calling \in Seq(B) /\ n \in Nat /\ n > 0 /\ DOMAIN calling = 1..n
  BY DEF Sound
<1>2. Head(calling) = calling[1] /\ calling[1] \in B
  BY <1>1
<1>3. /\ rest \in Seq(B) /\ Len(rest) = n - 1 /\ DOMAIN rest = 1..(n - 1)
      /\ \A k \in 1..(n - 1) : rest[k] = calling[k + 1]
  BY <1>1, HeadTailProperties, LenProperties
<1>4. n = 1 <=> rest = <<>>
  <2> HIDE DEF rest, B
  <2>1. Len(<<>>) = 0 /\ (rest # <<>> => Len(rest) # 0)
    BY <1>3, EmptySeq
  <2> QED
    BY <1>1, <1>3, <2>1
<1> HIDE DEF rest
<1>5. \A j, k \in 1..n : \A m \in DOMAIN calling[j], i \in DOMAIN calling[k] :
          calling[j][m] = calling[k][i] => j = k /\ m = i
  BY <1>1 DEF Sound
<1>6. \A k \in 1..(n - 1) : k + 1 \in 1..n /\ k + 1 # 1
  BY <1>1
<1>7. Sound(rest)
  <2>1. \A k \in 1..n : calling[k] # <<>> /\ (Len(calling[k]) = 1 \/ Size(calling[k]) <= BatchMax)
    BY <1>1 DEF Sound
  <2>2. \A k \in 1..(n - 1) : rest[k] # <<>> /\ (Len(rest[k]) = 1 \/ Size(rest[k]) <= BatchMax)
    BY <1>3, <1>6, <2>1
  <2>3. ASSUME NEW j \in 1..(n - 1), NEW k \in 1..(n - 1),
               NEW m \in DOMAIN rest[j], NEW i \in DOMAIN rest[k], rest[j][m] = rest[k][i]
        PROVE  j = k /\ m = i
    <3>1. rest[j] = calling[j + 1] /\ rest[k] = calling[k + 1]
      BY <1>3
    <3>2. j + 1 = k + 1 /\ m = i
      BY <1>5, <1>6, <2>3, <3>1
    <3> QED
      BY <3>2
  <2> QED
    BY <1>3, <2>2, <2>3 DEF Sound
<1>8. Sent(calling) = Range(calling[1]) \cup Sent(rest)
  <2>1. \A k \in 1..n : k = 1 \/ (k - 1 \in 1..(n - 1) /\ rest[k - 1] = calling[k])
    BY <1>1, <1>3
  <2>2. 1 \in 1..n
    BY <1>1
  <2>3. Sent(calling) \subseteq Range(calling[1]) \cup Sent(rest)
    <3> SUFFICES ASSUME NEW k \in 1..n, NEW e \in Range(calling[k])
                 PROVE  e \in Range(calling[1]) \cup Sent(rest)
      BY <1>1 DEF Sent
    <3> QED
      BY <1>3, <2>1 DEF Sent
  <2>4. Range(calling[1]) \subseteq Sent(calling)
    BY <1>1, <2>2 DEF Sent
  <2>5. Sent(rest) \subseteq Sent(calling)
    <3> SUFFICES ASSUME NEW k \in 1..(n - 1), NEW e \in Range(rest[k]) PROVE e \in Sent(calling)
      BY <1>3 DEF Sent
    <3> QED
      BY <1>1, <1>3, <1>6 DEF Sent
  <2> QED
    BY <2>3, <2>4, <2>5
<1>9. Range(calling[1]) \cap Sent(rest) = {}
  <2> SUFFICES ASSUME NEW e \in Range(calling[1]), e \in Sent(rest) PROVE FALSE
    OBVIOUS
  <2>1. PICK m \in DOMAIN calling[1] : calling[1][m] = e
    BY DEF Range
  <2>2. PICK k \in 1..(n - 1) : e \in Range(rest[k])
    BY <1>3 DEF Sent
  <2>3. PICK i \in DOMAIN rest[k] : rest[k][i] = e
    BY <2>2 DEF Range
  <2>4. 1 \in 1..n /\ k + 1 \in 1..n /\ k + 1 # 1 /\ rest[k] = calling[k + 1]
    BY <1>1, <1>3, <1>6
  <2> QED
    BY <1>5, <2>1, <2>3, <2>4
<1> QED
  BY <1>2, <1>4, <1>7, <1>8, <1>9 DEF rest

-----------------------------------------------------------------------------
(* What holds while a project is renamed. *)

\* The projects are names, and the records were some store there may be.
StoreInv ==
    /\ first \in Stores /\ IsStore(records)
    /\ old \in Seq(STRING) /\ new \in Seq(STRING)

\* A record is as it was, or was renamed, and that once.
RenamedInv ==
    \A id \in DOMAIN first :
        \/ records[id] = first[id]
        \/ Moves(first[id], old, new) /\ records[id] = RenamedProject(first[id], old, new)

\* The records that are still to be renamed are those the calls will send; after a
\* run without an error there are none.
RenameInv ==
    /\ DOMAIN records = DOMAIN first
    /\ Sound(batches)
    /\ ok \in BOOLEAN /\ (ok => batches = <<>>)
    /\ (ok \/ batches # <<>> \/ records # first) => new # <<>>
    /\ SafeToRunAgain => /\ RenamedInv
                         /\ ok \/ batches # <<>> => Concerned(records) = Sent(batches)

\* Every record that is to be renamed was renamed.
Moved(ids) ==
    \A id \in ids : Moves(first[id], old, new) => records[id] = RenamedProject(first[id], old, new)

\* In the first run that is so for any names: a record still to be sent is as it was,
\* and the others that are to be renamed were.
FirstRunInv ==
    /\ runs \in Nat
    /\ runs = 0 => records = first /\ batches = <<>> /\ ok = FALSE
    /\ runs = 1 => /\ RenamedInv
                   /\ Sent(batches) \subseteq DOMAIN first
                   /\ \A id \in Sent(batches) : records[id] = first[id] /\ Moves(first[id], old, new)
                   /\ ok \/ batches # <<>> => Moved(DOMAIN first \ Sent(batches))

-----------------------------------------------------------------------------
(* What holds while the overview is made. *)

\* A unit is queued or has ended, once.
QueueInv ==
    /\ queue \in Seq(Units) /\ ended \in Seq(Units) /\ aged \in 0..Len(ended)
    /\ IsInjective(queue) /\ IsInjective(ended) /\ Range(queue) \cap Range(ended) = {}

\* No record is lost.
RecordsInv ==
    /\ recent \subseteq DOMAIN records
    /\ DOMAIN first \subseteq DOMAIN records /\ \A id \in DOMAIN first : records[id] = first[id]

\* What there was when the overview began, compared with what there is.
BeforeInv ==
    calls \in 0..3 =>
        /\ before.queued \subseteq Units /\ before.records \subseteq DOMAIN records
        /\ before.ended \in Nat /\ aged <= before.ended /\ before.ended <= Len(ended)

EndedSince(unit) == \E k \in 1..Len(ended) : k > before.ended /\ ended[k] = unit

\* Each unit that was queued is still to be read, or was read, or was left out.
SeenInv ==
    /\ calls = 0 => \A unit \in before.queued : unit \in Range(queue) \/ EndedSince(unit)
    /\ calls = 1 => \A unit \in before.queued \ untold : IdOf[unit] \in Range(active) \/ EndedSince(unit)
    /\ calls \in 2..3 /\ history = "read" =>
           \A unit \in before.queued \ untold : IdOf[unit] \in Range(active) \/ RawOf[unit] \in Range(done)

\* What was read from accounting: some of what has ended, in that order.
Places(at) ==
    /\ \A k \in 1..Len(done) : done[k] = RawOf[ended[at[k]]]
    /\ \A j, k \in 1..Len(done) : j < k => at[j] < at[k]

ReadInv ==
    /\ calls \in -1..4 /\ active \in Seq(Ids) /\ done \in Seq(Ids)
    /\ calls \in 2..3 => \E at \in [1..Len(done) -> 1..Len(ended)] : Places(at)

\* The records read hold those that the jobs listed had when the overview began.
PlacedInv ==
    Shown => /\ read \subseteq DOMAIN records
             /\ \A id \in Range(active) \cup Range(done) : Range(Keys(id)) \cap before.records \subseteq read

OverviewInv == QueueInv /\ RecordsInv /\ BeforeInv /\ SeenInv /\ ReadInv /\ PlacedInv

-----------------------------------------------------------------------------
(* One command runs, and leaves the other's part as it was. *)

IInv ==
    /\ StoreInv
    /\ \/ command = "jobs" /\ OverviewInv /\ batches = <<>> /\ ok = FALSE
       \/ command = "projects rename" /\ RenameInv /\ FirstRunInv /\ calls = Idle

-----------------------------------------------------------------------------
(* The steps of a rename. *)

\* What is stored are records of the same jobs.
LEMMA StoredKeeps ==
    ASSUME StoreInv, new # <<>>, NEW ids, Stored(ids)
    PROVE  /\ IsStore(records') /\ DOMAIN records' = DOMAIN records
           /\ \A id \in DOMAIN records :
                  records'[id] = IF id \in ids THEN RenamedProject(records[id], old, new) ELSE records[id]
<1>1. \A id \in DOMAIN records : records[id] \in Seq(STRING) /\ RenamedProject(records[id], old, new) \in Seq(STRING)
  BY RenamedIs DEF StoreInv, IsStore
<1>2. /\ DOMAIN records' = DOMAIN records
      /\ \A id \in DOMAIN records :
             records'[id] = IF id \in ids THEN RenamedProject(records[id], old, new) ELSE records[id]
      /\ records' = [id \in DOMAIN records |-> records'[id]]
  BY DEF Stored
<1>3. \A id \in DOMAIN records : records'[id] \in Seq(STRING)
  BY <1>1, <1>2
<1>4. records' \in [DOMAIN records -> Seq(STRING)]
  BY <1>2, <1>3
<1> QED
  BY <1>2, <1>4 DEF StoreInv, IsStore

\* A record that is stored was not renamed before, and does not have to be again.
LEMMA StoredMoves ==
    ASSUME StoreInv, new # <<>>, DOMAIN records = DOMAIN first, SafeToRunAgain, RenamedInv,
           NEW ids, Stored(ids), ids \subseteq Concerned(records), UNCHANGED <<old, new, first>>
    PROVE  RenamedInv' /\ Concerned(records)' = Concerned(records) \ ids
<1>1. /\ DOMAIN records' = DOMAIN records
      /\ \A id \in DOMAIN records :
             records'[id] = IF id \in ids THEN RenamedProject(records[id], old, new) ELSE records[id]
  BY StoredKeeps
<1>2. /\ old \in Seq(STRING) /\ new \in Seq(STRING) /\ ~IsStrictPrefix(new, old)
      /\ \A id \in DOMAIN records : records[id] \in Seq(STRING) /\ first[id] \in Seq(STRING)
  BY StoresAssumption DEF StoreInv, IsStore, SafeToRunAgain
<1>3. ASSUME NEW id \in ids
      PROVE  /\ id \in DOMAIN first /\ records[id] = first[id] /\ Moves(first[id], old, new)
             /\ RenamedProject(records'[id], old, new) \in {<<>>, records'[id]}
  <2>1. id \in DOMAIN records /\ RenamedProject(records[id], old, new) \notin {<<>>, records[id]}
    BY DEF Concerned
  <2>2. Moves(records[id], old, new)
    BY <1>2, <2>1, RenamedIs
  <2>3. records[id] = first[id]
    <3>1. ASSUME Moves(first[id], old, new), records[id] = RenamedProject(first[id], old, new)
          PROVE  FALSE
      BY <1>2, <2>1, <3>1, RenamedOnce
    <3> QED
      BY <2>1, <3>1 DEF RenamedInv
  <2>4. RenamedProject(records'[id], old, new) \in {<<>>, records'[id]}
    BY <1>1, <1>2, <2>1, <2>2, RenamedOnce
  <2> QED
    BY <2>1, <2>2, <2>3, <2>4
<1>4. RenamedInv'
  <2> SUFFICES ASSUME NEW id \in DOMAIN first
               PROVE  \/ records'[id] = first[id]
                      \/ Moves(first[id], old, new) /\ records'[id] = RenamedProject(first[id], old, new)
    BY DEF RenamedInv
  <2>1. CASE id \in ids
    BY <1>1, <1>3, <2>1
  <2>2. CASE id \notin ids
    BY <1>1, <2>2 DEF RenamedInv
  <2> QED
    BY <2>1, <2>2
<1>5. Concerned(records)' = {id \in DOMAIN records :
                                 RenamedProject(records'[id], old, new) \notin {<<>>, records'[id]}}
  BY <1>1 DEF Concerned
<1>6. ASSUME NEW id \in DOMAIN records
      PROVE  id \in Concerned(records)' <=> id \in Concerned(records) \ ids
  <2>1. CASE id \in ids
    BY <1>3, <1>5, <2>1
  <2>2. CASE id \notin ids
    BY <1>1, <1>5, <2>2 DEF Concerned
  <2> QED
    BY <2>1, <2>2
<1> QED
  BY <1>4, <1>5, <1>6 DEF Concerned

\* A run will send the records that it finds concerned.
LEMMA RunSends ==
    ASSUME StoreInv, RenameInv, Run
    PROVE  Sound(batches') /\ Sent(batches') = Concerned(records)
<1>1. PICK ids \in SetToSeqs(Concerned(records)) : batches' = Batches(ids)
  BY DEF Run
<1>2. Concerned(records) \subseteq DOMAIN records /\ DOMAIN records \subseteq DOMAIN SizeOf
  BY StoresAssumption DEF Concerned, StoreInv, RenameInv
<1>3. IsFiniteSet(Concerned(records))
  <2>1. IsFiniteSet(DOMAIN records)
    BY DEF StoreInv, IsStore
  <2> QED
    BY <1>2, <2>1, FS_Subset
<1>4. ids \in Seq(DOMAIN SizeOf) /\ IsInjective(ids) /\ Range(ids) = Concerned(records)
  <2>1. ids \in Seq(Concerned(records)) /\ IsInjective(ids) /\ Range(ids) = Concerned(records)
    BY <1>3, OrderOfSet
  <2> QED
    BY <1>2, <2>1, SeqMonotonic
<1> QED
  BY <1>1, <1>4, BatchesSound

\* What a call does: some of its records are stored, all of them unless it fails.
StoredByCall(ids) ==
    /\ batches # <<>> /\ ids \subseteq Range(Head(batches)) /\ Stored(ids)
    /\ UNCHANGED <<old, new, runs, first>>
    /\ \/ batches' = Tail(batches) /\ ok' = (Len(batches) = 1) /\ ids = Range(Head(batches))
       \/ batches' = <<>> /\ ok' = FALSE

LEMMA CallStores ==
    ASSUME RenameInv, Call \/ CallFails
    PROVE  \E ids : StoredByCall(ids)
<1>1. CASE Call
  <2>1. StoredByCall(Range(Head(batches)))
    BY <1>1 DEF Call, StoredByCall
  <2> QED
    BY <2>1
<1>2. CASE CallFails
  <2>1. batches # <<>> /\ UNCHANGED <<old, new, runs, first>> /\ batches' = <<>> /\ ok' = FALSE
    BY <1>2 DEF CallFails
  <2>2. PICK n \in 0..Len(Head(batches)) : Stored(Range(SubSeq(Head(batches), 1, n)))
    BY <1>2 DEF CallFails
  <2>3. Head(batches) \in Seq(DOMAIN SizeOf)
    BY <2>1, FirstCall DEF RenameInv
  <2>4. Range(SubSeq(Head(batches), 1, n)) \subseteq Range(Head(batches))
    <3> DEFINE h == Head(batches)
    <3>1. n \in Nat /\ Len(h) \in Nat /\ DOMAIN h = 1..Len(h) /\ n <= Len(h)
      BY <2>3
    <3>2. DOMAIN SubSeq(h, 1, n) = 1..n /\ \A k \in 1..n : SubSeq(h, 1, n)[k] = h[k]
      BY <2>3, <3>1
    <3> HIDE DEF h
    <3> QED
      BY <3>1, <3>2 DEF Range, h
  <2>5. StoredByCall(Range(SubSeq(Head(batches), 1, n)))
    BY <2>1, <2>2, <2>4 DEF StoredByCall
  <2> QED
    BY <2>5
<1> QED
  BY <1>1, <1>2

\* Every step of a rename keeps what holds of it.
LEMMA RenameKeeps ==
    ASSUME StoreInv, RenameInv, RenameNext
    PROVE  StoreInv' /\ RenameInv'
<1>1. ASSUME Run PROVE StoreInv' /\ RenameInv'
  <2> USE <1>1
  <2>1. /\ UNCHANGED <<records, old, new, first>> /\ new # <<>> /\ batches = <<>>
        /\ ok' = (Concerned(records) = {})
    BY DEF Run
  <2>2. Sound(batches') /\ Sent(batches') = Concerned(records)
    BY RunSends
  <2>3. ok' \in BOOLEAN /\ (ok' => batches' = <<>>)
    BY <2>1, <2>2, SentNone
  <2>4. Concerned(records)' = Concerned(records) /\ (SafeToRunAgain' <=> SafeToRunAgain)
        /\ (RenamedInv' <=> RenamedInv) /\ StoreInv' /\ Sound(batches)' /\ Sent(batches)' = Sent(batches')
    BY <2>1, <2>2 DEF Concerned, SafeToRunAgain, RenamedInv, StoreInv, IsStore, Sound, Sent, Size
  <2> QED
    BY <2>1, <2>2, <2>3, <2>4 DEF RenameInv
<1>2. ASSUME NEW ids, StoredByCall(ids) PROVE StoreInv' /\ RenameInv'
  <2> USE <1>2 DEF StoredByCall
  <2>1. /\ new # <<>> /\ DOMAIN records = DOMAIN first /\ Sound(batches)
        /\ Sound(Tail(batches))
        /\ Sent(batches) = Range(Head(batches)) \cup Sent(Tail(batches))
        /\ Range(Head(batches)) \cap Sent(Tail(batches)) = {}
        /\ Len(batches) = 1 <=> Tail(batches) = <<>>
    BY <1>2, FirstCall DEF RenameInv
  <2>2. IsStore(records') /\ DOMAIN records' = DOMAIN records
    BY <1>2, <2>1, StoredKeeps
  <2>3. Sound(batches') /\ ok' \in BOOLEAN /\ (ok' => batches' = <<>>)
    <3>1. Sound(<<>>)
      BY EmptySeq DEF Sound
    <3> QED
      BY <1>2, <2>1, <3>1
  <2>4. ASSUME SafeToRunAgain
        PROVE  RenamedInv' /\ (ok' \/ batches' # <<>> => Concerned(records)' = Sent(batches'))
    <3>1. RenamedInv /\ Concerned(records) = Sent(batches)
      BY <1>2, <2>4 DEF RenameInv
    <3>2. ids \subseteq Concerned(records)
      BY <1>2, <2>1, <3>1
    <3>3. RenamedInv' /\ Concerned(records)' = Concerned(records) \ ids
      BY <1>2, <2>1, <2>4, <3>1, <3>2, StoredMoves
    <3>4. CASE batches' = Tail(batches) /\ ids = Range(Head(batches))
      <4>1. Concerned(records) \ ids = Sent(Tail(batches))
        BY <2>1, <3>1, <3>4
      <4> QED
        BY <3>3, <3>4, <4>1
    <3>5. CASE batches' = <<>> /\ ok' = FALSE
      BY <3>3, <3>5
    <3> QED
      BY <1>2, <3>4, <3>5
  <2>5. (SafeToRunAgain' <=> SafeToRunAgain) /\ StoreInv' /\ Sound(batches)' /\ Sent(batches)' = Sent(batches')
    BY <1>2, <2>2, <2>3 DEF SafeToRunAgain, StoreInv, IsStore, Sound, Sent, Size
  <2>6. DOMAIN records' = DOMAIN first' /\ new' # <<>>
    BY <1>2, <2>1, <2>2
  <2> QED
    BY <2>3, <2>4, <2>5, <2>6 DEF RenameInv
<1>3. ASSUME Call \/ CallFails PROVE StoreInv' /\ RenameInv'
  BY <1>2, <1>3, CallStores
<1> QED
  BY <1>1, <1>3 DEF RenameNext

\* What holds of the first run stays so, and no later run is one.
LEMMA FirstRunKeeps ==
    ASSUME StoreInv, RenameInv, FirstRunInv, RenameNext
    PROVE  FirstRunInv'
<1> DEFINE renamed(id) == RenamedProject(first[id], old, new)
<1>1. /\ old \in Seq(STRING) /\ new \in Seq(STRING) /\ DOMAIN records = DOMAIN first
      /\ \A id \in DOMAIN first : first[id] \in Seq(STRING)
  BY StoresAssumption DEF StoreInv, RenameInv, IsStore
<1>2. ASSUME Run PROVE FirstRunInv'
  <2>1. /\ UNCHANGED <<records, old, new, first>> /\ new # <<>> /\ runs' = runs + 1
        /\ runs \in Nat /\ (runs = 0 => records = first)
    BY <1>2 DEF Run, FirstRunInv
  <2>2. Sent(batches') = Concerned(records)
    BY <1>2, RunSends
  <2>3. ASSUME runs = 0, NEW id \in DOMAIN first
        PROVE  IF id \in Concerned(records) THEN Moves(first[id], old, new)
               ELSE Moves(first[id], old, new) => records[id] = renamed(id)
    <3>1. id \in Concerned(records) <=> renamed(id) \notin {<<>>, first[id]}
      BY <1>1, <2>1, <2>3 DEF Concerned
    <3>2. renamed(id) # <<>> <=> Moves(first[id], old, new)
      BY <1>1, <2>1, RenamedIs
    <3> HIDE DEF renamed
    <3> QED
      BY <2>1, <2>3, <3>1, <3>2
  <2>4. Concerned(records) \subseteq DOMAIN first
    BY <1>1 DEF Concerned
  <2>5. runs = 0 => RenamedInv'
    BY <2>1 DEF RenamedInv
  <2>6. runs = 0 =>
            /\ Sent(batches') \subseteq DOMAIN first'
            /\ \A id \in Sent(batches') : records'[id] = first'[id] /\ Moves(first[id], old, new)'
    BY <2>1, <2>2, <2>3, <2>4
  <2>7. runs = 0 => Moved(DOMAIN first \ Sent(batches))'
    <3>1. Sent(batches)' = Sent(batches')
      BY DEF Sent
    <3> QED
      BY <2>1, <2>2, <2>3, <3>1 DEF Moved
  <2>8. runs' \in Nat /\ runs' # 0 /\ (runs' = 1 => runs = 0)
    BY <2>1
  <2>9. Sent(batches)' = Sent(batches')
    BY DEF Sent
  <2> QED
    BY <2>5, <2>6, <2>7, <2>8, <2>9 DEF FirstRunInv
<1>3. ASSUME NEW ids, StoredByCall(ids) PROVE FirstRunInv'
  <2>1. /\ batches # <<>> /\ ids \subseteq Range(Head(batches)) /\ UNCHANGED <<old, new, runs, first>>
        /\ runs \in Nat /\ runs # 0 /\ new # <<>>
    BY <1>3 DEF StoredByCall, FirstRunInv, RenameInv
  <2>2. /\ Sent(batches) = Range(Head(batches)) \cup Sent(Tail(batches))
        /\ Range(Head(batches)) \cap Sent(Tail(batches)) = {}
        /\ Len(batches) = 1 <=> Tail(batches) = <<>>
    BY <2>1, FirstCall DEF RenameInv
  <2>3. /\ DOMAIN records' = DOMAIN records
        /\ \A id \in DOMAIN records :
               records'[id] = IF id \in ids THEN RenamedProject(records[id], old, new) ELSE records[id]
    BY <1>3, <2>1, StoredKeeps DEF StoredByCall
  <2>4. SUFFICES ASSUME runs = 1
                 PROVE  /\ RenamedInv' /\ Sent(batches') \subseteq DOMAIN first
                        /\ \A id \in Sent(batches') : records'[id] = first[id] /\ Moves(first[id], old, new)
                        /\ ok' \/ batches' # <<>> => Moved(DOMAIN first \ Sent(batches))'
    <3>1. Sent(batches)' = Sent(batches')
      BY DEF Sent
    <3> QED
      BY <2>1, <3>1 DEF FirstRunInv
  <2>5. /\ RenamedInv /\ Moved(DOMAIN first \ Sent(batches)) /\ Sent(batches) \subseteq DOMAIN first
        /\ \A id \in Sent(batches) : records[id] = first[id] /\ Moves(first[id], old, new)
    BY <2>1, <2>4 DEF FirstRunInv
  <2>6. Sent(batches') \subseteq Sent(batches)
    <3>1. Sent(<<>>) = {}
      BY EmptySeq DEF Sent
    <3> QED
      BY <1>3, <2>2, <3>1 DEF StoredByCall
  <2>7. \A id \in ids :
            Moves(first[id], old, new) /\ records'[id] = RenamedProject(first[id], old, new)
    BY <1>1, <2>1, <2>2, <2>3, <2>5
  <2>8. RenamedInv'
    <3> SUFFICES ASSUME NEW id \in DOMAIN first
                 PROVE  \/ records'[id] = first[id]
                        \/ Moves(first[id], old, new) /\ records'[id] = RenamedProject(first[id], old, new)
      BY <2>1 DEF RenamedInv
    <3>1. CASE id \in ids
      BY <2>7, <3>1
    <3>2. CASE id \notin ids
      BY <1>1, <2>3, <2>5, <3>2 DEF RenamedInv
    <3> QED
      BY <3>1, <3>2
  <2>9. ASSUME NEW id \in Sent(batches') PROVE records'[id] = first[id] /\ Moves(first[id], old, new)
    <3>1. id \in Sent(batches) /\ id \notin ids
      <4>1. batches' = Tail(batches)
        BY <1>3, EmptySeq DEF StoredByCall, Sent
      <4> QED
        BY <2>1, <2>2, <2>6, <4>1
    <3> QED
      BY <1>1, <2>3, <2>5, <3>1
  <2>10. ASSUME ok' \/ batches' # <<>>, NEW id \in DOMAIN first \ Sent(batches'), Moves(first[id], old, new)
         PROVE  records'[id] = RenamedProject(first[id], old, new)
    <3>1. batches' = Tail(batches) /\ ids = Range(Head(batches))
      BY <1>3, <2>10 DEF StoredByCall
    <3>2. CASE id \in ids
      BY <2>7, <3>2
    <3>3. CASE id \notin ids
      BY <1>1, <2>2, <2>3, <2>5, <2>10, <3>1, <3>3 DEF Moved
    <3> QED
      BY <3>2, <3>3
  <2>11. ok' \/ batches' # <<>> => Moved(DOMAIN first \ Sent(batches))'
    <3>1. Sent(batches)' = Sent(batches')
      BY DEF Sent
    <3> QED
      BY <2>1, <2>10, <3>1 DEF Moved
  <2> QED
    BY <2>5, <2>6, <2>8, <2>9, <2>11
<1> QED
  BY <1>2, <1>3, CallStores DEF RenameNext

\* A run without an error has renamed every record that was to be renamed: the first
\* one for any names, each of them unless by a rename out of a project.
LEMMA AllMoved ==
    ASSUME StoreInv, RenameInv, FirstRunInv, ok, runs = 1 \/ SafeToRunAgain
    PROVE  RenamedInv /\ Moved(DOMAIN first)
<1>1. /\ new # <<>> /\ old \in Seq(STRING) /\ new \in Seq(STRING) /\ batches = <<>>
      /\ DOMAIN records = DOMAIN first /\ \A id \in DOMAIN first : first[id] \in Seq(STRING)
  BY StoresAssumption DEF RenameInv, StoreInv, IsStore
<1>2. Sent(batches) = {}
  BY <1>1 DEF Sent
<1>3. CASE runs = 1
  BY <1>2, <1>3 DEF FirstRunInv, Moved
<1>4. CASE SafeToRunAgain
  <2>1. RenamedInv /\ Concerned(records) = {}
    BY <1>2, <1>4 DEF RenameInv
  <2>2. ASSUME NEW id \in DOMAIN first, Moves(first[id], old, new), records[id] = first[id]
        PROVE  records[id] = RenamedProject(first[id], old, new)
    <3>1. RenamedProject(records[id], old, new) \in {<<>>, records[id]}
      BY <1>1, <2>1 DEF Concerned
    <3>2. RenamedProject(first[id], old, new) # <<>>
      BY <1>1, <2>2, RenamedIs
    <3> QED
      BY <2>2, <3>1, <3>2
  <2> QED
    BY <2>1, <2>2 DEF RenamedInv, Moved
<1> QED
  BY <1>3, <1>4

\* What holds of a rename says what it promises.
LEMMA RenameShows ==
    ASSUME StoreInv, RenameInv, FirstRunInv
    PROVE  RenamedAtMostOnce /\ RenameMovesAll /\ BatchesFit
<1>1. RenamedAtMostOnce
  BY DEF RenameInv, FirstRunInv, RenamedInv, RenamedAtMostOnce
<1>2. BatchesFit
  BY DEF RenameInv, Sound, BatchesFit
<1>3. RenameMovesAll
  <2> SUFFICES ASSUME ok, runs = 1 \/ SafeToRunAgain
               PROVE  /\ \A found \in Projects(records) :
                             IsPrefix(old, found.project) => IsPrefix(new, found.project)
                      /\ \A id \in DOMAIN first :
                             IsPrefix(old, first[id]) /\ (IsPrefix(new, first[id]) => IsPrefix(new, old)) =>
                                 records[id] = new \o SubSeq(first[id], Len(old) + 1, Len(first[id]))
                      /\ \A found \in Projects(first) :
                             ~IsPrefix(old, found.project) /\ ~IsPrefix(new, found.project) =>
                                 found \in Projects(records)
    BY DEF RenameMovesAll
  <2>1. /\ new # <<>> /\ old \in Seq(STRING) /\ new \in Seq(STRING)
        /\ DOMAIN records = DOMAIN first /\ RenamedInv /\ Moved(DOMAIN first)
        /\ \A id \in DOMAIN first : first[id] \in Seq(STRING)
    BY AllMoved, StoresAssumption DEF RenameInv, StoreInv, IsStore
  <2>2. ASSUME NEW id \in DOMAIN first
        PROVE  IF Moves(first[id], old, new)
               THEN /\ records[id] = new \o SubSeq(first[id], Len(old) + 1, Len(first[id]))
                    /\ IsPrefix(new, records[id])
               ELSE records[id] = first[id]
    <3>1. CASE Moves(first[id], old, new)
      <4>1. records[id] = RenamedProject(first[id], old, new)
        BY <2>1, <3>1 DEF Moved
      <4> QED
        BY <2>1, <3>1, <4>1, RenamedIs
    <3>2. CASE ~Moves(first[id], old, new)
      BY <2>1, <3>2 DEF RenamedInv
    <3> QED
      BY <3>1, <3>2
  <2>3. ASSUME NEW id \in DOMAIN records, IsPrefix(old, records[id]) PROVE IsPrefix(new, records[id])
    BY <2>1, <2>2, <2>3 DEF Moves
  <2>4. ASSUME NEW found \in Projects(records), IsPrefix(old, found.project)
        PROVE  IsPrefix(new, found.project)
    <3>1. PICK id \in DOMAIN records : found.project = records[id]
      <4> DEFINE jobs(p) == Cardinality({Last(Keys(id)) : id \in {i \in DOMAIN records : records[i] = p}})
      <4>1. found \in {[project |-> p, jobs |-> jobs(p)] : p \in Range(records) \ {<<>>}}
        BY DEF Projects
      <4> HIDE DEF jobs
      <4>2. PICK p \in Range(records) : found = [project |-> p, jobs |-> jobs(p)]
        BY <4>1
      <4>3. found.project = p
        BY <4>2
      <4> QED
        BY <4>3 DEF Range
    <3> QED
      BY <2>3, <2>4, <3>1
  <2>5. ASSUME NEW id \in DOMAIN first, IsPrefix(old, first[id]), IsPrefix(new, first[id]) => IsPrefix(new, old)
        PROVE  records[id] = new \o SubSeq(first[id], Len(old) + 1, Len(first[id]))
    <3>1. ~(IsStrictPrefix(old, new) /\ IsPrefix(new, old))
      <4> SUFFICES ASSUME IsPrefix(old, new), IsPrefix(new, old) PROVE old = new
        BY DEF IsStrictPrefix
      <4>1. Len(old) \in Nat /\ Len(new) \in Nat
        BY <2>1
      <4>2. Len(old) = Len(new) /\ \A k \in 1..Len(old) : old[k] = new[k]
        BY <2>1, <4>1, PrefixIs
      <4> QED
        BY <2>1, <4>2, SeqEqual
    <3>2. Moves(first[id], old, new)
      BY <2>5, <3>1 DEF Moves
    <3> QED
      BY <2>2, <3>2
  <2>6. ASSUME NEW found \in Projects(first), ~IsPrefix(old, found.project), ~IsPrefix(new, found.project)
        PROVE  found \in Projects(records)
    <3> DEFINE Of(recs, p) == [project |-> p,
                  jobs |-> Cardinality({Last(Keys(id)) : id \in {i \in DOMAIN recs : recs[i] = p}})]
    <3>1. PICK p \in Range(first) \ {<<>>} : found = Of(first, p)
      BY DEF Projects
    <3>2. ~IsPrefix(old, p) /\ ~IsPrefix(new, p)
      BY <2>6, <3>1
    <3>3. ASSUME NEW id \in DOMAIN first PROVE first[id] = p <=> records[id] = p
      <4>1. first[id] = p => ~Moves(first[id], old, new)
        BY <3>2 DEF Moves
      <4> QED
        BY <2>2, <3>2, <4>1
    <3>4. {i \in DOMAIN first : first[i] = p} = {i \in DOMAIN records : records[i] = p}
      BY <2>1, <3>3
    <3>5. Of(first, p) = Of(records, p)
      BY <3>4
    <3>6. p \in Range(records) \ {<<>>}
      BY <2>1, <3>3 DEF Range
    <3> HIDE DEF Of
    <3>7. found \in {Of(records, q) : q \in Range(records) \ {<<>>}}
      BY <3>1, <3>5, <3>6
    <3> QED
      BY <3>7 DEF Projects, Of
  <2> QED
    BY <2>4, <2>5, <2>6
<1> QED
  BY <1>1, <1>2, <1>3

-----------------------------------------------------------------------------
(* The order of the jobs. *)

\* One member taken out of a sequence without repetition.
LEMMA RemovedIs ==
    ASSUME NEW S, NEW q \in Seq(S), IsInjective(q), NEW k \in 1..Len(q)
    PROVE  LET r == RemoveAt(q, k)
           IN  r \in Seq(S) /\ IsInjective(r) /\ Range(r) = Range(q) \ {q[k]}
<1> DEFINE a == SubSeq(q, 1, k - 1)
           b == SubSeq(q, k + 1, Len(q))
           r == a \o b
           n == Len(q)
<1>1. n \in Nat /\ DOMAIN q = 1..n /\ \A i \in 1..n : q[i] \in S
  OBVIOUS
<1>2. a \in Seq(S) /\ Len(a) = k - 1 /\ \A i \in 1..(k - 1) : a[i] = q[i]
  BY <1>1
<1>3. b \in Seq(S) /\ Len(b) = n - k /\ \A i \in 1..(n - k) : b[i] = q[k + i]
  <2>1. \A i \in (k + 1)..n : q[i] \in S
    BY <1>1
  <2>2. /\ b \in Seq(S) /\ Len(b) = IF k + 1 <= n THEN n - (k + 1) + 1 ELSE 0
        /\ \A i \in 1..(n - (k + 1) + 1) : b[i] = q[(k + 1) + i - 1]
    BY <1>1, <2>1, SubSeqProperties
  <2> HIDE DEF b
  <2>3. n - (k + 1) + 1 = n - k /\ (~(k + 1 <= n) => n - k = 0)
    <3>1. k \in Nat /\ n \in Nat /\ k <= n
      BY <1>1
    <3> HIDE DEF n
    <3> QED
      BY <3>1
  <2>4. ASSUME NEW i \in 1..(n - k) PROVE b[i] = q[k + i]
    <3>1. (k + 1) + i - 1 = k + i
      BY <1>1
    <3> QED
      BY <2>2, <2>3, <3>1
  <2> QED
    BY <2>2, <2>3, <2>4
<1> HIDE DEF a, b
<1>4. /\ r \in Seq(S) /\ Len(r) = n - 1 /\ DOMAIN r = 1..(n - 1)
      /\ \A i \in 1..(n - 1) : r[i] = IF i <= k - 1 THEN a[i] ELSE b[i - (k - 1)]
  <2>1. /\ r \in Seq(S) /\ Len(r) = Len(a) + Len(b)
        /\ \A i \in 1..(Len(a) + Len(b)) : r[i] = IF i <= Len(a) THEN a[i] ELSE b[i - Len(a)]
    BY <1>2, <1>3, ConcatProperties
  <2> HIDE DEF r
  <2>2. Len(a) + Len(b) = n - 1
    BY <1>1, <1>2, <1>3
  <2> QED
    BY <1>2, <2>1, <2>2, LenProperties
<1> HIDE DEF r
<1>5. \A i \in 1..(n - 1) : r[i] = IF i < k THEN q[i] ELSE q[i + 1]
  <2> SUFFICES ASSUME NEW i \in 1..(n - 1) PROVE r[i] = IF i < k THEN q[i] ELSE q[i + 1]
    OBVIOUS
  <2>1. CASE i < k
    <3>1. i <= k - 1 /\ i \in 1..(k - 1)
      BY <1>1, <2>1
    <3> QED
      BY <1>2, <1>4, <2>1, <3>1
  <2>2. CASE ~(i < k)
    <3>1. i - (k - 1) \in 1..(n - k) /\ k + (i - (k - 1)) = i + 1 /\ ~(i <= k - 1)
      BY <1>1, <2>2
    <3>2. r[i] = b[i - (k - 1)]
      BY <1>4, <3>1
    <3>3. b[i - (k - 1)] = q[i + 1]
      BY <1>3, <3>1
    <3> QED
      BY <2>2, <3>2, <3>3
  <2> QED
    BY <2>1, <2>2
<1>6. \A i, j \in 1..n : q[i] = q[j] => i = j
  BY <1>1 DEF IsInjective
<1>7. IsInjective(r)
  <2> SUFFICES ASSUME NEW i \in 1..(n - 1), NEW j \in 1..(n - 1), r[i] = r[j] PROVE i = j
    BY <1>4 DEF IsInjective
  <2>1. i \in 1..n /\ i + 1 \in 1..n /\ j \in 1..n /\ j + 1 \in 1..n
    BY <1>1
  <2> QED
    BY <1>1, <1>5, <1>6, <2>1
<1>8. ASSUME NEW i \in 1..(n - 1) PROVE r[i] \in Range(q) \ {q[k]}
  <2>1. i \in 1..n /\ i + 1 \in 1..n
    BY <1>1
  <2> QED
    BY <1>1, <1>5, <1>6, <2>1 DEF Range
<1>9. ASSUME NEW i \in 1..n, i # k PROVE q[i] \in Range(r)
  <2>1. CASE i < k
    <3>1. i \in 1..(n - 1)
      BY <1>1, <2>1
    <3> QED
      BY <1>4, <1>5, <2>1, <3>1 DEF Range
  <2>2. CASE i > k
    <3>1. i - 1 \in 1..(n - 1) /\ ~(i - 1 < k) /\ (i - 1) + 1 = i
      BY <1>1, <2>2
    <3>2. r[i - 1] = q[i]
      BY <1>5, <3>1
    <3> QED
      BY <1>4, <3>1, <3>2 DEF Range
  <2> QED
    BY <1>9, <2>1, <2>2
<1>10. Range(r) = Range(q) \ {q[k]}
  <2>1. Range(r) \subseteq Range(q) \ {q[k]}
    BY <1>4, <1>8 DEF Range
  <2>2. Range(q) \ {q[k]} \subseteq Range(r)
    BY <1>1, <1>9 DEF Range
  <2> QED
    BY <2>1, <2>2
<1> QED
  BY <1>4, <1>7, <1>10 DEF r, a, b, RemoveAt

\* Some of the jobs read, each with its place among them; later ones come first.
IsLatest(jobs, k) ==
    /\ jobs \in Seq(Ids)
    /\ Range(jobs) = {done[m] : m \in 1..k} \ Range(active)
    /\ \E place \in [1..Len(jobs) -> 1..k] :
           /\ \A j \in 1..Len(jobs) : jobs[j] = done[place[j]]
           /\ \A i, j \in 1..Len(jobs) : i < j => place[i] > place[j]

\* One more job, in front of those.
LEMMA LatestMore ==
    ASSUME active \in Seq(Ids), done \in Seq(Ids), NEW k \in 1..Len(done), NEW jobs, IsLatest(jobs, k - 1)
    PROVE  IsLatest(IF done[k] \in Range(active) \cup Range(SubSeq(done, 1, k - 1)) THEN jobs
                    ELSE <<done[k]>> \o jobs, k)
<1> DEFINE n == Len(jobs)
<1>1. /\ jobs \in Seq(Ids) /\ n \in Nat /\ DOMAIN jobs = 1..n /\ Len(done) \in Nat
      /\ \A m \in 1..Len(done) : done[m] \in Ids
  BY DEF IsLatest
<1>2. Range(jobs) = {done[m] : m \in 1..(k - 1)} \ Range(active)
  BY DEF IsLatest
<1>3. PICK place \in [1..n -> 1..(k - 1)] :
          /\ \A j \in 1..n : jobs[j] = done[place[j]]
          /\ \A i, j \in 1..n : i < j => place[i] > place[j]
  BY DEF IsLatest
<1>4. Range(SubSeq(done, 1, k - 1)) = {done[m] : m \in 1..(k - 1)}
  <2> DEFINE t == SubSeq(done, 1, k - 1)
  <2>1. DOMAIN t = 1..(k - 1) /\ \A m \in 1..(k - 1) : t[m] = done[m]
    BY <1>1
  <2> HIDE DEF t
  <2>2. Range(t) = {done[m] : m \in 1..(k - 1)}
    BY <2>1 DEF Range
  <2> QED
    BY <2>2 DEF t
<1>5. {done[m] : m \in 1..k} = {done[m] : m \in 1..(k - 1)} \cup {done[k]}
  <2>1. 1..k = 1..(k - 1) \cup {k}
    BY <1>1
  <2> QED
    BY <2>1
<1>6. CASE done[k] \in Range(active) \cup Range(SubSeq(done, 1, k - 1))
  <2>1. Range(jobs) = {done[m] : m \in 1..k} \ Range(active)
    BY <1>2, <1>4, <1>5, <1>6
  <2>2. place \in [1..n -> 1..k]
    BY <1>1, <1>3
  <2> QED
    BY <1>1, <1>3, <1>6, <2>1, <2>2 DEF IsLatest
<1>7. CASE done[k] \notin Range(active) \cup Range(SubSeq(done, 1, k - 1))
  <2> DEFINE e == <<done[k]>>
             more == e \o jobs
             at == [j \in 1..(n + 1) |-> IF j = 1 THEN k ELSE place[j - 1]]
  <2>1. e \in Seq(Ids) /\ Len(e) = 1 /\ e[1] = done[k] /\ Range(e) = {done[k]}
    BY <1>1 DEF Range
  <2> HIDE DEF e
  <2>2. /\ more \in Seq(Ids) /\ Len(more) = n + 1
        /\ \A j \in 1..(n + 1) : more[j] = IF j <= 1 THEN e[j] ELSE jobs[j - 1]
        /\ Range(more) = Range(e) \cup Range(jobs)
    <3>1. /\ more \in Seq(Ids) /\ Len(more) = Len(e) + n
          /\ \A j \in 1..(Len(e) + n) : more[j] = IF j <= Len(e) THEN e[j] ELSE jobs[j - Len(e)]
      BY <1>1, <2>1, ConcatProperties
    <3>2. Len(e) + n = n + 1
      BY <1>1, <2>1
    <3>3. Range(more) = Range(e) \cup Range(jobs)
      BY <1>1, <2>1, RangeConcatenation
    <3> HIDE DEF more
    <3> QED
      BY <2>1, <3>1, <3>2, <3>3
  <2> HIDE DEF more
  <2>3. Range(more) = {done[m] : m \in 1..k} \ Range(active)
    BY <1>2, <1>5, <1>7, <2>1, <2>2
  <2>4. \A j \in 1..(n + 1) : j = 1 \/ (j - 1 \in 1..n /\ ~(j <= 1))
    BY <1>1
  <2>5. at \in [1..(n + 1) -> 1..k]
    BY <1>1, <1>3, <2>4
  <2>6. at[1] = k /\ \A j \in 1..(n + 1) : j # 1 => at[j] = place[j - 1]
    BY <1>1
  <2> HIDE DEF at
  <2>7. \A j \in 1..(n + 1) : more[j] = done[at[j]]
    BY <1>1, <1>3, <2>1, <2>2, <2>4, <2>6
  <2>8. ASSUME NEW i \in 1..(n + 1), NEW j \in 1..(n + 1), i < j PROVE at[i] > at[j]
    <3>1. j # 1 /\ j - 1 \in 1..n /\ at[j] = place[j - 1] /\ place[j - 1] \in 1..(k - 1)
      <4>1. j # 1
        BY <1>1, <2>8
      <4>2. j - 1 \in 1..n /\ at[j] = place[j - 1]
        BY <2>4, <2>6, <4>1
      <4> QED
        BY <1>3, <4>1, <4>2
    <3>2. CASE i = 1
      BY <2>6, <3>1, <3>2
    <3>3. CASE i # 1
      <4>1. i - 1 \in 1..n /\ i - 1 < j - 1 /\ at[i] = place[i - 1]
        BY <2>4, <2>6, <2>8, <3>3
      <4> QED
        BY <1>3, <3>1, <4>1
    <3> QED
      BY <3>2, <3>3
  <2>9. IsLatest(more, k)
    <3>1. at \in [1..Len(more) -> 1..k]
      BY <2>2, <2>5
    <3> QED
      BY <2>2, <2>3, <2>7, <2>8, <3>1 DEF IsLatest
  <2> QED
    BY <1>7, <2>9 DEF more, e
<1> QED
  BY <1>6, <1>7

\* Finished holds the jobs read from accounting that are not active, later ones first.
LEMMA FinishedIs ==
    ASSUME active \in Seq(Ids), done \in Seq(Ids)
    PROVE  IsLatest(Finished, Len(done))
<1> DEFINE n == Len(done)
           T == Seq(Ids)
           known(k) == Range(active) \cup Range(SubSeq(done, 1, k - 1))
           Makes(f) == f = [k \in 0..n |->
               IF k = 0 THEN <<>>
               ELSE IF done[k] \in Range(active) \cup Range(SubSeq(done, 1, k - 1)) THEN f[k - 1]
               ELSE <<done[k]>> \o f[k - 1]]
           step == [k \in 1..n |-> [jobs \in T |->
               IF done[k] \in known(k) THEN jobs ELSE <<done[k]>> \o jobs]]
           g == CHOOSE f : Makes(f)
<1>1. n \in Nat /\ DOMAIN done = 1..n /\ <<>> \in T /\ \A k \in 1..n : done[k] \in Ids
  BY EmptySeq
<1>2. ASSUME NEW k \in 1..n, NEW jobs \in T PROVE <<done[k]>> \o jobs \in T
  <2>1. <<done[k]>> \in T
    BY <1>1
  <2> QED
    BY <2>1, ConcatProperties
<1> HIDE DEF T, known
<1>3. step \in [1..n -> [T -> T]]
  BY <1>2
<1>4. \A k \in 1..n, jobs \in T : step[k][jobs] = IF done[k] \in known(k) THEN jobs ELSE <<done[k]>> \o jobs
  OBVIOUS
<1> HIDE DEF step
<1>5. PICK f \in [0..n -> T] : Repeats(f, <<>>, step, n)
  BY <1>1, <1>3, RepeatsExists
<1>6. Makes(f)
  <2>1. \A k \in 0..n : k = 0 \/ (k \in 1..n /\ f[k - 1] \in T)
    BY <1>1, <1>5
  <2> QED
    BY <1>4, <1>5, <2>1 DEF Repeats, known
<1>7. Makes(g)
  BY <1>6
<1>8. Finished = g[n]
  BY DEF Finished
<1> HIDE DEF g
<1>9. \A k \in 0..n : g[k] =
          IF k = 0 THEN <<>>
          ELSE IF done[k] \in Range(active) \cup Range(SubSeq(done, 1, k - 1)) THEN g[k - 1]
          ELSE <<done[k]>> \o g[k - 1]
  BY <1>7
<1> HIDE DEF Makes
<1> DEFINE S == {k \in 0..n : IsLatest(g[k], k)}
<1>10. 0 \in S
  <2>1. g[0] = <<>> /\ 0 \in 0..n
    <3>1. 0 \in 0..n
      BY <1>1
    <3> QED
      BY <1>9, <3>1, Zenon
  <2>2. IsLatest(<<>>, 0)
    <3>1. <<>> \in Seq(Ids) /\ Len(<<>>) = 0 /\ Range(<<>>) = {} /\ 1..0 = {}
      BY EmptySeq DEF Range
    <3>2. [j \in 1..0 |-> 0] \in [1..0 -> 1..0]
      BY <3>1
    <3> QED
      BY <3>1, <3>2 DEF IsLatest
  <2> QED
    BY <2>1, <2>2
<1>11. ASSUME NEW k \in 1..n, k - 1 \in S PROVE k \in S
  <2>1. k \in 0..n /\ k # 0 /\ IsLatest(g[k - 1], k - 1)
    BY <1>1, <1>11
  <2>2. IsLatest(g[k], k)
    BY <1>9, <2>1, LatestMore
  <2> QED
    BY <2>1, <2>2
<1>12. 0..n \subseteq S
  <2> HIDE DEF S
  <2> QED
    BY <1>1, <1>10, <1>11, InductionUpTo
<1>13. IsLatest(g[n], n)
  <2>1. n \in 0..n
    BY <1>1
  <2> QED
    BY <1>12, <2>1
<1> QED
  BY <1>8, <1>13

\* The active jobs come first, then the finished ones; every job read is there.
LEMMA OrderIs ==
    ASSUME active \in Seq(Ids), done \in Seq(Ids)
    PROVE  /\ Order \in Seq(Ids) /\ Finished \in Seq(Ids) /\ Len(active) \in Nat
           /\ Len(Order) = Len(active) + Len(Finished)
           /\ SubSeq(Order, 1, Len(active)) = active
           /\ \A k \in 1..Len(Order) : k > Len(active) =>
                  k - Len(active) \in 1..Len(Finished) /\ Order[k] = Finished[k - Len(active)]
           /\ Range(Order) = Range(active) \cup Range(done)
<1> DEFINE n == Len(active)
           front == SubSeq(Order, 1, n)
<1>1. /\ Finished \in Seq(Ids) /\ n \in Nat /\ Len(Finished) \in Nat /\ Len(done) \in Nat
      /\ Range(Finished) = {done[m] : m \in 1..Len(done)} \ Range(active)
  BY FinishedIs DEF IsLatest
<1>2. /\ Order \in Seq(Ids) /\ Len(Order) = n + Len(Finished)
      /\ \A k \in 1..(n + Len(Finished)) : Order[k] = IF k <= n THEN active[k] ELSE Finished[k - n]
      /\ Range(Order) = Range(active) \cup Range(Finished)
  BY <1>1, ConcatProperties, RangeConcatenation DEF Order
<1>3. front = active
  <2>1. front \in Seq(Ids) /\ Len(front) = n /\ \A k \in 1..n : front[k] = Order[k]
    BY <1>1, <1>2
  <2> HIDE DEF front
  <2>2. \A k \in 1..n : front[k] = active[k]
    BY <1>1, <1>2, <2>1
  <2> QED
    BY <2>1, <2>2, SeqEqual
<1>4. Range(done) = {done[m] : m \in 1..Len(done)}
  BY DEF Range
<1>5. \A k \in 1..Len(Order) : k > n => k - n \in 1..Len(Finished) /\ Order[k] = Finished[k - n]
  BY <1>1, <1>2
<1> QED
  BY <1>1, <1>2, <1>3, <1>4, <1>5

-----------------------------------------------------------------------------
(* The steps of Slurm and of others during the overview. *)

\* A new unit is queued.
LEMMA SubmitKeeps ==
    ASSUME StoreInv, OverviewInv, Submit, UNCHANGED renameVars, calls < 3
    PROVE  StoreInv' /\ OverviewInv'
<1>1. PICK unit \in Units \ Submitted : queue' = Append(queue, unit)
  BY DEF Submit
<1>2. UNCHANGED <<records, recent, ended, aged, calls, history, active, done, read, untold, before, old, new, first>>
  BY DEF Submit, overview, renameVars
<1>3. QueueInv /\ calls \in -1..4
  BY DEF OverviewInv, ReadInv
<1>4. /\ queue' \in Seq(Units) /\ Len(queue') = Len(queue) + 1 /\ Len(queue) \in Nat
      /\ queue'[Len(queue) + 1] = unit /\ \A k \in 1..Len(queue) : queue'[k] = queue[k]
      /\ DOMAIN queue = 1..Len(queue) /\ DOMAIN queue' = 1..(Len(queue) + 1)
  BY <1>1, <1>3, AppendProperties, LenProperties DEF QueueInv
<1>5. Range(queue') = Range(queue) \cup {unit}
  <2>1. 1..(Len(queue) + 1) = 1..Len(queue) \cup {Len(queue) + 1}
    BY <1>4
  <2> QED
    BY <1>4, <2>1 DEF Range
<1>6. IsInjective(queue')
  <2> SUFFICES ASSUME NEW i \in 1..(Len(queue) + 1), NEW j \in 1..(Len(queue) + 1), queue'[i] = queue'[j]
               PROVE  i = j
    BY <1>4 DEF IsInjective
  <2>1. \A k \in 1..Len(queue) : queue[k] # unit
    BY <1>1, <1>4 DEF Submitted, Range
  <2>2. \A k \in 1..(Len(queue) + 1) : k \in 1..Len(queue) \/ k = Len(queue) + 1
    BY <1>4
  <2>3. CASE i \in 1..Len(queue) /\ j \in 1..Len(queue)
    BY <1>3, <1>4, <2>3 DEF QueueInv, IsInjective
  <2> QED
    BY <1>4, <2>1, <2>2, <2>3
<1>7. Range(queue') \cap Range(ended) = {}
  BY <1>1, <1>3, <1>5 DEF QueueInv, Submitted
<1>8. QueueInv'
  BY <1>2, <1>3, <1>4, <1>6, <1>7 DEF QueueInv
<1>9. SeenInv'
  BY <1>2, <1>5 DEF OverviewInv, SeenInv, EndedSince
<1>10. ReadInv' /\ BeforeInv' /\ RecordsInv' /\ StoreInv'
  BY <1>2 DEF OverviewInv, ReadInv, Places, BeforeInv, RecordsInv, StoreInv, IsStore
<1>11. PlacedInv'
  BY <1>2, <1>3 DEF PlacedInv, Shown
<1> QED
  BY <1>8, <1>9, <1>10, <1>11 DEF OverviewInv

\* A unit ends.
LEMMA EndKeeps ==
    ASSUME StoreInv, OverviewInv, End, UNCHANGED renameVars, calls < 3
    PROVE  StoreInv' /\ OverviewInv'
<1>1. PICK k \in DOMAIN queue : queue' = RemoveAt(queue, k) /\ ended' = Append(ended, queue[k])
  BY DEF End
<1>2. UNCHANGED <<records, recent, aged, calls, history, active, done, read, untold, before, old, new, first>>
  BY DEF End, overview, renameVars
<1>3. QueueInv /\ BeforeInv /\ SeenInv /\ ReadInv
  BY DEF OverviewInv
<1> DEFINE e == queue[k]
           n == Len(ended)
<1>4. k \in 1..Len(queue) /\ e \in Units /\ e \in Range(queue)
  BY <1>3 DEF QueueInv, Range
<1>5. queue' \in Seq(Units) /\ IsInjective(queue') /\ Range(queue') = Range(queue) \ {e}
  BY <1>1, <1>3, <1>4, RemovedIs DEF QueueInv
<1> HIDE DEF e
<1>6. /\ ended' \in Seq(Units) /\ Len(ended') = n + 1 /\ n \in Nat
      /\ ended'[n + 1] = e /\ \A i \in 1..n : ended'[i] = ended[i]
      /\ DOMAIN ended = 1..n /\ DOMAIN ended' = 1..(n + 1)
  BY <1>1, <1>3, <1>4, AppendProperties, LenProperties DEF QueueInv, e
<1>7. \A i \in 1..(n + 1) : i \in 1..n \/ i = n + 1
  BY <1>6
<1>8. IsInjective(ended')
  <2> SUFFICES ASSUME NEW i \in 1..(n + 1), NEW j \in 1..(n + 1), ended'[i] = ended'[j] PROVE i = j
    BY <1>6 DEF IsInjective
  <2>1. \A m \in 1..n : ended[m] # e
    BY <1>3, <1>4, <1>6 DEF QueueInv, Range
  <2>2. CASE i \in 1..n /\ j \in 1..n
    BY <1>3, <1>6, <2>2 DEF QueueInv, IsInjective
  <2> QED
    BY <1>6, <1>7, <2>1, <2>2
<1>9. Range(ended') = Range(ended) \cup {e}
  <2>1. 1..(n + 1) = 1..n \cup {n + 1}
    BY <1>6
  <2> QED
    BY <1>6, <2>1 DEF Range
<1>10. QueueInv'
  <2>1. Range(queue') \cap Range(ended') = {}
    BY <1>3, <1>5, <1>9 DEF QueueInv
  <2>2. aged' \in 0..Len(ended')
    BY <1>2, <1>3, <1>6 DEF QueueInv
  <2> QED
    BY <1>5, <1>6, <1>8, <2>1, <2>2 DEF QueueInv
<1>11. BeforeInv'
  <2> SUFFICES ASSUME calls' \in 0..3
               PROVE  /\ before'.queued \subseteq Units /\ before'.records \subseteq DOMAIN records'
                      /\ before'.ended \in Nat /\ aged' <= before'.ended /\ before'.ended <= Len(ended')
    BY DEF BeforeInv
  <2> QED
    BY <1>2, <1>3, <1>6 DEF BeforeInv
<1>12. SeenInv'
  <2>1. \A unit : EndedSince(unit) => EndedSince(unit)'
    BY <1>2, <1>6, <1>7 DEF EndedSince
  <2> PICK u : u = e
    OBVIOUS
  <2>2. calls \in 0..3 => EndedSince(u)'
    <3>1. calls \in 0..3 => n + 1 > before.ended
      BY <1>3, <1>6 DEF BeforeInv
    <3>2. n + 1 \in 1..(n + 1)
      BY <1>6
    <3> QED
      BY <1>2, <1>6, <3>1, <3>2 DEF EndedSince
  <2>3. ASSUME calls = 0, NEW unit \in before.queued
        PROVE  unit \in Range(queue') \/ EndedSince(unit)'
    BY <1>3, <1>5, <2>1, <2>2, <2>3 DEF SeenInv
  <2>4. ASSUME calls = 1, NEW unit \in before.queued \ untold
        PROVE  IdOf[unit] \in Range(active) \/ EndedSince(unit)'
    BY <1>3, <2>1, <2>4 DEF SeenInv
  <2> QED
    BY <1>2, <1>3, <2>3, <2>4 DEF SeenInv
<1>13. ReadInv'
  <2>1. ASSUME calls \in 2..3
        PROVE  \E at \in [1..Len(done) -> 1..(n + 1)] :
                   /\ \A i \in 1..Len(done) : done[i] = RawOf[ended'[at[i]]]
                   /\ \A i, j \in 1..Len(done) : i < j => at[i] < at[j]
    <3>1. PICK at \in [1..Len(done) -> 1..n] : Places(at)
      BY <1>3, <2>1 DEF ReadInv
    <3>2. at \in [1..Len(done) -> 1..(n + 1)]
      BY <1>6, <3>1
    <3>3. \A i \in 1..Len(done) : done[i] = RawOf[ended'[at[i]]]
      BY <1>6, <3>1 DEF Places
    <3> QED
      BY <3>1, <3>2, <3>3 DEF Places
  <2> QED
    BY <1>2, <1>3, <1>6, <2>1 DEF ReadInv, Places
<1>14. RecordsInv' /\ StoreInv'
  BY <1>2 DEF OverviewInv, RecordsInv, StoreInv, IsStore
<1>15. PlacedInv'
  BY <1>2, <1>3 DEF ReadInv, PlacedInv, Shown
<1> QED
  BY <1>10, <1>11, <1>12, <1>13, <1>14, <1>15 DEF OverviewInv

\* The window moves on.
LEMMA AgeKeeps ==
    ASSUME StoreInv, OverviewInv, Age, UNCHANGED renameVars, calls < 3
    PROVE  StoreInv' /\ OverviewInv'
<1>1. /\ UNCHANGED <<records, recent, queue, ended, calls, history, active, done, read, untold, before, old, new, first>>
      /\ aged < (IF calls = Idle THEN Len(ended) ELSE before.ended) /\ aged' = aged + 1
  BY DEF Age, overview, renameVars
<1>2. QueueInv /\ BeforeInv /\ calls \in -1..4
  BY DEF OverviewInv, ReadInv
<1>3. aged \in Nat /\ Len(ended) \in Nat
  BY <1>2 DEF QueueInv
<1>4. calls # Idle => calls \in 0..3
  BY <1>2 DEF Idle
<1>5. BeforeInv'
  <2>1. calls \in 0..3 => calls # Idle
    BY DEF Idle
  <2> QED
    BY <1>1, <1>2, <1>3, <2>1 DEF BeforeInv
<1>6. aged' \in 0..Len(ended)
  BY <1>1, <1>2, <1>3, <1>4 DEF BeforeInv
<1>7. QueueInv'
  BY <1>1, <1>2, <1>6 DEF QueueInv
<1>8. SeenInv' /\ ReadInv' /\ RecordsInv' /\ StoreInv'
  BY <1>1 DEF OverviewInv, SeenInv, EndedSince, ReadInv, Places, RecordsInv, StoreInv, IsStore
<1>9. PlacedInv'
  BY <1>1, <1>2 DEF PlacedInv, Shown
<1> QED
  BY <1>5, <1>7, <1>8, <1>9 DEF OverviewInv

\* A record is written for a job or a task.
LEMMA WriteRecordKeeps ==
    ASSUME StoreInv, OverviewInv, WriteRecord, UNCHANGED renameVars, calls < 3
    PROVE  StoreInv' /\ OverviewInv'
<1>1. UNCHANGED <<queue, ended, aged, calls, history, active, done, read, untold, before, old, new, first>>
  BY DEF WriteRecord, slurm, overview, renameVars
<1> DEFINE Writes(id) ==
        /\ records' = [key \in DOMAIN records \cup {id} |-> IF key = id THEN <<>> ELSE records[key]]
        /\ recent' = recent \cup {id}
<1>11. PICK unit \in Submitted : \E id \in Range(Keys(IdOf[unit])) \ DOMAIN records : Writes(id)
  BY DEF WriteRecord
<1>2. PICK id \in Range(Keys(IdOf[unit])) \ DOMAIN records : Writes(id)
  BY <1>11
<1>3. QueueInv /\ RecordsInv /\ BeforeInv /\ SeenInv /\ ReadInv
  BY DEF OverviewInv
<1>4. id \in Ids /\ IsJobId(id)
  <2>1. unit \in Units
    <3>1. Range(queue) \subseteq Units /\ Range(ended) \subseteq Units
      BY <1>3, RangeOfSeq DEF QueueInv
    <3> QED
      BY <3>1 DEF Submitted
  <2>2. IdOf[unit] \in Ids
    BY <2>1, OverviewAssumption
  <2> QED
    BY <2>2, KeysAre
<1>5. /\ DOMAIN records' = DOMAIN records \cup {id}
      /\ \A key \in DOMAIN records : records'[key] = records[key]
      /\ records'[id] = <<>>
  BY <1>2
<1>6. StoreInv'
  <2>1. IsFiniteSet(DOMAIN records')
    BY <1>5, FS_AddElement DEF StoreInv, IsStore
  <2>2. \A key \in DOMAIN records' : key \in Ids /\ IsJobId(key)
    BY <1>4, <1>5 DEF StoreInv, IsStore
  <2>3. records' \in [DOMAIN records' -> Seq(STRING)]
    <3>1. <<>> \in Seq(STRING) /\ \A key \in DOMAIN records : records[key] \in Seq(STRING)
      BY EmptySeq DEF StoreInv, IsStore
    <3> QED
      BY <1>2, <3>1
  <2> QED
    BY <1>1, <2>1, <2>2, <2>3 DEF StoreInv, IsStore
<1>7. RecordsInv'
  BY <1>1, <1>2, <1>3, <1>5 DEF RecordsInv
<1>8. BeforeInv'
  BY <1>1, <1>3, <1>5 DEF BeforeInv
<1>9. QueueInv' /\ SeenInv' /\ ReadInv'
  BY <1>1, <1>3 DEF QueueInv, SeenInv, EndedSince, ReadInv, Places
<1>10. PlacedInv'
  BY <1>1, <1>3 DEF ReadInv, PlacedInv, Shown
<1> QED
  BY <1>6, <1>7, <1>8, <1>9, <1>10 DEF OverviewInv

-----------------------------------------------------------------------------
(* The steps of the overview. *)

\* It begins with what there is.
LEMMA BeginKeeps ==
    ASSUME StoreInv, OverviewInv, Begin, UNCHANGED renameVars
    PROVE  StoreInv' /\ OverviewInv'
<1>1. /\ UNCHANGED <<records, recent, queue, ended, aged, active, done, read, untold, old, new, first>>
      /\ calls' = 0
      /\ before'.queued = Range(queue) /\ before'.ended = Len(ended) /\ before'.records = DOMAIN records
  BY DEF Begin, slurm, renameVars
<1>2. QueueInv /\ RecordsInv /\ ReadInv
  BY DEF OverviewInv
<1>3. BeforeInv'
  <2>1. Range(queue) \subseteq Units
    BY <1>2, RangeOfSeq DEF QueueInv
  <2>2. Len(ended) \in Nat /\ aged <= Len(ended)
    BY <1>2 DEF QueueInv
  <2> QED
    BY <1>1, <2>1, <2>2 DEF BeforeInv
<1>4. SeenInv'
  BY <1>1 DEF SeenInv
<1>5. QueueInv' /\ RecordsInv' /\ ReadInv' /\ StoreInv'
  BY <1>1, <1>2 DEF QueueInv, RecordsInv, ReadInv, Places, StoreInv, IsStore
<1>6. PlacedInv'
  BY <1>1 DEF PlacedInv, Shown
<1> QED
  BY <1>3, <1>4, <1>5, <1>6 DEF OverviewInv

\* The queue is read first: what is not in it any more has ended since, what squeue does
\* not tell is left out.
LEMMA ReadQueueKeeps ==
    ASSUME StoreInv, OverviewInv, ReadQueue, UNCHANGED renameVars
    PROVE  StoreInv' /\ OverviewInv'
<1>1. /\ UNCHANGED <<records, recent, queue, ended, aged, history, done, read, before, old, new, first>>
      /\ \/ active' = [k \in DOMAIN queue |-> IdOf[queue[k]]]
         \/ active' = <<>> /\ untold' = untold \cup Range(queue)
      /\ calls = 0 /\ calls' = 1
  <2>1. calls \in 0..1 /\ Probe[calls + 1] = "squeue" /\ calls' = calls + 1
    BY DEF ReadQueue
  <2>2. calls = 0
    BY <2>1 DEF Probe
  <2> QED
    BY <2>1, <2>2 DEF ReadQueue, slurm, renameVars
<1>2. QueueInv /\ RecordsInv /\ BeforeInv /\ SeenInv /\ ReadInv
  BY DEF OverviewInv
<1>3. /\ DOMAIN queue = 1..Len(queue) /\ Len(queue) \in Nat
      /\ \A k \in 1..Len(queue) : queue[k] \in Units /\ IdOf[queue[k]] \in Ids
  BY <1>2, OverviewAssumption DEF QueueInv
<1>4. active' \in Seq(Ids)
  <2>1. CASE active' = [k \in DOMAIN queue |-> IdOf[queue[k]]]
    BY <1>3, <2>1, IsASeq
  <2>2. CASE active' = <<>>
    BY <2>2, EmptySeq
  <2> QED
    BY <1>1, <2>1, <2>2
<1>5. SeenInv'
  <2>1. ASSUME NEW unit \in Range(queue), unit \notin untold' PROVE IdOf[unit] \in Range(active')
    BY <1>1, <2>1 DEF Range
  <2> QED
    BY <1>1, <1>2, <2>1 DEF SeenInv, EndedSince
<1>6. QueueInv' /\ RecordsInv' /\ BeforeInv' /\ ReadInv' /\ StoreInv'
  BY <1>1, <1>2, <1>4 DEF QueueInv, RecordsInv, BeforeInv, ReadInv, Places, StoreInv, IsStore
<1>7. PlacedInv'
  BY <1>1 DEF PlacedInv, Shown
<1> QED
  BY <1>5, <1>6, <1>7 DEF OverviewInv

\* Accounting is read next: what has ended since the overview began is in it, or is
\* left out.
LEMMA ReadFinishedKeeps ==
    ASSUME StoreInv, OverviewInv, ReadFinished, UNCHANGED renameVars
    PROVE  StoreInv' /\ OverviewInv'
<1> DEFINE Tells(n, at) ==
        /\ \A j, k \in 1..n : j < k => at[j] < at[k]
        /\ done' = [k \in 1..n |-> RawOf[ended[at[k]]]]
        /\ untold' = untold \cup {ended[k] : k \in Within \ Range(at)}
<1>1. /\ UNCHANGED <<records, recent, queue, ended, aged, history, active, read, before, old, new, first>>
      /\ \/ history = "read" /\ \E n \in 0..(Len(ended) - aged) : \E at \in [1..n -> Within] : Tells(n, at)
         \/ history # "read" /\ done' = <<>>
      /\ calls = 1 /\ calls' = 2
  <2>1. calls \in 0..1 /\ Probe[calls + 1] = "sacct" /\ calls' = calls + 1
    BY DEF ReadFinished
  <2>2. calls = 1
    BY <2>1 DEF Probe
  <2> QED
    BY <2>1, <2>2 DEF ReadFinished, slurm, renameVars
<1>2. QueueInv /\ RecordsInv /\ BeforeInv /\ SeenInv /\ ReadInv
  BY DEF OverviewInv
<1>3. aged \in Nat /\ Len(ended) \in Nat /\ Within \subseteq 1..Len(ended)
  BY <1>2 DEF QueueInv, Within
<1>4. ASSUME history = "read"
      PROVE  /\ done' \in Seq(Ids)
             /\ \E at \in [1..Len(done') -> 1..Len(ended)] :
                    /\ \A k \in 1..Len(done') : done'[k] = RawOf[ended[at[k]]]
                    /\ \A j, k \in 1..Len(done') : j < k => at[j] < at[k]
             /\ \A k \in Within : RawOf[ended[k]] \in Range(done') \/ ended[k] \in untold'
  <2>1. PICK n \in 0..(Len(ended) - aged) : \E at \in [1..n -> Within] : Tells(n, at)
    BY <1>1, <1>4
  <2>2. PICK at \in [1..n -> Within] : Tells(n, at)
    BY <2>1
  <2>3. n \in Nat /\ \A k \in 1..n : at[k] \in 1..Len(ended) /\ RawOf[ended[at[k]]] \in Ids
    <3>1. \A k \in 1..Len(ended) : RawOf[ended[k]] \in Ids
      BY <1>2, OverviewAssumption DEF QueueInv
    <3>2. \A k \in 1..n : at[k] \in 1..Len(ended)
      BY <1>3
    <3> QED
      BY <1>3, <3>1, <3>2
  <2>4. done' \in Seq(Ids) /\ DOMAIN done' = 1..n /\ \A k \in 1..n : done'[k] = RawOf[ended[at[k]]]
    BY <2>2, <2>3, IsASeq
  <2>5. Len(done') = n
    BY <2>3, <2>4
  <2>6. at \in [1..n -> 1..Len(ended)]
    BY <1>3
  <2>7. ASSUME NEW k \in Within PROVE RawOf[ended[k]] \in Range(done') \/ ended[k] \in untold'
    <3>1. CASE k \in Range(at)
      <4>1. PICK i \in 1..n : at[i] = k
        BY <3>1 DEF Range
      <4> QED
        BY <2>4, <4>1 DEF Range
    <3>2. CASE k \notin Range(at)
      BY <2>2, <3>2
    <3> QED
      BY <3>1, <3>2
  <2> QED
    BY <2>2, <2>4, <2>5, <2>6, <2>7
<1>5. ASSUME history # "read" PROVE done' = <<>>
  BY <1>1, <1>5
<1> HIDE DEF Tells
<1>6. ReadInv'
  <2>1. done' \in Seq(Ids) /\ \E at \in [1..Len(done') -> 1..Len(ended)] :
                    /\ \A k \in 1..Len(done') : done'[k] = RawOf[ended[at[k]]]
                    /\ \A j, k \in 1..Len(done') : j < k => at[j] < at[k]
    <3>1. CASE history # "read"
      <4>1. <<>> \in Seq(Ids) /\ Len(<<>>) = 0 /\ 1..0 = {}
        BY EmptySeq
      <4>2. [k \in 1..0 |-> 1] \in [1..0 -> 1..Len(ended)]
        BY <4>1
      <4> QED
        BY <1>5, <3>1, <4>1, <4>2
    <3> QED
      BY <1>4, <3>1
  <2>2. ended' = ended /\ calls' \in -1..4 /\ active' \in Seq(Ids)
    BY <1>1, <1>2 DEF ReadInv
  <2>3. \E at \in [1..Len(done') -> 1..Len(ended')] : Places(at)'
    BY <2>1, <2>2 DEF Places
  <2> QED
    BY <2>1, <2>2, <2>3 DEF ReadInv
<1>7. SeenInv'
  <2>1. ASSUME history = "read", NEW unit, EndedSince(unit), unit \notin untold'
        PROVE  RawOf[unit] \in Range(done')
    <3>1. PICK k \in 1..Len(ended) : k > before.ended /\ ended[k] = unit
      BY <2>1 DEF EndedSince
    <3>2. before.ended \in Nat /\ aged <= before.ended
      BY <1>1, <1>2 DEF BeforeInv
    <3>3. k \in Within
      BY <1>3, <3>1, <3>2 DEF Within
    <3> QED
      BY <1>4, <2>1, <3>1, <3>3
  <2>2. history = "read" => untold \subseteq untold'
    BY <1>1 DEF Tells
  <2> QED
    BY <1>1, <1>2, <2>1, <2>2 DEF SeenInv
<1>8. QueueInv' /\ RecordsInv' /\ BeforeInv' /\ StoreInv'
  BY <1>1, <1>2 DEF QueueInv, RecordsInv, BeforeInv, StoreInv, IsStore
<1>9. PlacedInv'
  BY <1>1 DEF PlacedInv, Shown
<1> QED
  BY <1>6, <1>7, <1>8, <1>9 DEF OverviewInv

\* The probe fails, and nothing was read.
LEMMA ProbeFailsKeeps ==
    ASSUME StoreInv, OverviewInv, ProbeFails, UNCHANGED renameVars
    PROVE  StoreInv' /\ OverviewInv'
<1>1. /\ UNCHANGED <<records, recent, queue, ended, aged, history, read, untold, before, old, new, first>>
      /\ calls' = 4 /\ active' = <<>> /\ done' = <<>>
  BY DEF ProbeFails, Broken, slurm, renameVars
<1>2. QueueInv /\ RecordsInv
  BY DEF OverviewInv
<1>3. QueueInv' /\ RecordsInv' /\ StoreInv'
  BY <1>1, <1>2 DEF QueueInv, RecordsInv, StoreInv, IsStore
<1>4. SeenInv' /\ BeforeInv' /\ ReadInv' /\ PlacedInv'
  BY <1>1, EmptySeq DEF SeenInv, BeforeInv, ReadInv, PlacedInv, Shown
<1> QED
  BY <1>3, <1>4 DEF OverviewInv

\* The records of the jobs that were read are read last.
LEMMA ReadRecordsKeeps ==
    ASSUME StoreInv, OverviewInv, ReadRecords, UNCHANGED renameVars
    PROVE  StoreInv' /\ OverviewInv'
<1> DEFINE wanted == UNION {Range(Keys(id)) : id \in Range(Order)}
<1>1. /\ UNCHANGED <<records, recent, queue, ended, aged, history, active, done, untold, before, old, new, first>>
      /\ calls = 2 /\ calls' = 3 /\ read' \in {Listed(wanted), Failed}
  BY DEF ReadRecords, slurm, renameVars
<1>2. QueueInv /\ RecordsInv /\ BeforeInv /\ SeenInv /\ ReadInv
  BY DEF OverviewInv
<1>3. Range(Order) = Range(active) \cup Range(done)
  BY <1>2, OrderIs DEF ReadInv
<1>4. \A id \in Range(active) \cup Range(done) : Range(Keys(id)) \subseteq wanted
  BY <1>3
<1> HIDE DEF wanted
<1>5. Listed(wanted) \subseteq DOMAIN records /\ DOMAIN records \cap wanted \subseteq Listed(wanted)
  BY <1>2 DEF Listed, RecordsInv
<1>6. before.records \subseteq DOMAIN records
  BY <1>1, <1>2 DEF BeforeInv
<1>7. PlacedInv'
  <2> SUFFICES ASSUME read' = Listed(wanted)
               PROVE  /\ read' \subseteq DOMAIN records
                      /\ \A id \in Range(active) \cup Range(done) :
                             Range(Keys(id)) \cap before.records \subseteq read'
    BY <1>1 DEF PlacedInv, Shown, Failed
  <2> QED
    BY <1>4, <1>5, <1>6
<1>8. QueueInv' /\ RecordsInv' /\ BeforeInv' /\ SeenInv' /\ ReadInv' /\ StoreInv'
  <2>1. ReadInv'
    BY <1>1, <1>2 DEF ReadInv, Places
  <2> QED
    BY <1>1, <1>2, <2>1 DEF QueueInv, RecordsInv, BeforeInv, SeenInv, StoreInv, IsStore
<1> QED
  BY <1>7, <1>8 DEF OverviewInv

\* Each step of the overview, and of the others during it, keeps what holds of it.
LEMMA OverviewKeeps ==
    ASSUME StoreInv, OverviewInv, OverviewNext, UNCHANGED renameVars
    PROVE  StoreInv' /\ OverviewInv'
<1>1. CASE Begin
  BY <1>1, BeginKeeps
<1>2. CASE ReadQueue
  BY <1>2, ReadQueueKeeps
<1>3. CASE ReadFinished
  BY <1>3, ReadFinishedKeeps
<1>4. CASE ProbeFails
  BY <1>4, ProbeFailsKeeps
<1>5. CASE ReadRecords
  BY <1>5, ReadRecordsKeeps
<1>6. CASE calls < 3 /\ Submit
  BY <1>6, SubmitKeeps
<1>7. CASE calls < 3 /\ End
  BY <1>7, EndKeeps
<1>8. CASE calls < 3 /\ Age
  BY <1>8, AgeKeeps
<1>9. CASE calls < 3 /\ WriteRecord
  BY <1>9, WriteRecordKeeps
<1> QED
  BY <1>1, <1>2, <1>3, <1>4, <1>5, <1>6, <1>7, <1>8, <1>9 DEF OverviewNext

-----------------------------------------------------------------------------
(* What is shown. *)

\* A job that was queued when the overview began was read from one of the lists, or left
\* out of them.
LEMMA MissesNone ==
    ASSUME OverviewInv
    PROVE  NoJobMissed
<1>1. SeenInv /\ Range(Order) = Range(active) \cup Range(done)
  BY OrderIs DEF OverviewInv, ReadInv
<1> QED
  BY <1>1 DEF SeenInv, NoJobMissed

\* The order of accounting is turned around, and each finished job was read from one
\* place in it.
LEMMA ListsInOrder ==
    ASSUME OverviewInv
    PROVE  ListedOnceLatestFirst
<1> DEFINE place(id) == CHOOSE k \in DOMAIN ended : RawOf[ended[k]] = id
           n == Len(active)
<1> SUFFICES ASSUME calls \in 2..3
             PROVE  /\ SubSeq(Order, 1, n) = active
                    /\ \A k \in DOMAIN Order : k > n => Order[k] \notin Range(active)
                    /\ \A j, k \in DOMAIN Order :
                           j < k /\ j > n => place(Order[j]) > place(Order[k])
  BY DEF ListedOnceLatestFirst
<1>1. QueueInv /\ ReadInv
  BY DEF OverviewInv
<1>2. /\ Order \in Seq(Ids) /\ n \in Nat /\ SubSeq(Order, 1, n) = active /\ DOMAIN Order = 1..Len(Order)
      /\ \A k \in 1..Len(Order) : k > n =>
             k - n \in 1..Len(Finished) /\ Order[k] = Finished[k - n]
  BY <1>1, OrderIs DEF ReadInv
<1>3. IsLatest(Finished, Len(done))
  BY <1>1, FinishedIs DEF ReadInv
<1>4. PICK at \in [1..Len(Finished) -> 1..Len(done)] :
          /\ \A j \in 1..Len(Finished) : Finished[j] = done[at[j]]
          /\ \A i, j \in 1..Len(Finished) : i < j => at[i] > at[j]
  BY <1>3 DEF IsLatest
<1>5. \A j \in 1..Len(Finished) : Finished[j] \notin Range(active)
  <2>1. Range(Finished) \cap Range(active) = {} /\ Finished \in Seq(Ids)
    BY <1>3 DEF IsLatest
  <2> QED
    BY <2>1 DEF Range
<1>6. PICK in \in [1..Len(done) -> 1..Len(ended)] : Places(in)
  BY <1>1 DEF ReadInv
<1>7. Len(ended) \in Nat /\ Len(done) \in Nat /\ DOMAIN ended = 1..Len(ended)
  BY <1>1 DEF QueueInv, ReadInv
<1>8. ASSUME NEW k \in 1..Len(done) PROVE place(done[k]) = in[k]
  <2>1. in[k] \in DOMAIN ended /\ RawOf[ended[in[k]]] = done[k]
    BY <1>6, <1>7 DEF Places
  <2>2. ASSUME NEW m \in DOMAIN ended, RawOf[ended[m]] = done[k] PROVE m = in[k]
    <3>1. ended[m] \in Units /\ ended[in[k]] \in Units /\ DOMAIN RawOf = Units
      BY <1>1, <1>7, <2>1, OverviewAssumption DEF QueueInv
    <3>2. ended[m] = ended[in[k]]
      BY <2>1, <2>2, <3>1, OverviewAssumption DEF IsInjective
    <3> QED
      BY <1>1, <2>1, <3>2 DEF QueueInv, IsInjective
  <2> QED
    BY <2>1, <2>2
<1> HIDE DEF place
<1>9. ASSUME NEW j \in 1..Len(Order), NEW k \in 1..Len(Order), j < k, j > n
      PROVE  place(Order[j]) > place(Order[k])
  <2>1. k > n /\ j - n < k - n
    BY <1>2, <1>9
  <2>2. /\ j - n \in 1..Len(Finished) /\ Order[j] = Finished[j - n]
        /\ k - n \in 1..Len(Finished) /\ Order[k] = Finished[k - n]
    BY <1>2, <1>9, <2>1
  <2> DEFINE x == at[j - n]
             y == at[k - n]
  <2>3. x \in 1..Len(done) /\ y \in 1..Len(done) /\ x > y /\ Order[j] = done[x] /\ Order[k] = done[y]
    BY <1>4, <2>1, <2>2
  <2> HIDE DEF x, y
  <2>4. place(Order[j]) = in[x] /\ place(Order[k]) = in[y]
    BY <1>8, <2>3
  <2> QED
    <3>1. in[y] < in[x] /\ in[x] \in Nat /\ in[y] \in Nat
      BY <1>6, <1>7, <2>3 DEF Places
    <3> QED
      BY <2>4, <3>1
<1> QED
  BY <1>2, <1>5, <1>9

\* A job's own record is found before its array's, and is a record with a job.
LEMMA PlacesEach ==
    ASSUME StoreInv, OverviewInv
    PROVE  RecordsPlaced
<1> SUFFICES ASSUME Shown
             PROVE  /\ \A id \in Range(Order) :
                           LET had == Closest(id, before.records)
                           IN  had # None => RecordOf(id) \in {id, had}
                    /\ WithoutJob \cap Range(Order) = {}
  BY DEF RecordsPlaced
<1>1. ReadInv /\ PlacedInv
  BY DEF OverviewInv
<1>2. Order \in Seq(Ids) /\ Range(Order) = Range(active) \cup Range(done)
  BY <1>1, OrderIs DEF ReadInv
<1>3. Range(Order) \subseteq Ids
  BY <1>2, RangeOfSeq
<1>4. ASSUME NEW id \in Range(Order), Closest(id, before.records) # None
      PROVE  RecordOf(id) \in {id, Closest(id, before.records)}
  <2> DEFINE array == <<id[1]>>
  <2>1. id \in Ids /\ Range(Keys(id)) \cap before.records \subseteq read
    BY <1>1, <1>2, <1>3 DEF PlacedInv
  <2>2. /\ IsJobId(id) => id \in Range(Keys(id))
        /\ Len(id) > 1 => array \in Range(Keys(id))
    BY <2>1, KeysAre
  <2>3. /\ Closest(id, before.records) =
               IF IsJobId(id) /\ id \in before.records THEN id
               ELSE IF Len(id) > 1 /\ array \in before.records THEN array ELSE None
        /\ RecordOf(id) = IF IsJobId(id) /\ id \in read THEN id
                          ELSE IF Len(id) > 1 /\ array \in read THEN array ELSE None
    BY <2>1, ClosestIs DEF RecordOf
  <2> HIDE DEF array
  <2> QED
    BY <1>4, <2>1, <2>2, <2>3
<1>5. ASSUME NEW id \in Range(Order), id \in read PROVE RecordOf(id) = id
  <2>1. id \in Ids /\ IsJobId(id)
    BY <1>1, <1>3, <1>5 DEF PlacedInv, StoreInv, IsStore
  <2> QED
    BY <1>5, <2>1, ClosestIs DEF RecordOf
<1> QED
  BY <1>4, <1>5 DEF WithoutJob

-----------------------------------------------------------------------------
(* The theorems. *)

\* It holds at first: any of the stores, a queue of up to two units, names without
\* empty levels.
LEMMA InitHolds == Init => IInv
<1> SUFFICES ASSUME Init PROVE IInv
  OBVIOUS
<1>1. records \in Stores /\ OverviewInit /\ RenameInit
  BY DEF Init
<1>2. StoreInv /\ first = records
  <2>1. PICK given \in RawNames, wanted \in RawNames : old = ProjectName(given) /\ new = ProjectName(wanted)
    BY <1>1 DEF RenameInit
  <2>2. old \in Seq(STRING) /\ new \in Seq(STRING)
    BY <2>1, ProjectNameType, RenameAssumption
  <2> QED
    BY <1>1, <2>2, StoresAssumption DEF RenameInit, StoreInv
<1>3. batches = <<>> /\ ok = FALSE /\ calls = -1
  BY <1>1 DEF RenameInit, OverviewInit, Idle
<1>4. OverviewInv
  <2>1. /\ ended = <<>> /\ aged = 0 /\ recent = {} /\ active = <<>> /\ done = <<>>
        /\ IsInjective(queue)
        /\ queue \in SeqOf(Units, 2)
    BY <1>1 DEF OverviewInit
  <2>2. QueueInv
    <3>1. queue \in Seq(Units)
      <4>1. PICK m \in 0..2 : queue \in [1..m -> Units]
        BY <2>1 DEF SeqOf
      <4> QED
        BY <4>1
    <3>2. <<>> \in Seq(Units) /\ Len(<<>>) = 0 /\ IsInjective(<<>>) /\ Range(<<>>) = {}
      BY EmptySeq DEF IsInjective, Range
    <3>3. 0 \in 0..0
      OBVIOUS
    <3> QED
      BY <2>1, <3>1, <3>2, <3>3 DEF QueueInv
  <2>3. RecordsInv /\ ReadInv
    <3>1. <<>> \in Seq(Ids) /\ -1 \in -1..4 /\ ~(-1 \in 2..3)
      BY EmptySeq
    <3> QED
      BY <1>2, <1>3, <2>1, <3>1 DEF RecordsInv, ReadInv
  <2>4. BeforeInv /\ SeenInv /\ PlacedInv
    BY <1>3 DEF BeforeInv, SeenInv, PlacedInv, Shown
  <2> QED
    BY <2>2, <2>3, <2>4 DEF OverviewInv
<1>5. RenameInv
  <2>1. Sound(batches) /\ Sent(batches) = {}
    BY <1>3 DEF Sound, Sent
  <2> QED
    BY <1>2, <1>3, <2>1 DEF RenameInv, RenamedInv
<1>6. FirstRunInv
  BY <1>1, <1>2 DEF RenameInit, FirstRunInv
<1> QED
  BY <1>2, <1>3, <1>4, <1>5, <1>6 DEF Init, IInv, Idle

\* A step of either command keeps it.
LEMMA NextKeeps == IInv /\ [Next]_vars => IInv'
<1> SUFFICES ASSUME IInv, [Next]_vars PROVE IInv'
  OBVIOUS
<1>1. CASE command = "jobs" /\ OverviewNext /\ UNCHANGED <<command, renameVars>>
  <2>1. StoreInv /\ OverviewInv /\ batches = <<>> /\ ok = FALSE
    BY <1>1 DEF IInv
  <2>2. StoreInv' /\ OverviewInv'
    BY <1>1, <2>1, OverviewKeeps
  <2> QED
    BY <1>1, <2>1, <2>2 DEF IInv, renameVars
<1>2. CASE /\ command = "projects rename" /\ RenameNext
           /\ UNCHANGED <<command, recent, slurm, overview>>
  <2>1. StoreInv /\ RenameInv /\ FirstRunInv /\ calls = Idle
    BY <1>2 DEF IInv
  <2>2. StoreInv' /\ RenameInv' /\ FirstRunInv'
    BY <1>2, <2>1, RenameKeeps, FirstRunKeeps
  <2> QED
    BY <1>2, <2>1, <2>2 DEF IInv, overview, Idle
<1>3. CASE UNCHANGED vars
  <2>1. UNCHANGED <<command, records, recent, queue, ended, aged, calls, history, active, done, read, untold, before,
                    old, new, batches, runs, ok, first>>
    BY <1>3 DEF vars, viewVars, slurm, overview, renameVars
  <2>2. StoreInv' <=> StoreInv
    BY <2>1 DEF StoreInv, IsStore
  <2>3. OverviewInv' <=> OverviewInv
    <3>1. (QueueInv' <=> QueueInv) /\ (RecordsInv' <=> RecordsInv) /\ (BeforeInv' <=> BeforeInv)
      BY <2>1 DEF QueueInv, RecordsInv, BeforeInv
    <3>2. (SeenInv' <=> SeenInv) /\ (ReadInv' <=> ReadInv)
      BY <2>1 DEF SeenInv, EndedSince, ReadInv, Places
    <3>3. PlacedInv' <=> PlacedInv
      BY <2>1 DEF PlacedInv, Shown
    <3> QED
      BY <3>1, <3>2, <3>3 DEF OverviewInv
  <2>4. (RenameInv' <=> RenameInv) /\ (FirstRunInv' <=> FirstRunInv)
    BY <2>1 DEF RenameInv, FirstRunInv, Moved, RenamedInv, Sound, Sent, Size, SafeToRunAgain, Concerned
  <2> QED
    BY <2>1, <2>2, <2>3, <2>4 DEF IInv, Idle
<1> QED
  BY <1>1, <1>2, <1>3 DEF Next

\* It holds throughout.
LEMMA Holds == Spec => []IInv
BY InitHolds, NextKeeps, PTL DEF Spec

\* What it says of the command that runs; of the other one nothing has happened.
LEMMA Shows ==
    ASSUME IInv
    PROVE  /\ NoJobMissed /\ ListedOnceLatestFirst /\ RecordsPlaced
           /\ RenamedAtMostOnce /\ RenameMovesAll /\ BatchesFit
<1>1. CASE command = "jobs"
  <2>1. StoreInv /\ OverviewInv /\ batches = <<>> /\ ok = FALSE
    BY <1>1 DEF IInv
  <2>2. RenamedAtMostOnce
    BY <2>1 DEF OverviewInv, RecordsInv, RenamedAtMostOnce
  <2>3. RenameMovesAll /\ BatchesFit
    BY <2>1 DEF RenameMovesAll, BatchesFit
  <2> QED
    BY <2>1, <2>2, <2>3, MissesNone, ListsInOrder, PlacesEach
<1>2. CASE command # "jobs"
  <2>1. StoreInv /\ RenameInv /\ FirstRunInv /\ calls = -1
    BY <1>2 DEF IInv, Idle
  <2>2. NoJobMissed /\ ListedOnceLatestFirst /\ RecordsPlaced
    BY <2>1 DEF NoJobMissed, ListedOnceLatestFirst, RecordsPlaced, Shown
  <2> QED
    BY <2>1, <2>2, RenameShows
<1> QED
  BY <1>1, <1>2

\* A job that was queued when `ctun jobs` began is listed, whatever ends between
\* reading the queue and reading accounting, unless squeue or sacct left it out when
\* it was asked (jobs.sh).
THEOREM MissesNoJob == Spec => []NoJobMissed
BY Holds, Shows, PTL

\* Active jobs come first, each finished one follows once, the one that ended last
\* before the others, given that sacct prints them in the order of their ends
\* (jobs._order).
THEOREM ListsLatestFirst == Spec => []ListedOnceLatestFirst
BY Holds, Shows, PTL

\* A job is shown with its own record or else its array's, and no record of a listed
\* job as one without a job (records.keys, api.ClusterJobs.as_dict).
THEOREM PlacesRecords == Spec => []RecordsPlaced
BY Holds, Shows, PTL

\* A record is renamed at most once, for any names while the command runs for the
\* first time, and however often it fails and is run again unless it renames out of
\* a project (records.renamed_project).
THEOREM RenamesOnce == Spec => []RenamedAtMostOnce
BY Holds, Shows, PTL

\* A run without an error has moved the whole project, and no other: the first run
\* for any names, a later one unless it renames out of a project
\* (api.rename_project).
THEOREM MovesAll == Spec => []RenameMovesAll
BY Holds, Shows, PTL

\* No call is longer than the limit unless a single record is, and no record is sent
\* twice (records._update_batches).
THEOREM CallsFit == Spec => []BatchesFit
BY Holds, Shows, PTL

=============================================================================
