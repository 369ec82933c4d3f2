---------------------------- MODULE ParserProofs ----------------------------
(* The honesty rule of the parser of ASA and FTD configurations, for every  *)
(* uploaded text; the types of the whole round trip; that what is written   *)
(* of a context, read again, passes the checks of the review; and what of   *)
(* each command the context holds, from which RoundTripProofs goes on.      *)
EXTENDS RoundTrip, WellFoundedInduction, SequenceTheorems, FiniteSetTheorems, TLAPS

(* Induction over the first n numbers, and what it gives for functions that *)
(* are defined by recursion, as the selections of AsaText are.              *)

(* A non-empty set of naturals has a smallest element. *)
LEMMA Least ==
    ASSUME NEW T, T \subseteq Nat, T # {}
    PROVE  \E m \in T : \A y \in T : m <= y
<1> DEFINE R == {ss \in Nat \X Nat : ss[1] < ss[2]}
<1>1. IsWellFoundedOn(R, Nat)
    BY NatLessThanWellFounded, Zenon DEF OpToRel
<1>2. PICK m \in T : \A y \in T : ~ (<<y, m>> \in R)
    BY <1>1, WFMin
<1>3. ASSUME NEW y \in T PROVE m <= y
  <2>1. y \in Nat /\ m \in Nat
      OBVIOUS
  <2>2. ~ (<<y, m>>[1] < <<y, m>>[2])
      BY <1>2, <2>1
  <2>3. QED BY <2>1, <2>2
<1>4. QED BY <1>3

(* What holds of 0 and of the number after each, to n, holds to n. *)
LEMMA UpTo ==
    ASSUME NEW n \in Nat, NEW T, 0 \in T, \A k \in 0..n : k \in T /\ k < n => k + 1 \in T
    PROVE  0..n \subseteq T
<1> DEFINE U == {k \in 0..n : k \notin T}
<1>1. SUFFICES ASSUME U # {} PROVE FALSE
    OBVIOUS
<1>2. PICK m \in U : \A k \in U : m <= k
  <2>1. U \subseteq Nat
      OBVIOUS
  <2> HIDE DEF U
  <2>2. QED BY <1>1, <2>1, Least
<1>3. m \in 0..n /\ m # 0
    OBVIOUS
<1>4. m - 1 \in 0..n /\ m - 1 < n /\ m - 1 \notin U /\ (m - 1) + 1 = m
    BY <1>2, <1>3
<1>5. QED BY <1>3, <1>4

(* What is built up from a start, step by step, n times. *)
Builds(f, S, start, step, n) ==
    f \in [0..n -> S] /\ f[0] = start /\ \A k \in 1..n : f[k] = step[k][f[k - 1]]

LEMMA Built ==
    ASSUME NEW S, NEW start \in S, NEW step \in [Nat -> [S -> S]], NEW n \in Nat
    PROVE  \E f : Builds(f, S, start, step, n)
<1> DEFINE Goes(m) == \E f : Builds(f, S, start, step, m)
           T == {m \in Nat : Goes(m)}
<1>1. Goes(0)
  <2> DEFINE f == [k \in 0..0 |-> start]
  <2>1. f \in [0..0 -> S] /\ f[0] = start /\ 1..0 = {}
      OBVIOUS
  <2> HIDE DEF f
  <2>2. QED BY <2>1 DEF Builds
<1>2. ASSUME NEW m \in Nat, Goes(m) PROVE Goes(m + 1)
  <2>1. PICK g : g \in [0..m -> S] /\ g[0] = start /\ \A k \in 1..m : g[k] = step[k][g[k - 1]]
      BY <1>2 DEF Builds
  <2> DEFINE f == [k \in 0..(m + 1) |-> IF k <= m THEN g[k] ELSE step[m + 1][g[m]]]
  <2>2. f \in [0..(m + 1) -> S] /\ f[0] = start
      BY <2>1
  <2>3. ASSUME NEW k \in 1..(m + 1) PROVE f[k] = step[k][f[k - 1]]
    <3>1. CASE k \in 1..m
      <4>1. k - 1 \in 0..m /\ k \in 0..m /\ k - 1 \in 0..(m + 1)
          BY <3>1
      <4>2. QED BY <2>1, <3>1, <4>1
    <3>2. CASE k = m + 1
      <4>1. k - 1 = m /\ ~(k <= m) /\ m \in 0..m
          BY <3>2
      <4>2. QED BY <3>2, <4>1
    <3>3. QED BY <3>1, <3>2
  <2> HIDE DEF f
  <2>4. QED BY <2>2, <2>3 DEF Builds
<1> HIDE DEF Goes
<1>3. 0 \in T /\ \A k \in 0..n : k \in T /\ k < n => k + 1 \in T
    BY <1>1, <1>2
<1>4. 0..n \subseteq T
  <2> HIDE DEF T
  <2>1. QED BY <1>3, UpTo
<1>5. n \in T
    BY <1>4
<1>6. QED BY <1>5 DEF Goes

LEMMA Smallest ==
    ASSUME NEW T, T \subseteq Nat, T # {}
    PROVE  Min(T) \in T /\ \A y \in T : Min(T) =< y
BY Least DEF Min

(* Where the block of a header ends, and that all in between is indented or *)
(* blank.                                                                    *)
LEMMA BlockEnds ==
    ASSUME NEW t, IsList(t), NEW i \in DOMAIN t
    PROVE  /\ End(t, i) \in Nat /\ i < End(t, i) /\ End(t, i) <= Len(t) + 1
           /\ \A j \in DOMAIN t : i < j /\ j < End(t, i) => t[j].in \/ Blank(t[j])
           /\ End(t, i) \in DOMAIN t => ~(t[End(t, i)].in \/ Blank(t[End(t, i)]))
<1> DEFINE T == {j \in (i + 1)..(Len(t) + 1) : j > Len(t) \/ ~(t[j].in \/ Blank(t[j]))}
<1>1. Len(t) \in Nat /\ DOMAIN t = 1..Len(t)
    BY DEF IsList
<1>2. T \subseteq Nat /\ Len(t) + 1 \in T
    BY <1>1
<1>3. End(t, i) \in T /\ \A y \in T : End(t, i) =< y
    BY <1>2, Smallest DEF End
<1>4. ASSUME NEW j \in DOMAIN t, i < j, j < End(t, i) PROVE t[j].in \/ Blank(t[j])
  <2>1. j \notin T
      BY <1>1, <1>2, <1>3, <1>4
  <2>2. QED BY <1>1, <1>4, <2>1
<1>5. QED BY <1>1, <1>3, <1>4

-----------------------------------------------------------------------------
(* The source lines of the elements of one kind. *)
LinesOf(s) == {r.line : r \in ToSet(s)}
All(c) == Elements(c) \union c.captured \union c.unparsed

LEMMA AppendList ==
    ASSUME NEW s, IsList(s), NEW e
    PROVE  IsList(Append(s, e)) /\ ToSet(Append(s, e)) = ToSet(s) \union {e}
<1>1. s \in Seq(ToSet(s) \union {e})
    BY SeqMonotonic DEF IsList
<1>2. /\ Append(s, e) \in Seq(ToSet(s) \union {e})
      /\ Len(Append(s, e)) = Len(s) + 1
      /\ \A j \in 1..Len(s) : Append(s, e)[j] = s[j]
      /\ Append(s, e)[Len(s) + 1] = e
    BY <1>1, AppendProperties
<1>3. DOMAIN s = 1..Len(s) /\ Len(s) \in Nat /\ DOMAIN Append(s, e) = 1..(Len(s) + 1)
    BY <1>1, <1>2
<1>4. ToSet(Append(s, e)) = ToSet(s) \union {e}
    BY <1>2, <1>3 DEF ToSet
<1>5. QED BY <1>2, <1>4 DEF IsList

LEMMA ConcatList ==
    ASSUME NEW s, IsList(s), NEW t, IsList(t)
    PROVE  IsList(s \o t) /\ ToSet(s \o t) = ToSet(s) \union ToSet(t)
<1>1. s \in Seq(ToSet(s) \union ToSet(t)) /\ t \in Seq(ToSet(s) \union ToSet(t))
    BY SeqMonotonic DEF IsList
<1>2. /\ s \o t \in Seq(ToSet(s) \union ToSet(t))
      /\ Len(s \o t) = Len(s) + Len(t)
      /\ \A j \in 1..(Len(s) + Len(t)) : (s \o t)[j] = IF j <= Len(s) THEN s[j] ELSE t[j - Len(s)]
    BY <1>1, ConcatProperties
<1>3. /\ DOMAIN s = 1..Len(s) /\ Len(s) \in Nat /\ DOMAIN t = 1..Len(t) /\ Len(t) \in Nat
      /\ DOMAIN (s \o t) = 1..(Len(s) + Len(t))
    BY <1>1, <1>2
<1>4. ASSUME NEW e \in ToSet(s) PROVE e \in ToSet(s \o t)
    BY <1>2, <1>3, <1>4 DEF ToSet
<1>5. ASSUME NEW e \in ToSet(t) PROVE e \in ToSet(s \o t)
  <2>1. PICK j \in 1..Len(t) : e = t[j]
      BY <1>3, <1>5 DEF ToSet
  <2>2. Len(s) + j \in 1..(Len(s) + Len(t)) /\ ~(Len(s) + j <= Len(s)) /\ (Len(s) + j) - Len(s) = j
      BY <1>3, <2>1
  <2>3. (s \o t)[Len(s) + j] = t[j]
      BY <1>2, <2>2
  <2>4. QED BY <1>3, <2>1, <2>2, <2>3 DEF ToSet
<1>6. ToSet(s \o t) \subseteq ToSet(s) \union ToSet(t)
  <2>1. SUFFICES ASSUME NEW j \in 1..(Len(s) + Len(t))
                 PROVE  (s \o t)[j] \in ToSet(s) \union ToSet(t)
      BY <1>3 DEF ToSet
  <2>2. QED BY <1>1, <1>2, <2>1
<1>7. ToSet(s \o t) = ToSet(s) \union ToSet(t)
    BY <1>4, <1>5, <1>6
<1>8. QED BY <1>2, <1>7 DEF IsList

(* What is made from a sequence, place by place. *)
LEMMA MappedList ==
    ASSUME NEW s, IsList(s), NEW f, f = [j \in DOMAIN s |-> f[j]]
    PROVE  IsList(f) /\ DOMAIN f = DOMAIN s /\ (f = <<>> <=> s = <<>>)
<1>1. DOMAIN s = 1..Len(s) /\ Len(s) \in Nat
    BY DEF IsList
<1>2. DOMAIN f = 1..Len(s)
    BY <1>1
<1>3. f \in [1..Len(s) -> ToSet(f)]
    BY <1>2 DEF ToSet
<1>4. f \in Seq(ToSet(f)) /\ Len(f) = Len(s)
    BY <1>1, <1>3, SeqDef
<1>5. f = <<>> <=> s = <<>>
    BY <1>4 DEF IsList
<1>6. QED BY <1>1, <1>2, <1>4, <1>5 DEF IsList

LEMMA SeqIsList == ASSUME NEW S, NEW s \in Seq(S) PROVE IsList(s)
<1>1. DOMAIN s = 1..Len(s) /\ Len(s) \in Nat
    OBVIOUS
<1>2. s \in [1..Len(s) -> ToSet(s)]
    BY <1>1 DEF ToSet
<1>3. QED BY <1>1, <1>2, SeqDef DEF IsList

-----------------------------------------------------------------------------
(* What Those keeps: as many sequences as there are elements, built up      *)
(* place by place.                                                          *)
LEMMA ThoseAre ==
    ASSUME NEW s, IsList(s), NEW T
    PROVE  \E g : /\ g \in [0..Len(s) -> Seq(ToSet(s))] /\ g[0] = <<>> /\ Those(s, T) = g[Len(s)]
                  /\ \A k \in 1..Len(s) : g[k] = IF k \in T THEN Append(g[k - 1], s[k]) ELSE g[k - 1]
<1> DEFINE n == Len(s)
           S == ToSet(s)
           step == [k \in Nat |-> [v \in Seq(S) |-> IF k \in 1..n /\ k \in T THEN Append(v, s[k]) ELSE v]]
           Makes(g) == g = [k \in 0..n |->
                               IF k = 0 THEN <<>> ELSE IF k \in T THEN Append(g[k - 1], s[k]) ELSE g[k - 1]]
<1>1. s \in Seq(S) /\ n \in Nat /\ <<>> \in Seq(S)
    BY DEF IsList
<1>2. step \in [Nat -> [Seq(S) -> Seq(S)]]
  <2> HIDE DEF S
  <2>1. \A k \in 1..n : s[k] \in S
      BY <1>1
  <2>2. \A k \in 1..n : \A v \in Seq(S) : Append(v, s[k]) \in Seq(S)
      BY <2>1
  <2>3. QED BY <2>2
<1> HIDE DEF S
<1>3. PICK f : Builds(f, Seq(S), <<>>, step, n)
  <2> HIDE DEF step, n
  <2>1. QED BY <1>1, <1>2, Built, Zenon
<1>4. /\ f \in [0..n -> Seq(S)] /\ f[0] = <<>>
      /\ \A k \in 1..n : f[k] = IF k \in T THEN Append(f[k - 1], s[k]) ELSE f[k - 1]
  <2>1. f \in [0..n -> Seq(S)] /\ f[0] = <<>> /\ \A k \in 1..n : f[k] = step[k][f[k - 1]]
      BY <1>3 DEF Builds
  <2>2. ASSUME NEW k \in 1..n PROVE f[k] = IF k \in T THEN Append(f[k - 1], s[k]) ELSE f[k - 1]
    <3>1. k - 1 \in 0..n /\ k \in Nat
        BY <1>1
    <3>2. f[k - 1] \in Seq(S)
        BY <2>1, <3>1
    <3>3. step[k][f[k - 1]] = IF k \in T THEN Append(f[k - 1], s[k]) ELSE f[k - 1]
        BY <3>1, <3>2
    <3>4. QED BY <2>1, <3>3
  <2>3. QED BY <2>1, <2>2
<1>5. Makes(f)
  <2>1. \A k \in 0..n : k = 0 \/ k \in 1..n
      BY <1>1
  <2>2. \A k \in 0..n : f[k] = IF k = 0 THEN <<>> ELSE IF k \in T THEN Append(f[k - 1], s[k]) ELSE f[k - 1]
      BY <1>4, <2>1
  <2>3. QED BY <1>4, <2>2
<1> DEFINE h == CHOOSE g : Makes(g)
<1>6. Those(s, T) = h[n]
    BY DEF Those
<1>7. Makes(h)
  <2> HIDE DEF Makes
  <2>1. QED BY <1>5
<1> HIDE DEF h
<1>8. h[0] = <<>> /\ \A k \in 1..n : h[k] = IF k \in T THEN Append(h[k - 1], s[k]) ELSE h[k - 1]
  <2>1. 0 \in 0..n /\ \A k \in 1..n : k \in 0..n /\ k # 0
      BY <1>1
  <2>2. QED BY <1>7, <2>1
<1> DEFINE U == {k \in 0..n : h[k] = f[k]}
<1>9. 0 \in U
    BY <1>1, <1>4, <1>8
<1>10. ASSUME NEW k \in 0..n, k \in U, k < n PROVE k + 1 \in U
  <2>1. k + 1 \in 1..n /\ k + 1 \in 0..n /\ (k + 1) - 1 = k
      BY <1>1, <1>10
  <2>2. QED BY <1>4, <1>8, <1>10, <2>1
<1>11. n \in U
  <2> HIDE DEF U
  <2>1. 0..n \subseteq U
      BY <1>1, <1>9, <1>10, UpTo
  <2>2. QED BY <1>1, <2>1
<1>12. QED BY <1>4, <1>6, <1>11 DEF S

LEMMA ThoseList ==
    ASSUME NEW s, IsList(s), NEW T
    PROVE  /\ IsList(Those(s, T))
           /\ ToSet(Those(s, T)) = {s[k] : k \in T \intersect DOMAIN s}
<1> DEFINE n == Len(s)
<1>1. n \in Nat /\ DOMAIN s = 1..n
    BY DEF IsList
<1>2. PICK g : /\ g \in [0..n -> Seq(ToSet(s))] /\ g[0] = <<>> /\ Those(s, T) = g[n]
               /\ \A k \in 1..n : g[k] = IF k \in T THEN Append(g[k - 1], s[k]) ELSE g[k - 1]
    BY ThoseAre
<1> DEFINE U == {m \in 0..n : IsList(g[m]) /\ ToSet(g[m]) = {s[k] : k \in T \intersect (1..m)}}
<1>3. 0 \in U
  <2>1. ToSet(<<>>) = {} /\ IsList(<<>>) /\ 1..0 = {}
      BY DEF ToSet, IsList
  <2>2. QED BY <1>1, <1>2, <2>1
<1>4. ASSUME NEW m \in 0..n, m \in U, m < n PROVE m + 1 \in U
  <2>1. m + 1 \in 1..n /\ m + 1 \in 0..n /\ (m + 1) - 1 = m /\ 1..(m + 1) = (1..m) \union {m + 1}
      BY <1>1, <1>4
  <2>2. g[m + 1] = IF m + 1 \in T THEN Append(g[m], s[m + 1]) ELSE g[m]
      BY <1>2, <2>1
  <2>3. CASE m + 1 \in T
    <3>1. IsList(g[m + 1]) /\ ToSet(g[m + 1]) = ToSet(g[m]) \union {s[m + 1]}
        BY <1>4, <2>2, <2>3, AppendList
    <3>2. {s[k] : k \in T \intersect (1..(m + 1))} = {s[k] : k \in T \intersect (1..m)} \union {s[m + 1]}
        BY <2>1, <2>3
    <3>3. QED BY <1>4, <2>1, <3>1, <3>2
  <2>4. CASE m + 1 \notin T
    <3>1. T \intersect (1..(m + 1)) = T \intersect (1..m)
        BY <2>1, <2>4
    <3>2. QED BY <1>4, <2>1, <2>2, <2>4, <3>1
  <2>5. QED BY <2>3, <2>4
<1>5. n \in U
  <2> HIDE DEF U
  <2>1. 0..n \subseteq U
      BY <1>1, <1>3, <1>4, UpTo
  <2>2. QED BY <1>1, <2>1
<1>6. QED BY <1>1, <1>2, <1>5

(* Lists in a row make a list of what is in them.                           *)
LEMMA FlattenAre ==
    ASSUME NEW s, IsList(s), s # <<>>, NEW S, \A j \in DOMAIN s : s[j] \in Seq(S)
    PROVE  \E g : /\ g \in [1..Len(s) -> Seq(S)] /\ g[1] = s[1] /\ FlattenSeq(s) = g[Len(s)]
                  /\ \A k \in 2..Len(s) : g[k] = g[k - 1] \o s[k]
<1> DEFINE n == Len(s)
           step == [k \in Nat |-> [v \in Seq(S) |-> IF k \in 1..n THEN v \o s[k] ELSE v]]
           Makes(g) == g = [k \in 1..n |-> IF k = 1 THEN s[k] ELSE g[k - 1] \o s[k]]
<1>1. n \in Nat /\ n # 0 /\ DOMAIN s = 1..n /\ <<>> \in Seq(S) /\ \A k \in 1..n : s[k] \in Seq(S)
    BY DEF IsList
<1>2. step \in [Nat -> [Seq(S) -> Seq(S)]]
    BY <1>1
<1>3. PICK f : Builds(f, Seq(S), <<>>, step, n)
  <2> HIDE DEF step, n
  <2>1. QED BY <1>1, <1>2, Built, Zenon
<1>4. f \in [0..n -> Seq(S)] /\ f[0] = <<>> /\ \A k \in 1..n : f[k] = f[k - 1] \o s[k]
  <2>1. f \in [0..n -> Seq(S)] /\ f[0] = <<>> /\ \A k \in 1..n : f[k] = step[k][f[k - 1]]
      BY <1>3 DEF Builds
  <2>2. ASSUME NEW k \in 1..n PROVE f[k] = f[k - 1] \o s[k]
    <3>1. k - 1 \in 0..n /\ k \in Nat
        BY <1>1
    <3>2. f[k - 1] \in Seq(S)
        BY <2>1, <3>1
    <3>3. step[k][f[k - 1]] = f[k - 1] \o s[k]
        BY <3>1, <3>2
    <3>4. QED BY <2>1, <3>3
  <2>3. QED BY <2>1, <2>2
<1>5. f[1] = s[1]
  <2>1. 1 \in 1..n /\ 1 - 1 = 0
      BY <1>1
  <2>2. f[1] = <<>> \o s[1] /\ s[1] \in Seq(S)
      BY <1>1, <1>4, <2>1
  <2>3. QED BY <2>2, ConcatEmptySeq
<1> DEFINE e == [k \in 1..n |-> f[k]]
<1>6. /\ e \in [1..n -> Seq(S)] /\ e[1] = s[1]
      /\ \A k \in 2..n : e[k] = e[k - 1] \o s[k]
  <2>1. \A k \in 1..n : k \in 0..n
      BY <1>1
  <2>2. \A k \in 2..n : k \in 1..n /\ k - 1 \in 1..n
      BY <1>1
  <2>3. 1 \in 1..n
      BY <1>1
  <2>4. QED BY <1>4, <1>5, <2>1, <2>2, <2>3
<1> HIDE DEF e
<1>7. Makes(e)
  <2>1. \A k \in 1..n : k = 1 \/ k \in 2..n
      BY <1>1
  <2>2. \A k \in 1..n : e[k] = IF k = 1 THEN s[k] ELSE e[k - 1] \o s[k]
    <3>1. \A k \in 2..n : k # 1
        BY <1>1
    <3>2. QED BY <1>6, <2>1, <3>1
  <2>3. QED BY <1>6, <2>2
<1> DEFINE h == CHOOSE g : Makes(g)
<1>8. FlattenSeq(s) = h[n]
    BY <1>1 DEF FlattenSeq
<1>9. Makes(h)
  <2> HIDE DEF Makes
  <2>1. QED BY <1>7
<1> HIDE DEF h
<1>10. h[1] = s[1] /\ \A k \in 2..n : h[k] = h[k - 1] \o s[k]
  <2>1. 1 \in 1..n /\ \A k \in 2..n : k \in 1..n /\ k # 1
      BY <1>1
  <2>2. QED BY <1>9, <2>1
<1> DEFINE U == {k \in 0..n : k = 0 \/ h[k] = e[k]}
<1>11. 0 \in U
    BY <1>1
<1>12. ASSUME NEW k \in 0..n, k \in U, k < n PROVE k + 1 \in U
  <2>1. CASE k = 0
    <3>1. k + 1 = 1 /\ 1 \in 0..n
        BY <1>1, <2>1
    <3>2. QED BY <1>6, <1>10, <3>1
  <2>2. CASE k # 0
    <3>1. k + 1 \in 2..n /\ k + 1 \in 0..n /\ (k + 1) - 1 = k
        BY <1>1, <1>12, <2>2
    <3>2. QED BY <1>6, <1>10, <1>12, <2>2, <3>1
  <2>3. QED BY <2>1, <2>2
<1>13. h[n] = e[n]
  <2>1. 0..n \subseteq U
    <3> HIDE DEF U
    <3>1. QED BY <1>1, <1>11, <1>12, UpTo
  <2>2. n \in U
      BY <1>1, <2>1
  <2>3. QED BY <1>1, <2>2
<1>14. QED BY <1>6, <1>8, <1>13

LEMMA FlattenList ==
    ASSUME NEW s, IsList(s), \A j \in DOMAIN s : IsList(s[j])
    PROVE  IsList(FlattenSeq(s))
<1>1. CASE s = <<>>
  <2>1. FlattenSeq(s) = <<>>
      BY <1>1 DEF FlattenSeq
  <2>2. QED BY <1>1, <2>1
<1>2. CASE s # <<>>
  <2> DEFINE S == UNION {ToSet(s[j]) : j \in DOMAIN s}
             n == Len(s)
  <2>1. ASSUME NEW j \in DOMAIN s PROVE s[j] \in Seq(S)
      BY SeqMonotonic DEF IsList
  <2> HIDE DEF S
  <2>2. PICK g : g \in [1..n -> Seq(S)] /\ FlattenSeq(s) = g[n]
      BY <1>2, <2>1, FlattenAre
  <2>3. n \in 1..n
      BY <1>2 DEF IsList
  <2>4. FlattenSeq(s) \in Seq(S)
      BY <2>2, <2>3
  <2>5. QED BY <2>4, SeqIsList
<1>3. QED BY <1>1, <1>2

-----------------------------------------------------------------------------
(* What the selections of the parser make of a list.                        *)
LEMMA Selected ==
    ASSUME NEW s, IsList(s)
    PROVE  /\ \A kind : IsList(Only(s, kind))
           /\ IsList(Understood(s)) /\ IsList(Joining(s)) /\ IsList(Readable(s)) /\ IsList(Values(s))
           /\ IsList(ParseNetMembers(s)) /\ \A proto : IsList(ParseSvcMembers(proto, s))
<1>1. \A kind : IsList(Only(s, kind))
    BY ThoseList DEF Only, Select
<1>2. IsList(Understood(s)) /\ IsList(Joining(s)) /\ IsList(Readable(s))
    BY ThoseList DEF Understood, Joining, Readable, Select
<1>3. \A t : IsList(t) => IsList(Values(t))
    BY MappedList DEF Values
<1>4. IsList(ParseNetMembers(s))
    BY <1>3, ThoseList DEF ParseNetMembers, Select
<1>5. ASSUME NEW proto PROVE IsList(ParseSvcMembers(proto, s))
  <2> DEFINE lines == Select(s, LAMBDA l : l.k \in {"port-object", "service-object", "svc-object", "group-object"})
  <2>1. IsList(lines)
      BY ThoseList DEF Select
  <2>2. ParseSvcMembers(proto, s) = [j \in DOMAIN lines |-> ParseSvcMember(proto, lines[j])]
      BY DEF ParseSvcMembers
  <2> HIDE DEF lines
  <2>3. QED BY <2>1, <2>2, MappedList
<1>6. QED BY <1>1, <1>2, <1>3, <1>4, <1>5

LEMMA BodyList == ASSUME NEW t, IsList(t), NEW i \in DOMAIN t PROVE IsList(Body(t, i))
<1>1. /\ Len(t) \in Nat /\ DOMAIN t = 1..Len(t) /\ t \in Seq(ToSet(t))
      /\ End(t, i) \in Nat /\ i < End(t, i) /\ End(t, i) <= Len(t) + 1
    BY BlockEnds DEF IsList
<1>2. i + 1 \in 1..(Len(t) + 1) /\ End(t, i) - 1 \in ((i + 1) - 1)..Len(t)
    BY <1>1
<1>3. SubSeq(t, i + 1, End(t, i) - 1) \in Seq(ToSet(t))
    BY <1>1, <1>2, SubSeqProperties
<1>4. QED BY <1>3, SeqIsList, ThoseList DEF Body, Select

LEMMA ElementsAre ==
    ASSUME NEW c
    PROVE  Elements(c) = LinesOf(c.ifs) \union LinesOf(c.nets) \union LinesOf(c.svcs)
                         \union LinesOf(c.netGroups) \union LinesOf(c.svcGroups) \union LinesOf(c.rules)
                         \union LinesOf(c.nats) \union LinesOf(c.routes)
<1>1. \A s : {s[j].line : j \in DOMAIN s} = LinesOf(s)
    BY DEF LinesOf, ToSet
<1>2. Elements(c) = UNION {LinesOf(s) :
          s \in {c.ifs, c.nets, c.svcs, c.netGroups, c.svcGroups, c.rules, c.nats, c.routes}}
    BY <1>1 DEF Elements
<1>3. QED BY <1>2

LEMMA LinesAppend ==
    ASSUME NEW s, IsList(s), NEW e
    PROVE  LinesOf(Append(s, e)) = LinesOf(s) \union {e.line}
BY AppendList DEF LinesOf

LEMMA LinesConcat ==
    ASSUME NEW s, IsList(s), NEW t, IsList(t)
    PROVE  LinesOf(s \o t) = LinesOf(s) \union LinesOf(t)
BY ConcatList DEF LinesOf

-----------------------------------------------------------------------------
(* A context while it is read: lists, whose interfaces and rules, the ones  *)
(* that later lines change, know their lines.  A rule is bound once at most. *)
Fields == {"ifs", "nets", "svcs", "netGroups", "svcGroups", "rules", "nats", "routes", "captured", "unparsed"}
IfaceOK(i) == {"line", "ips"} \subseteq DOMAIN i /\ IsList(i.ips)
RuleOK(r) ==
    /\ {"line", "from", "to"} \subseteq DOMAIN r /\ r.line \in Nat
    /\ Len(r.from) + Len(r.to) <= 1
Wellformed(c) ==
    /\ DOMAIN c = Fields
    /\ IsList(c.ifs) /\ IsList(c.nets) /\ IsList(c.svcs) /\ IsList(c.netGroups)
    /\ IsList(c.svcGroups) /\ IsList(c.rules) /\ IsList(c.nats) /\ IsList(c.routes)
    /\ \A i \in ToSet(c.ifs) : IfaceOK(i)
    /\ \A g \in ToSet(c.netGroups) \union ToSet(c.svcGroups) : IsList(g.members)
    /\ \A r \in ToSet(c.rules) : RuleOK(r)
    /\ IsFiniteSet(c.captured) /\ IsFiniteSet(c.unparsed)

(* What a step may do to a context: add to it. *)
Grows(c, d) ==
    /\ LinesOf(c.ifs) \subseteq LinesOf(d.ifs) /\ LinesOf(c.nets) \subseteq LinesOf(d.nets)
    /\ LinesOf(c.svcs) \subseteq LinesOf(d.svcs) /\ LinesOf(c.netGroups) \subseteq LinesOf(d.netGroups)
    /\ LinesOf(c.svcGroups) \subseteq LinesOf(d.svcGroups) /\ LinesOf(c.rules) \subseteq LinesOf(d.rules)
    /\ LinesOf(c.nats) \subseteq LinesOf(d.nats) /\ LinesOf(c.routes) \subseteq LinesOf(d.routes)
    /\ c.captured \subseteq d.captured /\ c.unparsed \subseteq d.unparsed

LEMMA GrowsAll == ASSUME NEW c, NEW d, Grows(c, d) PROVE All(c) \subseteq All(d)
BY ElementsAre DEF Grows, All

(* The inductive invariant, of both readings: every line behind the parser  *)
(* is accounted for or in a block, and its rules are from there and bound   *)
(* at the end.  No block that the parser has begun to read goes on after it.*)
InBlockOf(t, i) == \E h \in 1..(i - 1) : Within(t, i, h)
Accounted(c, t, n) == \A i \in DOMAIN t : i < n => Excepted(t, i) \/ i \in All(c) \/ InBlockOf(t, i)
Sealed(t, n) == \A h \in DOMAIN t : h < n /\ BlockHead(t[h]) => End(t, h) <= n
Unbound(r) == r.from = <<>> /\ r.to = <<>>
Behind(r) == r.line < at /\ (at <= Len(text) + 1 => Unbound(r))

Honest ==
    /\ IsList(text) /\ IsList(joins)
    /\ at \in 1..(Len(text) + 2)
    /\ Wellformed(x) /\ \A r \in ToSet(x.rules) : Behind(r)
    /\ Accounted(x, text, at) /\ Sealed(text, at)

(* A line, or a header with its block, is read and accounted for.           *)
Fresh(r) == r.line = at /\ Unbound(r)
Reads == (ReadLine /\ ~BlockHead(text[at])) \/ (ReadBlock /\ BlockHead(text[at]))

(* The blocks that begin behind the parser end there as well. *)
LEMMA SealedOn ==
    ASSUME IsList(text), Sealed(text, at), at \in DOMAIN text, Reads
    PROVE  Sealed(text, at')
<1>1. /\ DOMAIN text = 1..Len(text) /\ Len(text) \in Nat /\ at \in Nat
      /\ at' \in Nat /\ at < at' /\ at' <= Len(text) + 1
      /\ \A j \in DOMAIN text : at < j /\ j < at' => text[j].in \/ Blank(text[j])
    BY BlockEnds DEF IsList, Reads, ReadLine, ReadBlock
<1>2. SUFFICES ASSUME NEW h \in DOMAIN text, h < at', BlockHead(text[h]) PROVE End(text, h) <= at'
    BY DEF Sealed
<1>3. /\ h \in Nat /\ End(text, h) \in Nat /\ End(text, h) <= Len(text) + 1
      /\ \A j \in DOMAIN text : h < j /\ j < End(text, h) => text[j].in \/ Blank(text[j])
    BY <1>1, BlockEnds
<1>4. CASE h < at
    BY <1>1, <1>2, <1>3, <1>4 DEF Sealed
<1>5. CASE h = at
  <2>1. at' = End(text, at)
      BY <1>2, <1>5 DEF Reads, ReadBlock
  <2>2. QED BY <1>1, <1>5, <2>1
<1>6. CASE at < h
  <2>1. at' = End(text, at)
      BY <1>1, <1>2, <1>3, <1>6 DEF Reads, ReadLine, ReadBlock
  <2>2. at' \in DOMAIN text => ~(text[at'].in \/ Blank(text[at']))
      BY <2>1, BlockEnds
  <2>3. QED BY <1>1, <1>2, <1>3, <2>2
<1>7. QED BY <1>1, <1>3, <1>4, <1>5, <1>6

(* A line that is read with the header at the parser is in its block. *)
LEMMA WithinNow ==
    ASSUME IsList(text), Sealed(text, at), at \in DOMAIN text, Reads,
           NEW i \in DOMAIN text, at < i, i < at'
    PROVE  Within(text, i, at)
<1>1. DOMAIN text = 1..Len(text) /\ at \in Nat /\ i \in Nat /\ Len(text) \in Nat
    BY DEF IsList
<1>2. BlockHead(text[at]) /\ at' = End(text, at)
    BY <1>1 DEF Reads, ReadLine, ReadBlock
<1>3. \A g \in 1..(at - 1) : BlockHead(text[g]) => End(text, g) <= at
    BY <1>1 DEF Sealed
<1>4. QED BY <1>2, <1>3 DEF Within

LEMMA Walks ==
    ASSUME Honest, at <= Len(text), Reads,
           Wellformed(x'), IsList(joins'), Grows(x, x'),
           \A r \in ToSet(x'.rules) : r \in ToSet(x.rules) \/ Fresh(r),
           Excepted(text, at) \/ at \in All(x')
    PROVE  Honest'
<1>1. text' = text /\ at \in DOMAIN text /\ DOMAIN text = 1..Len(text) /\ Len(text) \in Nat
    BY DEF Honest, IsList, Reads, ReadLine, ReadBlock
<1>2. at' \in Nat /\ at < at' /\ at' <= Len(text) + 1
    BY <1>1, BlockEnds DEF Honest, Reads, ReadLine, ReadBlock
<1>3. ASSUME NEW i \in DOMAIN text, i < at' PROVE Excepted(text, i) \/ i \in All(x') \/ InBlockOf(text, i)
  <2>1. i \in Nat /\ at \in Nat /\ at \in DOMAIN text
      BY <1>1
  <2>2. CASE i < at
      BY <2>2, GrowsAll DEF Honest, Accounted
  <2>3. CASE i = at
      BY <2>3
  <2>4. CASE at < i
    <3>1. Within(text, i, at) /\ at \in 1..(i - 1)
        BY <1>1, <1>3, <2>1, <2>4, WithinNow DEF Honest
    <3>2. QED BY <3>1 DEF InBlockOf
  <2>5. QED BY <2>1, <2>2, <2>3, <2>4
<1>4. Accounted(x', text', at') /\ Sealed(text', at')
    BY <1>1, <1>3, SealedOn DEF Accounted, Honest
<1>5. ASSUME NEW r \in ToSet(x'.rules) PROVE r.line < at' /\ Unbound(r)
  <2>1. r.line \in Nat
      BY DEF Wellformed, RuleOK
  <2>2. CASE r \in ToSet(x.rules)
      BY <1>1, <1>2, <2>1, <2>2 DEF Honest, Behind
  <2>3. CASE Fresh(r)
      BY <1>2, <2>3 DEF Fresh
  <2>4. QED BY <2>2, <2>3
<1>6. at' \in 1..(Len(text') + 2)
    BY <1>1, <1>2
<1>7. QED BY <1>1, <1>4, <1>5, <1>6 DEF Honest, Behind

(* Nothing changes but the position and one of the two lists of lines that  *)
(* are no elements.                                                          *)
LEMMA Notes ==
    ASSUME Honest, at <= Len(text), Reads, UNCHANGED joins,
           \/ x' = [x EXCEPT !.captured = @ \union {at}]
           \/ x' = [x EXCEPT !.unparsed = @ \union {at}]
    PROVE  Honest'
<1>1. Wellformed(x)
    BY DEF Honest
<1>2. /\ DOMAIN x' = Fields /\ x'.ifs = x.ifs /\ x'.nets = x.nets /\ x'.svcs = x.svcs
      /\ x'.netGroups = x.netGroups /\ x'.svcGroups = x.svcGroups
      /\ x'.rules = x.rules /\ x'.nats = x.nats /\ x'.routes = x.routes
      /\ x.captured \subseteq x'.captured /\ x.unparsed \subseteq x'.unparsed
      /\ at \in x'.captured \union x'.unparsed
      /\ x'.captured \in {x.captured, x.captured \union {at}}
      /\ x'.unparsed \in {x.unparsed, x.unparsed \union {at}}
    BY <1>1 DEF Wellformed, Fields
<1>3. Wellformed(x') /\ Grows(x, x') /\ at \in All(x')
  <2>1. IsFiniteSet(x'.captured) /\ IsFiniteSet(x'.unparsed)
    <3>1. IsFiniteSet(x.captured) /\ IsFiniteSet(x.unparsed)
        BY <1>1 DEF Wellformed
    <3>2. IsFiniteSet(x.captured \union {at}) /\ IsFiniteSet(x.unparsed \union {at})
        BY <3>1, FS_AddElement
    <3>3. QED BY <1>2, <3>1, <3>2
  <2>2. QED BY <1>1, <1>2, <2>1 DEF Wellformed, Grows, All
<1>4. QED BY <1>2, <1>3, Walks DEF Honest

(* An element is appended, with the line it was read from.                  *)
LEMMA Appends ==
    ASSUME Honest, at <= Len(text), Reads, IsList(joins'),
           NEW e, e.line = at,
           \/ x' = [x EXCEPT !.ifs = Append(@, e)] /\ IfaceOK(e)
           \/ x' = [x EXCEPT !.svcs = Append(@, e)]
           \/ x' = [x EXCEPT !.nets = Append(@, e)]
           \/ x' = [x EXCEPT !.netGroups = Append(@, e)] /\ IsList(e.members)
           \/ x' = [x EXCEPT !.svcGroups = Append(@, e)] /\ IsList(e.members)
           \/ x' = [x EXCEPT !.rules = Append(@, e)] /\ RuleOK(e) /\ Fresh(e)
           \/ x' = [x EXCEPT !.nats = Append(@, e)]
           \/ x' = [x EXCEPT !.routes = Append(@, e)]
    PROVE  Honest'
<1>1. Wellformed(x)
    BY DEF Honest
<1>2. \A s : IsList(s) => /\ IsList(Append(s, e)) /\ ToSet(Append(s, e)) = ToSet(s) \union {e}
                          /\ LinesOf(s) \subseteq LinesOf(Append(s, e)) /\ at \in LinesOf(Append(s, e))
    BY AppendList, LinesAppend
<1> DEFINE Goal == /\ Wellformed(x') /\ Grows(x, x') /\ at \in All(x')
                   /\ \A r \in ToSet(x'.rules) : r \in ToSet(x.rules) \/ Fresh(r)
           Same(f) == x'[f] = x[f]
<1>3. Goal
  <2>1. CASE x' = [x EXCEPT !.ifs = Append(@, e)] /\ IfaceOK(e)
    <3>1. /\ DOMAIN x' = Fields /\ x'.ifs = Append(x.ifs, e) /\ \A f \in Fields \ {"ifs"} : Same(f)
        BY <1>1, <2>1 DEF Wellformed, Fields
    <3>2. QED BY <1>1, <1>2, <2>1, <3>1, ElementsAre DEF Wellformed, Fields, Grows, All
  <2>2. CASE x' = [x EXCEPT !.svcs = Append(@, e)]
    <3>1. /\ DOMAIN x' = Fields /\ x'.svcs = Append(x.svcs, e) /\ \A f \in Fields \ {"svcs"} : Same(f)
        BY <1>1, <2>2 DEF Wellformed, Fields
    <3>2. QED BY <1>1, <1>2, <2>2, <3>1, ElementsAre DEF Wellformed, Fields, Grows, All
  <2>3. CASE x' = [x EXCEPT !.nets = Append(@, e)]
    <3>1. /\ DOMAIN x' = Fields /\ x'.nets = Append(x.nets, e) /\ \A f \in Fields \ {"nets"} : Same(f)
        BY <1>1, <2>3 DEF Wellformed, Fields
    <3>2. QED BY <1>1, <1>2, <2>3, <3>1, ElementsAre DEF Wellformed, Fields, Grows, All
  <2>4. CASE x' = [x EXCEPT !.netGroups = Append(@, e)] /\ IsList(e.members)
    <3>1. /\ DOMAIN x' = Fields /\ x'.netGroups = Append(x.netGroups, e)
          /\ \A f \in Fields \ {"netGroups"} : Same(f)
        BY <1>1, <2>4 DEF Wellformed, Fields
    <3>2. Wellformed(x')
      <4>1. /\ x'.ifs = x.ifs /\ x'.nets = x.nets /\ x'.svcs = x.svcs /\ x'.svcGroups = x.svcGroups
            /\ x'.rules = x.rules /\ x'.nats = x.nats /\ x'.routes = x.routes
            /\ x'.captured = x.captured /\ x'.unparsed = x.unparsed
          BY <3>1 DEF Fields
      <4>2. IsList(x'.netGroups) /\ \A g \in ToSet(x'.netGroups) : IsList(g.members)
          BY <1>1, <1>2, <2>4, <3>1 DEF Wellformed
      <4>3. QED BY <1>1, <3>1, <4>1, <4>2 DEF Wellformed
    <3>3. Grows(x, x') /\ at \in All(x') /\ x'.rules = x.rules
        BY <1>1, <1>2, <3>1, ElementsAre DEF Wellformed, Fields, Grows, All
    <3>4. QED BY <3>2, <3>3
  <2>5. CASE x' = [x EXCEPT !.svcGroups = Append(@, e)] /\ IsList(e.members)
    <3>1. /\ DOMAIN x' = Fields /\ x'.svcGroups = Append(x.svcGroups, e)
          /\ \A f \in Fields \ {"svcGroups"} : Same(f)
        BY <1>1, <2>5 DEF Wellformed, Fields
    <3>2. Wellformed(x')
      <4>1. /\ x'.ifs = x.ifs /\ x'.nets = x.nets /\ x'.svcs = x.svcs /\ x'.netGroups = x.netGroups
            /\ x'.rules = x.rules /\ x'.nats = x.nats /\ x'.routes = x.routes
            /\ x'.captured = x.captured /\ x'.unparsed = x.unparsed
          BY <3>1 DEF Fields
      <4>2. IsList(x'.svcGroups) /\ \A g \in ToSet(x'.svcGroups) : IsList(g.members)
          BY <1>1, <1>2, <2>5, <3>1 DEF Wellformed
      <4>3. QED BY <1>1, <3>1, <4>1, <4>2 DEF Wellformed
    <3>3. Grows(x, x') /\ at \in All(x') /\ x'.rules = x.rules
        BY <1>1, <1>2, <3>1, ElementsAre DEF Wellformed, Fields, Grows, All
    <3>4. QED BY <3>2, <3>3
  <2>6. CASE x' = [x EXCEPT !.rules = Append(@, e)] /\ RuleOK(e) /\ Fresh(e)
    <3>1. /\ DOMAIN x' = Fields /\ x'.rules = Append(x.rules, e) /\ \A f \in Fields \ {"rules"} : Same(f)
        BY <1>1, <2>6 DEF Wellformed, Fields
    <3>2. QED BY <1>1, <1>2, <2>6, <3>1, ElementsAre DEF Wellformed, Fields, Grows, All
  <2>7. CASE x' = [x EXCEPT !.nats = Append(@, e)]
    <3>1. /\ DOMAIN x' = Fields /\ x'.nats = Append(x.nats, e) /\ \A f \in Fields \ {"nats"} : Same(f)
        BY <1>1, <2>7 DEF Wellformed, Fields
    <3>2. QED BY <1>1, <1>2, <2>7, <3>1, ElementsAre DEF Wellformed, Fields, Grows, All
  <2>8. CASE x' = [x EXCEPT !.routes = Append(@, e)]
    <3>1. /\ DOMAIN x' = Fields /\ x'.routes = Append(x.routes, e) /\ \A f \in Fields \ {"routes"} : Same(f)
        BY <1>1, <2>8 DEF Wellformed, Fields
    <3>2. QED BY <1>1, <1>2, <2>8, <3>1, ElementsAre DEF Wellformed, Fields, Grows, All
  <2>9. QED BY <2>1, <2>2, <2>3, <2>4, <2>5, <2>6, <2>7, <2>8
<1>4. QED BY <1>3, Walks

-----------------------------------------------------------------------------
(* One lemma for each kind of line that does more than append one element.  *)
LEMMA Stays ==
    ASSUME Honest, at <= Len(text), Reads, UNCHANGED <<x, joins>>, Excepted(text, at)
    PROVE  Honest'
<1>1. Wellformed(x) /\ IsList(joins)
    BY DEF Honest
<1>2. Grows(x, x')
    BY DEF Grows
<1>3. QED BY <1>1, <1>2, Walks

LEMMA Inside == ASSUME Honest, at <= Len(text) PROVE at \in DOMAIN text /\ IsList(Block)
BY BodyList DEF Honest, IsList, Block

LEMMA InterfaceHonest == ASSUME Honest, ParseInterface PROVE Honest'
<1>1. at <= Len(text) /\ Reads
    BY DEF ParseInterface, Is, Reads, BlockHead
<1>2. IsList(Joining(Block))
    BY <1>1, Inside, Selected
<1>3. IsList(JoinsOf(Line.name, Joining(Block)))
    BY <1>2, MappedList DEF JoinsOf
<1>4. IsList(joins')
    BY <1>3, ConcatList DEF Honest, ParseInterface
<1>5. x' = [x EXCEPT !.ifs = Append(@, InterfaceOf(Line.name, Block))]
    BY DEF ParseInterface
<1>6. InterfaceOf(Line.name, Block).line = at /\ IfaceOK(InterfaceOf(Line.name, Block))
  <2>1. IsList(Values(Readable(Only(Block, "ip"))))
      BY <1>1, Inside, Selected
  <2>2. QED BY <2>1 DEF InterfaceOf, IfaceOK
<1>7. QED BY <1>1, <1>4, <1>5, <1>6, Appends

LEMMA NetworkHonest == ASSUME Honest, ParseObjectNetwork PROVE Honest'
<1> DEFINE values == Readable(Only(Block, "value"))
           nats == Only(Block, "onat")
           good == Understood(nats)
           e == [line |-> at, name |-> Line.name, value |-> Last(values).v]
           news == [j \in DOMAIN good |-> ParseObjectNAT(Line.name, good[j])]
<1>1. at <= Len(text) /\ Reads /\ at \in DOMAIN text /\ UNCHANGED joins /\ Wellformed(x) /\ IsList(joins)
    BY Inside DEF ParseObjectNetwork, Is, Honest, locals, Reads, BlockHead
<1>2. IsList(nats) /\ IsList(good)
    BY <1>1, Inside, Selected
<1>3. /\ IsList(news) /\ DOMAIN news = DOMAIN good
      /\ \A j \in DOMAIN good : news[j].line = at
  <2>1. news = [j \in DOMAIN good |-> news[j]]
      OBVIOUS
  <2>2. IsList(news) /\ DOMAIN news = DOMAIN good
    <3> HIDE DEF news, good
    <3>1. QED BY <1>2, <2>1, MappedList
  <2>3. \A j \in DOMAIN good : ParseObjectNAT(Line.name, good[j]).line = at
      BY DEF ParseObjectNAT
  <2>4. \A j \in DOMAIN good : news[j] = ParseObjectNAT(Line.name, good[j])
      OBVIOUS
  <2>5. QED
    <3> HIDE DEF news, good
    <3>1. QED BY <2>2, <2>3, <2>4
<1>4. x' = [x EXCEPT !.nets = IF values = <<>> THEN @ ELSE Append(@, e),
                     !.nats = @ \o news,
                     !.unparsed = IF good = nats THEN @ ELSE @ \union {at}]
    BY DEF ParseObjectNetwork
<1>5. /\ DOMAIN x' = Fields
      /\ x'.nets = IF values = <<>> THEN x.nets ELSE Append(x.nets, e)
      /\ x'.nats = x.nats \o news
      /\ x'.unparsed = IF good = nats THEN x.unparsed ELSE x.unparsed \union {at}
      /\ x'.ifs = x.ifs /\ x'.svcs = x.svcs /\ x'.netGroups = x.netGroups /\ x'.svcGroups = x.svcGroups
      /\ x'.rules = x.rules /\ x'.routes = x.routes /\ x'.captured = x.captured
  <2> HIDE DEF values, e, news, good, nats
  <2>1. QED BY <1>1, <1>4 DEF Wellformed, Fields
<1> HIDE DEF e, news
<1>6. IsList(Append(x.nets, e)) /\ LinesOf(Append(x.nets, e)) = LinesOf(x.nets) \union {at}
  <2>1. e.line = at
      BY DEF e
  <2>2. QED BY <1>1, <2>1, AppendList, LinesAppend DEF Wellformed
<1>7. IsList(x.nats \o news) /\ LinesOf(x.nats \o news) = LinesOf(x.nats) \union LinesOf(news)
    BY <1>1, <1>3, ConcatList, LinesConcat DEF Wellformed
<1> HIDE DEF values, good, nats
<1>8. Wellformed(x') /\ Grows(x, x')
  <2>1. IsFiniteSet(x'.unparsed)
    <3>1. IsFiniteSet(x.unparsed) /\ x'.unparsed \in {x.unparsed, x.unparsed \union {at}}
        BY <1>1, <1>5 DEF Wellformed
    <3>2. IsFiniteSet(x.unparsed \union {at})
        BY <3>1, FS_AddElement
    <3>3. QED BY <3>1, <3>2
  <2>2. QED BY <1>1, <1>5, <1>6, <1>7, <2>1 DEF Wellformed, Grows
<1>9. Excepted(text, at) \/ at \in All(x')
  <2>1. CASE good # nats
      BY <1>5, <2>1 DEF All
  <2>2. CASE values # <<>>
      BY <1>5, <1>6, <2>2, ElementsAre DEF All
  <2>3. CASE values = <<>> /\ nats = <<>>
      BY <2>3 DEF Excepted, values, nats, Block, ParseObjectNetwork, Is
  <2>4. CASE good = nats /\ nats # <<>>
    <3>1. 1 \in DOMAIN good
        BY <1>2, <2>4 DEF IsList
    <3>2. news[1] \in ToSet(news) /\ news[1].line = at
        BY <1>3, <3>1 DEF ToSet
    <3>3. at \in LinesOf(news)
        BY <3>2 DEF LinesOf
    <3>4. QED BY <1>5, <1>7, <3>3, ElementsAre DEF All
  <2>5. QED BY <2>1, <2>2, <2>3, <2>4
<1>10. QED BY <1>1, <1>5, <1>8, <1>9, Walks

LEMMA ServiceHonest == ASSUME Honest, ParseObjectService PROVE Honest'
<1>1. at <= Len(text) /\ Reads /\ UNCHANGED joins /\ IsList(joins)
    BY DEF ParseObjectService, Is, Honest, locals, Reads, BlockHead
<1>2. CASE Only(Block, "spec") = <<>>
  <2>1. x' = x /\ Excepted(text, at)
      BY <1>2 DEF ParseObjectService, Excepted, Block, Is
  <2>2. QED BY <1>1, <2>1, Stays
<1>3. CASE Only(Block, "spec") # <<>>
  <2>1. PICK e : e.line = at /\ x' = [x EXCEPT !.svcs = Append(@, e)]
      BY <1>3 DEF ParseObjectService
  <2>2. QED BY <1>1, <2>1, Appends
<1>4. QED BY <1>2, <1>3

LEMMA GroupHonest == ASSUME Honest, ParseObjectGroup PROVE Honest'
<1>1. at <= Len(text) /\ Reads /\ UNCHANGED joins /\ IsList(joins)
    BY DEF ParseObjectGroup, Is, Honest, locals, Reads, BlockHead
<1>2. CASE Line.of = "network"
  <2>1. PICK e : e.line = at /\ IsList(e.members) /\ x' = [x EXCEPT !.netGroups = Append(@, e)]
    <3>1. IsList(ParseNetMembers(Block))
        BY <1>1, Inside, Selected
    <3>2. QED BY <1>2, <3>1 DEF ParseObjectGroup
  <2>2. QED BY <1>1, <2>1, Appends
<1>3. CASE Line.of = "service"
  <2>1. PICK e : e.line = at /\ IsList(e.members) /\ x' = [x EXCEPT !.svcGroups = Append(@, e)]
    <3>1. IsList(ParseSvcMembers(Line.proto, Block))
        BY <1>1, Inside, Selected
    <3>2. QED BY <1>3, <3>1 DEF ParseObjectGroup
  <2>2. QED BY <1>1, <2>1, Appends
<1>4. CASE Line.of \notin {"network", "service"}
  <2>1. \/ x' = [x EXCEPT !.captured = @ \union {at}]
        \/ x' = [x EXCEPT !.unparsed = @ \union {at}]
      BY <1>4 DEF ParseObjectGroup
  <2>2. QED BY <1>1, <2>1, Notes
<1>5. QED BY <1>2, <1>3, <1>4

(* The commands of one line. *)
LEMMA LineHonest ==
    ASSUME Honest, ParseName \/ ParseRemark \/ ParseRule \/ ParseAccessGroup \/ ParseNAT \/ ParseRoute
    PROVE  Honest'
<1>1. at <= Len(text) /\ Reads /\ UNCHANGED joins /\ IsList(joins)
    BY DEF ParseName, ParseRemark, ParseRule, ParseAccessGroup, ParseNAT, ParseRoute, Is, Honest, locals, Reads,
       BlockHead
<1>2. CASE ParseName
  <2>1. PICK e : e.line = at /\ x' = [x EXCEPT !.nets = Append(@, e)]
      BY <1>2 DEF ParseName
  <2>2. QED BY <1>1, <2>1, Appends
<1>3. CASE ParseRemark \/ ParseAccessGroup
  <2>1. x' = x /\ Excepted(text, at)
      BY <1>3 DEF ParseRemark, ParseAccessGroup, Is, Excepted
  <2>2. QED BY <1>1, <2>1, Stays
<1>4. CASE ParseRule
  <2>1. CASE AceOk(Line)
    <3>1. x' = [x EXCEPT !.rules = Append(@, ParseACL(Line))]
        BY <1>4, <2>1 DEF ParseRule
    <3>2. /\ ParseACL(Line).line = at /\ at \in Nat /\ {"line", "from", "to"} \subseteq DOMAIN ParseACL(Line)
          /\ ParseACL(Line).from = <<>> /\ ParseACL(Line).to = <<>>
        BY DEF ParseACL, Honest
    <3>3. RuleOK(ParseACL(Line)) /\ Fresh(ParseACL(Line))
        BY <3>2 DEF RuleOK, Fresh, Unbound
    <3>4. QED BY <1>1, <3>1, <3>2, <3>3, Appends
  <2>2. CASE ~AceOk(Line)
      BY <1>1, <1>4, <2>2, Notes DEF ParseRule
  <2>3. QED BY <2>1, <2>2
<1>5. CASE ParseNAT
  <2>1. CASE Line.source
    <3>1. x' = [x EXCEPT !.nats = Append(@, ParseManualNAT(Line))]
        BY <1>5, <2>1 DEF ParseNAT
    <3>2. ParseManualNAT(Line).line = at
        BY DEF ParseManualNAT
    <3>3. QED BY <1>1, <3>1, <3>2, Appends
  <2>2. CASE ~Line.source
      BY <1>1, <1>5, <2>2, Notes DEF ParseNAT
  <2>3. QED BY <2>1, <2>2
<1>6. CASE ParseRoute
  <2>1. CASE Line.ok
    <3>1. PICK e : e.line = at /\ x' = [x EXCEPT !.routes = Append(@, e)]
        BY <1>6, <2>1 DEF ParseRoute
    <3>2. QED BY <1>1, <3>1, Appends
  <2>2. CASE ~Line.ok
      BY <1>1, <1>6, <2>2, Notes DEF ParseRoute
  <2>3. QED BY <2>1, <2>2
<1>7. QED BY <1>2, <1>3, <1>4, <1>5, <1>6

(* What changes elements in place keeps their lines. *)
LEMMA MappedLines ==
    ASSUME NEW s, IsList(s), NEW f, f = [j \in DOMAIN s |-> f[j]],
           \A j \in DOMAIN s : f[j].line = s[j].line
    PROVE  IsList(f) /\ LinesOf(f) = LinesOf(s) /\ ToSet(f) = {f[j] : j \in DOMAIN s}
<1>1. IsList(f) /\ DOMAIN f = DOMAIN s
    BY MappedList
<1>2. \A t : LinesOf(t) = {t[j].line : j \in DOMAIN t}
    BY DEF LinesOf, ToSet
<1>3. {f[j].line : j \in DOMAIN f} = {s[j].line : j \in DOMAIN s}
    BY <1>1
<1>4. LinesOf(f) = LinesOf(s)
    BY <1>2, <1>3
<1>5. QED BY <1>1, <1>4 DEF ToSet

LEMMA MtuHonest == ASSUME Honest, ParseMTU PROVE Honest'
<1>1. at <= Len(text) /\ Reads /\ UNCHANGED joins /\ IsList(joins) /\ Wellformed(x) /\ Excepted(text, at)
    BY DEF ParseMTU, Is, Honest, locals, Excepted, Reads, BlockHead
<1> DEFINE f == [j \in DOMAIN x.ifs |->
                    IF x.ifs[j].alias = Line.iface THEN [x.ifs[j] EXCEPT !.mtu = Line.v] ELSE x.ifs[j]]
<1>2. x' = [x EXCEPT !.ifs = f]
    BY DEF ParseMTU
<1>3. \A j \in DOMAIN x.ifs : IfaceOK(f[j]) /\ f[j].line = x.ifs[j].line
  <2>1. SUFFICES ASSUME NEW j \in DOMAIN x.ifs
                 PROVE  IfaceOK(f[j]) /\ f[j].line = x.ifs[j].line
      OBVIOUS
  <2>2. IfaceOK(x.ifs[j])
      BY <1>1 DEF Wellformed, ToSet
  <2>3. QED BY <2>2 DEF IfaceOK
<1>4. f = [j \in DOMAIN x.ifs |-> f[j]]
    OBVIOUS
<1> HIDE DEF f
<1>5. IsList(f) /\ LinesOf(f) = LinesOf(x.ifs) /\ \A i \in ToSet(f) : IfaceOK(i)
  <2>1. IsList(x.ifs) /\ \A j \in DOMAIN x.ifs : f[j].line = x.ifs[j].line
      BY <1>1, <1>3 DEF Wellformed
  <2>2. IsList(f) /\ LinesOf(f) = LinesOf(x.ifs) /\ ToSet(f) = {f[j] : j \in DOMAIN x.ifs}
      BY <1>4, <2>1, MappedLines
  <2>3. QED BY <1>3, <2>2
<1>6. /\ DOMAIN x' = Fields /\ x'.ifs = f
      /\ x'.nets = x.nets /\ x'.svcs = x.svcs /\ x'.netGroups = x.netGroups /\ x'.svcGroups = x.svcGroups
      /\ x'.rules = x.rules /\ x'.nats = x.nats /\ x'.routes = x.routes
      /\ x'.captured = x.captured /\ x'.unparsed = x.unparsed
    BY <1>1, <1>2 DEF Wellformed, Fields
<1>7. Wellformed(x') /\ Grows(x, x')
    BY <1>1, <1>5, <1>6 DEF Wellformed, Grows
<1>8. QED BY <1>1, <1>6, <1>7, Walks

LEMMA OtherHonest == ASSUME Honest, Capture \/ ParseOther PROVE Honest'
<1>1. at <= Len(text) /\ Reads /\ UNCHANGED joins
    BY DEF Capture, ParseOther, Is, locals, Reads, BlockHead, Commands, Line
<1>2. CASE Capture
    BY <1>1, <1>2, Notes DEF Capture
<1>3. CASE ParseOther
  <2>1. CASE Blank(Line)
    <3>1. x' = x /\ Excepted(text, at)
        BY <1>3, <2>1 DEF ParseOther, Excepted, Line
    <3>2. QED BY <1>1, <3>1, Stays
  <2>2. CASE ~Blank(Line)
      BY <1>1, <1>3, <2>2, Notes DEF ParseOther
  <2>3. QED BY <2>1, <2>2
<1>4. QED BY <1>2, <1>3

(* Bundles that lines have named are finitely many, so their lists end.     *)
LEMMA BundlesList ==
    ASSUME NEW ifs, NEW k, NEW kind, IsList(joins), NEW b \in NewBundles(ifs, k, kind)
    PROVE  IsList(b)
<1> DEFINE named == {j.bundle : j \in ToSet(joins)}
<1>1. DOMAIN joins = 1..Len(joins) /\ Len(joins) \in Nat
    BY DEF IsList
<1>2. IsFiniteSet(named)
  <2> DEFINE g == [i \in 1..Len(joins) |-> joins[i].bundle]
  <2>1. g \in [1..Len(joins) -> named]
      BY <1>1 DEF ToSet
  <2>2. \A e \in named : \E i \in 1..Len(joins) : g[i] = e
      BY <1>1 DEF ToSet
  <2>3. ExistsSurjection(1..Len(joins), named)
      BY <2>1, <2>2 DEF ExistsSurjection, Surjection
  <2>4. QED BY <1>1, <2>3, FS_NatSurjection
<1>3. Missing(ifs, k) \subseteq named
    BY DEF Missing, ToSet
<1>4. Cardinality(Missing(ifs, k)) \in Nat
    BY <1>2, <1>3, FS_Subset, FS_CardinalityType
<1>5. PICK order \in SetToSeqs(Missing(ifs, k)) : b = [j \in DOMAIN order |-> NewBundle(order[j], kind)]
    BY DEF NewBundles
<1>6. order \in [1..Cardinality(Missing(ifs, k)) -> Missing(ifs, k)]
    BY <1>5 DEF SetToSeqs
<1>7. IsList(order)
  <2>1. order \in Seq(Missing(ifs, k))
      BY <1>4, <1>6, SeqDef
  <2>2. DOMAIN order = 1..Len(order) /\ Len(order) \in Nat
      BY <2>1
  <2>3. order \in [1..Len(order) -> ToSet(order)]
      BY <1>6, <2>2 DEF ToSet
  <2>4. QED BY <2>2, <2>3, SeqDef DEF IsList
<1>8. QED BY <1>5, <1>7, MappedList

(* An interface that the bundles name first has no addresses. *)
LEMMA BundlesOK ==
    ASSUME NEW ifs, NEW k, NEW kind, NEW b \in NewBundles(ifs, k, kind), NEW i \in ToSet(b)
    PROVE  IfaceOK(i)
<1>1. PICK order : b = [j \in DOMAIN order |-> NewBundle(order[j], kind)]
    BY DEF NewBundles
<1>2. PICK j \in DOMAIN order : i = NewBundle(order[j], kind)
    BY <1>1 DEF ToSet
<1>3. IsList(<<>>)
    BY DEF IsList, ToSet
<1>4. QED BY <1>2, <1>3 DEF NewBundle, IfaceOK

LEMMA CloseHonest == ASSUME Honest, Close PROVE Honest'
<1>1. /\ at = Len(text) + 1 /\ at' = at + 1 /\ UNCHANGED <<text, joins>>
      /\ IsList(text) /\ IsList(joins) /\ Wellformed(x) /\ Len(text) \in Nat /\ DOMAIN text = 1..Len(text)
    BY DEF Close, Honest, IsList
<1>2. PICK bridges \in NewBundles(x.ifs, "bridge-group", "bridge"),
           channels \in NewBundles(x.ifs, "channel-group", "aggregate") :
          x' = [x EXCEPT !.ifs = Attach(@) \o bridges \o channels,
                         !.rules = [j \in DOMAIN @ |-> Bound(@[j])]]
    BY DEF Close
<1> DEFINE rules == [j \in DOMAIN x.rules |-> Bound(x.rules[j])]
           ifs == Attach(x.ifs) \o bridges \o channels
<1>3. /\ IsList(Attach(x.ifs)) /\ LinesOf(Attach(x.ifs)) = LinesOf(x.ifs)
      /\ \A i \in ToSet(Attach(x.ifs)) : IfaceOK(i)
  <2>1. Attach(x.ifs) = [j \in DOMAIN x.ifs |-> Attach(x.ifs)[j]]
      BY DEF Attach
  <2>2. ASSUME NEW j \in DOMAIN x.ifs
        PROVE  IfaceOK(Attach(x.ifs)[j]) /\ Attach(x.ifs)[j].line = x.ifs[j].line
    <3>1. IfaceOK(x.ifs[j])
        BY <1>1 DEF Wellformed, ToSet
    <3>2. Attach(x.ifs)[j] = IF IsLastOf(x.ifs, j)
                             THEN [x.ifs[j] EXCEPT !.members = @ \o MembersOf(x.ifs[j].name)] ELSE x.ifs[j]
        BY DEF Attach
    <3>3. /\ DOMAIN Attach(x.ifs)[j] = DOMAIN x.ifs[j]
          /\ \A k \in DOMAIN x.ifs[j] \ {"members"} : Attach(x.ifs)[j][k] = x.ifs[j][k]
        BY <3>2
    <3>4. QED BY <3>1, <3>3 DEF IfaceOK
  <2>3. IsList(x.ifs) /\ \A j \in DOMAIN x.ifs : Attach(x.ifs)[j].line = x.ifs[j].line
      BY <1>1, <2>2 DEF Wellformed
  <2>4. /\ IsList(Attach(x.ifs)) /\ LinesOf(Attach(x.ifs)) = LinesOf(x.ifs)
        /\ ToSet(Attach(x.ifs)) = {Attach(x.ifs)[j] : j \in DOMAIN x.ifs}
      BY <2>1, <2>3, MappedLines
  <2>5. QED BY <2>2, <2>4
<1>4. /\ IsList(rules) /\ LinesOf(rules) = LinesOf(x.rules)
      /\ \A r \in ToSet(rules) : RuleOK(r) /\ r.line < at
  <2>1. ASSUME NEW j \in DOMAIN x.rules
        PROVE  /\ RuleOK(Bound(x.rules[j])) /\ Bound(x.rules[j]).line = x.rules[j].line
               /\ x.rules[j].line < at
    <3>1. RuleOK(x.rules[j]) /\ Behind(x.rules[j])
        BY <1>1 DEF Wellformed, Honest, ToSet
    <3>2. /\ {"line", "from", "to"} \subseteq DOMAIN x.rules[j] /\ x.rules[j].line \in Nat
          /\ x.rules[j].from = <<>> /\ x.rules[j].to = <<>> /\ x.rules[j].line < at
        BY <1>1, <3>1 DEF RuleOK, Behind, Unbound
    <3>3. \A z : Len(<<z>>) = 1 /\ Len(<<>>) = 0
        OBVIOUS
    <3>4. /\ {"line", "from", "to"} \subseteq DOMAIN Bound(x.rules[j])
          /\ Bound(x.rules[j]).line = x.rules[j].line
          /\ \/ Bound(x.rules[j]).from = <<>> /\ Bound(x.rules[j]).to = <<>>
             \/ Bound(x.rules[j]).from = <<>> /\ \E z : Bound(x.rules[j]).to = <<z>>
             \/ Bound(x.rules[j]).to = <<>> /\ \E z : Bound(x.rules[j]).from = <<z>>
        BY <3>2 DEF Bound
    <3>5. Len(Bound(x.rules[j]).from) + Len(Bound(x.rules[j]).to) <= 1
      <4> HIDE DEF Bound
      <4>1. \A u, v : /\ (u = <<>> /\ v = <<>>) \/ (u = <<>> /\ \E z : v = <<z>>) \/ (v = <<>> /\ \E z : u = <<z>>)
                    => Len(u) + Len(v) <= 1
          BY <3>3
      <4>2. QED BY <3>4, <4>1, Zenon
    <3>6. QED BY <3>2, <3>4, <3>5 DEF RuleOK
  <2>2. rules = [j \in DOMAIN x.rules |-> rules[j]] /\ \A j \in DOMAIN x.rules : rules[j] = Bound(x.rules[j])
      OBVIOUS
  <2> HIDE DEF rules
  <2>3. IsList(rules) /\ LinesOf(rules) = LinesOf(x.rules) /\ ToSet(rules) = {rules[j] : j \in DOMAIN x.rules}
    <3>1. IsList(x.rules) /\ \A j \in DOMAIN x.rules : rules[j].line = x.rules[j].line
        BY <1>1, <2>1, <2>2 DEF Wellformed
    <3>2. rules = [j \in DOMAIN x.rules |-> rules[j]]
        BY <2>2
    <3>3. QED BY <3>1, <3>2, MappedLines
  <2>4. QED BY <2>1, <2>2, <2>3
<1>5. IsList(bridges) /\ IsList(channels) /\ \A i \in ToSet(bridges) \union ToSet(channels) : IfaceOK(i)
    BY <1>1, BundlesList, BundlesOK
<1>6. /\ IsList(ifs) /\ LinesOf(x.ifs) \subseteq LinesOf(ifs)
      /\ \A i \in ToSet(ifs) : IfaceOK(i)
  <2>1. /\ IsList(Attach(x.ifs) \o bridges) /\ LinesOf(x.ifs) \subseteq LinesOf(Attach(x.ifs) \o bridges)
        /\ ToSet(Attach(x.ifs) \o bridges) = ToSet(Attach(x.ifs)) \union ToSet(bridges)
      BY <1>3, <1>5, ConcatList, LinesConcat
  <2>2. /\ IsList(ifs) /\ LinesOf(Attach(x.ifs) \o bridges) \subseteq LinesOf(ifs)
        /\ ToSet(ifs) = ToSet(Attach(x.ifs) \o bridges) \union ToSet(channels)
      BY <1>5, <2>1, ConcatList, LinesConcat
  <2>3. QED BY <1>3, <1>5, <2>1, <2>2
<1>7. /\ DOMAIN x' = Fields /\ x'.ifs = ifs /\ x'.rules = rules
      /\ x'.nets = x.nets /\ x'.svcs = x.svcs /\ x'.netGroups = x.netGroups /\ x'.svcGroups = x.svcGroups
      /\ x'.nats = x.nats /\ x'.routes = x.routes
      /\ x'.captured = x.captured /\ x'.unparsed = x.unparsed
    BY <1>1, <1>2 DEF Wellformed, Fields
<1> HIDE DEF rules, ifs
<1>8. All(x) \subseteq All(x') /\ Wellformed(x')
    BY <1>1, <1>4, <1>6, <1>7, GrowsAll DEF Grows, Wellformed
<1>9. Accounted(x', text', at') /\ Sealed(text', at')
  <2>1. \A h \in DOMAIN text : End(text, h) <= Len(text) + 1 /\ End(text, h) \in Nat
      BY <1>1, BlockEnds
  <2>2. QED BY <1>1, <1>8, <2>1 DEF Honest, Accounted, Sealed
<1>10. ASSUME NEW r \in ToSet(x'.rules) PROVE Behind(r)'
  <2>1. RuleOK(r) /\ r.line < at
      BY <1>4, <1>7
  <2>2. r.line \in Nat /\ r.line < at /\ at \in Nat /\ ~(at' <= Len(text') + 1) /\ r.line < at'
      BY <1>1, <2>1 DEF RuleOK
  <2>3. QED BY <2>2 DEF Behind
<1>11. at' \in 1..(Len(text') + 2)
    BY <1>1
<1>12. QED BY <1>1, <1>8, <1>9, <1>10, <1>11 DEF Honest

-----------------------------------------------------------------------------
(* What is written is a list of lines, whatever is written.                 *)
LEMMA ShortLists ==
    /\ IsList(<<>>) /\ \A a : IsList(<<a>>) /\ \A b : IsList(<<a, b>>)
<1>1. <<>> \in Seq({})
    OBVIOUS
<1>2. ASSUME NEW a PROVE IsList(<<a>>) /\ \A b : IsList(<<a, b>>)
  <2>1. <<a>> \in Seq({a})
      OBVIOUS
  <2>2. \A b : <<a, b>> \in Seq({a, b})
      OBVIOUS
  <2>3. QED BY <2>1, <2>2, SeqIsList
<1>3. QED BY <1>1, <1>2, SeqIsList

-----------------------------------------------------------------------------
(* Where what is written stands: list after list, from starts that add up.  *)
Laid(s, t, st) ==
    /\ st \in [1..(Len(s) + 1) -> Nat \ {0}]
    /\ st[1] = 1 /\ st[Len(s) + 1] = Len(t) + 1
    /\ \A m \in 1..Len(s) :
          /\ st[m + 1] = st[m] + Len(s[m])
          /\ \A i \in 1..Len(s[m]) : t[st[m] + i - 1] = s[m][i]

LEMMA ConcatAt ==
    ASSUME NEW s, IsList(s), NEW t, IsList(t)
    PROVE  /\ Len(s) \in Nat /\ Len(t) \in Nat /\ Len(s \o t) = Len(s) + Len(t)
           /\ \A i \in 1..Len(s) : (s \o t)[i] = s[i]
           /\ \A i \in 1..Len(t) : (s \o t)[Len(s) + i] = t[i]
<1>1. s \in Seq(ToSet(s) \union ToSet(t)) /\ t \in Seq(ToSet(s) \union ToSet(t))
    BY SeqMonotonic DEF IsList
<1>2. /\ Len(s \o t) = Len(s) + Len(t)
      /\ \A j \in 1..(Len(s) + Len(t)) : (s \o t)[j] = IF j <= Len(s) THEN s[j] ELSE t[j - Len(s)]
    BY <1>1, ConcatProperties
<1>3. Len(s) \in Nat /\ Len(t) \in Nat
    BY <1>1
<1>4. \A i \in 1..Len(s) : i \in 1..(Len(s) + Len(t)) /\ i <= Len(s)
    BY <1>3
<1>5. \A i \in 1..Len(t) : /\ Len(s) + i \in 1..(Len(s) + Len(t)) /\ ~(Len(s) + i <= Len(s))
                            /\ (Len(s) + i) - Len(s) = i
    BY <1>3
<1>6. QED BY <1>2, <1>3, <1>4, <1>5

LEMMA FlattenAt ==
    ASSUME NEW s, IsList(s), \A j \in DOMAIN s : IsList(s[j])
    PROVE  \E st : Laid(s, FlattenSeq(s), st)
<1> DEFINE n == Len(s)
           S == UNION {ToSet(s[j]) : j \in DOMAIN s}
<1>1. n \in Nat /\ DOMAIN s = 1..n
    BY DEF IsList
<1>2. CASE s = <<>>
  <2> DEFINE st == [m \in 1..1 |-> 1]
  <2>1. FlattenSeq(s) = <<>> /\ n = 0 /\ Len(<<>>) = 0
      BY <1>2 DEF FlattenSeq
  <2>2. st \in [1..(0 + 1) -> Nat \ {0}] /\ st[1] = 1 /\ st[0 + 1] = 0 + 1 /\ 1..0 = {}
      OBVIOUS
  <2> HIDE DEF st
  <2>3. QED BY <2>1, <2>2 DEF Laid
<1>3. CASE s # <<>>
  <2>1. ASSUME NEW j \in DOMAIN s PROVE s[j] \in Seq(S)
      BY SeqMonotonic DEF IsList
  <2> HIDE DEF S
  <2>2. PICK g : /\ g \in [1..n -> Seq(S)] /\ g[1] = s[1] /\ FlattenSeq(s) = g[n]
                 /\ \A k \in 2..n : g[k] = g[k - 1] \o s[k]
      BY <1>3, <2>1, FlattenAre
  <2>3. n > 0 /\ \A k \in 1..n : g[k] \in Seq(S) /\ Len(g[k]) \in Nat /\ s[k] \in Seq(S) /\ Len(s[k]) \in Nat
      BY <1>1, <1>3, <2>1, <2>2 DEF IsList
  <2>4. \A k \in 2..n : /\ k - 1 \in 1..n /\ k \in 1..n
                        /\ Len(g[k]) = Len(g[k - 1]) + Len(s[k])
                        /\ \A i \in 1..Len(g[k - 1]) : g[k][i] = g[k - 1][i]
                        /\ \A i \in 1..Len(s[k]) : g[k][Len(g[k - 1]) + i] = s[k][i]
    <3>1. SUFFICES ASSUME NEW k \in 2..n
                   PROVE  /\ k - 1 \in 1..n /\ k \in 1..n
                          /\ Len(g[k]) = Len(g[k - 1]) + Len(s[k])
                          /\ \A i \in 1..Len(g[k - 1]) : g[k][i] = g[k - 1][i]
                          /\ \A i \in 1..Len(s[k]) : g[k][Len(g[k - 1]) + i] = s[k][i]
        OBVIOUS
    <3>2. k - 1 \in 1..n /\ k \in 1..n
        BY <1>1
    <3>3. g[k] = g[k - 1] \o s[k] /\ g[k - 1] \in Seq(S) /\ s[k] \in Seq(S)
        BY <2>2, <2>3, <3>2
    <3>4. IsList(g[k - 1]) /\ IsList(s[k])
        BY <3>3, SeqIsList
    <3> DEFINE a == g[k - 1]
               b == s[k]
    <3>5. /\ Len(a \o b) = Len(a) + Len(b)
          /\ \A i \in 1..Len(a) : (a \o b)[i] = a[i]
          /\ \A i \in 1..Len(b) : (a \o b)[Len(a) + i] = b[i]
      <4> HIDE DEF a, b
      <4>1. IsList(a) /\ IsList(b)
          BY <3>4 DEF a, b
      <4>2. QED BY <4>1, ConcatAt
    <3>6. QED BY <3>2, <3>3, <3>5
  <2> DEFINE Prefix(a, b) == Len(a) <= Len(b) /\ \A i \in 1..Len(a) : b[i] = a[i]
             U == {k \in 0..n : \A m \in 1..n : m <= k => Prefix(g[m], g[k])}
  <2>5. 0 \in U
      BY <1>1
  <2>6. ASSUME NEW k \in 0..n, k \in U, k < n PROVE k + 1 \in U
    <3>1. k + 1 \in 1..n /\ (k + 1) - 1 = k
        BY <1>1, <2>6
    <3>2. SUFFICES ASSUME NEW m \in 1..n, m <= k + 1 PROVE Prefix(g[m], g[k + 1])
        BY <3>1
    <3>3. CASE m = k + 1
        BY <2>3, <3>1, <3>3
    <3>4. CASE m <= k
      <4>1. k + 1 \in 2..n /\ k \in 1..n
          BY <1>1, <3>1, <3>4
      <4>2. Prefix(g[m], g[k])
          BY <2>6, <3>4
      <4>3. Len(g[k + 1]) = Len(g[k]) + Len(s[k + 1]) /\ \A i \in 1..Len(g[k]) : g[k + 1][i] = g[k][i]
        <5>1. /\ Len(g[k + 1]) = Len(g[(k + 1) - 1]) + Len(s[k + 1])
              /\ \A i \in 1..Len(g[(k + 1) - 1]) : g[k + 1][i] = g[(k + 1) - 1][i]
            BY <2>4, <4>1
        <5>2. QED BY <3>1, <5>1
      <4> DEFINE a == g[m]
                 b == g[k]
                 e == g[k + 1]
                 la == Len(a)
                 lb == Len(b)
                 le == Len(e)
                 ls == Len(s[k + 1])
      <4>4. la \in Nat /\ lb \in Nat /\ ls \in Nat /\ le = lb + ls
          BY <2>3, <3>1, <4>1, <4>3
      <4>5. la <= lb /\ \A i \in 1..la : b[i] = a[i]
          BY <4>2
      <4>6. \A i \in 1..lb : e[i] = b[i]
          BY <4>3
      <4>7. la <= le /\ \A i \in 1..la : e[i] = a[i]
        <5> HIDE DEF a, b, e, la, lb, le, ls
        <5>1. la <= le
            BY <4>4, <4>5
        <5>2. \A i \in 1..la : i \in 1..lb
            BY <4>4, <4>5
        <5>3. QED BY <4>5, <4>6, <5>1, <5>2
      <4>8. QED BY <4>7
    <3>5. QED BY <1>1, <3>2, <3>3, <3>4
  <2>7. \A m \in 1..n : Prefix(g[m], g[n])
    <3>1. 0..n \subseteq U
      <4> HIDE DEF U
      <4>1. QED BY <1>1, <2>5, <2>6, UpTo
    <3>2. n \in U
        BY <1>1, <3>1
    <3>3. QED BY <1>1, <3>2
  <2> DEFINE t == FlattenSeq(s)
             st == [m \in 1..(n + 1) |-> IF m = 1 THEN 1 ELSE Len(g[m - 1]) + 1]
  <2>8. /\ st \in [1..(n + 1) -> Nat \ {0}] /\ st[1] = 1
        /\ \A m \in 1..n : st[m + 1] = Len(g[m]) + 1
    <3>1. \A m \in 1..(n + 1) : m # 1 => m - 1 \in 1..n
        BY <1>1
    <3>2. \A m \in 1..n : m + 1 \in 1..(n + 1) /\ m + 1 # 1 /\ (m + 1) - 1 = m /\ m \in 1..(n + 1)
        BY <1>1
    <3>3. 1 \in 1..(n + 1)
        BY <1>1
    <3>4. QED BY <2>3, <3>1, <3>2, <3>3
  <2>9. st[n + 1] = Len(t) + 1
      BY <1>1, <2>2, <2>3, <2>8
  <2>10. ASSUME NEW m \in 1..n
         PROVE  /\ st[m + 1] = st[m] + Len(s[m])
                /\ \A i \in 1..Len(s[m]) : t[st[m] + i - 1] = s[m][i]
    <3> HIDE DEF st, Prefix
    <3>1. Prefix(g[m], t) /\ Len(s[m]) \in Nat /\ Len(g[m]) \in Nat
        BY <2>2, <2>3, <2>7
    <3>2. CASE m = 1
      <4>1. st[m + 1] = Len(s[m]) + 1 /\ st[m] = 1
          BY <2>2, <2>8, <3>2
      <4>2. \A i \in 1..Len(s[m]) : st[m] + i - 1 = i /\ t[i] = s[m][i]
          BY <2>2, <3>1, <3>2, <4>1 DEF Prefix
      <4>3. QED BY <3>1, <4>1, <4>2
    <3>3. CASE m # 1
      <4>1. m \in 2..n /\ m - 1 \in 1..n /\ (m - 1) + 1 = m
          BY <1>1, <3>3
      <4>2. st[m] = Len(g[m - 1]) + 1 /\ st[m + 1] = Len(g[m]) + 1 /\ Len(g[m]) = Len(g[m - 1]) + Len(s[m])
          BY <2>4, <2>8, <4>1
      <4>3. Len(g[m - 1]) \in Nat
          BY <2>3, <4>1
      <4> DEFINE lp == Len(g[m - 1])
                 ls == Len(s[m])
                 lm == Len(g[m])
      <4>4. /\ lp \in Nat /\ ls \in Nat /\ lm = lp + ls /\ st[m] = lp + 1
            /\ \A i \in 1..ls : g[m][lp + i] = s[m][i]
            /\ \A i \in 1..lm : t[i] = g[m][i]
          BY <2>4, <3>1, <4>1, <4>2, <4>3 DEF Prefix
      <4> HIDE DEF lp, lm
      <4>5. ASSUME NEW i \in 1..ls PROVE t[st[m] + i - 1] = s[m][i]
        <5>1. st[m] + i - 1 = lp + i /\ lp + i \in 1..lm
          <6>1. lp \in Nat /\ ls \in Nat /\ lm = lp + ls /\ st[m] = lp + 1
              BY <4>4
          <6> HIDE DEF ls
          <6>2. QED BY <6>1
        <5>2. QED BY <4>4, <5>1
      <4>6. st[m + 1] = st[m] + ls
        <5> HIDE DEF ls
        <5>1. st[m + 1] = lm + 1
            BY <4>2 DEF lm
        <5>2. QED BY <4>4, <5>1
      <4>7. QED BY <4>5, <4>6
    <3>4. QED BY <3>2, <3>3
  <2> HIDE DEF st
  <2>11. QED BY <2>8, <2>9, <2>10 DEF Laid
<1>4. QED BY <1>2, <1>3

(* The starts only grow, and every place is in one of the lists. *)
LEMMA LaidUp ==
    ASSUME NEW s, IsList(s), \A j \in DOMAIN s : IsList(s[j]), NEW t, NEW st, Laid(s, t, st)
    PROVE  \A m \in 1..(Len(s) + 1) : \A k \in 1..Len(s) : k < m => st[k] + Len(s[k]) <= st[m]
<1> DEFINE n == Len(s)
<1>1. n \in Nat /\ \A k \in 1..n : Len(s[k]) \in Nat /\ k + 1 \in 1..(n + 1)
    BY DEF IsList
<1>2. /\ \A m \in 1..(n + 1) : st[m] \in Nat
      /\ \A m \in 1..n : st[m + 1] = st[m] + Len(s[m])
    BY DEF Laid
<1> HIDE DEF n
<1> DEFINE U == {m \in 0..n : \A k \in 1..n : k < m + 1 => st[k] + Len(s[k]) <= st[m + 1]}
<1>3. 0 \in U
    BY <1>1
<1>4. ASSUME NEW m \in 0..n, m \in U, m < n PROVE m + 1 \in U
  <2>1. m + 1 \in 1..n /\ m + 1 \in 0..n
      BY <1>1, <1>4
  <2>2. st[(m + 1) + 1] = st[m + 1] + Len(s[m + 1]) /\ st[m + 1] \in Nat /\ Len(s[m + 1]) \in Nat
      BY <1>1, <1>2, <2>1
  <2>3. ASSUME NEW k \in 1..n, k < (m + 1) + 1 PROVE st[k] + Len(s[k]) <= st[(m + 1) + 1]
    <3>1. CASE k = m + 1
        BY <2>2, <3>1
    <3>2. CASE k < m + 1
      <4>1. st[k] + Len(s[k]) <= st[m + 1] /\ st[k] \in Nat /\ Len(s[k]) \in Nat
        <5>1. k \in 1..(n + 1)
            BY <1>1
        <5>2. QED BY <1>1, <1>2, <1>4, <3>2, <5>1
      <4>2. QED BY <2>2, <4>1
    <3>3. QED BY <2>1, <2>3, <3>1, <3>2
  <2>4. QED BY <2>1, <2>3
<1>5. 0..n \subseteq U
  <2> HIDE DEF U
  <2>1. QED BY <1>1, <1>3, <1>4, UpTo
<1>6. ASSUME NEW m \in 1..(n + 1), NEW k \in 1..n, k < m PROVE st[k] + Len(s[k]) <= st[m]
  <2>1. m - 1 \in 0..n /\ (m - 1) + 1 = m
      BY <1>1
  <2>2. m - 1 \in U
      BY <1>5, <2>1
  <2>3. QED BY <1>6, <2>1, <2>2
<1>7. QED BY <1>6 DEF n

LEMMA LaidAll ==
    ASSUME NEW s, IsList(s), \A j \in DOMAIN s : IsList(s[j]), NEW t, IsList(t), NEW st, Laid(s, t, st),
           NEW p \in DOMAIN t
    PROVE  \E m \in 1..Len(s) : \E i \in 1..Len(s[m]) : p = st[m] + i - 1
<1> DEFINE n == Len(s)
           In(q, m) == \E i \in 1..Len(s[m]) : q = st[m] + i - 1
<1>1. n \in Nat /\ (\A k \in 1..n : Len(s[k]) \in Nat /\ k \in 1..(n + 1)) /\ p \in 1..Len(t) /\ Len(t) \in Nat
    BY DEF IsList
<1>2. /\ \A m \in 1..(n + 1) : st[m] \in Nat
      /\ \A m \in 1..n : st[m + 1] = st[m] + Len(s[m])
      /\ st[1] = 1 /\ st[n + 1] = Len(t) + 1
    BY DEF Laid
<1> HIDE DEF n
<1> DEFINE U == {m \in 0..n : p < st[m + 1] => \E k \in 1..n : In(p, k)}
<1>3. 0 \in U
    BY <1>1, <1>2
<1>4. ASSUME NEW m \in 0..n, m \in U, m < n PROVE m + 1 \in U
  <2>1. m + 1 \in 1..n /\ m + 1 \in 0..n
      BY <1>1, <1>4
  <2>2. st[(m + 1) + 1] = st[m + 1] + Len(s[m + 1]) /\ st[m + 1] \in Nat /\ Len(s[m + 1]) \in Nat
      BY <1>1, <1>2, <2>1
  <2>3. CASE p < st[m + 1]
    <3> HIDE DEF In
    <3>1. QED BY <1>4, <2>1, <2>3
  <2>4. CASE ~(p < st[m + 1]) /\ p < st[(m + 1) + 1]
    <3>1. p - st[m + 1] + 1 \in 1..Len(s[m + 1]) /\ p = st[m + 1] + (p - st[m + 1] + 1) - 1
        BY <1>1, <2>2, <2>4
    <3>2. In(p, m + 1)
        BY <3>1
    <3> HIDE DEF In
    <3>3. QED BY <2>1, <3>2
  <2>5. QED
    <3> HIDE DEF In
    <3>1. QED BY <2>1, <2>3, <2>4
<1>5. 0..n \subseteq U
  <2> HIDE DEF U
  <2>1. QED BY <1>1, <1>3, <1>4, UpTo
<1>6. n \in U /\ p < st[n + 1]
    BY <1>1, <1>2, <1>5
<1>7. QED BY <1>6 DEF n

-----------------------------------------------------------------------------
(* As many as there are places for. *)
LEMMA Fewer == ASSUME NEW n \in Nat, NEW m \in Nat, NEW f \in Injection(1..n, 1..m) PROVE n <= m
<1>1. /\ IsFiniteSet(1..m) /\ Cardinality(1..m) = IF 1 > m THEN 0 ELSE m - 1 + 1
      /\ Cardinality(1..n) = IF 1 > n THEN 0 ELSE n - 1 + 1
    BY FS_Interval
<1>2. Cardinality(1..n) <= Cardinality(1..m)
    BY <1>1, FS_Injection
<1>3. QED BY <1>1, <1>2

LEMMA Enough ==
    ASSUME NEW n \in Nat, NEW h, \A i, j \in 1..n : h[i] = h[j] => i = j,
           NEW s, IsList(s), \A i \in 1..n : \E e \in ToSet(s) : e.line = h[i]
    PROVE  n <= Len(s)
<1> DEFINE f == [i \in 1..n |-> CHOOSE k \in DOMAIN s : s[k].line = h[i]]
<1>1. DOMAIN s = 1..Len(s) /\ Len(s) \in Nat
    BY DEF IsList
<1>2. \A i \in 1..n : \E k \in DOMAIN s : s[k].line = h[i]
    BY DEF ToSet
<1>3. \A i \in 1..n : f[i] \in DOMAIN s /\ s[f[i]].line = h[i]
    BY <1>2
<1>4. f \in [1..n -> 1..Len(s)] /\ DOMAIN f = 1..n
    BY <1>1, <1>3
<1> HIDE DEF f
<1>5. IsInjective(f)
    BY <1>3, <1>4 DEF IsInjective
<1>6. f \in Injection(1..n, 1..Len(s))
    BY <1>4, <1>5 DEF Injection
<1>7. QED BY <1>1, <1>6, Fewer

-----------------------------------------------------------------------------
(* What is written starts with a header; below it the lines are indented.   *)
Stops(l) == ~l.in /\ ~Blank(l)
Heads(b) == IsList(b) /\ b # <<>> /\ Stops(b[1])
Below(b) == \A k \in 2..Len(b) : b[k].in /\ ~Blank(b[k])

(* One after the other in a longer list; and where in the text their lines  *)
(* stand, each at a place of its own and to the next header.                *)
Placed(s, p) == \E off \in Nat : off + Len(p) <= Len(s) /\ \A i \in 1..Len(p) : s[off + i] = p[i]
Ends(t, e) == e = Len(t) + 1 \/ (e \in DOMAIN t /\ Stops(t[e]))
Stand(h, p, t) ==
    /\ h \in [1..Len(p) -> DOMAIN t]
    /\ \A i, j \in 1..Len(p) : h[i] = h[j] => i = j
    /\ \A i \in 1..Len(p) :
          /\ \A k \in 1..Len(p[i]) : h[i] + k - 1 \in DOMAIN t /\ t[h[i] + k - 1] = p[i][k]
          /\ Ends(t, h[i] + Len(p[i]))

Shifted(h, st, off, k, n) == off + k <= n /\ \A i \in 1..k : h[i] = st[off + i]

LEMMA Standing ==
    ASSUME NEW s, IsList(s), \A j \in DOMAIN s : Heads(s[j]), NEW t, IsList(t), NEW st, Laid(s, t, st),
           NEW p, IsList(p), Placed(s, p)
    PROVE  \E h : Stand(h, p, t) /\ \E off \in Nat : Shifted(h, st, off, Len(p), Len(s))
<1> DEFINE n == Len(s)
<1>1. n \in Nat /\ DOMAIN s = 1..n /\ Len(t) \in Nat /\ DOMAIN t = 1..Len(t) /\ Len(p) \in Nat
    BY DEF IsList
<1>2. \A m \in 1..n : Len(s[m]) \in Nat /\ Len(s[m]) # 0 /\ IsList(s[m]) /\ Stops(s[m][1])
    BY <1>1 DEF Heads, IsList
<1>3. /\ \A m \in 1..(n + 1) : st[m] \in Nat \ {0}
      /\ st[n + 1] = Len(t) + 1
      /\ \A m \in 1..n : /\ st[m + 1] = st[m] + Len(s[m])
                         /\ \A i \in 1..Len(s[m]) : t[st[m] + i - 1] = s[m][i]
    BY DEF Laid
<1>4. \A m \in 1..(n + 1) : \A k \in 1..n : k < m => st[k] + Len(s[k]) <= st[m]
    BY <1>1, <1>2, LaidUp
<1> HIDE DEF n
<1>5. \A m \in 1..n : m \in 1..(n + 1) /\ m + 1 \in 1..(n + 1) /\ n + 1 \in 1..(n + 1) /\ m < n + 1
    BY <1>1
<1>6. ASSUME NEW m \in 1..n, NEW i \in 1..Len(s[m])
      PROVE  st[m] + i - 1 \in DOMAIN t /\ t[st[m] + i - 1] = s[m][i]
  <2>1. st[m] + Len(s[m]) <= Len(t) + 1 /\ st[m] \in Nat \ {0}
      BY <1>3, <1>4, <1>5
  <2>2. st[m] + i - 1 \in DOMAIN t
    <3> DEFINE a == st[m]
               b == Len(s[m])
               w == Len(t)
    <3>1. a + b <= w + 1 /\ a \in Nat \ {0} /\ b \in Nat /\ i \in 1..b /\ w \in Nat
        BY <1>1, <1>2, <2>1
    <3> HIDE DEF a, b, w
    <3>2. a + i - 1 \in 1..w
        BY <3>1
    <3>3. QED BY <1>1, <3>2 DEF a, w
  <2>3. QED BY <1>3, <2>2
<1>7. ASSUME NEW m \in 1..n PROVE Ends(t, st[m] + Len(s[m]))
  <2>1. CASE m = n
      BY <1>3, <2>1 DEF Ends
  <2>2. CASE m # n
    <3>1. m + 1 \in 1..n /\ st[m + 1] \in Nat \ {0} /\ st[m + 1] + 1 - 1 = st[m + 1]
        BY <1>1, <1>3, <1>5, <2>2
    <3>2. 1 \in 1..Len(s[m + 1])
        BY <1>2, <3>1
    <3>3. st[m + 1] \in DOMAIN t /\ t[st[m + 1]] = s[m + 1][1]
        BY <1>6, <3>1, <3>2
    <3>4. QED BY <1>2, <1>3, <3>1, <3>3 DEF Ends
  <2>3. QED BY <2>1, <2>2
<1>8. PICK off \in Nat : off + Len(p) <= n /\ \A i \in 1..Len(p) : s[off + i] = p[i]
    BY DEF Placed, n
<1>9. \A i \in 1..Len(p) : off + i \in 1..n
    BY <1>1, <1>8
<1> DEFINE h == [i \in 1..Len(p) |-> st[off + i]]
<1>10. \A i \in 1..Len(p) : h[i] = st[off + i]
    OBVIOUS
<1>11. h \in [1..Len(p) -> DOMAIN t]
  <2>1. ASSUME NEW i \in 1..Len(p) PROVE st[off + i] \in DOMAIN t
    <3>1. 1 \in 1..Len(s[off + i]) /\ st[off + i] + 1 - 1 = st[off + i]
        BY <1>2, <1>3, <1>5, <1>9
    <3>2. QED BY <1>6, <1>9, <3>1
  <2>2. QED BY <2>1
<1> HIDE DEF h
<1>12. ASSUME NEW i \in 1..Len(p), NEW j \in 1..Len(p), h[i] = h[j] PROVE i = j
  <2>1. \A a, b \in 1..n : a < b => st[a] < st[b]
    <3>1. SUFFICES ASSUME NEW a \in 1..n, NEW b \in 1..n, a < b PROVE st[a] < st[b]
        OBVIOUS
    <3>2. st[a] + Len(s[a]) <= st[b] /\ st[a] \in Nat /\ st[b] \in Nat
        BY <1>3, <1>4, <1>5, <3>1
    <3>3. QED BY <1>2, <3>2
  <2>2. off + i = off + j
    <3>1. st[off + i] = st[off + j] /\ st[off + i] \in Nat
        BY <1>3, <1>5, <1>9, <1>10, <1>12
    <3>2. ~(off + i < off + j) /\ ~(off + j < off + i)
        BY <1>9, <2>1, <3>1
    <3>3. QED BY <1>1, <3>2
  <2>3. QED BY <1>1, <2>2
<1>13. ASSUME NEW i \in 1..Len(p)
       PROVE  /\ \A k \in 1..Len(p[i]) : h[i] + k - 1 \in DOMAIN t /\ t[h[i] + k - 1] = p[i][k]
              /\ Ends(t, h[i] + Len(p[i]))
  <2>1. s[off + i] = p[i] /\ off + i \in 1..n /\ h[i] = st[off + i]
      BY <1>8, <1>9, <1>10
  <2>2. QED BY <1>6, <1>7, <2>1
<1>14. Stand(h, p, t)
    BY <1>11, <1>12, <1>13 DEF Stand
<1>15. Shifted(h, st, off, Len(p), Len(s))
    BY <1>8, <1>10 DEF Shifted, n
<1>16. QED BY <1>14, <1>15

(* The block of a header is what is between it and the next. *)
LEMMA BodyAre ==
    ASSUME NEW t, IsList(t), NEW i \in DOMAIN t
    PROVE  ToSet(Body(t, i)) = {t[q] : q \in {r \in DOMAIN t : i < r /\ r < End(t, i) /\ ~Blank(t[r])}}
<1> DEFINE e == End(t, i)
           u == SubSeq(t, i + 1, e - 1)
<1>1. /\ Len(t) \in Nat /\ DOMAIN t = 1..Len(t) /\ t \in Seq(ToSet(t))
      /\ e \in Nat /\ i < e /\ e <= Len(t) + 1
    BY BlockEnds DEF IsList
<1>2. Body(t, i) = Those(u, {n \in DOMAIN u : ~Blank(u[n])})
    BY DEF Body, Select
<1> HIDE DEF e
<1>3. i + 1 \in 1..(Len(t) + 1) /\ e - 1 \in ((i + 1) - 1)..Len(t)
    BY <1>1
<1>4. /\ u \in Seq(ToSet(t)) /\ Len(u) = (e - 1) - (i + 1) + 1
      /\ \A k \in 1..((e - 1) - (i + 1) + 1) : u[k] = t[(i + 1) + k - 1]
    BY <1>1, <1>3, SubSeqProperties
<1> HIDE DEF u
<1>5. IsList(u) /\ DOMAIN u = 1..(e - 1 - i) /\ \A k \in 1..(e - 1 - i) : u[k] = t[i + k]
  <2>1. (e - 1) - (i + 1) + 1 = e - 1 - i /\ \A k \in 1..(e - 1 - i) : (i + 1) + k - 1 = i + k
      BY <1>1
  <2>2. QED BY <1>4, <2>1, SeqIsList
<1>6. ToSet(Body(t, i)) = {u[n] : n \in {m \in DOMAIN u : ~Blank(u[m])}}
    BY <1>2, <1>5, ThoseList
<1>7. ASSUME NEW n \in DOMAIN u, ~Blank(u[n])
      PROVE  \E r \in DOMAIN t : i < r /\ r < e /\ ~Blank(t[r]) /\ u[n] = t[r]
  <2>1. i + n \in DOMAIN t /\ i < i + n /\ i + n < e
      BY <1>1, <1>5
  <2>2. QED BY <1>5, <1>7, <2>1
<1>8. ASSUME NEW r \in DOMAIN t, i < r, r < e, ~Blank(t[r])
      PROVE  \E n \in DOMAIN u : ~Blank(u[n]) /\ u[n] = t[r]
  <2>1. r - i \in DOMAIN u /\ i + (r - i) = r
      BY <1>1, <1>5, <1>8
  <2>2. u[r - i] = t[r]
      BY <1>5, <2>1
  <2>3. QED BY <1>8, <2>1, <2>2
<1>9. QED BY <1>6, <1>7, <1>8 DEF e

LEMMA EndIs ==
    ASSUME NEW t, IsList(t), NEW i \in DOMAIN t, NEW e \in Nat, i < e, Ends(t, e),
           \A r \in DOMAIN t : i < r /\ r < e => t[r].in
    PROVE  End(t, i) = e
<1> DEFINE T == {j \in (i + 1)..(Len(t) + 1) : j > Len(t) \/ ~(t[j].in \/ Blank(t[j]))}
<1>1. Len(t) \in Nat /\ DOMAIN t = 1..Len(t)
    BY DEF IsList
<1>2. e \in T
    BY <1>1 DEF Ends, Stops
<1>3. T \subseteq Nat
    BY <1>1
<1>4. End(t, i) \in T /\ \A y \in T : End(t, i) =< y
    BY <1>2, <1>3, Smallest DEF End
<1>5. ~(End(t, i) < e)
  <2>1. SUFFICES ASSUME End(t, i) < e PROVE FALSE
      OBVIOUS
  <2>2. e <= Len(t) + 1
      BY <1>1 DEF Ends
  <2>3. End(t, i) \in DOMAIN t /\ i < End(t, i) /\ ~(End(t, i) > Len(t))
      BY <1>1, <1>4, <2>1, <2>2
  <2>4. QED BY <1>4, <2>1, <2>3
<1>6. QED BY <1>2, <1>3, <1>4, <1>5

LinesBelow(b) == {b[k] : k \in 2..Len(b)}

LEMMA BodyShown ==
    ASSUME NEW t, IsList(t), NEW h, NEW p, Stand(h, p, t), NEW i \in 1..Len(p), Heads(p[i]), Below(p[i])
    PROVE  /\ h[i] \in DOMAIN t /\ t[h[i]] = p[i][1] /\ Stops(t[h[i]])
           /\ ToSet(Body(t, h[i])) = LinesBelow(p[i])
<1> DEFINE a == h[i]
           n == Len(p[i])
           e == a + n
<1>1. /\ a \in DOMAIN t /\ n \in Nat /\ n # 0 /\ Len(t) \in Nat /\ DOMAIN t = 1..Len(t)
      /\ \A k \in 1..n : a + k - 1 \in DOMAIN t /\ t[a + k - 1] = p[i][k]
      /\ Ends(t, e)
    BY DEF Stand, Heads, IsList
<1> DEFINE b == p[i]
<1>2. Stops(b[1]) /\ \A k \in 2..n : b[k].in /\ ~Blank(b[k])
    BY DEF Heads, Below
<1> HIDE DEF a, n, b
<1>3. t[a] = b[1]
  <2>1. 1 \in 1..n /\ a + 1 - 1 = a
      BY <1>1
  <2>2. QED BY <1>1, <2>1 DEF b
<1>4. \A k \in 2..n : a + k - 1 \in DOMAIN t /\ a < a + k - 1 /\ a + k - 1 < e /\ t[a + k - 1] = b[k]
  <2>1. a \in Nat
      BY <1>1
  <2>2. \A k \in 2..n : k \in 1..n /\ a < a + k - 1 /\ a + k - 1 < e
      BY <1>1, <2>1
  <2>3. QED BY <1>1, <2>2 DEF b
<1>5. \A r \in DOMAIN t : a < r /\ r < e => r - a + 1 \in 2..n /\ a + (r - a + 1) - 1 = r
  <2>1. a \in Nat /\ n \in Nat /\ \A r \in DOMAIN t : r \in Nat
      BY <1>1
  <2>2. ASSUME NEW r \in Nat, a < r, r < e PROVE r - a + 1 \in 2..n /\ a + (r - a + 1) - 1 = r
      BY <2>1, <2>2
  <2>3. QED BY <2>1, <2>2
<1>6. \A r \in DOMAIN t : a < r /\ r < e => t[r] = b[r - a + 1] /\ t[r].in /\ ~Blank(t[r])
    BY <1>2, <1>4, <1>5
<1>7. End(t, a) = e
  <2>1. e \in Nat /\ a < e
      BY <1>1
  <2> HIDE DEF e
  <2>2. QED BY <1>1, <1>6, <2>1, EndIs
<1>8. ToSet(Body(t, a)) = {t[q] : q \in {r \in DOMAIN t : a < r /\ r < e /\ ~Blank(t[r])}}
  <2>1. ToSet(Body(t, a)) = {t[q] : q \in {r \in DOMAIN t : a < r /\ r < End(t, a) /\ ~Blank(t[r])}}
      BY <1>1, BodyAre
  <2> HIDE DEF e
  <2>2. QED BY <1>7, <2>1
<1>9. ToSet(Body(t, a)) = {b[k] : k \in 2..n}
  <2>1. ASSUME NEW r \in DOMAIN t, a < r, r < e PROVE t[r] \in {b[k] : k \in 2..n}
      BY <1>5, <1>6, <2>1
  <2>2. ASSUME NEW k \in 2..n PROVE \E r \in DOMAIN t : a < r /\ r < e /\ ~Blank(t[r]) /\ b[k] = t[r]
      BY <1>4, <1>6
  <2>3. QED BY <1>8, <2>1, <2>2
<1>10. QED BY <1>1, <1>2, <1>3, <1>9 DEF a, n, b, LinesBelow

-----------------------------------------------------------------------------
LEMMA PlacedIn ==
    ASSUME NEW s, IsList(s), NEW t, IsList(t)
    PROVE  Placed(s \o t, t) /\ \A p : IsList(p) /\ Placed(s, p) => Placed(s \o t, p)
<1>1. /\ Len(s) \in Nat /\ Len(t) \in Nat /\ Len(s \o t) = Len(s) + Len(t)
      /\ \A i \in 1..Len(s) : (s \o t)[i] = s[i]
      /\ \A i \in 1..Len(t) : (s \o t)[Len(s) + i] = t[i]
    BY ConcatAt
<1>2. Placed(s \o t, t)
    BY <1>1 DEF Placed
<1>3. ASSUME NEW p, IsList(p), Placed(s, p) PROVE Placed(s \o t, p)
  <2>1. PICK off \in Nat : off + Len(p) <= Len(s) /\ \A i \in 1..Len(p) : s[off + i] = p[i]
      BY <1>3 DEF Placed
  <2>2. Len(p) \in Nat
      BY <1>3 DEF IsList
  <2>3. \A i \in 1..Len(p) : off + i \in 1..Len(s)
      BY <1>1, <2>1, <2>2
  <2>4. off + Len(p) <= Len(s \o t)
      BY <1>1, <2>1, <2>2
  <2>5. \A i \in 1..Len(p) : (s \o t)[off + i] = p[i]
      BY <1>1, <2>1, <2>3
  <2>6. QED BY <2>4, <2>5 DEF Placed
<1>4. QED BY <1>2, <1>3

LEMMA PlacedSelf == ASSUME NEW s, IsList(s) PROVE Placed(s, s)
<1>1. Len(s) \in Nat /\ 0 + Len(s) <= Len(s) /\ \A i \in 1..Len(s) : s[0 + i] = s[i]
    BY DEF IsList
<1>2. QED BY <1>1 DEF Placed

LEMMA FlattenIn ==
    ASSUME NEW s, IsList(s), \A j \in DOMAIN s : IsList(s[j]), NEW l \in ToSet(FlattenSeq(s))
    PROVE  \E j \in DOMAIN s : l \in ToSet(s[j])
<1> DEFINE t == FlattenSeq(s)
<1>1. PICK st : Laid(s, t, st)
    BY FlattenAt
<1>2. IsList(t)
    BY FlattenList
<1> HIDE DEF t
<1>3. PICK q \in DOMAIN t : l = t[q]
    BY DEF ToSet, t
<1>4. PICK m \in 1..Len(s) : \E i \in 1..Len(s[m]) : q = st[m] + i - 1
    BY <1>1, <1>2, LaidAll
<1>5. PICK i \in 1..Len(s[m]) : q = st[m] + i - 1
    BY <1>4
<1>6. l = s[m][i]
    BY <1>1, <1>3, <1>5 DEF Laid
<1>7. m \in DOMAIN s /\ DOMAIN s[m] = 1..Len(s[m])
    BY DEF IsList
<1>8. QED BY <1>6, <1>7 DEF ToSet

(* A header, and only lines below it. *)
Under(l) == l.in /\ ~Blank(l) /\ l.k # "route"
Led(b, l) == IsList(b) /\ b # <<>> /\ b[1] = l /\ \A k \in 2..Len(b) : Under(b[k])
Routeless(b) == \A l \in ToSet(b) : l.k # "route"

LEMMA FewUnder ==
    /\ \A l \in ToSet(<<>>) : Under(l)
    /\ \A a : Under(a) => \A l \in ToSet(<<a>>) : Under(l)
    /\ \A a, b : Under(a) /\ Under(b) => \A l \in ToSet(<<a, b>>) : Under(l)
<1>1. /\ DOMAIN <<>> = {} /\ \A a : DOMAIN <<a>> = {1} /\ <<a>>[1] = a
      /\ \A a, b : DOMAIN <<a, b>> = {1, 2} /\ <<a, b>>[1] = a /\ <<a, b>>[2] = b
    OBVIOUS
<1>2. QED BY <1>1 DEF ToSet

LEMMA LedAlone == ASSUME NEW l PROVE Led(<<l>>, l)
<1>1. <<l>> # <<>> /\ <<l>>[1] = l /\ 2..Len(<<l>>) = {}
    OBVIOUS
<1>2. QED BY <1>1, ShortLists DEF Led

LEMMA LedGrows ==
    ASSUME NEW b, NEW l, Led(b, l), NEW r, IsList(r), \A k \in ToSet(r) : Under(k)
    PROVE  Led(b \o r, l) /\ ToSet(b \o r) = ToSet(b) \union ToSet(r)
<1>1. IsList(b) /\ IsList(b \o r) /\ ToSet(b \o r) = ToSet(b) \union ToSet(r)
    BY ConcatList DEF Led
<1>2. /\ Len(b) \in Nat /\ Len(r) \in Nat /\ Len(b \o r) = Len(b) + Len(r) /\ DOMAIN r = 1..Len(r)
      /\ \A i \in 1..Len(b) : (b \o r)[i] = b[i]
      /\ \A i \in 1..Len(r) : (b \o r)[Len(b) + i] = r[i]
    BY <1>1, ConcatAt DEF IsList
<1>3. Len(b) # 0
    BY <1>1 DEF Led, IsList
<1>4. (b \o r)[1] = l /\ b \o r # <<>>
    BY <1>1, <1>2, <1>3 DEF Led, IsList
<1>5. ASSUME NEW k \in 2..Len(b \o r) PROVE Under((b \o r)[k])
  <2>1. CASE k <= Len(b)
      BY <1>2, <2>1 DEF Led
  <2>2. CASE ~(k <= Len(b))
    <3>1. k - Len(b) \in 1..Len(r) /\ Len(b) + (k - Len(b)) = k
        BY <1>2, <2>2
    <3>2. (b \o r)[k] = r[k - Len(b)]
        BY <1>2, <3>1
    <3>3. QED BY <1>2, <3>1, <3>2 DEF ToSet
  <2>3. QED BY <2>1, <2>2
<1>6. QED BY <1>1, <1>4, <1>5 DEF Led

LEMMA LedHeads ==
    ASSUME NEW b, NEW l, Led(b, l), Stops(l), l.k # "route"
    PROVE  Heads(b) /\ Below(b) /\ Routeless(b)
<1>1. Heads(b) /\ Below(b)
    BY DEF Led, Heads, Below, Under
<1>2. ASSUME NEW k \in DOMAIN b PROVE b[k].k # "route"
  <2>1. k = 1 \/ k \in 2..Len(b)
      BY DEF Led, IsList
  <2>2. QED BY <2>1 DEF Led, Under
<1>3. QED BY <1>1, <1>2 DEF Routeless, ToSet

-----------------------------------------------------------------------------
(* What stands in the block of an interface, an object and a service, that  *)
(* a rule, a translation and a route are lines the parser accepts.          *)
LEMMA InterfaceBlock ==
    ASSUME NEW i, IfaceOK(i)
    PROVE  LET b == GenInterface(i) IN
           /\ Heads(b) /\ Below(b) /\ Routeless(b) /\ b[1].k = "interface"
           /\ \A v \in ToSet(i.ips) : \E k \in 2..Len(b) : b[k].k = "ip" /\ b[k].ok /\ b[k].v = v
<1> DEFINE head == [k |-> "interface", in |-> FALSE, name |-> MapIface(i.name)]
           vlan == IF i.kind = "subif" /\ i.vlan # "" THEN <<[k |-> "vlan", in |-> TRUE, v |-> i.vlan]>> ELSE <<>>
           zone == IF i.alias = "" THEN <<>>
                   ELSE <<[k |-> "nameif", in |-> TRUE, v |-> MapZone(i.alias)],
                          [k |-> "security-level", in |-> TRUE,
                           v |-> IF i.sec = NoLevel THEN GuessLevel(i.alias) ELSE i.sec]>>
           ips == [j \in DOMAIN i.ips |-> [k |-> "ip", in |-> TRUE, ok |-> TRUE, v |-> i.ips[j]]]
           down == IF i.shutdown THEN <<[k |-> "shutdown", in |-> TRUE]>> ELSE <<>>
           b == GenInterface(i)
<1>1. b = <<head>> \o vlan \o zone \o ips \o down
    BY DEF GenInterface
<1>2. IsList(vlan) /\ IsList(zone) /\ IsList(down)
    BY ShortLists, Zenon
<1>3. IsList(ips) /\ DOMAIN ips = DOMAIN i.ips
  <2>1. IsList(ips)
      BY MappedList DEF IfaceOK
  <2>2. QED BY <2>1
<1>4. \A l \in ToSet(vlan) : Under(l)
  <2> DEFINE l == [k |-> "vlan", in |-> TRUE, v |-> i.vlan]
  <2>1. Under(l)
      BY DEF Under, Blank
  <2>2. vlan = <<>> \/ vlan = <<l>>
      OBVIOUS
  <2> HIDE DEF l, vlan
  <2>3. QED BY <2>1, <2>2, FewUnder
<1>5. \A l \in ToSet(zone) : Under(l)
  <2> DEFINE a == [k |-> "nameif", in |-> TRUE, v |-> MapZone(i.alias)]
             e == [k |-> "security-level", in |-> TRUE,
                   v |-> IF i.sec = NoLevel THEN GuessLevel(i.alias) ELSE i.sec]
  <2>1. Under(a) /\ Under(e)
      BY DEF Under, Blank
  <2>2. zone = <<>> \/ zone = <<a, e>>
      BY Zenon
  <2> HIDE DEF a, e, zone
  <2>3. QED BY <2>1, <2>2, FewUnder, Zenon
<1>6. \A l \in ToSet(ips) : Under(l)
  <2>1. \A j \in DOMAIN i.ips : Under(ips[j])
      BY DEF Under, Blank
  <2> HIDE DEF ips
  <2>2. QED BY <1>3, <2>1 DEF ToSet
<1>7. \A l \in ToSet(down) : Under(l)
    BY DEF ToSet, Under, Blank
<1>8. head.k = "interface" /\ Stops(head)
    BY DEF Stops, Blank
<1>9. \A j \in DOMAIN i.ips : ips[j].k = "ip" /\ ips[j].ok /\ ips[j].v = i.ips[j]
    OBVIOUS
<1> HIDE DEF head, vlan, zone, ips, down, b
<1>10. Led(<<head>> \o vlan, head)
    BY <1>2, <1>4, LedAlone, LedGrows
<1>11. Led(<<head>> \o vlan \o zone, head)
    BY <1>2, <1>5, <1>10, LedGrows
<1>12. Led(<<head>> \o vlan \o zone \o ips, head) /\ ToSet(ips) \subseteq ToSet(<<head>> \o vlan \o zone \o ips)
    BY <1>3, <1>6, <1>11, LedGrows
<1>13. Led(b, head) /\ ToSet(ips) \subseteq ToSet(b)
    BY <1>1, <1>2, <1>7, <1>12, LedGrows
<1>14. ASSUME NEW v \in ToSet(i.ips) PROVE \E k \in 2..Len(b) : b[k].k = "ip" /\ b[k].ok /\ b[k].v = v
  <2>1. PICK j \in DOMAIN i.ips : v = i.ips[j]
      BY DEF ToSet
  <2>2. PICK k \in DOMAIN b : b[k] = ips[j]
      BY <1>3, <1>13 DEF ToSet
  <2>3. k # 1 /\ DOMAIN b = 1..Len(b) /\ Len(b) \in Nat
      BY <1>8, <1>9, <1>13, <2>2 DEF Led, IsList
  <2>4. QED BY <1>9, <2>1, <2>2, <2>3
<1>15. QED BY <1>8, <1>13, <1>14, LedHeads DEF Led, b

LEMMA PairBlock ==
    ASSUME NEW a, NEW l, Stops(a), a.k # "route", Under(l)
    PROVE  Heads(<<a, l>>) /\ Below(<<a, l>>) /\ Routeless(<<a, l>>)
<1>1. <<a, l>> # <<>> /\ <<a, l>>[1] = a /\ <<a, l>>[2] = l /\ 2..Len(<<a, l>>) = {2}
    OBVIOUS
<1>2. Led(<<a, l>>, a)
    BY <1>1, ShortLists DEF Led
<1>3. QED BY <1>2, LedHeads

LEMMA ObjectBlock ==
    ASSUME NEW o
    PROVE  LET b == GenObject(o) IN
           /\ Heads(b) /\ Below(b) /\ Routeless(b) /\ b[1].k = "object" /\ Len(b) = 2
           /\ b[2].k = "value" /\ b[2].ok /\ b[2].v = o.value
<1> DEFINE a == [k |-> "object", in |-> FALSE, name |-> o.name]
           l == [k |-> "value", in |-> TRUE, ok |-> TRUE,
                 fam |-> IF o.value \in Fqdns THEN "v4" ELSE "", v |-> o.value]
<1>1. GenObject(o) = <<a, l>>
    BY DEF GenObject
<1>2. Stops(a) /\ a.k = "object" /\ Under(l) /\ l.k = "value" /\ l.ok /\ l.v = o.value
    BY DEF Stops, Blank, Under
<1> HIDE DEF a, l
<1>3. Heads(<<a, l>>) /\ Below(<<a, l>>) /\ Routeless(<<a, l>>)
    BY <1>2, PairBlock
<1>4. Len(<<a, l>>) = 2 /\ <<a, l>>[1] = a /\ <<a, l>>[2] = l
    OBVIOUS
<1>5. QED BY <1>1, <1>2, <1>3, <1>4

LEMMA ServiceBlock ==
    ASSUME NEW s
    PROVE  LET b == GenService(s) IN
           /\ Heads(b) /\ Below(b) /\ Routeless(b) /\ b[1].k = "service" /\ Len(b) = 2
           /\ b[2].k = "spec" /\ b[2].proto = s.proto
           /\ ParsePortSpec(b[2].sport) = s.sport /\ ParsePortSpec(b[2].dport) = s.port
<1> DEFINE a == [k |-> "service", in |-> FALSE, name |-> s.name]
           l == [k |-> "spec", in |-> TRUE, proto |-> s.proto, sport |-> Clause(s.sport), dport |-> Clause(s.port)]
<1>1. GenService(s) = <<a, l>>
    BY DEF GenService
<1>2. \A port : ParsePortSpec(Clause(port)) = port
    BY DEF ParsePortSpec, Clause
<1>3. /\ Stops(a) /\ a.k = "service" /\ Under(l) /\ l.k = "spec" /\ l.proto = s.proto
      /\ l.sport = Clause(s.sport) /\ l.dport = Clause(s.port)
    BY DEF Stops, Blank, Under
<1> HIDE DEF a, l
<1>4. Heads(<<a, l>>) /\ Below(<<a, l>>) /\ Routeless(<<a, l>>)
    BY <1>3, PairBlock
<1>5. Len(<<a, l>>) = 2 /\ <<a, l>>[1] = a /\ <<a, l>>[2] = l
    OBVIOUS
<1>6. QED BY <1>1, <1>2, <1>3, <1>4, <1>5

LEMMA RuleBlock ==
    ASSUME NEW c, NEW r
    PROVE  LET b == GenRule(c, r) IN
           /\ Heads(b) /\ Routeless(b) /\ Len(b) = 2 /\ b[2].k = "ace" /\ AceOk(b[2]) /\ Stops(b[2])
<1> DEFINE a == GenRule(c, r)[1]
           l == GenRule(c, r)[2]
<1>1. GenRule(c, r) = <<a, l>>
    BY DEF GenRule
<1>2. a.k = "remark" /\ ~a.in
    BY DEF GenRule
<1>3. l.k = "ace" /\ ~l.in /\ l.action \in {"permit", "deny"} /\ l.src = GenAddr(c, r.src) /\ l.dst = GenAddr(c, r.dst)
    BY DEF GenRule
<1>4. \A v : GenAddr(c, v).form # "none"
    BY DEF GenAddr
<1> HIDE DEF a, l
<1>5. AceOk(l) /\ Stops(a) /\ Stops(l)
    BY <1>2, <1>3, <1>4 DEF AceOk, Stops, Blank
<1>6. DOMAIN <<a, l>> = {1, 2} /\ Len(<<a, l>>) = 2 /\ <<a, l>>[1] = a /\ <<a, l>>[2] = l /\ <<a, l>> # <<>>
    OBVIOUS
<1>7. Heads(<<a, l>>) /\ Routeless(<<a, l>>)
    BY <1>2, <1>3, <1>5, <1>6, ShortLists DEF Heads, Routeless, ToSet
<1>8. QED BY <1>1, <1>3, <1>5, <1>6, <1>7

LEMMA LineBlock ==
    ASSUME NEW l, Stops(l)
    PROVE  Heads(<<l>>) /\ (l.k # "route" => Routeless(<<l>>)) /\ Len(<<l>>) = 1 /\ <<l>>[1] = l
<1>1. DOMAIN <<l>> = {1} /\ Len(<<l>>) = 1 /\ <<l>>[1] = l /\ <<l>> # <<>>
    OBVIOUS
<1>2. QED BY <1>1, ShortLists DEF Heads, Routeless, ToSet

LEMMA GroupBlocks ==
    ASSUME NEW c, NEW g, IsList(g.members)
    PROVE  /\ Heads(GenNetGroup(c, g)) /\ Routeless(GenNetGroup(c, g))
           /\ Heads(GenSvcGroup(c, g)) /\ Routeless(GenSvcGroup(c, g))
<1> DEFINE nets == [j \in DOMAIN g.members |-> GenMember(c, g.members[j])]
           svcs == [j \in DOMAIN g.members |-> GenSvcMember(c, g.members[j])]
           a == [k |-> "object-group", in |-> FALSE, of |-> "network", name |-> g.name]
           b == [k |-> "object-group", in |-> FALSE, of |-> "service", proto |-> "", name |-> g.name]
<1>1. \A m : IsList(GenMember(c, m)) /\ IsList(GenSvcMember(c, m))
    BY ShortLists DEF GenMember, GenSvcMember
<1>2. \A m : \A l \in ToSet(GenMember(c, m)) : Under(l)
    BY DEF GenMember, ToSet, Under, Blank
<1>3. \A m : \A l \in ToSet(GenSvcMember(c, m)) : Under(l)
    BY DEF GenSvcMember, ToSet, Under, Blank
<1>4. IsList(nets) /\ \A j \in DOMAIN nets : IsList(nets[j]) /\ \A l \in ToSet(nets[j]) : Under(l)
    BY <1>1, <1>2, MappedList
<1>5. IsList(svcs) /\ \A j \in DOMAIN svcs : IsList(svcs[j]) /\ \A l \in ToSet(svcs[j]) : Under(l)
    BY <1>1, <1>3, MappedList
<1>6. Stops(a) /\ a.k # "route" /\ Stops(b) /\ b.k # "route"
    BY DEF Stops, Blank
<1>7. GenNetGroup(c, g) = <<a>> \o FlattenSeq(nets) /\ GenSvcGroup(c, g) = <<b>> \o FlattenSeq(svcs)
    BY DEF GenNetGroup, GenSvcGroup
<1> HIDE DEF nets, svcs, a, b
<1>8. IsList(FlattenSeq(nets)) /\ \A l \in ToSet(FlattenSeq(nets)) : Under(l)
    BY <1>4, FlattenList, FlattenIn
<1>9. IsList(FlattenSeq(svcs)) /\ \A l \in ToSet(FlattenSeq(svcs)) : Under(l)
    BY <1>5, FlattenList, FlattenIn
<1>10. Led(GenNetGroup(c, g), a)
    BY <1>7, <1>8, LedAlone, LedGrows
<1>11. Led(GenSvcGroup(c, g), b)
    BY <1>7, <1>9, LedAlone, LedGrows
<1>12. QED BY <1>6, <1>10, <1>11, LedHeads

-----------------------------------------------------------------------------
(* What is written: the blocks of each kind, one after the other.           *)
NetsWritten(c) == Written(c.nets, LAMBDA o : o.value)
RoutesWritten(c) == Written(c.routes, LAMBDA r : r.dest)
IfBlocks(c) == Each(c.ifs, GenInterface)
NetBlocks(c) == Each(NetsWritten(c), GenObject)
SvcBlocks(c) == Each(c.svcs, GenService)
NetGroupBlocks(c) == Each(c.netGroups, LAMBDA g : GenNetGroup(c, g))
SvcGroupBlocks(c) == Each(c.svcGroups, LAMBDA g : GenSvcGroup(c, g))
RuleBlocks(c) == Each(c.rules, LAMBDA r : GenRule(c, r))
BindBlocks(c) == Each(GenBindings(c), LAMBDA b : <<b>>)
NatBlocks(c) == Each(c.nats, LAMBDA n : <<GenNAT(c, n)>>)
RouteBlocks(c) == Each(RoutesWritten(c), LAMBDA r : <<GenRoute(r)>>)

LEMMA MappedLen ==
    ASSUME NEW s, IsList(s), NEW f, f = [j \in DOMAIN s |-> f[j]]
    PROVE  IsList(f) /\ DOMAIN f = DOMAIN s /\ Len(f) = Len(s) /\ DOMAIN s = 1..Len(s) /\ Len(s) \in Nat
<1>1. IsList(f) /\ DOMAIN f = DOMAIN s
    BY MappedList
<1>2. DOMAIN f = 1..Len(f) /\ Len(f) \in Nat /\ DOMAIN s = 1..Len(s) /\ Len(s) \in Nat
    BY <1>1 DEF IsList
<1>3. Len(f) = Len(s)
  <2>1. \A n, m \in Nat : 1..n = 1..m => n = m
    <3>1. SUFFICES ASSUME NEW n \in Nat, NEW m \in Nat, 1..n = 1..m PROVE n = m
        OBVIOUS
    <3>2. n <= m /\ m <= n
      <4>1. n = 0 \/ n \in 1..n
          OBVIOUS
      <4>2. m = 0 \/ m \in 1..m
          OBVIOUS
      <4>3. QED BY <3>1, <4>1, <4>2
    <3>3. QED BY <3>2
  <2>2. QED BY <1>1, <1>2, <2>1
<1>4. QED BY <1>1, <1>2, <1>3

LEMMA BlocksOf ==
    ASSUME NEW c, Wellformed(c)
    PROVE  /\ IsList(NetsWritten(c)) /\ IsList(RoutesWritten(c))
           /\ IsList(IfBlocks(c)) /\ Len(IfBlocks(c)) = Len(c.ifs)
           /\ \A j \in 1..Len(c.ifs) : IfBlocks(c)[j] = GenInterface(c.ifs[j])
           /\ IsList(NetBlocks(c)) /\ Len(NetBlocks(c)) = Len(NetsWritten(c))
           /\ \A j \in 1..Len(NetsWritten(c)) : NetBlocks(c)[j] = GenObject(NetsWritten(c)[j])
           /\ IsList(SvcBlocks(c)) /\ Len(SvcBlocks(c)) = Len(c.svcs)
           /\ \A j \in 1..Len(c.svcs) : SvcBlocks(c)[j] = GenService(c.svcs[j])
           /\ IsList(RuleBlocks(c)) /\ Len(RuleBlocks(c)) = Len(c.rules)
           /\ \A j \in 1..Len(c.rules) : RuleBlocks(c)[j] = GenRule(c, c.rules[j])
           /\ IsList(NatBlocks(c)) /\ Len(NatBlocks(c)) = Len(c.nats)
           /\ \A j \in 1..Len(c.nats) : NatBlocks(c)[j] = <<GenNAT(c, c.nats[j])>>
           /\ IsList(RouteBlocks(c)) /\ Len(RouteBlocks(c)) = Len(RoutesWritten(c))
           /\ \A j \in 1..Len(RoutesWritten(c)) : RouteBlocks(c)[j] = <<GenRoute(RoutesWritten(c)[j])>>
<1>1. IsList(NetsWritten(c)) /\ IsList(RoutesWritten(c))
    BY ThoseList DEF NetsWritten, RoutesWritten, Written, Select, Wellformed
<1>2. /\ IsList(IfBlocks(c))
      /\ Len(IfBlocks(c)) = Len(c.ifs)
      /\ \A j \in 1..Len(c.ifs) : IfBlocks(c)[j] = GenInterface(c.ifs[j])
  <2>1. IfBlocks(c) = [j \in DOMAIN c.ifs |-> GenInterface(c.ifs[j])] /\ IsList(c.ifs)
      BY DEF IfBlocks, Each, Wellformed
  <2>2. IfBlocks(c) = [j \in DOMAIN c.ifs |-> IfBlocks(c)[j]]
      BY <2>1
  <2>3. QED BY <2>1, <2>2, MappedLen
<1>3. /\ IsList(NetBlocks(c)) /\ Len(NetBlocks(c)) = Len(NetsWritten(c))
      /\ \A j \in 1..Len(NetsWritten(c)) : NetBlocks(c)[j] = GenObject(NetsWritten(c)[j])
  <2>1. NetBlocks(c) = [j \in DOMAIN NetsWritten(c) |-> GenObject(NetsWritten(c)[j])]
      BY DEF NetBlocks, Each
  <2>2. NetBlocks(c) = [j \in DOMAIN NetsWritten(c) |-> NetBlocks(c)[j]]
      BY <2>1
  <2>3. QED BY <1>1, <2>1, <2>2, MappedLen
<1>4. /\ IsList(SvcBlocks(c))
      /\ Len(SvcBlocks(c)) = Len(c.svcs)
      /\ \A j \in 1..Len(c.svcs) : SvcBlocks(c)[j] = GenService(c.svcs[j])
  <2>1. SvcBlocks(c) = [j \in DOMAIN c.svcs |-> GenService(c.svcs[j])] /\ IsList(c.svcs)
      BY DEF SvcBlocks, Each, Wellformed
  <2>2. SvcBlocks(c) = [j \in DOMAIN c.svcs |-> SvcBlocks(c)[j]]
      BY <2>1
  <2>3. QED BY <2>1, <2>2, MappedLen
<1>5. /\ IsList(RuleBlocks(c))
      /\ Len(RuleBlocks(c)) = Len(c.rules)
      /\ \A j \in 1..Len(c.rules) : RuleBlocks(c)[j] = GenRule(c, c.rules[j])
  <2>1. RuleBlocks(c) = [j \in DOMAIN c.rules |-> GenRule(c, c.rules[j])] /\ IsList(c.rules)
      BY DEF RuleBlocks, Each, Wellformed
  <2>2. RuleBlocks(c) = [j \in DOMAIN c.rules |-> RuleBlocks(c)[j]]
      BY <2>1
  <2>3. QED BY <2>1, <2>2, MappedLen
<1>6. /\ IsList(NatBlocks(c))
      /\ Len(NatBlocks(c)) = Len(c.nats)
      /\ \A j \in 1..Len(c.nats) : NatBlocks(c)[j] = <<GenNAT(c, c.nats[j])>>
  <2>1. NatBlocks(c) = [j \in DOMAIN c.nats |-> <<GenNAT(c, c.nats[j])>>] /\ IsList(c.nats)
      BY DEF NatBlocks, Each, Wellformed
  <2>2. NatBlocks(c) = [j \in DOMAIN c.nats |-> NatBlocks(c)[j]]
      BY <2>1
  <2>3. QED BY <2>1, <2>2, MappedLen
<1>7. /\ IsList(RouteBlocks(c)) /\ Len(RouteBlocks(c)) = Len(RoutesWritten(c))
      /\ \A j \in 1..Len(RoutesWritten(c)) : RouteBlocks(c)[j] = <<GenRoute(RoutesWritten(c)[j])>>
  <2>1. RouteBlocks(c) = [j \in DOMAIN RoutesWritten(c) |-> <<GenRoute(RoutesWritten(c)[j])>>]
      BY DEF RouteBlocks, Each
  <2>2. RouteBlocks(c) = [j \in DOMAIN RoutesWritten(c) |-> RouteBlocks(c)[j]]
      BY <2>1
  <2>3. QED BY <1>1, <2>1, <2>2, MappedLen
<1>8. QED BY <1>1, <1>2, <1>3, <1>4, <1>5, <1>6, <1>7

LEMMA NatRouteLines ==
    /\ \A c, n : LET l == GenNAT(c, n) IN l.k = "nat" /\ l.source /\ Stops(l)
    /\ \A r : LET l == GenRoute(r) IN l.k = "route" /\ l.ok /\ l.dest = r.dest /\ l.gw = r.gw /\ Stops(l)
<1>1. \A c, n : GenNAT(c, n).k = "nat" /\ GenNAT(c, n).source /\ ~GenNAT(c, n).in
    BY DEF GenNAT
<1>2. \A r : /\ GenRoute(r).k = "route" /\ GenRoute(r).ok /\ ~GenRoute(r).in
             /\ GenRoute(r).dest = r.dest /\ GenRoute(r).gw = r.gw
    BY DEF GenRoute
<1>3. QED BY <1>1, <1>2 DEF Stops, Blank

(* Every piece begins with a header, and routes are written at the end.     *)
LEMMA Layout ==
    ASSUME NEW c, Wellformed(c)
    PROVE  /\ IsList(Blocks(c)) /\ \A j \in DOMAIN Blocks(c) : Heads(Blocks(c)[j])
           /\ Placed(Blocks(c), IfBlocks(c)) /\ Placed(Blocks(c), NetBlocks(c)) /\ Placed(Blocks(c), SvcBlocks(c))
           /\ Placed(Blocks(c), RuleBlocks(c)) /\ Placed(Blocks(c), NatBlocks(c))
           /\ Placed(Blocks(c), RouteBlocks(c))
           /\ \E a : /\ IsList(a) /\ Blocks(c) = a \o RouteBlocks(c)
                     /\ \A b \in ToSet(a) : Routeless(b)
<1> DEFINE Rows(s) == IsList(s) /\ \A b \in ToSet(s) : Heads(b) /\ Routeless(b)
           Full(s) == IsList(s) /\ \A j \in DOMAIN s : Heads(s[j]) /\ Routeless(s[j])
<1>1. \A s : Full(s) => Rows(s)
    BY DEF ToSet
<1>2. Rows(IfBlocks(c))
  <2>1. \A j \in 1..Len(c.ifs) : IfaceOK(c.ifs[j])
      BY DEF Wellformed, ToSet, IsList
  <2>2. DOMAIN IfBlocks(c) = 1..Len(c.ifs)
      BY BlocksOf DEF IsList
  <2>3. \A j \in 1..Len(c.ifs) : IfBlocks(c)[j] = GenInterface(c.ifs[j])
      BY BlocksOf
  <2>4. \A j \in 1..Len(c.ifs) : Heads(GenInterface(c.ifs[j])) /\ Routeless(GenInterface(c.ifs[j]))
      BY <2>1, InterfaceBlock
  <2>5. IsList(IfBlocks(c))
      BY BlocksOf
  <2>6. QED BY <1>1, <2>1, <2>2, <2>3, <2>4, <2>5
<1>3. Rows(NetBlocks(c))
  <2>1. DOMAIN NetBlocks(c) = 1..Len(NetsWritten(c))
      BY BlocksOf DEF IsList
  <2>2. \A j \in 1..Len(NetsWritten(c)) : NetBlocks(c)[j] = GenObject(NetsWritten(c)[j])
      BY BlocksOf
  <2>3. \A j \in 1..Len(NetsWritten(c)) : Heads(GenObject(NetsWritten(c)[j])) /\ Routeless(GenObject(NetsWritten(c)[j]))
      BY ObjectBlock
  <2>4. IsList(NetBlocks(c))
      BY BlocksOf
  <2>5. QED BY <1>1, <2>1, <2>2, <2>2, <2>3, <2>4
<1>4. Rows(SvcBlocks(c))
  <2>1. DOMAIN SvcBlocks(c) = 1..Len(c.svcs)
      BY BlocksOf DEF IsList
  <2>2. \A j \in 1..Len(c.svcs) : SvcBlocks(c)[j] = GenService(c.svcs[j])
      BY BlocksOf
  <2>3. \A j \in 1..Len(c.svcs) : Heads(GenService(c.svcs[j])) /\ Routeless(GenService(c.svcs[j]))
      BY ServiceBlock
  <2>4. IsList(SvcBlocks(c))
      BY BlocksOf
  <2>5. QED BY <1>1, <2>1, <2>2, <2>2, <2>3, <2>4
<1>5. Rows(NetGroupBlocks(c))
  <2>1. NetGroupBlocks(c) = [j \in DOMAIN c.netGroups |-> GenNetGroup(c, c.netGroups[j])] /\ IsList(c.netGroups)
      BY DEF NetGroupBlocks, Each, Wellformed
  <2>2. NetGroupBlocks(c) = [j \in DOMAIN c.netGroups |-> NetGroupBlocks(c)[j]]
      BY <2>1
  <2>3. IsList(NetGroupBlocks(c)) /\ DOMAIN NetGroupBlocks(c) = DOMAIN c.netGroups
      BY <2>1, <2>2, MappedLen
  <2>4. \A j \in DOMAIN c.netGroups : IsList(c.netGroups[j].members)
      BY DEF Wellformed, ToSet
  <2>5. QED BY <1>1, <2>1, <2>3, <2>4, GroupBlocks
<1>6. Rows(SvcGroupBlocks(c))
  <2>1. SvcGroupBlocks(c) = [j \in DOMAIN c.svcGroups |-> GenSvcGroup(c, c.svcGroups[j])] /\ IsList(c.svcGroups)
      BY DEF SvcGroupBlocks, Each, Wellformed
  <2>2. SvcGroupBlocks(c) = [j \in DOMAIN c.svcGroups |-> SvcGroupBlocks(c)[j]]
      BY <2>1
  <2>3. IsList(SvcGroupBlocks(c)) /\ DOMAIN SvcGroupBlocks(c) = DOMAIN c.svcGroups
      BY <2>1, <2>2, MappedLen
  <2>4. \A j \in DOMAIN c.svcGroups : IsList(c.svcGroups[j].members)
      BY DEF Wellformed, ToSet
  <2>5. QED BY <1>1, <2>1, <2>3, <2>4, GroupBlocks
<1>7. Rows(RuleBlocks(c))
  <2>1. DOMAIN RuleBlocks(c) = 1..Len(c.rules)
      BY BlocksOf DEF IsList
  <2>2. \A j \in 1..Len(c.rules) : RuleBlocks(c)[j] = GenRule(c, c.rules[j])
      BY BlocksOf
  <2>3. \A j \in 1..Len(c.rules) : Heads(GenRule(c, c.rules[j])) /\ Routeless(GenRule(c, c.rules[j]))
      BY RuleBlock
  <2>4. IsList(RuleBlocks(c))
      BY BlocksOf
  <2>5. QED BY <1>1, <2>1, <2>2, <2>2, <2>3, <2>4
<1>8. Rows(BindBlocks(c))
  <2> DEFINE all == [j \in DOMAIN c.rules |-> j]
             first == Select(all, LAMBDA j : \A i \in 1..(j - 1) : AclOf(c.rules[i]) # AclOf(c.rules[j]))
             Binding(r) == [k |-> "access-group", in |-> FALSE, acl |-> AclOf(r),
                            dir |-> IF r.from = <<>> THEN "global" ELSE "in",
                            iface |-> IF r.from = <<>> THEN "" ELSE MapZone(r.from[1])]
  <2>1. IsList(all)
      BY MappedList DEF Wellformed
  <2>2. IsList(first)
    <3> HIDE DEF all
    <3>1. QED BY <2>1, ThoseList DEF Select
  <2>3. GenBindings(c) = [j \in DOMAIN first |-> Binding(c.rules[first[j]])]
      BY DEF GenBindings
  <2>4. \A r : Stops(Binding(r)) /\ Binding(r).k # "route"
      BY DEF Stops, Blank
  <2> HIDE DEF first, Binding
  <2>5. GenBindings(c) = [j \in DOMAIN first |-> GenBindings(c)[j]]
      BY <2>3
  <2>6. /\ IsList(GenBindings(c))
        /\ \A j \in DOMAIN GenBindings(c) : Stops(GenBindings(c)[j]) /\ GenBindings(c)[j].k # "route"
      BY <2>2, <2>3, <2>4, <2>5, MappedList
  <2>7. BindBlocks(c) = [j \in DOMAIN GenBindings(c) |-> <<GenBindings(c)[j]>>]
      BY DEF BindBlocks, Each
  <2>8. BindBlocks(c) = [j \in DOMAIN GenBindings(c) |-> BindBlocks(c)[j]]
      BY <2>7
  <2>9. IsList(BindBlocks(c)) /\ DOMAIN BindBlocks(c) = DOMAIN GenBindings(c)
      BY <2>6, <2>8, MappedLen
  <2>10. QED BY <1>1, <2>6, <2>7, <2>9, LineBlock
<1>9. Rows(NatBlocks(c))
  <2>1. DOMAIN NatBlocks(c) = 1..Len(c.nats)
      BY BlocksOf DEF IsList
  <2>2. \A n : Heads(<<GenNAT(c, n)>>) /\ Routeless(<<GenNAT(c, n)>>)
    <3>1. \A n : GenNAT(c, n).k # "route" /\ Stops(GenNAT(c, n))
        BY NatRouteLines
    <3>2. QED BY <3>1, LineBlock
  <2>3. IsList(NatBlocks(c)) /\ \A j \in 1..Len(c.nats) : NatBlocks(c)[j] = <<GenNAT(c, c.nats[j])>>
      BY BlocksOf
  <2>4. QED BY <1>1, <2>1, <2>2, <2>3
<1>10. IsList(RouteBlocks(c)) /\ \A b \in ToSet(RouteBlocks(c)) : Heads(b)
  <2>1. DOMAIN RouteBlocks(c) = 1..Len(RoutesWritten(c))
      BY BlocksOf DEF IsList
  <2>2. \A r : Heads(<<GenRoute(r)>>)
      BY NatRouteLines, LineBlock
  <2>3. /\ IsList(RouteBlocks(c))
        /\ \A j \in 1..Len(RoutesWritten(c)) : RouteBlocks(c)[j] = <<GenRoute(RoutesWritten(c)[j])>>
      BY BlocksOf
  <2>4. QED BY <2>1, <2>2, <2>3 DEF ToSet
<1>11. Blocks(c) = IfBlocks(c) \o NetBlocks(c) \o SvcBlocks(c) \o NetGroupBlocks(c) \o SvcGroupBlocks(c)
                   \o RuleBlocks(c) \o BindBlocks(c) \o NatBlocks(c) \o RouteBlocks(c)
    BY DEF Blocks, IfBlocks, NetBlocks, SvcBlocks, NetGroupBlocks, SvcGroupBlocks, RuleBlocks, BindBlocks,
       NatBlocks, RouteBlocks, NetsWritten, RoutesWritten
<1>12. \A s, t : Rows(s) /\ Rows(t) => /\ Rows(s \o t) /\ Placed(s \o t, t)
                                      /\ \A p : IsList(p) /\ Placed(s, p) => Placed(s \o t, p)
    BY ConcatList, PlacedIn
<1>13. \A s : Rows(s) => IsList(s) /\ Placed(s, s)
    BY PlacedSelf
<1> DEFINE a2 == IfBlocks(c) \o NetBlocks(c)
           a3 == a2 \o SvcBlocks(c)
           a4 == a3 \o NetGroupBlocks(c)
           a5 == a4 \o SvcGroupBlocks(c)
           a6 == a5 \o RuleBlocks(c)
           a7 == a6 \o BindBlocks(c)
           a8 == a7 \o NatBlocks(c)
<1>14. Blocks(c) = a8 \o RouteBlocks(c)
    BY <1>11
<1> HIDE DEF Rows
<1> DEFINE Sits(s, t) == Rows(s) /\ Placed(s, t)
<1>15. \A s, t : Rows(s) /\ Rows(t) => Rows(s \o t) /\ Sits(s \o t, t) /\ \A p : Rows(p) /\ Sits(s, p) => Sits(s \o t, p)
    BY <1>12, <1>13
<1> HIDE DEF Sits
<1>16. Rows(a2) /\ Sits(a2, IfBlocks(c)) /\ Sits(a2, NetBlocks(c))
    BY <1>2, <1>3, <1>13, <1>15 DEF Sits
<1> HIDE DEF a2
<1>17. Rows(a3) /\ Sits(a3, IfBlocks(c)) /\ Sits(a3, NetBlocks(c)) /\ Sits(a3, SvcBlocks(c))
    BY <1>2, <1>3, <1>4, <1>15, <1>16
<1> HIDE DEF a3
<1>18. Rows(a4) /\ Sits(a4, IfBlocks(c)) /\ Sits(a4, NetBlocks(c)) /\ Sits(a4, SvcBlocks(c))
    BY <1>2, <1>3, <1>4, <1>5, <1>15, <1>17
<1> HIDE DEF a4
<1>19. Rows(a5) /\ Sits(a5, IfBlocks(c)) /\ Sits(a5, NetBlocks(c)) /\ Sits(a5, SvcBlocks(c))
    BY <1>2, <1>3, <1>4, <1>6, <1>15, <1>18
<1> HIDE DEF a5
<1>20. Rows(a6) /\ Sits(a6, IfBlocks(c)) /\ Sits(a6, NetBlocks(c)) /\ Sits(a6, SvcBlocks(c)) /\ Sits(a6, RuleBlocks(c))
    BY <1>2, <1>3, <1>4, <1>7, <1>15, <1>19
<1> HIDE DEF a6
<1>21. Rows(a7) /\ Sits(a7, IfBlocks(c)) /\ Sits(a7, NetBlocks(c)) /\ Sits(a7, SvcBlocks(c)) /\ Sits(a7, RuleBlocks(c))
    BY <1>2, <1>3, <1>4, <1>7, <1>8, <1>15, <1>20
<1> HIDE DEF a7
<1>22. /\ Rows(a8) /\ Sits(a8, IfBlocks(c)) /\ Sits(a8, NetBlocks(c)) /\ Sits(a8, SvcBlocks(c))
       /\ Sits(a8, RuleBlocks(c)) /\ Sits(a8, NatBlocks(c))
    BY <1>2, <1>3, <1>4, <1>7, <1>9, <1>15, <1>21
<1> HIDE DEF a8
<1>23. /\ IsList(a8) /\ \A b \in ToSet(a8) : Heads(b) /\ Routeless(b)
    BY <1>22 DEF Rows
<1>24. /\ Placed(a8, IfBlocks(c)) /\ Placed(a8, NetBlocks(c)) /\ Placed(a8, SvcBlocks(c))
       /\ Placed(a8, RuleBlocks(c)) /\ Placed(a8, NatBlocks(c))
    BY <1>22 DEF Sits
<1>25. /\ Placed(Blocks(c), IfBlocks(c)) /\ Placed(Blocks(c), NetBlocks(c)) /\ Placed(Blocks(c), SvcBlocks(c))
       /\ Placed(Blocks(c), RuleBlocks(c)) /\ Placed(Blocks(c), NatBlocks(c)) /\ Placed(Blocks(c), RouteBlocks(c))
    BY <1>10, <1>14, <1>23, <1>24, BlocksOf, PlacedIn
<1>26. IsList(Blocks(c)) /\ \A b \in ToSet(Blocks(c)) : Heads(b)
    BY <1>10, <1>14, <1>23, ConcatList
<1>27. \A j \in DOMAIN Blocks(c) : Heads(Blocks(c)[j])
    BY <1>26 DEF ToSet
<1>28. QED BY <1>14, <1>23, <1>25, <1>26, <1>27

LEMMA Generated == ASSUME NEW c, Wellformed(c) PROVE IsList(GenASA(c))
BY Layout, FlattenList DEF GenASA, Heads

-----------------------------------------------------------------------------
LEMMA EmptyHonest ==
    ASSUME IsList(text), at = 1, x = Empty, joins = <<>>
    PROVE  Honest
<1>1. ToSet(<<>>) = {} /\ IsList(<<>>)
    BY DEF ToSet, IsList
<1>2. Wellformed(x) /\ IsList(joins) /\ ToSet(x.rules) = {}
    BY <1>1, FS_EmptySet DEF Wellformed, Empty, Fields
<1>3. Len(text) \in Nat /\ DOMAIN text = 1..Len(text)
    BY DEF IsList
<1>4. QED BY <1>2, <1>3 DEF Honest, Accounted, Sealed

LEMMA ParserInit == Init => Honest
<1>1. SUFFICES ASSUME Init PROVE Honest
    OBVIOUS
<1>2. PICK file \in Captures : \E name \in ContextsOf(file) : text = TextOf(file, name)
    BY <1>1 DEF Init, Begin
<1>3. PICK name \in ContextsOf(file) : text = TextOf(file, name)
    BY <1>2
<1>4. IsList(text)
    BY <1>3, TextAssumption, ThoseList DEF TextOf
<1>5. QED BY <1>1, <1>4, EmptyHonest DEF Init, Begin

LEMMA ParserNext == Honest /\ [Next]_vars => Honest'
<1>1. SUFFICES ASSUME Honest, [Next]_vars PROVE Honest'
    OBVIOUS
<1>2. CASE UNCHANGED vars
    BY <1>1, <1>2 DEF vars, Honest, Accounted, Sealed, All, Behind
<1>3. CASE Read
  <2>1. Parse
      BY <1>3 DEF Read
  <2>2. QED
      BY <1>1, <2>1, InterfaceHonest, NetworkHonest, ServiceHonest, GroupHonest, LineHonest, MtuHonest,
         OtherHonest, CloseHonest DEF Parse
<1>4. CASE Convert
  <2>1. IsList(text') /\ at' = 1 /\ x' = Empty /\ joins' = <<>>
      BY <1>1, <1>4, Generated DEF Convert, Honest
  <2>2. (IsList(text) /\ at = 1 /\ x = Empty /\ joins = <<>> => Honest)'
      BY EmptyHonest, PTL
  <2>3. QED BY <2>1, <2>2
<1>5. CASE BuildReview
    BY <1>1, <1>5 DEF BuildReview, Honest, Accounted, Sealed, All, Behind
<1>6. QED BY <1>1, <1>2, <1>3, <1>4, <1>5 DEF Next

-----------------------------------------------------------------------------
(* What is parsed in which pass, and whose remarks and bindings are kept.   *)
PassOK ==
    /\ pass \in {"source", "generated", "reviewed"}
    /\ verdict \in IF pass = "reviewed" THEN {"ready", "review-needed", "blocked"} ELSE {""}
    /\ pass = "source" => text = source /\ ir = Empty /\ items = <<>>
    /\ pass # "source" => text = GenASA(ir)

Lists == {text[j].acl : j \in {i \in DOMAIN text : text[i].k \in {"remark", "access-group"}}}
Pending == DOMAIN remark \union DOMAIN bind \subseteq Lists

LEMMA PassInit == Init => PassOK /\ Pending
<1>1. DOMAIN <<>> = {}
    OBVIOUS
<1>2. Init => /\ remark = <<>> /\ bind = <<>> /\ pass = "source" /\ text = source
              /\ ir = Empty /\ items = <<>> /\ verdict = ""
    BY DEF Init, Begin
<1>3. QED BY <1>1, <1>2 DEF PassOK, Pending

LEMMA PassNext == PassOK /\ [Next]_vars => PassOK'
<1>1. SUFFICES ASSUME PassOK, [Next]_vars PROVE PassOK'
    OBVIOUS
<1>2. CASE UNCHANGED vars
    BY <1>1, <1>2 DEF vars, PassOK
<1>3. CASE Read
  <2>1. text' = text
      BY <1>3 DEF Read, Parse, ParseInterface, ParseObjectNetwork, ParseObjectService, ParseObjectGroup,
         ParseName, ParseRemark, ParseRule, ParseAccessGroup, ParseNAT, ParseRoute, ParseMTU, Capture,
         ParseOther, Close, ReadLine, ReadBlock
  <2>2. QED BY <1>1, <1>3, <2>1 DEF Read, PassOK
<1>4. CASE Convert
    BY <1>1, <1>4 DEF Convert, PassOK
<1>5. CASE BuildReview
    BY <1>1, <1>5 DEF BuildReview, PassOK, Verdict
<1>6. QED BY <1>1, <1>2, <1>3, <1>4, <1>5 DEF Next

LEMMA PendingNext == Honest /\ Pending /\ [Next]_vars => Pending'
<1>1. SUFFICES ASSUME Honest, Pending, [Next]_vars PROVE Pending'
    OBVIOUS
<1>2. ASSUME UNCHANGED <<text, remark, bind>> PROVE Pending'
    BY <1>1, <1>2 DEF Pending, Lists
<1>3. ASSUME Read PROVE text' = text
    BY <1>3 DEF Read, Parse, ParseInterface, ParseObjectNetwork, ParseObjectService, ParseObjectGroup,
       ParseName, ParseRemark, ParseRule, ParseAccessGroup, ParseNAT, ParseRoute, ParseMTU, Capture,
       ParseOther, Close, ReadLine, ReadBlock
<1>4. CASE Read /\ ParseRemark
  <2>1. Line.acl \in Lists
      BY <1>1, <1>4, Inside DEF ParseRemark, Is, Line, Lists
  <2>2. DOMAIN remark' \subseteq DOMAIN remark \union {Line.acl} /\ bind' = bind
      BY <1>4 DEF ParseRemark, With
  <2>3. QED BY <1>1, <1>3, <1>4, <2>1, <2>2 DEF Pending, Lists
<1>5. CASE Read /\ ParseAccessGroup
  <2>1. Line.acl \in Lists
      BY <1>1, <1>5, Inside DEF ParseAccessGroup, Is, Line, Lists
  <2>2. DOMAIN bind' \subseteq DOMAIN bind \union {Line.acl} /\ remark' = remark
      BY <1>5 DEF ParseAccessGroup, With
  <2>3. QED BY <1>1, <1>3, <1>5, <2>1, <2>2 DEF Pending, Lists
<1>6. CASE Read /\ ParseRule
  <2>1. DOMAIN remark' \subseteq DOMAIN remark /\ bind' = bind
      BY <1>6 DEF ParseRule, Without
  <2>2. QED BY <1>1, <1>3, <1>6, <2>1 DEF Pending, Lists
<1>7. CASE Read /\ ~ParseRemark /\ ~ParseAccessGroup /\ ~ParseRule
  <2>1. UNCHANGED <<remark, bind>>
      BY <1>7 DEF Read, Parse, ParseInterface, ParseObjectNetwork, ParseObjectService, ParseObjectGroup,
         ParseName, ParseNAT, ParseRoute, ParseMTU, Capture, ParseOther, Close, locals
  <2>2. QED BY <1>2, <1>3, <1>7, <2>1
<1>8. CASE Convert
    BY <1>8 DEF Convert, Pending
<1>9. CASE UNCHANGED vars \/ BuildReview
    BY <1>2, <1>9 DEF vars, BuildReview
<1>10. QED BY <1>1, <1>4, <1>5, <1>6, <1>7, <1>8, <1>9 DEF Next

(* The variables of both readings keep their types: the position is on the  *)
(* text or one or two behind it, an access rule comes from a line behind    *)
(* the parser and is bound to one zone at most, remarks and bindings are    *)
(* for lists of the text, and what is read second is what was written.      *)
THEOREM RoundTripTypeCorrect == Spec => []TypeOK
<1>1. Honest /\ PassOK /\ Pending => TypeOK
  <2>1. SUFFICES ASSUME Honest, PassOK, Pending PROVE TypeOK
      OBVIOUS
  <2>2. ASSUME NEW j \in DOMAIN x.rules
        PROVE  x.rules[j].line < at /\ Len(x.rules[j].from) + Len(x.rules[j].to) <= 1
    <3>1. RuleOK(x.rules[j]) /\ Behind(x.rules[j])
        BY <2>1 DEF Honest, Wellformed, ToSet
    <3>2. QED BY <3>1 DEF RuleOK, Behind
  <2>3. QED BY <2>1, <2>2 DEF TypeOK, Honest, PassOK, Pending, Lists
<1>2. QED BY <1>1, ParserInit, ParserNext, PassInit, PassNext, PendingNext, PTL DEF Spec
-----------------------------------------------------------------------------
(* What a line has left behind once it is read: of the commands that the    *)
(* review counts or compares, an element with its line and values.          *)
ReadableIn(t, j, kind) == {l \in ToSet(Body(t, j)) : l.k = kind /\ l.ok}
SpecsIn(t, j) == {l \in ToSet(Body(t, j)) : l.k = "spec"}

IfaceTaken(t, c, j) ==
    t[j].k = "interface" =>
        \E e \in ToSet(c.ifs) : e.line = j /\ ToSet(e.ips) = {l.v : l \in ReadableIn(t, j, "ip")}
NetTaken(t, c, j) ==
    t[j].k = "object" /\ ReadableIn(t, j, "value") # {} =>
        \E e \in ToSet(c.nets) : e.line = j /\ \E l \in ReadableIn(t, j, "value") : e.value = l.v
SvcTaken(t, c, j) ==
    t[j].k = "service" /\ SpecsIn(t, j) # {} =>
        \E e \in ToSet(c.svcs) : e.line = j /\ \E l \in SpecsIn(t, j) :
            e.proto = l.proto /\ e.sport = ParsePortSpec(l.sport) /\ e.port = ParsePortSpec(l.dport)
LineTaken(t, c, j) ==
    /\ t[j].k = "ace" /\ AceOk(t[j]) => \E e \in ToSet(c.rules) : e.line = j
    /\ t[j].k = "nat" /\ t[j].source => \E e \in ToSet(c.nats) : e.line = j
    /\ t[j].k = "route" /\ t[j].ok =>
          \E e \in ToSet(c.routes) : e.line = j /\ e.dest = t[j].dest /\ e.gw = t[j].gw
Taken(t, c, j) == IfaceTaken(t, c, j) /\ NetTaken(t, c, j) /\ SvcTaken(t, c, j) /\ LineTaken(t, c, j)

(* A step only adds elements, or changes what of them is not compared.      *)
More(c, d) ==
    /\ ToSet(c.nets) \subseteq ToSet(d.nets) /\ ToSet(c.svcs) \subseteq ToSet(d.svcs)
    /\ ToSet(c.nats) \subseteq ToSet(d.nats) /\ ToSet(c.routes) \subseteq ToSet(d.routes)
    /\ \A e \in ToSet(c.ifs) : \E f \in ToSet(d.ifs) : f.line = e.line /\ f.ips = e.ips
    /\ \A e \in ToSet(c.rules) : \E f \in ToSet(d.rules) : f.line = e.line

LEMMA MoreTaken == ASSUME NEW t, NEW c, NEW d, NEW j, More(c, d), Taken(t, c, j) PROVE Taken(t, d, j)
<1>1. IfaceTaken(t, d, j)
    BY DEF Taken, IfaceTaken, More
<1>2. NetTaken(t, d, j)
    BY DEF Taken, NetTaken, More
<1>3. SvcTaken(t, d, j)
    BY DEF Taken, SvcTaken, More
<1>4. LineTaken(t, d, j)
    BY DEF Taken, LineTaken, More
<1>5. QED BY <1>1, <1>2, <1>3, <1>4 DEF Taken

(* The elements of what the parser selects. *)
LEMMA Picked ==
    ASSUME NEW s, IsList(s)
    PROVE  /\ \A kind : ToSet(Only(s, kind)) = {l \in ToSet(s) : l.k = kind}
           /\ ToSet(Readable(s)) = {l \in ToSet(s) : l.ok}
           /\ ToSet(Values(s)) = {l.v : l \in ToSet(s)}
<1>1. \A T : ToSet(Those(s, T)) = {s[k] : k \in T \intersect DOMAIN s}
    BY ThoseList
<1>2. ASSUME NEW kind PROVE ToSet(Only(s, kind)) = {l \in ToSet(s) : l.k = kind}
  <2> DEFINE T == {n \in DOMAIN s : s[n].k = kind}
  <2>1. Only(s, kind) = Those(s, T)
      BY DEF Only, Select
  <2>2. ToSet(Only(s, kind)) = {s[n] : n \in T}
      BY <1>1, <2>1
  <2>3. QED BY <2>2 DEF ToSet
<1>3. ToSet(Readable(s)) = {l \in ToSet(s) : l.ok}
  <2> DEFINE T == {n \in DOMAIN s : s[n].ok}
  <2>1. Readable(s) = Those(s, T)
      BY DEF Readable, Select
  <2>2. ToSet(Readable(s)) = {s[n] : n \in T}
      BY <1>1, <2>1
  <2>3. QED BY <2>2 DEF ToSet
<1>4. ToSet(Values(s)) = {l.v : l \in ToSet(s)}
    BY DEF Values, ToSet
<1>5. QED BY <1>2, <1>3, <1>4

LEMMA LastIn == ASSUME NEW s, IsList(s), s # <<>> PROVE Last(s) \in ToSet(s)
<1>1. Len(s) \in DOMAIN s
    BY DEF IsList
<1>2. QED BY <1>1 DEF Last, ToSet

LEMMA EmptyPicked == ASSUME NEW s, IsList(s) PROVE s = <<>> <=> ToSet(s) = {}
<1>1. DOMAIN s = 1..Len(s) /\ Len(s) \in Nat
    BY DEF IsList
<1>2. CASE s # <<>>
  <2>1. Len(s) \in DOMAIN s
      BY <1>2 DEF IsList
  <2>2. QED BY <1>2, <2>1 DEF ToSet
<1>3. CASE s = <<>>
    BY <1>3 DEF ToSet
<1>4. QED BY <1>2, <1>3

LEMMA ReadablePicked ==
    ASSUME NEW s, IsList(s), NEW kind
    PROVE  /\ IsList(Readable(Only(s, kind)))
           /\ ToSet(Readable(Only(s, kind))) = {l \in ToSet(s) : l.k = kind /\ l.ok}
<1>1. IsList(Only(s, kind)) /\ ToSet(Only(s, kind)) = {l \in ToSet(s) : l.k = kind}
    BY Selected, Picked
<1>2. IsList(Readable(Only(s, kind))) /\ ToSet(Readable(Only(s, kind))) = {l \in ToSet(Only(s, kind)) : l.ok}
    BY <1>1, Selected, Picked
<1>3. QED BY <1>1, <1>2

(* Each step adds, and takes the line it is at. *)
Follows == More(x, x') /\ (at <= Len(text) => Taken(text, x', at))

LEMMA InterfaceFollows == ASSUME Honest, ParseInterface PROVE Follows
<1> DEFINE e == InterfaceOf(Line.name, Block)
<1>1. at <= Len(text) /\ text[at].k = "interface" /\ IsList(Block) /\ Wellformed(x)
    BY Inside DEF ParseInterface, Is, Honest
<1>2. x' = [x EXCEPT !.ifs = Append(@, e)]
    BY DEF ParseInterface
<1>3. e.line = at /\ e.ips = Values(Readable(Only(Block, "ip")))
    BY DEF InterfaceOf
<1> HIDE DEF e
<1>4. ToSet(x'.ifs) = ToSet(x.ifs) \union {e} /\ IsList(x.ifs)
    BY <1>1, <1>2, AppendList DEF Wellformed, Fields
<1>5. /\ x'.nets = x.nets /\ x'.svcs = x.svcs /\ x'.nats = x.nats /\ x'.routes = x.routes
      /\ x'.rules = x.rules
    BY <1>1, <1>2 DEF Wellformed, Fields
<1>6. More(x, x')
    BY <1>4, <1>5 DEF More
<1>7. ToSet(e.ips) = {l.v : l \in ReadableIn(text, at, "ip")}
    BY <1>1, <1>3, ReadablePicked, Picked DEF ReadableIn, Block
<1>8. Taken(text, x', at)
    BY <1>1, <1>3, <1>4, <1>7 DEF Taken, IfaceTaken, NetTaken, SvcTaken, LineTaken
<1>9. QED BY <1>6, <1>8 DEF Follows

LEMMA NetworkFollows == ASSUME Honest, ParseObjectNetwork PROVE Follows
<1> DEFINE values == Readable(Only(Block, "value"))
           nats == Only(Block, "onat")
           good == Understood(nats)
           e == [line |-> at, name |-> Line.name, value |-> Last(values).v]
           news == [j \in DOMAIN good |-> ParseObjectNAT(Line.name, good[j])]
<1>1. at <= Len(text) /\ text[at].k = "object" /\ IsList(Block) /\ Wellformed(x)
    BY Inside DEF ParseObjectNetwork, Is, Honest
<1>2. x' = [x EXCEPT !.nets = IF values = <<>> THEN @ ELSE Append(@, e),
                     !.nats = @ \o news,
                     !.unparsed = IF good = nats THEN @ ELSE @ \union {at}]
    BY DEF ParseObjectNetwork
<1>3. e.line = at /\ e.value = Last(values).v
    OBVIOUS
<1>4. IsList(good)
    BY <1>1, Selected
<1>5. IsList(news)
  <2>1. news = [j \in DOMAIN good |-> news[j]]
      OBVIOUS
  <2> HIDE DEF good, news
  <2>2. QED BY <1>4, <2>1, MappedList
<1> HIDE DEF e, values, news, nats, good
<1>6. /\ x'.nets = IF values = <<>> THEN x.nets ELSE Append(x.nets, e)
      /\ x'.nats = x.nats \o news
      /\ x'.ifs = x.ifs /\ x'.svcs = x.svcs /\ x'.routes = x.routes /\ x'.rules = x.rules
    BY <1>1, <1>2 DEF Wellformed, Fields
<1>7. IsList(x.nats) /\ IsList(x.nets)
    BY <1>1 DEF Wellformed
<1>8. More(x, x')
  <2>1. ToSet(x.nats) \subseteq ToSet(x'.nats)
      BY <1>5, <1>6, <1>7, ConcatList
  <2>2. ToSet(x.nets) \subseteq ToSet(x'.nets)
      BY <1>6, <1>7, AppendList
  <2>3. QED BY <1>6, <2>1, <2>2 DEF More
<1>9. NetTaken(text, x', at)
  <2>1. SUFFICES ASSUME ReadableIn(text, at, "value") # {}
                 PROVE  \E f \in ToSet(x'.nets) : f.line = at /\ \E l \in ReadableIn(text, at, "value") : f.value = l.v
      BY DEF NetTaken
  <2>2. IsList(values) /\ ToSet(values) = ReadableIn(text, at, "value")
      BY <1>1, ReadablePicked DEF values, ReadableIn, Block
  <2>3. values # <<>> /\ Last(values) \in ReadableIn(text, at, "value")
      BY <2>1, <2>2, EmptyPicked, LastIn
  <2>4. e \in ToSet(x'.nets)
      BY <1>6, <1>7, <2>3, AppendList
  <2>5. QED BY <1>3, <2>3, <2>4
<1>10. Taken(text, x', at)
    BY <1>1, <1>9 DEF Taken, IfaceTaken, SvcTaken, LineTaken
<1>11. QED BY <1>8, <1>10 DEF Follows

LEMMA ServiceFollows == ASSUME Honest, ParseObjectService PROVE Follows
<1> DEFINE specs == Only(Block, "spec")
           e == [line |-> at, name |-> Line.name, proto |-> Last(specs).proto,
                 sport |-> ParsePortSpec(Last(specs).sport), port |-> ParsePortSpec(Last(specs).dport)]
<1>1. at <= Len(text) /\ text[at].k = "service" /\ IsList(Block) /\ Wellformed(x)
    BY Inside DEF ParseObjectService, Is, Honest
<1>2. x' = IF specs = <<>> THEN x ELSE [x EXCEPT !.svcs = Append(@, e)]
    BY DEF ParseObjectService
<1>3. /\ e.line = at /\ e.proto = Last(specs).proto
      /\ e.sport = ParsePortSpec(Last(specs).sport) /\ e.port = ParsePortSpec(Last(specs).dport)
    OBVIOUS
<1>4. IsList(specs) /\ ToSet(specs) = SpecsIn(text, at)
    BY <1>1, Selected, Picked DEF SpecsIn, Block
<1> HIDE DEF e, specs
<1>5. /\ x'.nets = x.nets /\ x'.nats = x.nats /\ x'.ifs = x.ifs /\ x'.routes = x.routes /\ x'.rules = x.rules
      /\ x'.svcs = IF specs = <<>> THEN x.svcs ELSE Append(x.svcs, e)
    BY <1>1, <1>2 DEF Wellformed, Fields
<1>6. specs # <<>> => ToSet(x'.svcs) = ToSet(x.svcs) \union {e}
    BY <1>1, <1>5, AppendList DEF Wellformed
<1>7. More(x, x')
    BY <1>5, <1>6 DEF More
<1>8. SvcTaken(text, x', at)
  <2>1. SUFFICES ASSUME SpecsIn(text, at) # {}
                 PROVE  \E f \in ToSet(x'.svcs) : f.line = at /\ \E l \in SpecsIn(text, at) :
                            /\ f.proto = l.proto
                            /\ f.sport = ParsePortSpec(l.sport) /\ f.port = ParsePortSpec(l.dport)
      BY DEF SvcTaken
  <2>2. specs # <<>> /\ Last(specs) \in SpecsIn(text, at)
      BY <1>4, <2>1, EmptyPicked, LastIn
  <2>3. e \in ToSet(x'.svcs)
      BY <1>6, <2>2
  <2>4. QED BY <1>3, <2>2, <2>3
<1>9. Taken(text, x', at)
    BY <1>1, <1>8 DEF Taken, IfaceTaken, NetTaken, LineTaken
<1>10. QED BY <1>7, <1>9 DEF Follows

(* The lines that leave no element of a kind that is compared. *)
LEMMA OtherFollows ==
    ASSUME Honest, ParseObjectGroup \/ ParseRemark \/ ParseAccessGroup \/ Capture \/ ParseOther
    PROVE  Follows
<1>1. Wellformed(x)
    BY DEF Honest
<1>2. /\ x'.nets = x.nets /\ x'.nats = x.nats /\ x'.ifs = x.ifs /\ x'.svcs = x.svcs
      /\ x'.routes = x.routes /\ x'.rules = x.rules
    BY <1>1 DEF ParseObjectGroup, ParseRemark, ParseAccessGroup, Capture, ParseOther, Wellformed, Fields
<1>3. More(x, x')
    BY <1>2 DEF More
<1>4. text[at].k \notin {"interface", "object", "service", "ace", "nat", "route"}
    BY DEF ParseObjectGroup, ParseRemark, ParseAccessGroup, Capture, ParseOther, Is, Line, Commands
<1>5. Taken(text, x', at)
    BY <1>4 DEF Taken, IfaceTaken, NetTaken, SvcTaken, LineTaken
<1>6. QED BY <1>3, <1>5 DEF Follows

(* The commands of one line that leave an element. *)
LEMMA LineFollows == ASSUME Honest, ParseName \/ ParseRule \/ ParseNAT \/ ParseRoute PROVE Follows
<1>1. Wellformed(x) /\ at <= Len(text)
    BY DEF Honest, ParseName, ParseRule, ParseNAT, ParseRoute, Is
<1>2. \A s, e : IsList(s) => ToSet(Append(s, e)) = ToSet(s) \union {e}
    BY AppendList
<1>3. CASE ParseName
  <2>1. PICK e : x' = [x EXCEPT !.nets = Append(@, e)]
      BY <1>3 DEF ParseName
  <2>2. /\ x'.nets = Append(x.nets, e) /\ x'.nats = x.nats /\ x'.ifs = x.ifs /\ x'.svcs = x.svcs
        /\ x'.routes = x.routes /\ x'.rules = x.rules /\ text[at].k = "name"
      BY <1>1, <1>3, <2>1 DEF ParseName, Is, Wellformed, Fields
  <2>3. More(x, x')
      BY <1>1, <1>2, <2>2 DEF More, Wellformed
  <2>4. Taken(text, x', at)
      BY <2>2 DEF Taken, IfaceTaken, NetTaken, SvcTaken, LineTaken
  <2>5. QED BY <2>3, <2>4 DEF Follows
<1>4. CASE ParseRule
  <2>1. text[at].k = "ace" /\ Line = text[at]
      BY <1>4 DEF ParseRule, Is, Line
  <2>2. CASE AceOk(Line)
    <3>1. /\ x'.rules = Append(x.rules, ParseACL(Line)) /\ ParseACL(Line).line = at
          /\ x'.nets = x.nets /\ x'.nats = x.nats /\ x'.ifs = x.ifs /\ x'.svcs = x.svcs /\ x'.routes = x.routes
      <4>1. x' = [x EXCEPT !.rules = Append(@, ParseACL(Line))]
          BY <1>4, <2>2 DEF ParseRule
      <4>2. ParseACL(Line).line = at
          BY DEF ParseACL
      <4>3. QED BY <1>1, <4>1, <4>2 DEF Wellformed, Fields
    <3>2. ToSet(x'.rules) = ToSet(x.rules) \union {ParseACL(Line)}
        BY <1>1, <1>2, <3>1 DEF Wellformed
    <3>3. More(x, x')
        BY <3>1, <3>2 DEF More
    <3>4. Taken(text, x', at)
        BY <2>1, <3>1, <3>2 DEF Taken, IfaceTaken, NetTaken, SvcTaken, LineTaken
    <3>5. QED BY <3>3, <3>4 DEF Follows
  <2>3. CASE ~AceOk(Line)
    <3>1. /\ x'.nets = x.nets /\ x'.nats = x.nats /\ x'.ifs = x.ifs /\ x'.svcs = x.svcs
          /\ x'.routes = x.routes /\ x'.rules = x.rules
        BY <1>1, <1>4, <2>3 DEF ParseRule, Wellformed, Fields
    <3>2. More(x, x')
        BY <3>1 DEF More
    <3>3. Taken(text, x', at)
        BY <2>1, <2>3 DEF Taken, IfaceTaken, NetTaken, SvcTaken, LineTaken
    <3>4. QED BY <3>2, <3>3 DEF Follows
  <2>4. QED BY <2>2, <2>3
<1>5. CASE ParseNAT
  <2>1. text[at].k = "nat" /\ Line = text[at]
      BY <1>5 DEF ParseNAT, Is, Line
  <2>2. CASE Line.source
    <3>1. /\ x'.nats = Append(x.nats, ParseManualNAT(Line)) /\ ParseManualNAT(Line).line = at
          /\ x'.nets = x.nets /\ x'.rules = x.rules /\ x'.ifs = x.ifs /\ x'.svcs = x.svcs /\ x'.routes = x.routes
      <4>1. x' = [x EXCEPT !.nats = Append(@, ParseManualNAT(Line))]
          BY <1>5, <2>2 DEF ParseNAT
      <4>2. ParseManualNAT(Line).line = at
          BY DEF ParseManualNAT
      <4>3. QED BY <1>1, <4>1, <4>2 DEF Wellformed, Fields
    <3>2. ToSet(x'.nats) = ToSet(x.nats) \union {ParseManualNAT(Line)}
        BY <1>1, <1>2, <3>1 DEF Wellformed
    <3>3. More(x, x')
        BY <3>1, <3>2 DEF More
    <3>4. Taken(text, x', at)
        BY <2>1, <3>1, <3>2 DEF Taken, IfaceTaken, NetTaken, SvcTaken, LineTaken
    <3>5. QED BY <3>3, <3>4 DEF Follows
  <2>3. CASE ~Line.source
    <3>1. /\ x'.nets = x.nets /\ x'.nats = x.nats /\ x'.ifs = x.ifs /\ x'.svcs = x.svcs
          /\ x'.routes = x.routes /\ x'.rules = x.rules
        BY <1>1, <1>5, <2>3 DEF ParseNAT, Wellformed, Fields
    <3>2. More(x, x')
        BY <3>1 DEF More
    <3>3. Taken(text, x', at)
        BY <2>1, <2>3 DEF Taken, IfaceTaken, NetTaken, SvcTaken, LineTaken
    <3>4. QED BY <3>2, <3>3 DEF Follows
  <2>4. QED BY <2>2, <2>3
<1>6. CASE ParseRoute
  <2>1. text[at].k = "route" /\ Line = text[at]
      BY <1>6 DEF ParseRoute, Is, Line
  <2>2. CASE Line.ok
    <3> DEFINE e == [line |-> at, iface |-> Line.iface, dest |-> Line.dest, gw |-> Line.gw, metric |-> Line.metric]
    <3>1. /\ x' = [x EXCEPT !.routes = Append(@, e)]
          /\ e.line = at /\ e.dest = Line.dest /\ e.gw = Line.gw
        BY <1>6, <2>2 DEF ParseRoute
    <3> HIDE DEF e
    <3>2. /\ x'.routes = Append(x.routes, e)
          /\ x'.nets = x.nets /\ x'.nats = x.nats /\ x'.ifs = x.ifs /\ x'.svcs = x.svcs /\ x'.rules = x.rules
        BY <1>1, <3>1 DEF Wellformed, Fields
    <3>3. ToSet(x'.routes) = ToSet(x.routes) \union {e}
        BY <1>1, <1>2, <3>2 DEF Wellformed
    <3>4. More(x, x')
        BY <3>2, <3>3 DEF More
    <3>5. Taken(text, x', at)
        BY <2>1, <3>1, <3>3 DEF Taken, IfaceTaken, NetTaken, SvcTaken, LineTaken
    <3>6. QED BY <3>4, <3>5 DEF Follows
  <2>3. CASE ~Line.ok
    <3>1. /\ x'.nets = x.nets /\ x'.nats = x.nats /\ x'.ifs = x.ifs /\ x'.svcs = x.svcs
          /\ x'.routes = x.routes /\ x'.rules = x.rules
        BY <1>1, <1>6, <2>3 DEF ParseRoute, Wellformed, Fields
    <3>2. More(x, x')
        BY <3>1 DEF More
    <3>3. Taken(text, x', at)
        BY <2>1, <2>3 DEF Taken, IfaceTaken, NetTaken, SvcTaken, LineTaken
    <3>4. QED BY <3>2, <3>3 DEF Follows
  <2>4. QED BY <2>2, <2>3
<1>7. QED BY <1>3, <1>4, <1>5, <1>6

LEMMA MtuFollows == ASSUME Honest, ParseMTU PROVE Follows
<1> DEFINE f == [j \in DOMAIN x.ifs |->
                    IF x.ifs[j].alias = Line.iface THEN [x.ifs[j] EXCEPT !.mtu = Line.v] ELSE x.ifs[j]]
<1>1. Wellformed(x) /\ text[at].k = "mtu" /\ x' = [x EXCEPT !.ifs = f]
    BY DEF Honest, ParseMTU, Is
<1>2. ASSUME NEW j \in DOMAIN x.ifs PROVE f[j].line = x.ifs[j].line /\ f[j].ips = x.ifs[j].ips
  <2>1. IfaceOK(x.ifs[j])
      BY <1>1 DEF Wellformed, ToSet
  <2>2. QED BY <2>1 DEF IfaceOK
<1>3. DOMAIN f = DOMAIN x.ifs
    OBVIOUS
<1> HIDE DEF f
<1>4. /\ x'.ifs = f /\ x'.nets = x.nets /\ x'.nats = x.nats /\ x'.svcs = x.svcs
      /\ x'.routes = x.routes /\ x'.rules = x.rules
    BY <1>1 DEF Wellformed, Fields
<1>5. More(x, x')
    BY <1>2, <1>3, <1>4 DEF More, ToSet
<1>6. Taken(text, x', at)
    BY <1>1 DEF Taken, IfaceTaken, NetTaken, SvcTaken, LineTaken
<1>7. QED BY <1>5, <1>6 DEF Follows

LEMMA CloseFollows == ASSUME Honest, Close PROVE Follows
<1>1. at = Len(text) + 1 /\ Len(text) \in Nat /\ IsList(joins) /\ Wellformed(x)
    BY DEF Close, Honest, IsList
<1>2. PICK bridges \in NewBundles(x.ifs, "bridge-group", "bridge"),
           channels \in NewBundles(x.ifs, "channel-group", "aggregate") :
          x' = [x EXCEPT !.ifs = Attach(@) \o bridges \o channels,
                         !.rules = [j \in DOMAIN @ |-> Bound(@[j])]]
    BY DEF Close
<1> DEFINE rules == [j \in DOMAIN x.rules |-> Bound(x.rules[j])]
<1>3. /\ x'.ifs = Attach(x.ifs) \o bridges \o channels /\ x'.rules = rules
      /\ x'.nets = x.nets /\ x'.nats = x.nats /\ x'.svcs = x.svcs /\ x'.routes = x.routes
    BY <1>1, <1>2 DEF Wellformed, Fields
<1>4. /\ IsList(Attach(x.ifs)) /\ DOMAIN Attach(x.ifs) = DOMAIN x.ifs
      /\ \A j \in DOMAIN x.ifs : /\ Attach(x.ifs)[j].line = x.ifs[j].line
                                 /\ Attach(x.ifs)[j].ips = x.ifs[j].ips
  <2>1. Attach(x.ifs) = [j \in DOMAIN x.ifs |-> Attach(x.ifs)[j]]
      BY DEF Attach
  <2>2. ASSUME NEW j \in DOMAIN x.ifs
        PROVE  Attach(x.ifs)[j].line = x.ifs[j].line /\ Attach(x.ifs)[j].ips = x.ifs[j].ips
    <3>1. {"line", "ips"} \subseteq DOMAIN x.ifs[j]
        BY <1>1 DEF Wellformed, ToSet, IfaceOK
    <3>2. Attach(x.ifs)[j] = IF IsLastOf(x.ifs, j)
                             THEN [x.ifs[j] EXCEPT !.members = @ \o MembersOf(x.ifs[j].name)] ELSE x.ifs[j]
        BY DEF Attach
    <3>3. QED BY <3>1, <3>2
  <2>3. QED BY <1>1, <2>1, <2>2, MappedList DEF Wellformed
<1>5. ToSet(Attach(x.ifs)) \subseteq ToSet(x'.ifs)
  <2>1. IsList(bridges) /\ IsList(channels)
      BY <1>1, BundlesList
  <2>2. /\ IsList(Attach(x.ifs) \o bridges)
        /\ ToSet(Attach(x.ifs) \o bridges) = ToSet(Attach(x.ifs)) \union ToSet(bridges)
      BY <1>4, <2>1, ConcatList
  <2>3. QED BY <1>3, <2>1, <2>2, ConcatList
<1>6. \A e \in ToSet(x.ifs) : \E f \in ToSet(x'.ifs) : f.line = e.line /\ f.ips = e.ips
  <2>1. SUFFICES ASSUME NEW j \in DOMAIN x.ifs
                 PROVE  \E f \in ToSet(x'.ifs) : f.line = x.ifs[j].line /\ f.ips = x.ifs[j].ips
      BY DEF ToSet
  <2>2. Attach(x.ifs)[j] \in ToSet(x'.ifs)
      BY <1>4, <1>5 DEF ToSet
  <2>3. QED BY <1>4, <2>2
<1>7. \A e \in ToSet(x.rules) : \E f \in ToSet(x'.rules) : f.line = e.line
  <2>1. SUFFICES ASSUME NEW j \in DOMAIN x.rules PROVE \E f \in ToSet(x'.rules) : f.line = x.rules[j].line
      BY DEF ToSet
  <2>2. "line" \in DOMAIN x.rules[j]
      BY <1>1 DEF Wellformed, ToSet, RuleOK
  <2>3. Bound(x.rules[j]).line = x.rules[j].line
      BY <2>2 DEF Bound
  <2>4. Bound(x.rules[j]) \in ToSet(rules)
      BY DEF ToSet
  <2>5. QED BY <1>3, <2>3, <2>4
<1>8. More(x, x')
    BY <1>3, <1>6, <1>7 DEF More
<1>9. QED BY <1>1, <1>8 DEF Follows

(* Every line that is neither indented nor blank and behind the parser has  *)
(* been taken; and each route is of a line of its own.                      *)
Followed ==
    /\ \A j \in DOMAIN text : j < at /\ ~text[j].in /\ ~Blank(text[j]) => Taken(text, x, j)
    /\ \A i \in DOMAIN x.routes : LET n == x.routes[i].line IN
          /\ n \in DOMAIN text /\ n < at /\ text[n].k = "route"
          /\ \A j \in DOMAIN x.routes : x.routes[j].line = n => j = i

LEMMA RoutesFollow ==
    ASSUME Honest, Followed, Parse
    PROVE  \A i \in DOMAIN x'.routes : LET n == x'.routes[i].line IN
               /\ n \in DOMAIN text' /\ n < at' /\ text'[n].k = "route"
               /\ \A j \in DOMAIN x'.routes : x'.routes[j].line = n => j = i
<1>1. text' = text /\ at \in Nat \ {0} /\ Wellformed(x) /\ DOMAIN text = 1..Len(text) /\ Len(text) \in Nat
  <2>1. text' = text
      BY DEF Parse, ParseInterface, ParseObjectNetwork, ParseObjectService, ParseObjectGroup,
         ParseName, ParseRemark, ParseRule, ParseAccessGroup, ParseNAT, ParseRoute, ParseMTU, Capture,
         ParseOther, Close, ReadLine, ReadBlock
  <2>2. QED BY <2>1 DEF Honest, IsList
<1>2. at' \in Nat /\ at < at'
  <2>1. CASE Close
      BY <1>1, <2>1 DEF Close
  <2>2. CASE at <= Len(text) /\ (ReadLine \/ ReadBlock)
      BY <1>1, <2>2, BlockEnds DEF ReadLine, ReadBlock, Honest
  <2>3. QED
      BY <2>1, <2>2 DEF Parse, ParseInterface, ParseObjectNetwork, ParseObjectService, ParseObjectGroup,
         ParseName, ParseRemark, ParseRule, ParseAccessGroup, ParseNAT, ParseRoute, ParseMTU, Capture,
         ParseOther, Is
<1>3. CASE x'.routes = x.routes
    BY <1>1, <1>2, <1>3 DEF Followed
<1>4. CASE ParseRoute /\ Line.ok
  <2> DEFINE e == [line |-> at, iface |-> Line.iface, dest |-> Line.dest, gw |-> Line.gw, metric |-> Line.metric]
  <2>1. x' = [x EXCEPT !.routes = Append(@, e)] /\ e.line = at
      BY <1>4 DEF ParseRoute
  <2> HIDE DEF e
  <2>2. at \in DOMAIN text /\ text[at].k = "route"
      BY <1>1, <1>4 DEF ParseRoute, Is
  <2>3. x'.routes = Append(x.routes, e) /\ IsList(x.routes)
      BY <1>1, <2>1 DEF Wellformed, Fields
  <2>4. /\ Len(x.routes) \in Nat /\ DOMAIN x.routes = 1..Len(x.routes)
        /\ DOMAIN x'.routes = 1..(Len(x.routes) + 1)
        /\ \A i \in 1..Len(x.routes) : x'.routes[i] = x.routes[i]
        /\ x'.routes[Len(x.routes) + 1] = e
    <3>1. x.routes \in Seq(ToSet(x.routes) \union {e})
        BY <2>3, SeqMonotonic DEF IsList
    <3>2. QED BY <2>3, <3>1, AppendProperties
  <2>5. \A i \in 1..Len(x.routes) : /\ x.routes[i].line \in DOMAIN text /\ x.routes[i].line < at
                                    /\ text[x.routes[i].line].k = "route"
                                    /\ \A j \in 1..Len(x.routes) : x.routes[j].line = x.routes[i].line => j = i
      BY <2>4 DEF Followed
  <2>6. \A i \in 1..Len(x.routes) : x.routes[i].line \in Nat /\ x.routes[i].line # at
      BY <1>1, <2>5
  <2>7. SUFFICES ASSUME NEW i \in 1..(Len(x.routes) + 1)
                 PROVE  /\ x'.routes[i].line \in DOMAIN text /\ x'.routes[i].line < at'
                        /\ text[x'.routes[i].line].k = "route"
                        /\ \A j \in 1..(Len(x.routes) + 1) : x'.routes[j].line = x'.routes[i].line => j = i
      BY <1>1, <2>4
  <2>8. CASE i \in 1..Len(x.routes)
    <3>1. x'.routes[i].line = x.routes[i].line /\ x.routes[i].line < at'
        BY <1>1, <1>2, <2>4, <2>5, <2>6, <2>8
    <3>2. ASSUME NEW j \in 1..(Len(x.routes) + 1), x'.routes[j].line = x'.routes[i].line PROVE j = i
      <4>1. CASE j \in 1..Len(x.routes)
          BY <2>4, <2>5, <2>8, <3>1, <3>2, <4>1
      <4>2. CASE j = Len(x.routes) + 1
          BY <2>1, <2>4, <2>6, <2>8, <3>1, <3>2, <4>2
      <4>3. QED BY <2>4, <4>1, <4>2
    <3>3. QED BY <2>5, <2>8, <3>1, <3>2
  <2>9. CASE i = Len(x.routes) + 1
    <3>1. x'.routes[i].line = at
        BY <2>1, <2>4, <2>9
    <3>2. ASSUME NEW j \in 1..(Len(x.routes) + 1), x'.routes[j].line = at PROVE j = i
      <4>1. CASE j \in 1..Len(x.routes)
          BY <2>4, <2>6, <3>2, <4>1
      <4>2. QED BY <2>4, <2>9, <4>1
    <3>3. QED BY <1>1, <1>2, <2>2, <3>1, <3>2
  <2>10. QED BY <2>4, <2>8, <2>9
<1>5. CASE ~(ParseRoute /\ Line.ok)
  <2>1. x'.routes = x.routes
      BY <1>1, <1>5 DEF Parse, ParseInterface, ParseObjectNetwork, ParseObjectService, ParseObjectGroup,
         ParseName, ParseRemark, ParseRule, ParseAccessGroup, ParseNAT, ParseRoute, ParseMTU, Capture,
         ParseOther, Close, Wellformed, Fields
  <2>2. QED BY <1>3, <2>1
<1>6. QED BY <1>4, <1>5

LEMMA FollowedNext == ASSUME Honest, Followed, Parse PROVE Followed'
<1>1. Follows
    BY InterfaceFollows, NetworkFollows, ServiceFollows, OtherFollows, LineFollows, MtuFollows, CloseFollows
       DEF Parse
<1>2. /\ text' = text /\ IsList(text) /\ at \in Nat \ {0} /\ DOMAIN text = 1..Len(text) /\ Len(text) \in Nat
  <2>1. text' = text
      BY DEF Parse, ParseInterface, ParseObjectNetwork, ParseObjectService, ParseObjectGroup,
         ParseName, ParseRemark, ParseRule, ParseAccessGroup, ParseNAT, ParseRoute, ParseMTU, Capture,
         ParseOther, Close, ReadLine, ReadBlock
  <2>2. QED BY <2>1 DEF Honest, IsList
<1>3. ASSUME NEW j \in DOMAIN text, j < at', ~text[j].in, ~Blank(text[j]) PROVE Taken(text, x', j)
  <2>1. CASE j < at
      BY <1>1, <1>3, <2>1, MoreTaken DEF Followed, Follows
  <2>2. CASE j = at
      BY <1>1, <1>2, <2>2 DEF Follows
  <2>3. CASE at < j
    <3>1. CASE Close
        BY <1>2, <1>3, <2>3, <3>1 DEF Close
    <3>2. CASE at <= Len(text) /\ (ReadLine \/ ReadBlock)
        BY <1>2, <1>3, <2>3, <3>2, BlockEnds DEF ReadLine, ReadBlock
    <3>3. QED
        BY <3>1, <3>2 DEF Parse, ParseInterface, ParseObjectNetwork, ParseObjectService, ParseObjectGroup,
           ParseName, ParseRemark, ParseRule, ParseAccessGroup, ParseNAT, ParseRoute, ParseMTU, Capture,
           ParseOther, Is
  <2>4. QED BY <1>2, <2>1, <2>2, <2>3
<1>4. QED BY <1>2, <1>3, RoutesFollow DEF Followed

-----------------------------------------------------------------------------
(* Nothing is left out when all passes the test. *)
LEMMA ThoseAll == ASSUME NEW s, IsList(s), NEW T, DOMAIN s \subseteq T PROVE Those(s, T) = s
<1> DEFINE n == Len(s)
<1>1. n \in Nat /\ DOMAIN s = 1..n /\ s \in Seq(ToSet(s))
    BY DEF IsList
<1>2. PICK g : /\ g \in [0..n -> Seq(ToSet(s))] /\ g[0] = <<>> /\ Those(s, T) = g[n]
               /\ \A k \in 1..n : g[k] = IF k \in T THEN Append(g[k - 1], s[k]) ELSE g[k - 1]
    BY ThoseAre
<1>3. \A k \in 1..n : g[k] = Append(g[k - 1], s[k])
    BY <1>1, <1>2
<1> HIDE DEF n
<1> DEFINE U == {k \in 0..n : Len(g[k]) = k /\ \A i \in 1..k : g[k][i] = s[i]}
<1>4. 0 \in U
    BY <1>1, <1>2
<1>5. ASSUME NEW k \in 0..n, k \in U, k < n PROVE k + 1 \in U
  <2>1. k + 1 \in 1..n /\ k + 1 \in 0..n /\ (k + 1) - 1 = k
      BY <1>1, <1>5
  <2>2. g[k + 1] = Append(g[k], s[k + 1]) /\ g[k] \in Seq(ToSet(s)) /\ s[k + 1] \in ToSet(s)
    <3>1. s[k + 1] \in ToSet(s)
        BY <1>1, <2>1 DEF ToSet
    <3>2. QED BY <1>2, <1>3, <2>1, <3>1
  <2>3. /\ Len(g[k + 1]) = Len(g[k]) + 1
        /\ \A i \in 1..Len(g[k]) : g[k + 1][i] = g[k][i]
        /\ g[k + 1][Len(g[k]) + 1] = s[k + 1]
      BY <2>2, AppendProperties
  <2>4. Len(g[k + 1]) = k + 1 /\ \A i \in 1..k : g[k + 1][i] = s[i]
      BY <1>5, <2>3
  <2>5. g[k + 1][k + 1] = s[k + 1]
      BY <1>5, <2>3
  <2>6. \A i \in 1..(k + 1) : i \in 1..k \/ i = k + 1
      BY <2>1
  <2>7. QED BY <2>1, <2>4, <2>5, <2>6
<1>6. n \in U
  <2> HIDE DEF U
  <2>1. 0..n \subseteq U
      BY <1>1, <1>4, <1>5, UpTo
  <2>2. QED BY <1>1, <2>1
<1>7. g[n] \in Seq(ToSet(s)) /\ Len(g[n]) = Len(s) /\ \A i \in 1..Len(s) : g[n][i] = s[i]
    BY <1>1, <1>2, <1>6 DEF n
<1>8. g[n] = s
    BY <1>1, <1>7, SeqEqual
<1>9. QED BY <1>2, <1>8

LEMMA AllWritten ==
    ASSUME NEW c, Wellformed(c),
           \A o \in ToSet(c.nets) : o.value \in Literals, \A r \in ToSet(c.routes) : r.dest \in Literals
    PROVE  NetsWritten(c) = c.nets /\ RoutesWritten(c) = c.routes
<1> DEFINE T == {n \in DOMAIN c.nets : c.nets[n].value \in Literals}
           U == {n \in DOMAIN c.routes : c.routes[n].dest \in Literals}
<1>1. NetsWritten(c) = Those(c.nets, T) /\ RoutesWritten(c) = Those(c.routes, U)
    BY DEF NetsWritten, RoutesWritten, Written, Select
<1>2. DOMAIN c.nets \subseteq T /\ DOMAIN c.routes \subseteq U
    BY DEF ToSet
<1> HIDE DEF T, U
<1>3. QED BY <1>1, <1>2, ThoseAll DEF Wellformed

-----------------------------------------------------------------------------
(* The second reading d of what was written of c.                           *)
Reread(c, d, t) ==
    /\ Wellformed(c) /\ Wellformed(d) /\ t = GenASA(c)
    /\ \A j \in DOMAIN t : Stops(t[j]) => Taken(t, d, j)

LEMMA Stood ==
    ASSUME NEW c, Wellformed(c), NEW p, IsList(p), Placed(Blocks(c), p)
    PROVE  IsList(GenASA(c)) /\ \E h : Stand(h, p, GenASA(c))
<1>1. IsList(Blocks(c)) /\ \A j \in DOMAIN Blocks(c) : Heads(Blocks(c)[j]) /\ IsList(Blocks(c)[j])
    BY Layout DEF Heads
<1>2. PICK st : Laid(Blocks(c), GenASA(c), st)
    BY <1>1, FlattenAt DEF GenASA
<1>3. IsList(GenASA(c))
    BY <1>1, FlattenList DEF GenASA
<1>4. QED BY <1>1, <1>2, <1>3, Standing

(* Every interface comes back with its addresses. *)
LEMMA InterfacesBack ==
    ASSUME NEW c, NEW d, NEW t, Reread(c, d, t)
    PROVE  IfaceAddrs(c) \subseteq IfaceAddrs(d) /\ Len(c.ifs) <= Len(d.ifs)
<1> DEFINE p == IfBlocks(c)
<1>1. IsList(t) /\ IsList(p) /\ Len(p) = Len(c.ifs) /\ \A j \in 1..Len(p) : p[j] = GenInterface(c.ifs[j])
    BY BlocksOf, Generated DEF Reread
<1>2. PICK h : Stand(h, p, t)
    BY <1>1, Layout, Stood DEF Reread
<1> HIDE DEF p
<1>3. IsList(c.ifs) /\ IsList(d.ifs) /\ DOMAIN c.ifs = 1..Len(p) /\ Len(p) \in Nat
  <2>1. IsList(c.ifs) /\ IsList(d.ifs)
      BY DEF Reread, Wellformed
  <2>2. QED BY <1>1, <2>1 DEF IsList
<1>4. ASSUME NEW i \in 1..Len(p)
      PROVE  \E e \in ToSet(d.ifs) : e.line = h[i] /\ ToSet(c.ifs[i].ips) \subseteq ToSet(e.ips)
  <2>1. IfaceOK(c.ifs[i])
      BY <1>3 DEF Reread, Wellformed, ToSet
  <2>2. /\ Heads(p[i]) /\ Below(p[i]) /\ p[i][1].k = "interface"
        /\ \A v \in ToSet(c.ifs[i].ips) : \E k \in 2..Len(p[i]) : p[i][k].k = "ip" /\ p[i][k].ok /\ p[i][k].v = v
    <3>1. p[i] = GenInterface(c.ifs[i])
        BY <1>1
    <3>2. QED BY <2>1, <3>1, InterfaceBlock
  <2>3. /\ h[i] \in DOMAIN t /\ t[h[i]] = p[i][1] /\ Stops(t[h[i]])
        /\ ToSet(Body(t, h[i])) = LinesBelow(p[i])
    <3>1. Heads(p[i]) /\ Below(p[i])
        BY <2>2
    <3>2. IsList(t) /\ Stand(h, p, t) /\ i \in 1..Len(p)
        BY <1>1, <1>2
    <3>3. QED BY <3>1, <3>2, BodyShown
  <2>4. PICK e \in ToSet(d.ifs) : e.line = h[i] /\ ToSet(e.ips) = {l.v : l \in ReadableIn(t, h[i], "ip")}
      BY <2>2, <2>3 DEF Reread, Taken, IfaceTaken
  <2>5. ASSUME NEW v \in ToSet(c.ifs[i].ips) PROVE v \in ToSet(e.ips)
    <3>1. PICK k \in 2..Len(p[i]) : p[i][k].k = "ip" /\ p[i][k].ok /\ p[i][k].v = v
        BY <2>2
    <3>2. p[i][k] \in ReadableIn(t, h[i], "ip")
        BY <2>3, <3>1 DEF ReadableIn, LinesBelow
    <3>3. QED BY <2>4, <3>1, <3>2
  <2>6. QED BY <2>4, <2>5
<1>5. Len(c.ifs) <= Len(d.ifs)
  <2>1. \A i, j \in 1..Len(p) : h[i] = h[j] => i = j
      BY <1>2 DEF Stand
  <2>2. QED BY <1>1, <1>3, <1>4, <2>1, Enough
<1>6. ASSUME NEW v \in IfaceAddrs(c) PROVE v \in IfaceAddrs(d)
  <2>1. PICK i \in DOMAIN c.ifs : v \in ToSet(c.ifs[i].ips)
      BY DEF IfaceAddrs
  <2>2. PICK e \in ToSet(d.ifs) : ToSet(c.ifs[i].ips) \subseteq ToSet(e.ips)
      BY <1>3, <1>4
  <2>3. PICK j \in DOMAIN d.ifs : e = d.ifs[j]
      BY DEF ToSet
  <2>4. QED BY <2>1, <2>2, <2>3 DEF IfaceAddrs
<1>7. QED BY <1>5, <1>6

(* Every object comes back with its value, when each has one. *)
LEMMA ObjectsBack ==
    ASSUME NEW c, NEW d, NEW t, Reread(c, d, t), NetsWritten(c) = c.nets
    PROVE  NetObjValues(c) \subseteq NetObjValues(d) /\ Len(c.nets) <= Len(d.nets)
<1> DEFINE p == NetBlocks(c)
<1>1. IsList(t) /\ IsList(p) /\ Len(p) = Len(c.nets) /\ \A j \in 1..Len(p) : p[j] = GenObject(c.nets[j])
    BY BlocksOf, Generated DEF Reread
<1>2. PICK h : Stand(h, p, t)
    BY <1>1, Layout, Stood DEF Reread
<1> HIDE DEF p
<1>3. IsList(c.nets) /\ IsList(d.nets) /\ DOMAIN c.nets = 1..Len(p) /\ Len(p) \in Nat
  <2>1. IsList(c.nets) /\ IsList(d.nets)
      BY DEF Reread, Wellformed
  <2>2. QED BY <1>1, <2>1 DEF IsList
<1>4. ASSUME NEW i \in 1..Len(p) PROVE \E e \in ToSet(d.nets) : e.line = h[i] /\ e.value = c.nets[i].value
  <2>1. /\ Heads(p[i]) /\ Below(p[i]) /\ p[i][1].k = "object" /\ Len(p[i]) = 2
        /\ p[i][2].k = "value" /\ p[i][2].ok /\ p[i][2].v = c.nets[i].value
    <3>1. p[i] = GenObject(c.nets[i])
        BY <1>1
    <3> DEFINE b == GenObject(c.nets[i])
    <3>2. /\ Heads(b) /\ Below(b) /\ b[1].k = "object" /\ Len(b) = 2
          /\ b[2].k = "value" /\ b[2].ok /\ b[2].v = c.nets[i].value
        BY ObjectBlock
    <3> HIDE DEF b
    <3>3. p[i] = b
        BY <3>1 DEF b
    <3>4. QED BY <3>2, <3>3
  <2>2. /\ h[i] \in DOMAIN t /\ t[h[i]] = p[i][1] /\ Stops(t[h[i]])
        /\ ToSet(Body(t, h[i])) = LinesBelow(p[i])
    <3>1. Heads(p[i]) /\ Below(p[i])
        BY <2>1
    <3>2. IsList(t) /\ Stand(h, p, t) /\ i \in 1..Len(p)
        BY <1>1, <1>2
    <3>3. QED BY <3>1, <3>2, BodyShown
  <2>3. ToSet(Body(t, h[i])) = {p[i][2]}
      BY <2>1, <2>2 DEF LinesBelow
  <2>4. ReadableIn(t, h[i], "value") = {p[i][2]}
      BY <2>1, <2>3 DEF ReadableIn
  <2>5. Taken(t, d, h[i]) /\ t[h[i]].k = "object"
      BY <2>1, <2>2 DEF Reread
  <2>6. QED BY <2>1, <2>4, <2>5 DEF Taken, NetTaken
<1>5. Len(c.nets) <= Len(d.nets)
  <2>1. \A i, j \in 1..Len(p) : h[i] = h[j] => i = j
      BY <1>2 DEF Stand
  <2>2. QED BY <1>1, <1>3, <1>4, <2>1, Enough
<1>6. NetObjValues(c) \subseteq NetObjValues(d)
  <2>1. SUFFICES ASSUME NEW i \in DOMAIN c.nets PROVE c.nets[i].value \in NetObjValues(d)
      BY DEF NetObjValues
  <2>2. QED BY <1>3, <1>4, <2>1 DEF NetObjValues, ToSet
<1>7. QED BY <1>5, <1>6

(* Every service comes back with its protocol and ports. *)
LEMMA ServicesBack ==
    ASSUME NEW c, NEW d, NEW t, Reread(c, d, t)
    PROVE  SvcObjValues(c) \subseteq SvcObjValues(d)
<1> DEFINE p == SvcBlocks(c)
<1>1. IsList(t) /\ IsList(p) /\ Len(p) = Len(c.svcs) /\ \A j \in 1..Len(p) : p[j] = GenService(c.svcs[j])
    BY BlocksOf, Generated DEF Reread
<1>2. PICK h : Stand(h, p, t)
    BY <1>1, Layout, Stood DEF Reread
<1>3. DOMAIN c.svcs = 1..Len(p)
    BY <1>1 DEF Reread, Wellformed, IsList
<1> HIDE DEF p
<1>4. ASSUME NEW i \in 1..Len(p)
      PROVE  \E e \in ToSet(d.svcs) : /\ e.proto = c.svcs[i].proto
                                      /\ e.port = c.svcs[i].port /\ e.sport = c.svcs[i].sport
  <2>1. /\ Heads(p[i]) /\ Below(p[i]) /\ p[i][1].k = "service" /\ Len(p[i]) = 2
        /\ p[i][2].k = "spec" /\ p[i][2].proto = c.svcs[i].proto
        /\ ParsePortSpec(p[i][2].sport) = c.svcs[i].sport /\ ParsePortSpec(p[i][2].dport) = c.svcs[i].port
    <3>1. p[i] = GenService(c.svcs[i])
        BY <1>1
    <3>2. QED BY <3>1, ServiceBlock
  <2>2. /\ h[i] \in DOMAIN t /\ t[h[i]] = p[i][1] /\ Stops(t[h[i]])
        /\ ToSet(Body(t, h[i])) = LinesBelow(p[i])
    <3>1. Heads(p[i]) /\ Below(p[i])
        BY <2>1
    <3>2. IsList(t) /\ Stand(h, p, t) /\ i \in 1..Len(p)
        BY <1>1, <1>2
    <3>3. QED BY <3>1, <3>2, BodyShown
  <2>3. SpecsIn(t, h[i]) = {p[i][2]}
      BY <2>1, <2>2 DEF SpecsIn, LinesBelow
  <2>4. Taken(t, d, h[i]) /\ t[h[i]].k = "service"
      BY <2>1, <2>2 DEF Reread
  <2>5. PICK e \in ToSet(d.svcs) : e.line = h[i] /\ \E l \in SpecsIn(t, h[i]) :
            e.proto = l.proto /\ e.sport = ParsePortSpec(l.sport) /\ e.port = ParsePortSpec(l.dport)
      BY <2>3, <2>4 DEF Taken, SvcTaken
  <2>6. /\ e.proto = p[i][2].proto
        /\ e.sport = ParsePortSpec(p[i][2].sport) /\ e.port = ParsePortSpec(p[i][2].dport)
      BY <2>3, <2>5
  <2>7. /\ e.proto = c.svcs[i].proto
        /\ e.port = c.svcs[i].port /\ e.sport = c.svcs[i].sport
      BY <2>1, <2>6
  <2>8. QED BY <2>7
<1> DEFINE V(s) == IF s.proto = "tcp-udp" THEN {<<"tcp", s.port, "">>, <<"udp", s.port, "">>}
                   ELSE {<<s.proto, s.port, s.sport>>}
<1>5. SvcObjValues(c) = UNION {V(s) : s \in ToSet(c.svcs)} /\ SvcObjValues(d) = UNION {V(s) : s \in ToSet(d.svcs)}
    BY DEF SvcObjValues
<1>6. \A s, e : e.proto = s.proto /\ e.port = s.port /\ e.sport = s.sport => V(e) = V(s)
    OBVIOUS
<1> HIDE DEF V
<1>7. \A s \in ToSet(c.svcs) : \E e \in ToSet(d.svcs) : V(e) = V(s)
  <2>1. SUFFICES ASSUME NEW i \in DOMAIN c.svcs PROVE \E e \in ToSet(d.svcs) : V(e) = V(c.svcs[i])
      BY DEF ToSet
  <2>2. PICK e \in ToSet(d.svcs) : e.proto = c.svcs[i].proto /\ e.port = c.svcs[i].port /\ e.sport = c.svcs[i].sport
      BY <1>3, <1>4
  <2>3. QED BY <1>6, <2>2
<1>8. QED BY <1>5, <1>7

(* Every rule and every translation comes back. *)
LEMMA RulesBack ==
    ASSUME NEW c, NEW d, NEW t, Reread(c, d, t)
    PROVE  Len(c.rules) <= Len(d.rules)
<1> DEFINE p == RuleBlocks(c)
<1>1. IsList(t) /\ IsList(p) /\ Len(p) = Len(c.rules) /\ \A j \in 1..Len(p) : p[j] = GenRule(c, c.rules[j])
    BY BlocksOf, Generated DEF Reread
<1>2. PICK h : Stand(h, p, t)
    BY <1>1, Layout, Stood DEF Reread
<1> HIDE DEF p
<1>3. IsList(d.rules) /\ Len(p) \in Nat /\ DOMAIN t \subseteq Nat
  <2>1. IsList(d.rules)
      BY DEF Reread, Wellformed
  <2>2. DOMAIN t = 1..Len(t)
      BY <1>1 DEF IsList
  <2>3. QED BY <1>1, <2>1, <2>2 DEF IsList
<1> DEFINE f == [i \in 1..Len(p) |-> h[i] + 1]
<1>4. \A i \in 1..Len(p) : h[i] \in Nat
    BY <1>2, <1>3 DEF Stand
<1>5. \A i, j \in 1..Len(p) : f[i] = f[j] => i = j
  <2>1. \A i, j \in 1..Len(p) : h[i] = h[j] => i = j
      BY <1>2 DEF Stand
  <2>2. QED BY <1>4, <2>1
<1>6. ASSUME NEW i \in 1..Len(p) PROVE \E e \in ToSet(d.rules) : e.line = f[i]
  <2>1. Len(p[i]) = 2 /\ p[i][2].k = "ace" /\ AceOk(p[i][2]) /\ Stops(p[i][2])
      BY <1>1, RuleBlock
  <2>2. 2 \in 1..Len(p[i]) /\ h[i] + 2 - 1 = f[i]
      BY <1>4, <2>1
  <2>3. f[i] \in DOMAIN t /\ t[f[i]] = p[i][2]
    <3>1. h[i] + 2 - 1 \in DOMAIN t /\ t[h[i] + 2 - 1] = p[i][2]
        BY <1>2, <2>2 DEF Stand
    <3>2. QED BY <2>2, <3>1
  <2> HIDE DEF f
  <2>4. QED BY <2>1, <2>3 DEF Reread, Taken, LineTaken
<1> HIDE DEF f
<1>7. QED BY <1>1, <1>3, <1>5, <1>6, Enough

LEMMA NatsBack ==
    ASSUME NEW c, NEW d, NEW t, Reread(c, d, t)
    PROVE  Len(c.nats) <= Len(d.nats)
<1> DEFINE p == NatBlocks(c)
<1>1. IsList(t) /\ IsList(p) /\ Len(p) = Len(c.nats) /\ \A j \in 1..Len(p) : p[j] = <<GenNAT(c, c.nats[j])>>
    BY BlocksOf, Generated DEF Reread
<1>2. PICK h : Stand(h, p, t)
    BY <1>1, Layout, Stood DEF Reread
<1>3. IsList(d.nats) /\ Len(p) \in Nat
    BY <1>1 DEF Reread, Wellformed, IsList
<1> HIDE DEF p
<1>4. ASSUME NEW i \in 1..Len(p) PROVE \E e \in ToSet(d.nats) : e.line = h[i]
  <2> DEFINE l == GenNAT(c, c.nats[i])
  <2>1. l.k = "nat" /\ l.source /\ Stops(l)
      BY NatRouteLines
  <2> HIDE DEF l
  <2>2. Heads(<<l>>) /\ Below(<<l>>) /\ <<l>>[1] = l /\ p[i] = <<l>>
    <3>1. Heads(<<l>>) /\ <<l>>[1] = l
        BY <2>1, LineBlock
    <3>2. Below(<<l>>)
      <4>1. Len(<<l>>) = 1 /\ 2..1 = {}
          OBVIOUS
      <4>2. QED BY <4>1 DEF Below
    <3>3. QED BY <1>1, <3>1, <3>2 DEF l
  <2>3. h[i] \in DOMAIN t /\ t[h[i]] = l
      BY <1>1, <1>2, <2>2, BodyShown
  <2>4. QED BY <2>1, <2>3 DEF Reread, Taken, LineTaken
<1>5. \A i, j \in 1..Len(p) : h[i] = h[j] => i = j
    BY <1>2 DEF Stand
<1>6. QED BY <1>1, <1>3, <1>4, <1>5, Enough

(* Routes come back, and no others: their lines are those that were written. *)
Once(t, d) ==
    \A i \in DOMAIN d.routes : LET n == d.routes[i].line IN
        /\ n \in DOMAIN t /\ t[n].k = "route"
        /\ \A j \in DOMAIN d.routes : d.routes[j].line = n => j = i

LEMMA RoutesBack ==
    ASSUME NEW c, NEW d, NEW t, Reread(c, d, t), Once(t, d), RoutesWritten(c) = c.routes
    PROVE  RouteValues(c) \subseteq RouteValues(d) /\ Len(c.routes) = Len(d.routes)
<1> DEFINE p == RouteBlocks(c)
<1>1. /\ IsList(t) /\ IsList(p) /\ Len(p) = Len(c.routes) /\ \A j \in 1..Len(p) : p[j] = <<GenRoute(c.routes[j])>>
    BY BlocksOf, Generated DEF Reread
<1>2. PICK h : Stand(h, p, t)
    BY <1>1, Layout, Stood DEF Reread
<1>3. IsList(c.routes) /\ IsList(d.routes) /\ DOMAIN c.routes = 1..Len(p) /\ Len(p) \in Nat
  <2>1. IsList(c.routes) /\ IsList(d.routes)
      BY DEF Reread, Wellformed
  <2>2. DOMAIN c.routes = 1..Len(c.routes) /\ Len(c.routes) \in Nat
      BY <2>1 DEF IsList
  <2>3. QED BY <1>1, <2>1, <2>2
<1> HIDE DEF p
<1>4. ASSUME NEW i \in 1..Len(p)
      PROVE  \E e \in ToSet(d.routes) : e.line = h[i] /\ e.dest = c.routes[i].dest /\ e.gw = c.routes[i].gw
  <2> DEFINE l == GenRoute(c.routes[i])
  <2>1. l.k = "route" /\ l.ok /\ Stops(l) /\ l.dest = c.routes[i].dest /\ l.gw = c.routes[i].gw
      BY NatRouteLines
  <2> HIDE DEF l
  <2>2. Heads(<<l>>) /\ Below(<<l>>) /\ <<l>>[1] = l /\ p[i] = <<l>>
    <3>1. Heads(<<l>>) /\ <<l>>[1] = l
        BY <2>1, LineBlock
    <3>2. Below(<<l>>)
      <4>1. Len(<<l>>) = 1 /\ 2..1 = {}
          OBVIOUS
      <4>2. QED BY <4>1 DEF Below
    <3>3. QED BY <1>1, <3>1, <3>2 DEF l
  <2>3. h[i] \in DOMAIN t /\ t[h[i]] = l
      BY <1>1, <1>2, <2>2, BodyShown
  <2>4. QED BY <2>1, <2>3 DEF Reread, Taken, LineTaken
<1>5. Len(c.routes) <= Len(d.routes)
  <2>1. \A i, j \in 1..Len(p) : h[i] = h[j] => i = j
      BY <1>2 DEF Stand
  <2>2. \A i \in 1..Len(p) : \E e \in ToSet(d.routes) : e.line = h[i]
      BY <1>4
  <2>3. Len(p) <= Len(d.routes)
      BY <1>3, <2>1, <2>2, Enough
  <2>4. QED BY <1>1, <2>3
<1>6. RouteValues(c) \subseteq RouteValues(d)
  <2>1. SUFFICES ASSUME NEW i \in DOMAIN c.routes PROVE <<c.routes[i].dest, c.routes[i].gw>> \in RouteValues(d)
      BY DEF RouteValues
  <2>2. PICK e \in ToSet(d.routes) : e.dest = c.routes[i].dest /\ e.gw = c.routes[i].gw
      BY <1>3, <1>4
  <2>3. QED BY <2>2 DEF RouteValues, ToSet
<1>7. Len(d.routes) <= Len(c.routes)
  <2>1. PICK a : IsList(a) /\ Blocks(c) = a \o p /\ \A b \in ToSet(a) : Routeless(b)
      BY Layout DEF Reread, p
  <2>2. IsList(Blocks(c)) /\ \A j \in DOMAIN Blocks(c) : IsList(Blocks(c)[j])
      BY Layout DEF Reread, Heads
  <2>3. PICK st : Laid(Blocks(c), t, st)
      BY <2>2, FlattenAt DEF Reread, GenASA
  <2>4. /\ Len(a) \in Nat /\ Len(Blocks(c)) = Len(a) + Len(p) /\ DOMAIN a = 1..Len(a)
        /\ \A i \in 1..Len(a) : Blocks(c)[i] = a[i]
        /\ \A i \in 1..Len(p) : Blocks(c)[Len(a) + i] = p[i]
    <3>1. DOMAIN a = 1..Len(a)
        BY <2>1 DEF IsList
    <3>2. /\ Len(a) \in Nat /\ Len(a \o p) = Len(a) + Len(p)
          /\ \A i \in 1..Len(a) : (a \o p)[i] = a[i]
          /\ \A i \in 1..Len(p) : (a \o p)[Len(a) + i] = p[i]
      <4>1. IsList(a) /\ IsList(p)
          BY <1>1, <2>1
      <4>2. QED BY <4>1, ConcatAt
    <3>3. QED BY <2>1, <3>1, <3>2
  <2>5. ASSUME NEW n \in DOMAIN t, t[n].k = "route" PROVE \E i \in 1..Len(p) : n = st[Len(a) + i]
    <3>1. PICK m \in 1..Len(Blocks(c)) : \E i \in 1..Len(Blocks(c)[m]) : n = st[m] + i - 1
        BY <1>1, <2>2, <2>3, LaidAll
    <3>2. PICK i \in 1..Len(Blocks(c)[m]) : n = st[m] + i - 1
        BY <3>1
    <3>3. t[n] = Blocks(c)[m][i] /\ i \in DOMAIN Blocks(c)[m]
      <4>1. t[n] = Blocks(c)[m][i]
          BY <2>3, <3>2 DEF Laid
      <4>2. QED BY <2>2, <4>1 DEF IsList
    <3>4. ~(m <= Len(a))
      <4>1. SUFFICES ASSUME m <= Len(a) PROVE FALSE
          OBVIOUS
      <4>2. m \in DOMAIN a /\ Blocks(c)[m] = a[m]
          BY <2>4, <4>1
      <4>3. Routeless(a[m])
          BY <2>1, <4>2 DEF ToSet
      <4>4. QED BY <2>5, <3>3, <4>2, <4>3 DEF Routeless, ToSet
    <3>5. m - Len(a) \in 1..Len(p) /\ Len(a) + (m - Len(a)) = m
        BY <1>3, <2>4, <3>4
    <3>6. Blocks(c)[m] = p[m - Len(a)]
        BY <2>4, <3>5
    <3>7. Len(Blocks(c)[m]) = 1
      <4>1. \A l : Len(<<l>>) = 1
          OBVIOUS
      <4>2. QED BY <1>1, <3>5, <3>6, <4>1
    <3>8. i = 1
        BY <3>7
    <3>9. st[m] \in Nat
        BY <2>2, <2>3, <3>1 DEF Laid, IsList
    <3>10. n = st[m]
        BY <3>2, <3>8, <3>9
    <3>11. QED BY <3>5, <3>10
  <2> DEFINE f == [i \in 1..Len(d.routes) |-> CHOOSE k \in 1..Len(p) : d.routes[i].line = st[Len(a) + k]]
  <2>6. DOMAIN d.routes = 1..Len(d.routes) /\ Len(d.routes) \in Nat
      BY <1>3 DEF IsList
  <2>7. \A i \in 1..Len(d.routes) : \E k \in 1..Len(p) : d.routes[i].line = st[Len(a) + k]
      BY <2>5, <2>6 DEF Once
  <2>8. \A i \in 1..Len(d.routes) : f[i] \in 1..Len(p) /\ d.routes[i].line = st[Len(a) + f[i]]
      BY <2>7
  <2>9. f \in [1..Len(d.routes) -> 1..Len(p)] /\ DOMAIN f = 1..Len(d.routes)
      BY <2>8
  <2> HIDE DEF f
  <2>10. IsInjective(f)
    <3>1. SUFFICES ASSUME NEW i \in 1..Len(d.routes), NEW j \in 1..Len(d.routes), f[i] = f[j] PROVE i = j
        BY <2>9 DEF IsInjective
    <3>2. d.routes[i].line = d.routes[j].line
        BY <2>8, <3>1
    <3>3. QED BY <2>6, <3>2 DEF Once
  <2>11. f \in Injection(1..Len(d.routes), 1..Len(p))
      BY <2>9, <2>10 DEF Injection
  <2>12. Len(d.routes) <= Len(p)
      BY <1>3, <2>6, <2>11, Fewer
  <2>13. QED BY <1>1, <2>12
<1>8. Len(c.routes) \in Nat /\ Len(d.routes) \in Nat
    BY <1>3 DEF IsList
<1>9. QED BY <1>5, <1>6, <1>7, <1>8

(* The checks of the review pass: no value is gone, no count has dropped,   *)
(* and there are as many routes as before.                                  *)
LEMMA Survives ==
    ASSUME NEW c, NEW d, NEW t, Reread(c, d, t), Once(t, d),
           \A o \in ToSet(c.nets) : o.value \in Literals, \A r \in ToSet(c.routes) : r.dest \in Literals
    PROVE  RoundTripOK(c, d)
<1>1. NetsWritten(c) = c.nets /\ RoutesWritten(c) = c.routes
    BY AllWritten DEF Reread
<1>2. IfaceAddrs(c) \subseteq IfaceAddrs(d) /\ Len(c.ifs) <= Len(d.ifs)
    BY InterfacesBack
<1>3. NetObjValues(c) \subseteq NetObjValues(d) /\ Len(c.nets) <= Len(d.nets)
    BY <1>1, ObjectsBack
<1>4. SvcObjValues(c) \subseteq SvcObjValues(d)
    BY ServicesBack
<1>5. Len(c.rules) <= Len(d.rules) /\ Len(c.nats) <= Len(d.nats)
    BY RulesBack, NatsBack
<1>6. RouteValues(c) \subseteq RouteValues(d) /\ Len(c.routes) = Len(d.routes)
    BY <1>1, RoutesBack
<1>7. QED BY <1>2, <1>3, <1>4, <1>5, <1>6 DEF RoundTripOK, ValuesSurvive, CountsSurvive

-----------------------------------------------------------------------------
(* The items name every object and every route, with the status it got.     *)
LEMMA SetToSeqList == ASSUME NEW S, IsFiniteSet(S) PROVE IsList(SetToSeq(S))
<1>1. Cardinality(S) \in Nat /\ ExistsBijection(1..Cardinality(S), S)
    BY FS_CardinalityType
<1>2. PICK f : f \in [1..Cardinality(S) -> S] /\ IsInjective(f)
    BY <1>1 DEF ExistsBijection, Bijection, Injection, Surjection
<1>3. SetToSeq(S) \in [1..Cardinality(S) -> S]
    BY <1>2 DEF SetToSeq
<1>4. SetToSeq(S) \in Seq(S)
    BY <1>1, <1>3, SeqDef
<1>5. QED BY <1>4, SeqIsList

LEMMA ItemsAre ==
    ASSUME NEW c, Wellformed(c)
    PROVE  /\ \A o \in ToSet(c.nets) : \E e \in ToSet(ItemsOf(c)) : e.status = NotFailed(o.value)
           /\ \A r \in ToSet(c.routes) : \E e \in ToSet(ItemsOf(c)) : e.status = NotFailed(r.dest)
           /\ \A g \in ToSet(c.netGroups) : \E e \in ToSet(ItemsOf(c)) :
                 e.status = IF \A j \in DOMAIN g.members : GenMember(c, g.members[j]) # <<>>
                            THEN "converted" ELSE "partial"
           /\ \A g \in ToSet(c.svcGroups) : \E e \in ToSet(ItemsOf(c)) :
                 e.status = IF \A j \in DOMAIN g.members : GenSvcMember(c, g.members[j]) # <<>>
                            THEN "converted" ELSE "partial"
           /\ \A r \in ToSet(c.rules) : \E e \in ToSet(ItemsOf(c)) : e.status = RuleStatus(c, r)
           /\ IsList(ItemsOf(c))
<1> DEFINE p1 == Items("interface", c.ifs, IfaceStatus)
           p2 == Items("zone", Zones(c), LAMBDA z : "converted")
           p3 == Items("object", c.nets, LAMBDA o : NotFailed(o.value))
           p4 == Items("service", c.svcs, LAMBDA s : "converted")
           p5 == Items("group", c.netGroups,
                       LAMBDA g : Partly(\A j \in DOMAIN g.members : GenMember(c, g.members[j]) # <<>>))
           p6 == Items("group", c.svcGroups,
                       LAMBDA g : Partly(\A j \in DOMAIN g.members : GenSvcMember(c, g.members[j]) # <<>>))
           p7 == Items("rule", c.rules, LAMBDA r : RuleStatus(c, r))
           p8 == Items("nat", c.nats, LAMBDA n : Partly(NatSvcOk(c, n)))
           p9 == Items("route", c.routes, LAMBDA r : NotFailed(r.dest))
           p10 == Items("captured", SetToSeq(c.captured), LAMBDA l : "manual")
           p11 == Items("unparsed", SetToSeq(c.unparsed), LAMBDA l : "info")
<1>1. IsList(Zones(c))
  <2> DEFINE named == Select(c.ifs, LAMBDA i : i.alias # "")
  <2>1. IsList(named)
      BY ThoseList DEF Select, Wellformed
  <2>2. Zones(c) = [j \in DOMAIN named |-> named[j].alias]
      BY DEF Zones
  <2> HIDE DEF named
  <2>3. QED BY <2>1, <2>2, MappedList
<1>2. IsList(SetToSeq(c.captured)) /\ IsList(SetToSeq(c.unparsed))
    BY SetToSeqList DEF Wellformed
<1>3. IsList(p1) /\ IsList(p4) /\ IsList(p5) /\ IsList(p6) /\ IsList(p7) /\ IsList(p8)
  <2>1. IsList(p1)
      BY MappedList DEF Items, Wellformed
  <2>2. IsList(p4)
      BY MappedList DEF Items, Wellformed
  <2>3. IsList(p5)
      BY MappedList DEF Items, Wellformed
  <2>4. IsList(p6)
      BY MappedList DEF Items, Wellformed
  <2>5. IsList(p7)
      BY MappedList DEF Items, Wellformed
  <2>6. IsList(p8)
      BY MappedList DEF Items, Wellformed
  <2>7. QED BY <2>1, <2>2, <2>3, <2>4, <2>5, <2>6
<1>4. IsList(p2) /\ IsList(p10) /\ IsList(p11)
  <2>1. IsList(p2)
      BY <1>1, MappedList DEF Items
  <2>2. IsList(p10)
      BY <1>2, MappedList DEF Items
  <2>3. IsList(p11)
      BY <1>2, MappedList DEF Items
  <2>4. QED BY <2>1, <2>2, <2>3
<1>5. IsList(p3) /\ \A o \in ToSet(c.nets) : \E e \in ToSet(p3) : e.status = NotFailed(o.value)
  <2>1. p3 = [j \in DOMAIN c.nets |-> Item("object", NotFailed(c.nets[j].value))]
      BY DEF Items
  <2> HIDE DEF p3
  <2>2. p3 = [j \in DOMAIN c.nets |-> p3[j]] /\ IsList(c.nets)
      BY <2>1 DEF Wellformed
  <2>3. IsList(p3) /\ DOMAIN p3 = DOMAIN c.nets
      BY <2>2, MappedList
  <2>4. \A j \in DOMAIN c.nets : p3[j].status = NotFailed(c.nets[j].value)
      BY <2>1 DEF Item
  <2>5. QED BY <2>3, <2>4 DEF ToSet
<1>6. IsList(p9) /\ \A r \in ToSet(c.routes) : \E e \in ToSet(p9) : e.status = NotFailed(r.dest)
  <2>1. p9 = [j \in DOMAIN c.routes |-> Item("route", NotFailed(c.routes[j].dest))]
      BY DEF Items
  <2> HIDE DEF p9
  <2>2. p9 = [j \in DOMAIN c.routes |-> p9[j]] /\ IsList(c.routes)
      BY <2>1 DEF Wellformed
  <2>3. IsList(p9) /\ DOMAIN p9 = DOMAIN c.routes
      BY <2>2, MappedList
  <2>4. \A j \in DOMAIN c.routes : p9[j].status = NotFailed(c.routes[j].dest)
      BY <2>1 DEF Item
  <2>5. QED BY <2>3, <2>4 DEF ToSet
<1>17. \A g \in ToSet(c.netGroups) : \E e \in ToSet(p5) :
           e.status = IF \A j \in DOMAIN g.members : GenMember(c, g.members[j]) # <<>> THEN "converted" ELSE "partial"
  <2> DEFINE St(g) == IF \A j \in DOMAIN g.members : GenMember(c, g.members[j]) # <<>> THEN "converted" ELSE "partial"
  <2>1. p5 = [j \in DOMAIN c.netGroups |-> Item("group", St(c.netGroups[j]))]
      BY DEF Items, Partly
  <2> HIDE DEF p5, St
  <2>2. DOMAIN p5 = DOMAIN c.netGroups /\ \A j \in DOMAIN c.netGroups : p5[j].status = St(c.netGroups[j])
      BY <2>1 DEF Item
  <2>3. \A g \in ToSet(c.netGroups) : \E e \in ToSet(p5) : e.status = St(g)
      BY <2>2 DEF ToSet
  <2>4. QED BY <2>3 DEF St
<1>18. \A g \in ToSet(c.svcGroups) : \E e \in ToSet(p6) :
           e.status = IF \A j \in DOMAIN g.members : GenSvcMember(c, g.members[j]) # <<>> THEN "converted" ELSE "partial"
  <2> DEFINE St(g) == IF \A j \in DOMAIN g.members : GenSvcMember(c, g.members[j]) # <<>> THEN "converted" ELSE "partial"
  <2>1. p6 = [j \in DOMAIN c.svcGroups |-> Item("group", St(c.svcGroups[j]))]
      BY DEF Items, Partly
  <2> HIDE DEF p6, St
  <2>2. DOMAIN p6 = DOMAIN c.svcGroups /\ \A j \in DOMAIN c.svcGroups : p6[j].status = St(c.svcGroups[j])
      BY <2>1 DEF Item
  <2>3. \A g \in ToSet(c.svcGroups) : \E e \in ToSet(p6) : e.status = St(g)
      BY <2>2 DEF ToSet
  <2>4. QED BY <2>3 DEF St
<1>19. \A r \in ToSet(c.rules) : \E e \in ToSet(p7) : e.status = RuleStatus(c, r)
  <2>1. p7 = [j \in DOMAIN c.rules |-> Item("rule", RuleStatus(c, c.rules[j]))]
      BY DEF Items
  <2> HIDE DEF p7
  <2>2. DOMAIN p7 = DOMAIN c.rules /\ \A j \in DOMAIN c.rules : p7[j].status = RuleStatus(c, c.rules[j])
      BY <2>1 DEF Item
  <2>3. QED BY <2>2 DEF ToSet
<1>7. ItemsOf(c) = p1 \o p2 \o p3 \o p4 \o p5 \o p6 \o p7 \o p8 \o p9 \o p10 \o p11
    BY DEF ItemsOf
<1> HIDE DEF p1, p2, p3, p4, p5, p6, p7, p8, p9, p10, p11
<1>8. \A s, t : IsList(s) /\ IsList(t) => IsList(s \o t) /\ ToSet(s) \subseteq ToSet(s \o t) /\ ToSet(t) \subseteq ToSet(s \o t)
    BY ConcatList
<1>9. IsList(p1 \o p2 \o p3) /\ ToSet(p3) \subseteq ToSet(p1 \o p2 \o p3)
    BY <1>3, <1>4, <1>5, <1>8
<1> DEFINE q3 == p1 \o p2 \o p3
           q5 == q3 \o p4 \o p5
           q7 == q5 \o p6 \o p7
           q9 == q7 \o p8 \o p9
<1>10. IsList(q5) /\ ToSet(q3) \subseteq ToSet(q5) /\ ToSet(p5) \subseteq ToSet(q5)
  <2> HIDE DEF q3
  <2>1. IsList(q3)
      BY <1>9 DEF q3
  <2>2. IsList(q3 \o p4) /\ ToSet(q3) \subseteq ToSet(q3 \o p4)
      BY <1>3, <1>8, <2>1
  <2>3. QED BY <1>3, <1>8, <2>2
<1>11. IsList(q7) /\ ToSet(q5) \subseteq ToSet(q7) /\ ToSet(p6) \subseteq ToSet(q7) /\ ToSet(p7) \subseteq ToSet(q7)
  <2> HIDE DEF q5
  <2>1. IsList(q5 \o p6) /\ ToSet(q5) \subseteq ToSet(q5 \o p6) /\ ToSet(p6) \subseteq ToSet(q5 \o p6)
      BY <1>3, <1>8, <1>10
  <2>2. QED BY <1>3, <1>8, <2>1
<1>12. IsList(q9) /\ ToSet(q7) \subseteq ToSet(q9) /\ ToSet(p9) \subseteq ToSet(q9)
  <2> HIDE DEF q7
  <2>1. IsList(q7 \o p8) /\ ToSet(q7) \subseteq ToSet(q7 \o p8)
      BY <1>3, <1>8, <1>11
  <2>2. QED BY <1>6, <1>8, <2>1
<1>13. ItemsOf(c) = q9 \o p10 \o p11
    BY <1>7
<1> HIDE DEF q9, q7, q5, q3
<1>14. IsList(ItemsOf(c)) /\ ToSet(q9) \subseteq ToSet(ItemsOf(c))
  <2>1. IsList(q9 \o p10) /\ ToSet(q9) \subseteq ToSet(q9 \o p10)
      BY <1>4, <1>8, <1>12
  <2>2. QED BY <1>4, <1>8, <1>13, <2>1
<1>15. /\ ToSet(p3) \subseteq ToSet(ItemsOf(c)) /\ ToSet(p9) \subseteq ToSet(ItemsOf(c))
       /\ ToSet(p5) \subseteq ToSet(ItemsOf(c)) /\ ToSet(p6) \subseteq ToSet(ItemsOf(c))
       /\ ToSet(p7) \subseteq ToSet(ItemsOf(c))
    BY <1>9, <1>10, <1>11, <1>12, <1>14 DEF q3
<1>20. \A g \in ToSet(c.netGroups) : \E e \in ToSet(ItemsOf(c)) :
           e.status = IF \A j \in DOMAIN g.members : GenMember(c, g.members[j]) # <<>> THEN "converted" ELSE "partial"
    BY <1>15, <1>17
<1>21. \A g \in ToSet(c.svcGroups) : \E e \in ToSet(ItemsOf(c)) :
           e.status = IF \A j \in DOMAIN g.members : GenSvcMember(c, g.members[j]) # <<>> THEN "converted" ELSE "partial"
    BY <1>15, <1>18
<1>16. QED BY <1>5, <1>6, <1>14, <1>15, <1>19, <1>20, <1>21

(* A name and a route without an address to write are not reported as clean. *)
LEMMA CleanLiteral ==
    ASSUME NEW c, Wellformed(c), {ItemsOf(c)[j].status : j \in DOMAIN ItemsOf(c)} \subseteq {"converted", "info"}
    PROVE  /\ \A o \in ToSet(c.nets) : o.value \in Literals
           /\ \A r \in ToSet(c.routes) : r.dest \in Literals
<1>1. \A e \in ToSet(ItemsOf(c)) : e.status \in {"converted", "info"}
    BY DEF ToSet
<1>2. \A v : NotFailed(v) \in {"converted", "info"} => v \in Literals
    BY DEF NotFailed
<1>3. QED BY <1>1, <1>2, ItemsAre

-----------------------------------------------------------------------------
(* What was converted is what was read, and its items are of it. *)
Converted == pass # "source" => Wellformed(ir) /\ items = ItemsOf(ir)

LEMMA EmptyFollowed == ASSUME at = 1, x = Empty, IsList(text) PROVE Followed
<1>1. DOMAIN text \subseteq Nat \ {0}
    BY DEF IsList
<1>2. DOMAIN x.routes = {}
    BY DEF Empty
<1>3. QED BY <1>1, <1>2 DEF Followed

LEMMA AlarmInit == Init => Followed /\ Converted /\ NoFalseAlarm
<1>1. SUFFICES ASSUME Init PROVE Followed /\ Converted /\ NoFalseAlarm
    OBVIOUS
<1>2. at = 1 /\ x = Empty /\ pass = "source" /\ IsList(text)
    BY <1>1, ParserInit DEF Init, Begin, Honest
<1>3. QED BY <1>2, EmptyFollowed DEF Converted, NoFalseAlarm

LEMMA AlarmNext ==
    Honest /\ PassOK /\ Followed /\ Converted /\ NoFalseAlarm /\ [Next]_vars
    => Followed' /\ Converted' /\ NoFalseAlarm'
<1>1. SUFFICES ASSUME Honest, PassOK, Followed, Converted, NoFalseAlarm, [Next]_vars
               PROVE  Followed' /\ Converted' /\ NoFalseAlarm'
    OBVIOUS
<1>2. CASE UNCHANGED vars
  <2>1. UNCHANGED <<text, at, x, pass, ir, items, verdict>>
      BY <1>2 DEF vars
  <2>2. Followed'
      BY <1>1, <2>1 DEF Followed, Taken, IfaceTaken, NetTaken, SvcTaken, LineTaken
  <2>3. Converted'
      BY <1>1, <2>1 DEF Converted
  <2>4. NoFalseAlarm'
      BY <1>1, <2>1 DEF NoFalseAlarm, Statuses
  <2>5. QED BY <2>2, <2>3, <2>4
<1>3. CASE Read
  <2>1. Followed'
      BY <1>1, <1>3, FollowedNext DEF Read
  <2>2. QED BY <1>1, <1>3, <2>1 DEF Read, Converted, NoFalseAlarm
<1>4. CASE Convert
  <2>1. IsList(text') /\ at' = 1 /\ x' = Empty
      BY <1>1, <1>4, Generated DEF Convert, Honest
  <2>2. (at = 1 /\ x = Empty /\ IsList(text) => Followed)'
      BY EmptyFollowed, PTL
  <2>3. Converted' /\ NoFalseAlarm'
      BY <1>1, <1>4 DEF Convert, Converted, NoFalseAlarm, Honest
  <2>4. QED BY <2>1, <2>2, <2>3
<1>5. CASE BuildReview
  <2>1. pass = "generated" /\ at = Len(text) + 2 /\ verdict' = Verdict(RoundTripOK(ir, x))
        /\ UNCHANGED <<text, at, x, ir, items>>
      BY <1>5 DEF BuildReview, Closed
  <2>2. Wellformed(ir) /\ items = ItemsOf(ir) /\ text = GenASA(ir) /\ Wellformed(x)
      BY <1>1, <2>1 DEF Converted, PassOK, Honest
  <2>3. Len(text) \in Nat /\ DOMAIN text = 1..Len(text)
      BY <1>1 DEF Honest, IsList
  <2>4. Reread(ir, x, text) /\ Once(text, x)
    <3>1. \A j \in DOMAIN text : j < at
        BY <2>1, <2>3
    <3>2. \A j \in DOMAIN text : Stops(text[j]) => Taken(text, x, j)
        BY <1>1, <3>1 DEF Followed, Stops
    <3>3. QED BY <1>1, <2>2, <3>2 DEF Reread, Once, Followed
  <2>5. ASSUME Statuses \subseteq {"converted", "info"} PROVE Verdict(RoundTripOK(ir, x)) = "ready"
    <3>1. \A o \in ToSet(ir.nets) : o.value \in Literals
        BY <2>2, <2>5, CleanLiteral DEF Statuses
    <3>2. \A r \in ToSet(ir.routes) : r.dest \in Literals
        BY <2>2, <2>5, CleanLiteral DEF Statuses
    <3>3. RoundTripOK(ir, x)
        BY <2>4, <3>1, <3>2, Survives
    <3>4. "failed" \notin Statuses /\ Statuses \intersect {"partial", "manual"} = {}
        BY <2>5
    <3>5. QED BY <3>3, <3>4 DEF Verdict
  <2>6. Followed' /\ Converted'
      BY <1>1, <2>1, <2>2 DEF Followed, Taken, IfaceTaken, NetTaken, SvcTaken, LineTaken, Converted
  <2>7. NoFalseAlarm'
      BY <2>1, <2>5 DEF NoFalseAlarm, Statuses
  <2>8. QED BY <2>6, <2>7
<1>6. QED BY <1>1, <1>2, <1>3, <1>4, <1>5 DEF Next

(* A review is never asked for without an item that says why: what was      *)
(* written of a context in which no element failed, is partial or is left   *)
(* to the reader, and read again, has every value and the counts that the   *)
(* checks compare, whatever text was uploaded.                              *)
THEOREM AlarmsHaveReasons == Spec => []NoFalseAlarm
BY ParserInit, ParserNext, PassInit, PassNext, AlarmInit, AlarmNext, PTL DEF Spec
-----------------------------------------------------------------------------
(* What a command leaves in each list of the context, and nothing else.     *)
ValuesIn(t, j) == Readable(Only(Body(t, j), "value"))
SpecLines(t, j) == Only(Body(t, j), "spec")
NetsOf(t, j) ==
    IF t[j].k = "object" /\ ValuesIn(t, j) # <<>>
    THEN {[line |-> j, name |-> t[j].name, value |-> Last(ValuesIn(t, j)).v]}
    ELSE IF t[j].k = "name" THEN {[line |-> j, name |-> t[j].name, value |-> t[j].v]} ELSE {}
SvcsOf(t, j) ==
    IF t[j].k = "service" /\ SpecLines(t, j) # <<>>
    THEN {[line |-> j, name |-> t[j].name, proto |-> Last(SpecLines(t, j)).proto,
           sport |-> ParsePortSpec(Last(SpecLines(t, j)).sport), port |-> ParsePortSpec(Last(SpecLines(t, j)).dport)]}
    ELSE {}
NetGroupsOf(t, j) ==
    IF t[j].k = "object-group" /\ t[j].of = "network"
    THEN {[line |-> j, name |-> t[j].name, members |-> ParseNetMembers(Body(t, j))]} ELSE {}
SvcGroupsOf(t, j) ==
    IF t[j].k = "object-group" /\ t[j].of = "service"
    THEN {[line |-> j, name |-> t[j].name, members |-> ParseSvcMembers(t[j].proto, Body(t, j))]} ELSE {}
RoutesAt(t, j) ==
    IF t[j].k = "route" /\ t[j].ok
    THEN {[line |-> j, iface |-> t[j].iface, dest |-> t[j].dest, gw |-> t[j].gw, metric |-> t[j].metric]} ELSE {}

(* An interface without what later lines change of it.                      *)
PortOf(i) == [line |-> i.line, alias |-> i.alias, sec |-> i.sec, ips |-> i.ips]
PortsAt(t, j) ==
    IF t[j].k = "interface"
    THEN {[line |-> j, alias |-> LastOf(Only(Body(t, j), "nameif"), ""),
           sec |-> LastOf(Only(Body(t, j), "security-level"), NoLevel),
           ips |-> Values(Readable(Only(Body(t, j), "ip")))]}
    ELSE {}
Ports(c) == {PortOf(i) : i \in ToSet(c.ifs)}
Zoned0(ports) == {p \in ports : p.alias # ""}

(* A list holds what the commands before n leave, in their order.           *)
Holds(s, F, n) ==
    /\ \A e : e \in ToSet(s) <=> \E j \in DOMAIN F : j < n /\ e \in F[j]
    /\ \A i, j \in DOMAIN s : i < j => s[i].line < s[j].line

Exact(t, c, n) ==
    /\ Holds(c.nets, [j \in DOMAIN t |-> NetsOf(t, j)], n)
    /\ Holds(c.svcs, [j \in DOMAIN t |-> SvcsOf(t, j)], n)
    /\ Holds(c.netGroups, [j \in DOMAIN t |-> NetGroupsOf(t, j)], n)
    /\ Holds(c.svcGroups, [j \in DOMAIN t |-> SvcGroupsOf(t, j)], n)
    /\ Holds(c.routes, [j \in DOMAIN t |-> RoutesAt(t, j)], n)
    /\ Zoned0(Ports(c)) = Zoned0(UNION {PortsAt(t, j) : j \in {i \in DOMAIN t : i < n}})
    /\ \A j \in DOMAIN t : j < n /\ t[j].k = "route" /\ ~t[j].ok => j \in c.unparsed

Adds(s, u, S) == (u = s /\ S = {}) \/ \E e : u = Append(s, e) /\ S = {e}

LEMMA HoldsMore ==
    ASSUME NEW s, IsList(s), NEW u, NEW F, DOMAIN F \subseteq Nat, NEW n \in Nat, NEW m \in Nat, n < m, n \in DOMAIN F,
           \A j \in DOMAIN F : \A e \in F[j] : e.line = j,
           \A j \in DOMAIN F : n < j /\ j < m => F[j] = {},
           Holds(s, F, n), Adds(s, u, F[n])
    PROVE  Holds(u, F, m)
<1>1. \A j \in DOMAIN F : j < m <=> j < n \/ j = n \/ (n < j /\ j < m)
    OBVIOUS
<1>2. CASE u = s /\ F[n] = {}
    BY <1>1, <1>2 DEF Holds
<1>3. CASE \E e : u = Append(s, e) /\ F[n] = {e}
  <2>1. PICK e : u = Append(s, e) /\ F[n] = {e}
      BY <1>3
  <2>2. ToSet(u) = ToSet(s) \union {e} /\ e.line = n
      BY <2>1, AppendList
  <2>3. \A d : d \in ToSet(u) <=> \E j \in DOMAIN F : j < m /\ d \in F[j]
      BY <1>1, <2>1, <2>2 DEF Holds
  <2>4. \A d \in ToSet(s) : d.line < n
      BY DEF Holds
  <2>5. /\ Len(s) \in Nat /\ DOMAIN s = 1..Len(s) /\ DOMAIN u = 1..(Len(s) + 1)
        /\ \A j \in 1..Len(s) : u[j] = s[j]
        /\ u[Len(s) + 1] = e
    <3>1. s \in Seq(ToSet(s) \union {e}) /\ DOMAIN s = 1..Len(s) /\ Len(s) \in Nat
        BY DEF IsList
    <3>2. QED BY <2>1, <3>1
  <2>6. ASSUME NEW i \in DOMAIN u, NEW j \in DOMAIN u, i < j PROVE u[i].line < u[j].line
    <3>1. i \in DOMAIN s /\ u[i] = s[i]
        BY <2>5, <2>6
    <3>2. CASE j \in DOMAIN s
        BY <2>5, <2>6, <3>1, <3>2 DEF Holds
    <3>3. CASE j = Len(s) + 1
        BY <2>2, <2>4, <2>5, <3>1, <3>3 DEF ToSet
    <3>4. QED BY <2>5, <3>2, <3>3
  <2>7. QED BY <2>3, <2>6 DEF Holds
<1>4. QED BY <1>2, <1>3 DEF Adds

(* One reading step, of all lists. *)
Step(t, c, d, j) ==
    /\ Adds(c.nets, d.nets, NetsOf(t, j)) /\ Adds(c.svcs, d.svcs, SvcsOf(t, j))
    /\ Adds(c.netGroups, d.netGroups, NetGroupsOf(t, j)) /\ Adds(c.svcGroups, d.svcGroups, SvcGroupsOf(t, j))
    /\ Adds(c.routes, d.routes, RoutesAt(t, j))
    /\ Ports(d) = Ports(c) \union PortsAt(t, j)
    /\ c.unparsed \subseteq d.unparsed
    /\ t[j].k = "route" /\ ~t[j].ok => j \in d.unparsed

LEMMA LinesGiven ==
    ASSUME NEW t, NEW j
    PROVE  /\ \A e \in NetsOf(t, j) \union SvcsOf(t, j) \union NetGroupsOf(t, j) \union SvcGroupsOf(t, j)
                      \union RoutesAt(t, j) : e.line = j
           /\ t[j].k \notin Commands => /\ NetsOf(t, j) = {} /\ SvcsOf(t, j) = {} /\ NetGroupsOf(t, j) = {}
                                        /\ SvcGroupsOf(t, j) = {} /\ RoutesAt(t, j) = {} /\ PortsAt(t, j) = {}
                                        /\ t[j].k # "route"
<1>1. \A e \in NetsOf(t, j) : e.line = j
    BY DEF NetsOf
<1>2. \A e \in SvcsOf(t, j) : e.line = j
    BY DEF SvcsOf
<1>3. \A e \in NetGroupsOf(t, j) \union SvcGroupsOf(t, j) \union RoutesAt(t, j) : e.line = j
    BY DEF NetGroupsOf, SvcGroupsOf, RoutesAt
<1>4. t[j].k \notin Commands => /\ NetsOf(t, j) = {} /\ SvcsOf(t, j) = {} /\ NetGroupsOf(t, j) = {}
                                /\ SvcGroupsOf(t, j) = {} /\ RoutesAt(t, j) = {} /\ PortsAt(t, j) = {}
                                /\ t[j].k # "route"
    BY DEF NetsOf, SvcsOf, NetGroupsOf, SvcGroupsOf, RoutesAt, PortsAt, Commands
<1>5. QED BY <1>1, <1>2, <1>3, <1>4

LEMMA ExactMore ==
    ASSUME NEW t, IsList(t), NEW c, Wellformed(c), NEW d, NEW n \in DOMAIN t, NEW m \in Nat, n < m,
           \A j \in DOMAIN t : n < j /\ j < m => t[j].k \notin Commands,
           Exact(t, c, n), Step(t, c, d, n)
    PROVE  Exact(t, d, m)
<1>1. DOMAIN t \subseteq Nat /\ n \in Nat
    BY DEF IsList
<1>2. \A j \in DOMAIN t : n < j /\ j < m =>
          /\ NetsOf(t, j) = {} /\ SvcsOf(t, j) = {} /\ NetGroupsOf(t, j) = {}
          /\ SvcGroupsOf(t, j) = {} /\ RoutesAt(t, j) = {} /\ PortsAt(t, j) = {} /\ t[j].k # "route"
    BY LinesGiven
<1>3. IsList(c.nets) /\ IsList(c.svcs) /\ IsList(c.netGroups) /\ IsList(c.svcGroups) /\ IsList(c.routes)
    BY DEF Wellformed
<1>4. Holds(d.nets, [j \in DOMAIN t |-> NetsOf(t, j)], m)
  <2> DEFINE F == [j \in DOMAIN t |-> NetsOf(t, j)]
  <2>1. DOMAIN F = DOMAIN t /\ \A j \in DOMAIN t : F[j] = NetsOf(t, j)
      OBVIOUS
  <2>2. Holds(c.nets, F, n) /\ Adds(c.nets, d.nets, F[n])
      BY DEF Exact, Step
  <2> HIDE DEF F
  <2>3. \A j \in DOMAIN F : \A e \in F[j] : e.line = j
      BY <2>1, LinesGiven
  <2>4. Holds(d.nets, F, m)
      BY <1>1, <1>2, <1>3, <2>1, <2>2, <2>3, HoldsMore
  <2>5. QED BY <2>4 DEF F
<1>5. Holds(d.svcs, [j \in DOMAIN t |-> SvcsOf(t, j)], m)
  <2> DEFINE F == [j \in DOMAIN t |-> SvcsOf(t, j)]
  <2>1. DOMAIN F = DOMAIN t /\ \A j \in DOMAIN t : F[j] = SvcsOf(t, j)
      OBVIOUS
  <2>2. Holds(c.svcs, F, n) /\ Adds(c.svcs, d.svcs, F[n])
      BY DEF Exact, Step
  <2> HIDE DEF F
  <2>3. \A j \in DOMAIN F : \A e \in F[j] : e.line = j
      BY <2>1, LinesGiven
  <2>4. Holds(d.svcs, F, m)
      BY <1>1, <1>2, <1>3, <2>1, <2>2, <2>3, HoldsMore
  <2>5. QED BY <2>4 DEF F
<1>6. Holds(d.netGroups, [j \in DOMAIN t |-> NetGroupsOf(t, j)], m)
  <2> DEFINE F == [j \in DOMAIN t |-> NetGroupsOf(t, j)]
  <2>1. DOMAIN F = DOMAIN t /\ \A j \in DOMAIN t : F[j] = NetGroupsOf(t, j)
      OBVIOUS
  <2>2. Holds(c.netGroups, F, n) /\ Adds(c.netGroups, d.netGroups, F[n])
      BY DEF Exact, Step
  <2> HIDE DEF F
  <2>3. \A j \in DOMAIN F : \A e \in F[j] : e.line = j
      BY <2>1, LinesGiven
  <2>4. Holds(d.netGroups, F, m)
      BY <1>1, <1>2, <1>3, <2>1, <2>2, <2>3, HoldsMore
  <2>5. QED BY <2>4 DEF F
<1>7. Holds(d.svcGroups, [j \in DOMAIN t |-> SvcGroupsOf(t, j)], m)
  <2> DEFINE F == [j \in DOMAIN t |-> SvcGroupsOf(t, j)]
  <2>1. DOMAIN F = DOMAIN t /\ \A j \in DOMAIN t : F[j] = SvcGroupsOf(t, j)
      OBVIOUS
  <2>2. Holds(c.svcGroups, F, n) /\ Adds(c.svcGroups, d.svcGroups, F[n])
      BY DEF Exact, Step
  <2> HIDE DEF F
  <2>3. \A j \in DOMAIN F : \A e \in F[j] : e.line = j
      BY <2>1, LinesGiven
  <2>4. Holds(d.svcGroups, F, m)
      BY <1>1, <1>2, <1>3, <2>1, <2>2, <2>3, HoldsMore
  <2>5. QED BY <2>4 DEF F
<1>8. Holds(d.routes, [j \in DOMAIN t |-> RoutesAt(t, j)], m)
  <2> DEFINE F == [j \in DOMAIN t |-> RoutesAt(t, j)]
  <2>1. DOMAIN F = DOMAIN t /\ \A j \in DOMAIN t : F[j] = RoutesAt(t, j)
      OBVIOUS
  <2>2. Holds(c.routes, F, n) /\ Adds(c.routes, d.routes, F[n])
      BY DEF Exact, Step
  <2> HIDE DEF F
  <2>3. \A j \in DOMAIN F : \A e \in F[j] : e.line = j
      BY <2>1, LinesGiven
  <2>4. Holds(d.routes, F, m)
      BY <1>1, <1>2, <1>3, <2>1, <2>2, <2>3, HoldsMore
  <2>5. QED BY <2>4 DEF F
<1>9. Zoned0(Ports(d)) = Zoned0(UNION {PortsAt(t, j) : j \in {i \in DOMAIN t : i < m}})
  <2> DEFINE A == UNION {PortsAt(t, j) : j \in {i \in DOMAIN t : i < n}}
             B == UNION {PortsAt(t, j) : j \in {i \in DOMAIN t : i < m}}
  <2>1. \A p : p \in B <=> \E j \in DOMAIN t : j < m /\ p \in PortsAt(t, j)
      OBVIOUS
  <2>2. \A p : p \in A <=> \E j \in DOMAIN t : j < n /\ p \in PortsAt(t, j)
      OBVIOUS
  <2>3. \A j \in DOMAIN t : j < m <=> j < n \/ j = n \/ (n < j /\ j < m)
      BY <1>1
  <2>4. Zoned0(Ports(c)) = Zoned0(A) /\ Ports(d) = Ports(c) \union PortsAt(t, n)
      BY DEF Exact, Step
  <2> HIDE DEF A, B
  <2>5. B = A \union PortsAt(t, n)
      BY <1>2, <2>1, <2>2, <2>3
  <2>6. QED BY <2>4, <2>5 DEF Zoned0, B
<1>10. \A j \in DOMAIN t : j < m /\ t[j].k = "route" /\ ~t[j].ok => j \in d.unparsed
  <2>1. \A j \in DOMAIN t : j < m <=> j < n \/ j = n \/ (n < j /\ j < m)
      BY <1>1
  <2>2. QED BY <1>2, <2>1 DEF Exact, Step
<1>11. QED BY <1>4, <1>5, <1>6, <1>7, <1>8, <1>9, <1>10 DEF Exact

(* Each command leaves what it says, whatever is there. *)
IfaceFields == {"line", "name", "alias", "vlan", "sec", "ips", "shutdown", "members", "mtu"}
Full(c) == \A i \in ToSet(c.ifs) : IfaceFields \subseteq DOMAIN i
Steps == Step(text, x, x', at) /\ Full(x')

LEMMA StepInterface == ASSUME Honest, Full(x), ParseInterface PROVE Steps
<1> DEFINE e == InterfaceOf(Line.name, Block)
<1>1. text[at].k = "interface" /\ Wellformed(x) /\ IsList(x.ifs)
    BY DEF ParseInterface, Is, Honest, Wellformed
<1>2. x' = [x EXCEPT !.ifs = Append(@, e)]
    BY DEF ParseInterface
<1>3. PortsAt(text, at) = {PortOf(e)} /\ IfaceFields \subseteq DOMAIN e
    BY <1>1 DEF IfaceFields, PortsAt, PortOf, InterfaceOf, Block, Line
<1> HIDE DEF e
<1>4. /\ x'.nets = x.nets /\ x'.svcs = x.svcs /\ x'.netGroups = x.netGroups /\ x'.svcGroups = x.svcGroups
      /\ x'.routes = x.routes /\ x'.unparsed = x.unparsed /\ x'.ifs = Append(x.ifs, e)
    BY <1>1, <1>2 DEF Wellformed, Fields
<1>5. ToSet(x'.ifs) = ToSet(x.ifs) \union {e}
    BY <1>1, <1>4, AppendList
<1>6. /\ NetsOf(text, at) = {} /\ SvcsOf(text, at) = {} /\ NetGroupsOf(text, at) = {}
      /\ SvcGroupsOf(text, at) = {} /\ RoutesAt(text, at) = {}
    BY <1>1 DEF NetsOf, SvcsOf, NetGroupsOf, SvcGroupsOf, RoutesAt
<1>7. Ports(x') = Ports(x) \union PortsAt(text, at)
    BY <1>3, <1>5 DEF Ports
<1>8. Full(x')
    BY <1>3, <1>5 DEF Full
<1>9. QED BY <1>1, <1>4, <1>6, <1>7, <1>8 DEF Steps, Step, Adds

(* What the interfaces are, is not touched by the other lines. *)
LEMMA SamePorts ==
    ASSUME Wellformed(x), Full(x), text[at].k # "interface", x'.ifs = x.ifs
    PROVE  Ports(x') = Ports(x) \union PortsAt(text, at) /\ Full(x')
BY DEF Ports, PortsAt, Full

LEMMA StepNetwork == ASSUME Honest, Full(x), ParseObjectNetwork PROVE Steps
<1> DEFINE values == ValuesIn(text, at)
           e == [line |-> at, name |-> Line.name, value |-> Last(values).v]
<1>1. text[at].k = "object" /\ Wellformed(x)
    BY DEF ParseObjectNetwork, Is, Honest
<1>2. /\ x'.nets = IF values = <<>> THEN x.nets ELSE Append(x.nets, e)
      /\ x'.svcs = x.svcs /\ x'.netGroups = x.netGroups /\ x'.svcGroups = x.svcGroups
      /\ x'.routes = x.routes /\ x.unparsed \subseteq x'.unparsed /\ x'.ifs = x.ifs
    BY <1>1 DEF ParseObjectNetwork, Wellformed, Fields, ValuesIn, Block
<1>3. NetsOf(text, at) = IF values = <<>> THEN {} ELSE {e}
    BY <1>1 DEF NetsOf, Line
<1> HIDE DEF e, values
<1>4. /\ SvcsOf(text, at) = {} /\ NetGroupsOf(text, at) = {} /\ SvcGroupsOf(text, at) = {} /\ RoutesAt(text, at) = {}
    BY <1>1 DEF SvcsOf, NetGroupsOf, SvcGroupsOf, RoutesAt
<1>5. Ports(x') = Ports(x) \union PortsAt(text, at) /\ Full(x')
    BY <1>1, <1>2, SamePorts
<1>6. QED BY <1>1, <1>2, <1>3, <1>4, <1>5 DEF Steps, Step, Adds

LEMMA StepService == ASSUME Honest, Full(x), ParseObjectService PROVE Steps
<1> DEFINE specs == SpecLines(text, at)
           e == [line |-> at, name |-> Line.name, proto |-> Last(specs).proto,
                 sport |-> ParsePortSpec(Last(specs).sport), port |-> ParsePortSpec(Last(specs).dport)]
<1>1. text[at].k = "service" /\ Wellformed(x)
    BY DEF ParseObjectService, Is, Honest
<1>2. /\ x'.svcs = IF specs = <<>> THEN x.svcs ELSE Append(x.svcs, e)
      /\ x'.nets = x.nets /\ x'.netGroups = x.netGroups /\ x'.svcGroups = x.svcGroups
      /\ x'.routes = x.routes /\ x.unparsed = x'.unparsed /\ x'.ifs = x.ifs
    BY <1>1 DEF ParseObjectService, Wellformed, Fields, SpecLines, Block
<1>3. SvcsOf(text, at) = IF specs = <<>> THEN {} ELSE {e}
    BY <1>1 DEF SvcsOf, Line
<1> HIDE DEF e, specs
<1>4. /\ NetsOf(text, at) = {} /\ NetGroupsOf(text, at) = {} /\ SvcGroupsOf(text, at) = {} /\ RoutesAt(text, at) = {}
    BY <1>1 DEF NetsOf, NetGroupsOf, SvcGroupsOf, RoutesAt
<1>5. Ports(x') = Ports(x) \union PortsAt(text, at) /\ Full(x')
    BY <1>1, <1>2, SamePorts
<1>6. QED BY <1>1, <1>2, <1>3, <1>4, <1>5 DEF Steps, Step, Adds

LEMMA StepGroup == ASSUME Honest, Full(x), ParseObjectGroup PROVE Steps
<1> DEFINE e == [line |-> at, name |-> Line.name, members |-> ParseNetMembers(Block)]
           f == [line |-> at, name |-> Line.name, members |-> ParseSvcMembers(Line.proto, Block)]
<1>1. text[at].k = "object-group" /\ Wellformed(x)
    BY DEF ParseObjectGroup, Is, Honest
<1>2. /\ NetGroupsOf(text, at) = IF Line.of = "network" THEN {e} ELSE {}
      /\ SvcGroupsOf(text, at) = IF Line.of = "service" THEN {f} ELSE {}
    BY <1>1 DEF NetGroupsOf, SvcGroupsOf, Line, Block
<1>3. x' = CASE Line.of = "network" -> [x EXCEPT !.netGroups = Append(@, e)]
             [] Line.of = "service" -> [x EXCEPT !.svcGroups = Append(@, f)]
             [] Line.of = "protocol" -> [x EXCEPT !.captured = @ \union {at}]
             [] OTHER -> [x EXCEPT !.unparsed = @ \union {at}]
    BY DEF ParseObjectGroup
<1> HIDE DEF e, f
<1>4. /\ x'.nets = x.nets /\ x'.svcs = x.svcs
      /\ x'.netGroups = IF Line.of = "network" THEN Append(x.netGroups, e) ELSE x.netGroups
      /\ x'.svcGroups = IF Line.of = "service" THEN Append(x.svcGroups, f) ELSE x.svcGroups
      /\ x'.routes = x.routes /\ x.unparsed \subseteq x'.unparsed /\ x'.ifs = x.ifs
    BY <1>1, <1>3 DEF Wellformed, Fields
<1>5. NetsOf(text, at) = {} /\ SvcsOf(text, at) = {} /\ RoutesAt(text, at) = {}
    BY <1>1 DEF NetsOf, SvcsOf, RoutesAt
<1>6. Ports(x') = Ports(x) \union PortsAt(text, at) /\ Full(x')
    BY <1>1, <1>4, SamePorts
<1>7. QED BY <1>1, <1>2, <1>4, <1>5, <1>6 DEF Steps, Step, Adds

LEMMA StepName == ASSUME Honest, Full(x), ParseName PROVE Steps
<1> DEFINE e == [line |-> at, name |-> Line.name, value |-> Line.v]
<1>1. text[at].k = "name" /\ Wellformed(x) /\ NetsOf(text, at) = {e}
    BY DEF ParseName, Is, Honest, NetsOf, Line
<1>2. /\ x'.nets = Append(x.nets, e) /\ x'.svcs = x.svcs /\ x'.netGroups = x.netGroups
      /\ x'.svcGroups = x.svcGroups /\ x'.routes = x.routes /\ x.unparsed = x'.unparsed /\ x'.ifs = x.ifs
    BY <1>1 DEF ParseName, Wellformed, Fields
<1> HIDE DEF e
<1>3. SvcsOf(text, at) = {} /\ NetGroupsOf(text, at) = {} /\ SvcGroupsOf(text, at) = {} /\ RoutesAt(text, at) = {}
    BY <1>1 DEF SvcsOf, NetGroupsOf, SvcGroupsOf, RoutesAt
<1>4. Ports(x') = Ports(x) \union PortsAt(text, at) /\ Full(x')
    BY <1>1, <1>2, SamePorts
<1>5. QED BY <1>1, <1>2, <1>3, <1>4 DEF Steps, Step, Adds

LEMMA StepRoute == ASSUME Honest, Full(x), ParseRoute PROVE Steps
<1> DEFINE e == [line |-> at, iface |-> Line.iface, dest |-> Line.dest, gw |-> Line.gw, metric |-> Line.metric]
<1>1. text[at].k = "route" /\ Wellformed(x) /\ RoutesAt(text, at) = IF Line.ok THEN {e} ELSE {}
    BY DEF ParseRoute, Is, Honest, RoutesAt, Line
<1>2. x' = IF Line.ok THEN [x EXCEPT !.routes = Append(@, e)] ELSE [x EXCEPT !.unparsed = @ \union {at}]
    BY DEF ParseRoute
<1> HIDE DEF e
<1>3. /\ x'.routes = IF Line.ok THEN Append(x.routes, e) ELSE x.routes
      /\ x'.unparsed = IF Line.ok THEN x.unparsed ELSE x.unparsed \union {at}
      /\ x'.nets = x.nets /\ x'.svcs = x.svcs /\ x'.netGroups = x.netGroups
      /\ x'.svcGroups = x.svcGroups /\ x'.ifs = x.ifs
    BY <1>1, <1>2 DEF Wellformed, Fields
<1>4. NetsOf(text, at) = {} /\ SvcsOf(text, at) = {} /\ NetGroupsOf(text, at) = {} /\ SvcGroupsOf(text, at) = {}
    BY <1>1 DEF NetsOf, SvcsOf, NetGroupsOf, SvcGroupsOf
<1>5. Ports(x') = Ports(x) \union PortsAt(text, at) /\ Full(x')
    BY <1>1, <1>3, SamePorts
<1>6. QED BY <1>1, <1>3, <1>4, <1>5 DEF Steps, Step, Adds, Line

LEMMA StepOther ==
    ASSUME Honest, Full(x), ParseRemark \/ ParseRule \/ ParseAccessGroup \/ ParseNAT \/ Capture \/ ParseOther
    PROVE  Steps
<1>1. Wellformed(x) /\ text[at].k \notin {"interface", "object", "service", "object-group", "name", "route"}
    BY DEF ParseRemark, ParseRule, ParseAccessGroup, ParseNAT, Capture, ParseOther, Is, Honest, Commands, Line
<1>2. /\ x'.nets = x.nets /\ x'.svcs = x.svcs /\ x'.netGroups = x.netGroups
      /\ x'.svcGroups = x.svcGroups /\ x'.ifs = x.ifs /\ x'.routes = x.routes /\ x.unparsed \subseteq x'.unparsed
    BY <1>1 DEF ParseRemark, ParseRule, ParseAccessGroup, ParseNAT, Capture, ParseOther, Wellformed, Fields
<1>3. /\ NetsOf(text, at) = {} /\ SvcsOf(text, at) = {} /\ NetGroupsOf(text, at) = {} /\ SvcGroupsOf(text, at) = {}
      /\ RoutesAt(text, at) = {}
    BY <1>1 DEF NetsOf, SvcsOf, NetGroupsOf, SvcGroupsOf, RoutesAt
<1>4. Ports(x') = Ports(x) \union PortsAt(text, at) /\ Full(x')
    BY <1>1, <1>2, SamePorts
<1>5. QED BY <1>1, <1>2, <1>3, <1>4 DEF Steps, Step, Adds

LEMMA StepMtu == ASSUME Honest, Full(x), ParseMTU PROVE Steps
<1> DEFINE f == [j \in DOMAIN x.ifs |->
                    IF x.ifs[j].alias = Line.iface THEN [x.ifs[j] EXCEPT !.mtu = Line.v] ELSE x.ifs[j]]
<1>1. Wellformed(x) /\ text[at].k = "mtu" /\ x' = [x EXCEPT !.ifs = f]
    BY DEF ParseMTU, Is, Honest
<1>2. ASSUME NEW j \in DOMAIN x.ifs
      PROVE  PortOf(f[j]) = PortOf(x.ifs[j]) /\ IfaceFields \subseteq DOMAIN f[j]
  <2>1. IfaceFields \subseteq DOMAIN x.ifs[j]
      BY DEF Full, ToSet
  <2>2. QED BY <2>1 DEF PortOf, IfaceFields
<1>3. DOMAIN f = DOMAIN x.ifs
    OBVIOUS
<1> HIDE DEF f
<1>4. /\ x'.ifs = f /\ x'.nets = x.nets /\ x'.svcs = x.svcs /\ x'.netGroups = x.netGroups
      /\ x'.svcGroups = x.svcGroups /\ x'.routes = x.routes /\ x.unparsed = x'.unparsed
    BY <1>1 DEF Wellformed, Fields
<1>5. /\ NetsOf(text, at) = {} /\ SvcsOf(text, at) = {} /\ NetGroupsOf(text, at) = {} /\ SvcGroupsOf(text, at) = {}
      /\ RoutesAt(text, at) = {} /\ PortsAt(text, at) = {}
    BY <1>1 DEF NetsOf, SvcsOf, NetGroupsOf, SvcGroupsOf, RoutesAt, PortsAt
<1>6. Ports(x') = Ports(x) /\ Full(x')
    BY <1>2, <1>3, <1>4 DEF Ports, Full, ToSet
<1>7. QED BY <1>1, <1>4, <1>5, <1>6 DEF Steps, Step, Adds

Bare(b) == PortOf(b).alias = "" /\ IfaceFields \subseteq DOMAIN b
LEMMA BundlesBare ==
    ASSUME NEW ifs, NEW k, NEW kind, NEW s \in NewBundles(ifs, k, kind), NEW b \in ToSet(s)
    PROVE  Bare(b)
<1>1. PICK order : s = [j \in DOMAIN order |-> NewBundle(order[j], kind)]
    BY DEF NewBundles
<1>2. PICK j \in DOMAIN order : b = NewBundle(order[j], kind)
    BY <1>1 DEF ToSet
<1>3. b.alias = "" /\ IfaceFields \subseteq DOMAIN b
    BY <1>2 DEF NewBundle, IfaceFields
<1>4. QED BY <1>3 DEF PortOf, Bare

CloseAll ==
    /\ x'.nets = x.nets /\ x'.svcs = x.svcs /\ x'.netGroups = x.netGroups
    /\ x'.svcGroups = x.svcGroups /\ x'.routes = x.routes /\ x.unparsed = x'.unparsed
    /\ Zoned0(Ports(x')) = Zoned0(Ports(x)) /\ Full(x')

LEMMA CloseFull == ASSUME Honest, Full(x), Close PROVE CloseAll
<1>1. Wellformed(x) /\ IsList(joins)
    BY DEF Honest
<1>2. PICK bridges \in NewBundles(x.ifs, "bridge-group", "bridge"),
           channels \in NewBundles(x.ifs, "channel-group", "aggregate") :
          x' = [x EXCEPT !.ifs = Attach(@) \o bridges \o channels,
                         !.rules = [j \in DOMAIN @ |-> Bound(@[j])]]
    BY DEF Close
<1>3. /\ x'.ifs = Attach(x.ifs) \o bridges \o channels
      /\ x'.nets = x.nets /\ x'.svcs = x.svcs /\ x'.netGroups = x.netGroups
      /\ x'.svcGroups = x.svcGroups /\ x'.routes = x.routes /\ x.unparsed = x'.unparsed
    BY <1>1, <1>2 DEF Wellformed, Fields
<1>4. ASSUME NEW j \in DOMAIN x.ifs
      PROVE  /\ PortOf(Attach(x.ifs)[j]) = PortOf(x.ifs[j])
             /\ IfaceFields \subseteq DOMAIN Attach(x.ifs)[j]
  <2>1. IfaceFields \subseteq DOMAIN x.ifs[j]
      BY DEF Full, ToSet
  <2>2. QED BY <2>1 DEF IfaceFields, PortOf, Attach
<1>5. IsList(Attach(x.ifs)) /\ DOMAIN Attach(x.ifs) = DOMAIN x.ifs
  <2>1. IsList(x.ifs) /\ Attach(x.ifs) = [j \in DOMAIN x.ifs |-> Attach(x.ifs)[j]]
      BY <1>1 DEF Wellformed, Attach
  <2>2. QED BY <2>1, MappedList
<1>6. \A b \in ToSet(bridges) \union ToSet(channels) : Bare(b)
    BY BundlesBare
<1>7. ToSet(x'.ifs) = ToSet(Attach(x.ifs)) \union (ToSet(bridges) \union ToSet(channels))
  <2>1. IsList(bridges) /\ IsList(channels)
      BY <1>1, BundlesList
  <2>2. IsList(Attach(x.ifs) \o bridges)
        /\ ToSet(Attach(x.ifs) \o bridges) = ToSet(Attach(x.ifs)) \union ToSet(bridges)
      BY <1>5, <2>1, ConcatList
  <2>3. ToSet(x'.ifs) = ToSet(Attach(x.ifs) \o bridges) \union ToSet(channels)
      BY <1>3, <2>1, <2>2, ConcatList
  <2>4. QED BY <2>2, <2>3
<1>8. Full(x')
  <2>1. ToSet(Attach(x.ifs)) = {Attach(x.ifs)[j] : j \in DOMAIN x.ifs}
      BY <1>5 DEF ToSet
  <2>2. QED BY <1>4, <1>6, <1>7, <2>1 DEF Full, Bare
<1>9. Zoned0(Ports(x')) = Zoned0(Ports(x))
  <2>1. ToSet(Attach(x.ifs)) = {Attach(x.ifs)[j] : j \in DOMAIN x.ifs} /\ ToSet(x.ifs) = {x.ifs[j] : j \in DOMAIN x.ifs}
      BY <1>5 DEF ToSet
  <2>2. {PortOf(i) : i \in ToSet(Attach(x.ifs))} = Ports(x)
      BY <1>4, <2>1 DEF Ports
  <2>3. Ports(x') = Ports(x) \union {PortOf(b) : b \in ToSet(bridges) \union ToSet(channels)}
      BY <1>7, <2>2 DEF Ports
  <2>4. QED BY <1>6, <2>3 DEF Zoned0, Bare
<1>10. QED BY <1>3, <1>8, <1>9 DEF CloseAll

LEMMA CloseExact ==
    ASSUME Honest, Full(x), Close, NEW t, IsList(t), Len(t) = Len(text), Exact(t, x, at)
    PROVE  Exact(t, x', at')
<1>1. at = Len(t) + 1 /\ Len(t) \in Nat /\ at' = at + 1
    BY DEF Close, IsList
<1>3. /\ x'.nets = x.nets /\ x'.svcs = x.svcs /\ x'.netGroups = x.netGroups
      /\ x'.svcGroups = x.svcGroups /\ x'.routes = x.routes /\ x.unparsed = x'.unparsed
      /\ Zoned0(Ports(x')) = Zoned0(Ports(x))
    BY CloseFull DEF CloseAll
<1>10. \A j \in DOMAIN t : j < at /\ j < at'
    BY <1>1 DEF IsList
<1>11. ASSUME NEW s, NEW F, DOMAIN F = DOMAIN t, Holds(s, F, at) PROVE Holds(s, F, at')
    BY <1>10, <1>11 DEF Holds
<1>12. {i \in DOMAIN t : i < at} = {i \in DOMAIN t : i < at'}
    BY <1>10
<1>13. /\ Holds(x'.nets, [j \in DOMAIN t |-> NetsOf(t, j)], at')
       /\ Holds(x'.svcs, [j \in DOMAIN t |-> SvcsOf(t, j)], at')
       /\ Holds(x'.netGroups, [j \in DOMAIN t |-> NetGroupsOf(t, j)], at')
       /\ Holds(x'.svcGroups, [j \in DOMAIN t |-> SvcGroupsOf(t, j)], at')
       /\ Holds(x'.routes, [j \in DOMAIN t |-> RoutesAt(t, j)], at')
  <2>1. ASSUME NEW s, NEW F, DOMAIN F = DOMAIN t, Holds(s, F, at) PROVE Holds(s, F, at')
      BY <1>11, <2>1
  <2>2. Holds(x'.nets, [j \in DOMAIN t |-> NetsOf(t, j)], at')
      BY <1>3, <2>1 DEF Exact
  <2>3. Holds(x'.svcs, [j \in DOMAIN t |-> SvcsOf(t, j)], at')
      BY <1>3, <2>1 DEF Exact
  <2>4. Holds(x'.netGroups, [j \in DOMAIN t |-> NetGroupsOf(t, j)], at')
      BY <1>3, <2>1 DEF Exact
  <2>5. Holds(x'.svcGroups, [j \in DOMAIN t |-> SvcGroupsOf(t, j)], at')
      BY <1>3, <2>1 DEF Exact
  <2>6. Holds(x'.routes, [j \in DOMAIN t |-> RoutesAt(t, j)], at')
      BY <1>3, <2>1 DEF Exact
  <2>7. QED BY <2>2, <2>3, <2>4, <2>5, <2>6
<1>14. \A j \in DOMAIN t : j < at' /\ t[j].k = "route" /\ ~t[j].ok => j \in x'.unparsed
    BY <1>3, <1>10 DEF Exact
<1>15. Zoned0(Ports(x')) = Zoned0(UNION {PortsAt(t, j) : j \in {i \in DOMAIN t : i < at'}})
    BY <1>3, <1>12 DEF Exact
<1>16. QED BY <1>13, <1>14, <1>15 DEF Exact

(* The context holds what the lines behind the parser leave, and once it is *)
(* converted, what the whole source leaves.                                 *)
Holding ==
    /\ IsList(source) /\ Full(x) /\ (Nested(text) => Exact(text, x, at))
    /\ pass # "source" => Full(ir) /\ (Nested(source) => Exact(source, ir, Len(source) + 2))

LEMMA EmptyHolds ==
    ASSUME NEW t, IsList(t)
    PROVE  Full(Empty) /\ Exact(t, Empty, 1)
<1>1. \A j \in DOMAIN t : ~(j < 1)
    BY DEF IsList
<1>2. ToSet(<<>>) = {} /\ DOMAIN <<>> = {}
    BY DEF ToSet
<1>3. \A F : DOMAIN F = DOMAIN t => Holds(<<>>, F, 1)
    BY <1>1, <1>2 DEF Holds
<1>4. /\ Empty.nets = <<>> /\ Empty.svcs = <<>> /\ Empty.netGroups = <<>> /\ Empty.svcGroups = <<>>
      /\ Empty.routes = <<>> /\ Empty.ifs = <<>>
    BY DEF Empty
<1>5. Full(Empty) /\ Ports(Empty) = {}
    BY <1>2, <1>4 DEF Full, Ports
<1>6. {i \in DOMAIN t : i < 1} = {}
    BY <1>1
<1>7. Zoned0(Ports(Empty)) = Zoned0(UNION {PortsAt(t, j) : j \in {i \in DOMAIN t : i < 1}})
    BY <1>5, <1>6
<1>8. /\ Holds(Empty.nets, [j \in DOMAIN t |-> NetsOf(t, j)], 1)
      /\ Holds(Empty.svcs, [j \in DOMAIN t |-> SvcsOf(t, j)], 1)
      /\ Holds(Empty.netGroups, [j \in DOMAIN t |-> NetGroupsOf(t, j)], 1)
      /\ Holds(Empty.svcGroups, [j \in DOMAIN t |-> SvcGroupsOf(t, j)], 1)
      /\ Holds(Empty.routes, [j \in DOMAIN t |-> RoutesAt(t, j)], 1)
    BY <1>3, <1>4
<1>9. QED BY <1>1, <1>5, <1>7, <1>8 DEF Exact

LEMMA HoldingInit == Init => Holding
<1>1. SUFFICES ASSUME Init PROVE Holding
    OBVIOUS
<1>2. at = 1 /\ x = Empty /\ pass = "source" /\ IsList(text) /\ text = source
    BY <1>1, ParserInit DEF Init, Begin, Honest
<1>3. QED BY <1>2, EmptyHolds DEF Holding

LEMMA ReadHolds ==
    ASSUME Honest, Full(x), Parse
    PROVE  Full(x') /\ text' = text /\ (Nested(text) /\ Exact(text, x, at) => Exact(text, x', at'))
<1>1. text' = text /\ IsList(text) /\ Wellformed(x) /\ DOMAIN text = 1..Len(text) /\ Len(text) \in Nat /\ at \in Nat \ {0}
  <2>1. text' = text
      BY DEF Parse, ParseInterface, ParseObjectNetwork, ParseObjectService, ParseObjectGroup,
         ParseName, ParseRemark, ParseRule, ParseAccessGroup, ParseNAT, ParseRoute, ParseMTU, Capture,
         ParseOther, Close, ReadLine, ReadBlock
  <2>2. QED BY <2>1 DEF Honest, IsList
<1>2. CASE Close
  <2>1. ASSUME Exact(text, x, at) PROVE Exact(text, x', at')
      BY <1>1, <1>2, <2>1, CloseExact
  <2>2. Full(x')
      BY <1>2, CloseFull DEF CloseAll
  <2>3. QED BY <1>1, <2>1, <2>2
<1>3. CASE ~Close
  <2>1. at <= Len(text) /\ (ReadLine \/ ReadBlock)
      BY <1>3 DEF Parse, ParseInterface, ParseObjectNetwork, ParseObjectService, ParseObjectGroup,
         ParseName, ParseRemark, ParseRule, ParseAccessGroup, ParseNAT, ParseRoute, ParseMTU, Capture,
         ParseOther, Is
  <2>2. at \in DOMAIN text
      BY <1>1, <2>1
  <2>3. /\ at' \in Nat /\ at < at'
        /\ \A j \in DOMAIN text : at < j /\ j < at' => text[j].in \/ Blank(text[j])
      BY <1>1, <2>1, <2>2, BlockEnds DEF ReadLine, ReadBlock
  <2>4. Steps
      BY <1>3, StepInterface, StepNetwork, StepService, StepGroup, StepName, StepRoute, StepOther, StepMtu DEF Parse
  <2>5. ASSUME Nested(text), Exact(text, x, at) PROVE Exact(text, x', at')
    <3>1. \A j \in DOMAIN text : at < j /\ j < at' => text[j].k \notin Commands
        BY <2>3, <2>5 DEF Nested, Blank, Commands
    <3>2. QED BY <1>1, <2>2, <2>3, <2>4, <2>5, <3>1, ExactMore DEF Steps
  <2>6. QED BY <1>1, <2>4, <2>5 DEF Steps
<1>4. QED BY <1>2, <1>3

LEMMA HoldingNext == Honest /\ PassOK /\ Holding /\ [Next]_vars => Holding'
<1>1. SUFFICES ASSUME Honest, PassOK, Holding, [Next]_vars PROVE Holding'
    OBVIOUS
<1>2. CASE UNCHANGED vars \/ BuildReview
    BY <1>1, <1>2 DEF vars, BuildReview, Holding
<1>3. CASE Read
    BY <1>1, <1>3, ReadHolds DEF Read, Holding
<1>4. CASE Convert
  <2>1. /\ IsList(text') /\ at' = 1 /\ x' = Empty /\ ir' = x /\ source' = source /\ pass = "source"
        /\ at = Len(text) + 2 /\ text = source
      BY <1>1, <1>4, Generated DEF Convert, Honest, Closed, PassOK
  <2>2. Full(x') /\ Exact(text', x', at')
      BY <2>1, EmptyHolds
  <2>3. QED BY <1>1, <2>1, <2>2 DEF Holding
<1>5. QED BY <1>1, <1>2, <1>3, <1>4 DEF Next
-----------------------------------------------------------------------------
(* The header of a line, and the block that it is in. *)
LEMMA Largest ==
    ASSUME NEW n \in Nat, NEW T, T \subseteq 1..n, T # {}
    PROVE  Max(T) \in T /\ \A y \in T : y <= Max(T)
<1> DEFINE U == {n - y : y \in T}
<1>1. U \subseteq Nat /\ U # {}
  <2>1. \A y \in T : n - y \in Nat
      OBVIOUS
  <2>2. U \subseteq Nat
      BY <2>1
  <2>3. PICK y \in T : TRUE
      OBVIOUS
  <2>4. n - y \in U
      OBVIOUS
  <2>5. QED BY <2>2, <2>4
<1>2. PICK m \in U : \A y \in U : m <= y
    BY <1>1, Smallest
<1>3. n - m \in T /\ \A y \in T : n - m >= y
  <2>1. PICK a \in T : m = n - a
      BY <1>2
  <2>2. ASSUME NEW y \in T PROVE a >= y
    <3>1. n - y \in U
        OBVIOUS
    <3>2. m <= n - y
        BY <1>2, <3>1
    <3>3. QED BY <2>1, <3>2
  <2>3. n - m = a
      BY <2>1
  <2>4. QED BY <2>2, <2>3
<1> HIDE DEF U
<1>4. \E a \in T : \A y \in T : a >= y
    BY <1>3
<1>5. Max(T) \in T /\ \A y \in T : Max(T) >= y
    BY <1>4 DEF Max
<1>6. QED BY <1>5

LEMMA HeaderFound ==
    ASSUME NEW t, IsList(t), NEW q \in DOMAIN t, \E i \in 1..q : Stops(t[i])
    PROVE  /\ HeaderAt(t, q) \in DOMAIN t /\ HeaderAt(t, q) \in 1..q /\ Stops(t[HeaderAt(t, q)])
           /\ \A i \in 1..q : Stops(t[i]) => i <= HeaderAt(t, q)
<1> DEFINE T == {i \in 1..q : ~t[i].in /\ ~Blank(t[i])}
<1>1. q \in Nat /\ 1..q \subseteq DOMAIN t
    BY DEF IsList
<1>2. \A i \in 1..q : i \in T <=> Stops(t[i])
    BY DEF Stops
<1>3. T # {} /\ T \subseteq 1..q
    BY <1>2
<1>4. HeaderAt(t, q) = Max(T)
    BY DEF HeaderAt
<1> HIDE DEF T
<1>5. Max(T) \in T /\ \A y \in T : y <= Max(T)
    BY <1>1, <1>3, Largest
<1>6. QED BY <1>1, <1>2, <1>3, <1>4, <1>5

LEMMA HeaderIs ==
    ASSUME NEW t, IsList(t), NEW q \in DOMAIN t, NEW h \in 1..q, Stops(t[h]),
           \A i \in 1..q : Stops(t[i]) => i <= h
    PROVE  HeaderAt(t, q) = h
<1>1. q \in Nat
    BY DEF IsList
<1>2. /\ HeaderAt(t, q) \in 1..q /\ Stops(t[HeaderAt(t, q)])
      /\ \A i \in 1..q : Stops(t[i]) => i <= HeaderAt(t, q)
    BY HeaderFound
<1>3. QED BY <1>1, <1>2

LEMMA EndStops ==
    ASSUME NEW t, IsList(t), NEW h \in DOMAIN t, End(t, h) \in DOMAIN t
    PROVE  Stops(t[End(t, h)])
<1> DEFINE T == {j \in (h + 1)..(Len(t) + 1) : j > Len(t) \/ ~(t[j].in \/ Blank(t[j]))}
<1>1. Len(t) \in Nat /\ DOMAIN t = 1..Len(t)
    BY DEF IsList
<1>2. Len(t) + 1 \in T /\ T \subseteq Nat
    BY <1>1
<1>3. End(t, h) \in T
    BY <1>2, Smallest DEF End
<1>4. ~(End(t, h) > Len(t))
    BY <1>1
<1>5. QED BY <1>3, <1>4 DEF Stops

LEMMA InBlock ==
    ASSUME NEW t, IsList(t), NEW h \in DOMAIN t, Stops(t[h]), NEW q \in DOMAIN t, h < q
    PROVE  q < End(t, h) <=> HeaderAt(t, q) = h
<1>1. /\ Len(t) \in Nat /\ DOMAIN t = 1..Len(t)
      /\ End(t, h) \in Nat /\ h < End(t, h) /\ End(t, h) <= Len(t) + 1
      /\ \A j \in DOMAIN t : h < j /\ j < End(t, h) => t[j].in \/ Blank(t[j])
    BY BlockEnds DEF IsList
<1>2. h \in 1..q /\ \A i \in 1..q : i \in DOMAIN t /\ i \in Nat
    BY <1>1
<1>3. ASSUME q < End(t, h) PROVE HeaderAt(t, q) = h
  <2>1. \A i \in 1..q : Stops(t[i]) => i <= h
    <3>1. SUFFICES ASSUME NEW i \in 1..q, Stops(t[i]), ~(i <= h) PROVE FALSE
        OBVIOUS
    <3>2. h < i /\ i < End(t, h)
        BY <1>1, <1>2, <1>3, <3>1
    <3>3. QED BY <1>1, <1>2, <3>1, <3>2 DEF Stops
  <2>2. QED BY <1>2, <2>1, HeaderIs
<1>4. ASSUME HeaderAt(t, q) = h, ~(q < End(t, h)) PROVE FALSE
  <2>1. \A i \in 1..q : Stops(t[i]) => i <= h
      BY <1>2, <1>4, HeaderFound
  <2>2. End(t, h) \in 1..q /\ End(t, h) \in DOMAIN t /\ ~(End(t, h) <= h)
      BY <1>1, <1>4
  <2>3. Stops(t[End(t, h)])
      BY <1>1, <2>2, EndStops
  <2>4. QED BY <2>1, <2>2, <2>3
<1>5. QED BY <1>3, <1>4

LEMMA BlockLines ==
    ASSUME NEW t, IsList(t), NEW h \in DOMAIN t, Stops(t[h])
    PROVE  \A l : l \in ToSet(Body(t, h)) <=>
                      \E q \in DOMAIN t : h < q /\ HeaderAt(t, q) = h /\ ~Blank(t[q]) /\ l = t[q]
<1>1. ToSet(Body(t, h)) = {t[q] : q \in {r \in DOMAIN t : h < r /\ r < End(t, h) /\ ~Blank(t[r])}}
    BY BodyAre
<1>2. \A q \in DOMAIN t : h < q => (q < End(t, h) <=> HeaderAt(t, q) = h)
    BY InBlock
<1>3. QED BY <1>1, <1>2
-----------------------------------------------------------------------------
(* The lines of a block: once read, a line is lost as Lost says or it is in *)
(* the context.  A reading step keeps what was there; a member stays in its *)
(* own line's record until the end of the text gives it to its bundle.      *)
Same(f, g) ==
    /\ g.line = f.line /\ g.name = f.name /\ g.alias = f.alias /\ g.vlan = f.vlan
    /\ g.sec = f.sec /\ g.ips = f.ips /\ g.shutdown = f.shutdown
Kept(c, d) ==
    /\ ToSet(c.nets) \subseteq ToSet(d.nets) /\ ToSet(c.svcs) \subseteq ToSet(d.svcs)
    /\ ToSet(c.netGroups) \subseteq ToSet(d.netGroups) /\ ToSet(c.svcGroups) \subseteq ToSet(d.svcGroups)
    /\ ToSet(c.nats) \subseteq ToSet(d.nats)
    /\ c.captured \subseteq d.captured /\ c.unparsed \subseteq d.unparsed
    /\ \A f \in ToSet(c.ifs) : \E g \in ToSet(d.ifs) : Same(f, g)
Unjoined(c) == \A f \in ToSet(c.ifs) : f.members = <<>>
Gone(t, h, i) == Blank(t[i]) \/ Lost(t, h, i)

Whole ==
    /\ \A h, i \in DOMAIN text : Within(text, i, h) /\ i < at => Gone(text, h, i) \/ Carried(text, x, h, i)
    /\ at <= Len(text) + 1 => Unjoined(x)

LEMMA KeptOn ==
    ASSUME Honest, Full(x), Parse, ~Close
    PROVE  Kept(x, x') /\ ToSet(joins) \subseteq ToSet(joins') /\ (Unjoined(x) => Unjoined(x'))
<1>1. Wellformed(x) /\ IsList(joins)
    BY DEF Honest
<1>2. Step(text, x, x', at) /\ More(x, x')
  <2>1. Steps
      BY StepInterface, StepNetwork, StepService, StepGroup, StepName, StepRoute, StepOther, StepMtu DEF Parse
  <2>2. Follows
      BY InterfaceFollows, NetworkFollows, ServiceFollows, OtherFollows, LineFollows, MtuFollows DEF Parse
  <2>3. QED BY <2>1, <2>2 DEF Steps, Follows
<1>3. /\ ToSet(x.nets) \subseteq ToSet(x'.nets) /\ ToSet(x.svcs) \subseteq ToSet(x'.svcs)
      /\ ToSet(x.netGroups) \subseteq ToSet(x'.netGroups) /\ ToSet(x.svcGroups) \subseteq ToSet(x'.svcGroups)
      /\ ToSet(x.nats) \subseteq ToSet(x'.nats) /\ x.unparsed \subseteq x'.unparsed
  <2>1. ASSUME NEW s, IsList(s), NEW u, NEW S, Adds(s, u, S) PROVE ToSet(s) \subseteq ToSet(u)
    <3>1. CASE u = s
        BY <3>1
    <3>2. CASE \E e : u = Append(s, e)
      <4>1. PICK e : u = Append(s, e)
          BY <3>2
      <4>2. QED BY <2>1, <4>1, AppendList
    <3>3. QED BY <2>1, <3>1, <3>2 DEF Adds
  <2>2. QED BY <1>1, <1>2, <2>1 DEF Wellformed, Step, More
<1>4. CASE ParseInterface
  <2> DEFINE e == InterfaceOf(Line.name, Block)
  <2>1. x' = [x EXCEPT !.ifs = Append(@, e)] /\ joins' = joins \o JoinsOf(Line.name, Joining(Block))
      BY <1>4 DEF ParseInterface
  <2>2. e.members = <<>>
      BY DEF InterfaceOf
  <2> HIDE DEF e
  <2>3. x'.captured = x.captured /\ x'.ifs = Append(x.ifs, e)
      BY <1>1, <2>1 DEF Wellformed, Fields
  <2>4. ToSet(x'.ifs) = ToSet(x.ifs) \union {e}
      BY <1>1, <2>3, AppendList DEF Wellformed
  <2>5. IsList(JoinsOf(Line.name, Joining(Block)))
    <3>1. IsList(Joining(Block))
        BY <1>4, Inside, Selected DEF ParseInterface, Is
    <3>2. QED BY <3>1, MappedList DEF JoinsOf
  <2>6. ToSet(joins) \subseteq ToSet(joins')
      BY <1>1, <2>1, <2>5, ConcatList
  <2>7. QED BY <1>3, <2>2, <2>3, <2>4, <2>6 DEF Kept, Same, Unjoined
<1>5. CASE ParseMTU
  <2> DEFINE f == [j \in DOMAIN x.ifs |->
                      IF x.ifs[j].alias = Line.iface THEN [x.ifs[j] EXCEPT !.mtu = Line.v] ELSE x.ifs[j]]
  <2>1. x' = [x EXCEPT !.ifs = f] /\ joins' = joins
      BY <1>5 DEF ParseMTU, locals
  <2>2. ASSUME NEW j \in DOMAIN x.ifs PROVE Same(x.ifs[j], f[j]) /\ f[j].members = x.ifs[j].members
    <3>1. IfaceFields \subseteq DOMAIN x.ifs[j]
        BY DEF Full, ToSet
    <3>2. QED BY <3>1 DEF Same, IfaceFields
  <2>3. DOMAIN f = DOMAIN x.ifs
      OBVIOUS
  <2> HIDE DEF f
  <2>4. x'.captured = x.captured /\ x'.ifs = f
      BY <1>1, <2>1 DEF Wellformed, Fields
  <2>5. \A g \in ToSet(x.ifs) : \E d \in ToSet(x'.ifs) : Same(g, d)
      BY <2>2, <2>3, <2>4 DEF ToSet
  <2>6. Unjoined(x) => Unjoined(x')
      BY <2>2, <2>3, <2>4 DEF ToSet, Unjoined
  <2>7. QED BY <1>3, <2>1, <2>4, <2>5, <2>6 DEF Kept
<1>6. CASE ~ParseInterface /\ ~ParseMTU
  <2>1. x'.ifs = x.ifs
      BY <1>1, <1>6 DEF Parse, ParseObjectNetwork, ParseObjectService, ParseObjectGroup,
         ParseName, ParseRemark, ParseRule, ParseAccessGroup, ParseNAT, ParseRoute, Capture, ParseOther,
         Wellformed, Fields
  <2>2. x.captured \subseteq x'.captured
      BY <1>1, <1>6 DEF Parse, ParseObjectNetwork, ParseObjectService, ParseObjectGroup,
         ParseName, ParseRemark, ParseRule, ParseAccessGroup, ParseNAT, ParseRoute, Capture, ParseOther,
         Wellformed, Fields
  <2>3. joins' = joins
      BY <1>6 DEF Parse, ParseObjectNetwork, ParseObjectService, ParseObjectGroup,
         ParseName, ParseRemark, ParseRule, ParseAccessGroup, ParseNAT, ParseRoute, Capture, ParseOther, locals
  <2>4. QED BY <1>3, <2>1, <2>2, <2>3 DEF Kept, Same, Unjoined
<1>7. QED BY <1>4, <1>5, <1>6

(* What is in the context stays there; for members, see AtTheEnd. *)
JoinWords == {"bridge-group", "channel-group"}
Attributes == {"nameif", "security-level", "vlan", "ip", "shutdown"}

LEMMA CarriedOn ==
    ASSUME text' = text, Kept(x, x'), NEW h, NEW i, Carried(text, x, h, i),
           \/ ToSet(joins) \subseteq ToSet(joins') /\ ~Closed /\ ~Closed'
           \/ text[i].k \in Attributes \/ text[h].k # "interface"
    PROVE  Carried(text, x, h, i)'
<1> DEFINE l == text[i]
<1>1. CASE h \in x.captured
    BY <1>1 DEF Carried, Kept
<1>2. CASE text[h].k = "interface" /\ \E f \in OfHeader(x.ifs, text, h) : Has(x, f, l)
  <2>1. PICK f \in ToSet(x.ifs) : f.line = h /\ f.name = text[h].name /\ Has(x, f, l)
      BY <1>2 DEF OfHeader
  <2>2. PICK g \in ToSet(x'.ifs) : Same(f, g)
      BY DEF Kept
  <2>3. CASE l.k \in Attributes
    <3>1. Has(x, g, l)'
        BY <2>1, <2>2, <2>3 DEF Has, Same, Attributes
    <3>2. QED BY <1>2, <2>1, <2>2, <3>1 DEF Carried, OfHeader, Same
  <2>4. CASE l.k \notin Attributes
    <3>1. ~Closed /\ ~Closed' /\ ToSet(joins) \subseteq ToSet(joins')
        BY <1>2, <2>4
    <3>2. [k |-> l.k, bundle |-> l.v, member |-> f.name] \in ToSet(joins)
        BY <2>1, <2>4, <3>1 DEF Has, Attributes, Joined
    <3>3. Has(x, g, l)'
        BY <2>2, <2>4, <3>1, <3>2 DEF Has, Attributes, Joined, Same
    <3>4. QED BY <1>2, <2>1, <2>2, <3>3 DEF Carried, OfHeader, Same
  <2>5. QED BY <2>3, <2>4
<1>3. CASE l.k = "value" /\ \E o \in OfHeader(x.nets, text, h) : o.value = l.v
    BY <1>3 DEF Carried, Kept, OfHeader
<1>4. CASE l.k = "onat" /\ \/ l.mode = "other" /\ h \in x.unparsed
                           \/ \E n \in ToSet(x.nats) :
                                 n.line = h /\ n.osrc = text[h].name /\ n.in = l.from /\ n.out = l.onto
    BY <1>4 DEF Carried, Kept
<1>5. CASE l.k = "spec" /\ \E s \in OfHeader(x.svcs, text, h) :
              s.proto = l.proto /\ s.sport = ParsePortSpec(l.sport) /\ s.port = ParsePortSpec(l.dport)
    BY <1>5 DEF Carried, Kept, OfHeader
<1>6. CASE \E g \in OfHeader(x.netGroups, text, h) : l.v \in ToSet(g.members)
    BY <1>6 DEF Carried, Kept, OfHeader
<1>7. CASE \E g \in OfHeader(x.svcGroups, text, h) : ParseSvcMember(text[h].proto, l) \in ToSet(g.members)
    BY <1>7 DEF Carried, Kept, OfHeader
<1>8. QED BY <1>1, <1>2, <1>3, <1>4, <1>5, <1>6, <1>7 DEF Carried

(* One lemma for each header that takes a block. *)
NewLine(i) == i \in DOMAIN text /\ at < i /\ i < at' /\ at' = End(text, at) /\ ~Gone(text, at, i)

LEMMA InBody == ASSUME Honest, at <= Len(text), NEW i, NewLine(i) PROVE text[i] \in ToSet(Block) /\ IsList(Block)
BY Inside, BodyAre DEF NewLine, Gone, Block, Honest

(* What is selected of a block has the line, and what it is not lost to. *)
LEMMA OneOf ==
    ASSUME NEW s, IsList(s), NEW l \in ToSet(s)
    PROVE  /\ IsList(Only(s, l.k)) /\ l \in ToSet(Only(s, l.k)) /\ Only(s, l.k) # <<>>
           /\ Last(Only(s, l.k)).v = l.v => \A default : LastOf(Only(s, l.k), default) = l.v
           /\ l.ok => /\ IsList(Readable(Only(s, l.k))) /\ l \in ToSet(Readable(Only(s, l.k)))
                      /\ Readable(Only(s, l.k)) # <<>> /\ l.v \in ToSet(Values(Readable(Only(s, l.k))))
<1>1. IsList(Only(s, l.k)) /\ l \in ToSet(Only(s, l.k))
    BY Selected, Picked
<1>2. Only(s, l.k) # <<>>
    BY <1>1, EmptyPicked
<1>3. ASSUME l.ok
      PROVE  /\ IsList(Readable(Only(s, l.k))) /\ l \in ToSet(Readable(Only(s, l.k)))
             /\ Readable(Only(s, l.k)) # <<>> /\ l.v \in ToSet(Values(Readable(Only(s, l.k))))
  <2>1. IsList(Readable(Only(s, l.k))) /\ l \in ToSet(Readable(Only(s, l.k)))
      BY <1>3, ReadablePicked
  <2>2. QED BY <2>1, EmptyPicked, Picked
<1>4. QED BY <1>1, <1>2, <1>3 DEF LastOf

LEMMA InterfaceLines ==
    ASSUME Honest, ParseInterface, ~Closed', NEW i, NewLine(i), NEW h, h = at
    PROVE  Carried(text, x, h, i)'
<1> DEFINE l == text[i]
<1>1. /\ at <= Len(text) /\ text[at].k = "interface" /\ Wellformed(x) /\ text' = text /\ IsList(joins)
      /\ Line = text[at]
    BY DEF ParseInterface, Is, Honest, ReadBlock, Line
<1>2. l \in ToSet(Block) /\ IsList(Block) /\ Block = Body(text, at)
    BY <1>1, InBody DEF Block
<1>3. /\ l.k \in Attributes \union JoinWords
      /\ l.k = "ip" => l.ok
      /\ l.k \in {"nameif", "security-level", "vlan"} => Last(Only(Block, l.k)).v = l.v
    BY <1>1, <1>2 DEF NewLine, Gone, Lost, Words, CapturedWhole, Attributes, JoinWords
<1>4. PICK e : /\ x'.ifs = Append(x.ifs, e) /\ e.line = h /\ e.name = text[at].name
               /\ e.alias = LastOf(Only(Block, "nameif"), NoLevel)
               /\ e.vlan = LastOf(Only(Block, "vlan"), NoLevel)
               /\ e.sec = LastOf(Only(Block, "security-level"), NoLevel)
               /\ e.ips = Values(Readable(Only(Block, "ip"))) /\ e.shutdown = (Only(Block, "shutdown") # <<>>)
  <2> DEFINE e == InterfaceOf(Line.name, Block)
  <2>1. x'.ifs = Append(x.ifs, e)
      BY <1>1 DEF ParseInterface, Wellformed, Fields
  <2>2. /\ e.line = h /\ e.name = text[at].name
        /\ e.alias = LastOf(Only(Block, "nameif"), NoLevel) /\ e.vlan = LastOf(Only(Block, "vlan"), NoLevel)
        /\ e.sec = LastOf(Only(Block, "security-level"), NoLevel)
        /\ e.ips = Values(Readable(Only(Block, "ip"))) /\ e.shutdown = (Only(Block, "shutdown") # <<>>)
      BY <1>1 DEF InterfaceOf, NoLevel
  <2> HIDE DEF e
  <2>3. QED BY <2>1, <2>2
<1>5. e \in ToSet(x'.ifs)
    BY <1>1, <1>4, AppendList DEF Wellformed
<1>6. SUFFICES (Has(x, e, l))'
    BY <1>1, <1>4, <1>5 DEF Carried, OfHeader
<1>7. CASE l.k \in Attributes
  <2>1. l.k \in {"nameif", "security-level", "vlan"} => LastOf(Only(Block, l.k), NoLevel) = l.v
      BY <1>2, <1>3, OneOf
  <2>2. l.k = "ip" => l.v \in ToSet(Values(Readable(Only(Block, l.k))))
      BY <1>2, <1>3, OneOf
  <2>3. Only(Block, l.k) # <<>>
      BY <1>2, OneOf
  <2>4. /\ l.k = "nameif" => e.alias = l.v
        /\ l.k = "security-level" => e.sec = l.v
        /\ l.k = "vlan" => e.vlan = l.v
        /\ l.k = "ip" => l.v \in ToSet(e.ips)
        /\ l.k = "shutdown" => e.shutdown
      BY <1>4, <2>1, <2>2, <2>3
  <2>5. QED BY <1>1, <1>7, <2>4 DEF Attributes, Has
<1>8. CASE l.k \in JoinWords
  <2> DEFINE u == Joining(Block)
             v == JoinsOf(Line.name, u)
  <2>1. IsList(u) /\ l \in ToSet(u)
    <3>1. u = Those(Block, {n \in DOMAIN Block : Block[n].k \in JoinWords})
        BY DEF Joining, Select, JoinWords
    <3>2. PICK n \in DOMAIN Block : l = Block[n]
        BY <1>2 DEF ToSet
    <3>3. QED BY <1>2, <1>8, <3>1, <3>2, ThoseList
  <2>2. PICK n \in DOMAIN u : u[n] = l
      BY <2>1 DEF ToSet
  <2>3. IsList(v) /\ DOMAIN v = DOMAIN u /\ v[n] = [k |-> l.k, bundle |-> l.v, member |-> Line.name]
      BY <2>1, <2>2, MappedList DEF JoinsOf
  <2>4. joins' = joins \o v
      BY DEF ParseInterface
  <2> HIDE DEF u, v
  <2>5. [k |-> l.k, bundle |-> l.v, member |-> Line.name] \in ToSet(joins')
    <3>1. v[n] \in ToSet(v)
        BY <2>2, <2>3 DEF ToSet
    <3>2. QED BY <1>1, <2>3, <2>4, <3>1, ConcatList
  <2>6. QED BY <1>1, <1>4, <1>8, <2>5 DEF Has, Joined, JoinWords
<1>9. QED BY <1>3, <1>7, <1>8

LEMMA ObjectLines ==
    ASSUME Honest, ParseObjectNetwork, NEW i, NewLine(i), NEW h, h = at
    PROVE  Carried(text, x, h, i)'
<1> DEFINE l == text[i]
           values == Readable(Only(Block, "value"))
           nats == Only(Block, "onat")
           good == Understood(nats)
           o == [line |-> at, name |-> Line.name, value |-> Last(values).v]
           news == [j \in DOMAIN good |-> ParseObjectNAT(Line.name, good[j])]
<1>1. /\ at <= Len(text) /\ text[at].k = "object" /\ Wellformed(x) /\ text' = text /\ Line = text[at]
    BY DEF ParseObjectNetwork, Is, Honest, ReadBlock, Line
<1>2. l \in ToSet(Block) /\ IsList(Block) /\ Block = Body(text, at)
    BY <1>1, InBody DEF Block
<1>3. l.k \in {"value", "onat"} /\ (l.k = "value" => l.ok /\ Last(values).v = l.v)
    BY <1>1, <1>2 DEF NewLine, Gone, Lost, Words, CapturedWhole
<1>4. /\ values # <<>> => x'.nets = Append(x.nets, o)
      /\ x'.nats = x.nats \o news
      /\ good # nats => h \in x'.unparsed
    BY <1>1 DEF ParseObjectNetwork, Wellformed, Fields
<1>5. CASE l.k = "value"
  <2>1. values # <<>>
      BY <1>2, <1>3, <1>5, OneOf
  <2>2. o.line = h /\ o.name = text[at].name /\ o.value = l.v
      BY <1>1, <1>3, <1>5
  <2> HIDE DEF o, values
  <2>3. o \in ToSet(x'.nets)
    <3>1. x'.nets = Append(x.nets, o) /\ IsList(x.nets)
        BY <1>1, <1>4, <2>1 DEF Wellformed
    <3>2. QED BY <3>1, AppendList
  <2>4. QED BY <1>1, <1>5, <2>2, <2>3 DEF Carried, OfHeader
<1>6. CASE l.k = "onat"
  <2>1. IsList(nats) /\ l \in ToSet(nats)
      BY <1>2, <1>6, OneOf
  <2>2. IsList(good) /\ ToSet(good) = {e \in ToSet(nats) : e.mode # "other"}
    <3> DEFINE T == {n \in DOMAIN nats : nats[n].mode # "other"}
    <3>1. good = Those(nats, T)
        BY DEF Understood, Select
    <3>2. IsList(Those(nats, T)) /\ ToSet(Those(nats, T)) = {nats[n] : n \in T \intersect DOMAIN nats}
        BY <2>1, ThoseList
    <3>3. QED BY <3>1, <3>2 DEF ToSet
  <2>3. CASE l.mode = "other"
    <3>1. good # nats
        BY <2>1, <2>2, <2>3
    <3>2. QED BY <1>1, <1>4, <1>6, <2>3, <3>1 DEF Carried
  <2>4. CASE l.mode # "other"
    <3>1. PICK j \in DOMAIN good : good[j] = l
        BY <2>1, <2>2, <2>4 DEF ToSet
    <3>2. IsList(news) /\ DOMAIN news = DOMAIN good /\ news[j] = ParseObjectNAT(Line.name, l)
      <4>1. news = [n \in DOMAIN good |-> news[n]] /\ news[j] = ParseObjectNAT(Line.name, l)
          BY <3>1
      <4>2. QED BY <2>2, <4>1, MappedList
    <3>3. /\ news[j].line = h /\ news[j].osrc = text[at].name
          /\ news[j].in = l.from /\ news[j].out = l.onto
        BY <1>1, <3>2 DEF ParseObjectNAT
    <3> HIDE DEF news, good
    <3>4. news[j] \in ToSet(x'.nats)
      <4>1. news[j] \in ToSet(news)
          BY <3>1, <3>2 DEF ToSet
      <4>2. QED BY <1>1, <1>4, <3>2, <4>1, ConcatList DEF Wellformed
    <3>5. QED BY <1>1, <1>6, <3>3, <3>4 DEF Carried
  <2>5. QED BY <2>3, <2>4
<1>7. QED BY <1>3, <1>5, <1>6

LEMMA ServiceLines ==
    ASSUME Honest, ParseObjectService, NEW i, NewLine(i), NEW h, h = at
    PROVE  Carried(text, x, h, i)'
<1> DEFINE l == text[i]
           specs == Only(Block, "spec")
           s == [line |-> at, name |-> Line.name, proto |-> Last(specs).proto,
                 sport |-> ParsePortSpec(Last(specs).sport), port |-> ParsePortSpec(Last(specs).dport)]
<1>1. /\ at <= Len(text) /\ text[at].k = "service" /\ Wellformed(x) /\ text' = text /\ Line = text[at]
    BY DEF ParseObjectService, Is, Honest, ReadBlock, Line
<1>2. l \in ToSet(Block) /\ IsList(Block) /\ Block = Body(text, at)
    BY <1>1, InBody DEF Block
<1>3. l.k = "spec" /\ Last(specs) = l
    BY <1>1, <1>2 DEF NewLine, Gone, Lost, Words, CapturedWhole
<1>4. specs # <<>>
    BY <1>2, <1>3, OneOf
<1>5. x'.svcs = Append(x.svcs, s)
    BY <1>1, <1>4 DEF ParseObjectService, Wellformed, Fields
<1>6. /\ s.line = h /\ s.name = text[at].name /\ s.proto = l.proto
      /\ s.sport = ParsePortSpec(l.sport) /\ s.port = ParsePortSpec(l.dport)
    BY <1>1, <1>3
<1> HIDE DEF s
<1>7. s \in ToSet(x'.svcs)
    BY <1>1, <1>5, AppendList DEF Wellformed
<1>8. QED BY <1>1, <1>3, <1>6, <1>7 DEF Carried, OfHeader

LEMMA GroupLinesRead ==
    ASSUME Honest, ParseObjectGroup, NEW i, NewLine(i), NEW h, h = at
    PROVE  Carried(text, x, h, i)'
<1> DEFINE l == text[i]
<1>1. /\ at <= Len(text) /\ text[at].k = "object-group" /\ Wellformed(x) /\ text' = text /\ Line = text[at]
    BY DEF ParseObjectGroup, Is, Honest, ReadBlock, Line
<1>2. l \in ToSet(Block) /\ IsList(Block) /\ Block = Body(text, at)
    BY <1>1, InBody DEF Block
<1>3. PICK n \in DOMAIN Block : l = Block[n]
    BY <1>2 DEF ToSet
<1>4. CASE text[at].of = "network"
  <2> DEFINE Ks == {"network-object", "group-object"}
             lines == Those(Block, {m \in DOMAIN Block : Block[m].k \in Ks})
             g == [line |-> at, name |-> Line.name, members |-> ParseNetMembers(Block)]
  <2>1. l.k \in Ks
      BY <1>1, <1>4 DEF NewLine, Gone, Lost, Words, CapturedWhole
  <2>2. IsList(lines) /\ l \in ToSet(lines)
      BY <1>2, <1>3, <2>1, ThoseList
  <2>3. ParseNetMembers(Block) = Values(lines)
      BY DEF ParseNetMembers, Select
  <2>4. x'.netGroups = Append(x.netGroups, g)
      BY <1>1, <1>4 DEF ParseObjectGroup, Wellformed, Fields
  <2>5. g.line = h /\ g.name = text[at].name /\ l.v \in ToSet(g.members)
    <3>1. g.members = Values(lines)
        BY <2>3
    <3> HIDE DEF lines
    <3>2. l.v \in ToSet(Values(lines))
        BY <2>2, Picked
    <3>3. QED BY <1>1, <3>1, <3>2
  <2> HIDE DEF g
  <2>6. g \in ToSet(x'.netGroups)
      BY <1>1, <2>4, AppendList DEF Wellformed
  <2>7. QED BY <1>1, <2>5, <2>6 DEF Carried, OfHeader
<1>5. CASE text[at].of = "service"
  <2> DEFINE Ks == {"port-object", "service-object", "svc-object", "group-object"}
             lines == Those(Block, {m \in DOMAIN Block : Block[m].k \in Ks})
             g == [line |-> at, name |-> Line.name, members |-> ParseSvcMembers(Line.proto, Block)]
  <2>1. l.k \in Ks
      BY <1>1, <1>5 DEF NewLine, Gone, Lost, Words, CapturedWhole
  <2>2. IsList(lines) /\ l \in ToSet(lines)
      BY <1>2, <1>3, <2>1, ThoseList
  <2>3. ParseSvcMembers(Line.proto, Block) = [j \in DOMAIN lines |-> ParseSvcMember(Line.proto, lines[j])]
      BY DEF ParseSvcMembers, Select
  <2>4. x'.svcGroups = Append(x.svcGroups, g)
      BY <1>1, <1>5 DEF ParseObjectGroup, Wellformed, Fields
  <2>5. g.line = h /\ g.name = text[at].name /\ ParseSvcMember(Line.proto, l) \in ToSet(g.members)
    <3>1. g.members = [j \in DOMAIN lines |-> ParseSvcMember(Line.proto, lines[j])]
        BY <2>3
    <3> HIDE DEF lines
    <3>2. PICK j \in DOMAIN lines : lines[j] = l
        BY <2>2 DEF ToSet
    <3>3. g.members[j] = ParseSvcMember(Line.proto, l) /\ j \in DOMAIN g.members
        BY <3>1, <3>2
    <3>4. QED BY <1>1, <3>3 DEF ToSet
  <2> HIDE DEF g
  <2>6. g \in ToSet(x'.svcGroups)
      BY <1>1, <2>4, AppendList DEF Wellformed
  <2>7. QED BY <1>1, <2>5, <2>6 DEF Carried, OfHeader
<1>6. CASE text[at].of = "protocol"
  <2>1. h \in x'.captured
      BY <1>1, <1>6 DEF ParseObjectGroup, Wellformed, Fields
  <2>2. QED BY <2>1 DEF Carried
<1>7. CASE text[at].of \notin {"network", "service", "protocol"}
    BY <1>1, <1>7 DEF NewLine, Gone, Lost, Words, CapturedWhole
<1>8. QED BY <1>4, <1>5, <1>6, <1>7

LEMMA NewLines ==
    ASSUME Honest, Parse, ~Close, ~Closed', NEW i, NewLine(i), NEW h, h = at
    PROVE  Carried(text, x, h, i)'
<1>1. CASE ParseInterface
    BY <1>1, InterfaceLines
<1>2. CASE ParseObjectNetwork
    BY <1>2, ObjectLines
<1>3. CASE ParseObjectService
    BY <1>3, ServiceLines
<1>4. CASE ParseObjectGroup
    BY <1>4, GroupLinesRead
<1>5. CASE Capture
  <2>1. x' = [x EXCEPT !.captured = @ \union {at}] /\ Wellformed(x)
      BY <1>5 DEF Capture, Honest
  <2>2. h \in x'.captured
      BY <2>1 DEF Wellformed, Fields
  <2>3. QED BY <2>2 DEF Carried
<1>6. CASE ReadLine
    BY <1>6 DEF ReadLine, NewLine, Honest, IsList
<1>7. QED BY <1>1, <1>2, <1>3, <1>4, <1>5, <1>6 DEF Parse, ParseName, ParseRemark, ParseRule,
         ParseAccessGroup, ParseNAT, ParseRoute, ParseMTU, ParseOther

(* At the end every member is in a bundle of the name: in the last of the   *)
(* interfaces that have it, or in one that is made for it.                  *)
LEMMA MembersAre ==
    ASSUME IsList(joins), NEW r \in ToSet(joins)
    PROVE  IsList(MembersOf(r.bundle)) /\ r.member \in ToSet(MembersOf(r.bundle))
<1> DEFINE lines == Those(joins, {n \in DOMAIN joins : joins[n].bundle = r.bundle})
<1>1. PICK n \in DOMAIN joins : r = joins[n]
    BY DEF ToSet
<1>2. IsList(lines) /\ r \in ToSet(lines)
    BY <1>1, ThoseList
<1>3. MembersOf(r.bundle) = [j \in DOMAIN lines |-> lines[j].member]
    BY DEF MembersOf, Select
<1> HIDE DEF lines
<1>4. PICK j \in DOMAIN lines : lines[j] = r
    BY <1>2 DEF ToSet
<1>5. IsList(MembersOf(r.bundle)) /\ DOMAIN MembersOf(r.bundle) = DOMAIN lines
    BY <1>2, <1>3, MappedList
<1>6. MembersOf(r.bundle)[j] = r.member
    BY <1>3, <1>4
<1>7. QED BY <1>4, <1>5, <1>6 DEF ToSet

LEMMA BundleMade ==
    ASSUME IsList(joins), NEW ifs, NEW kind, NEW r \in ToSet(joins), r.bundle \in Missing(ifs, r.k),
           NEW s \in NewBundles(ifs, r.k, kind)
    PROVE  \E b \in ToSet(s) : b.name = r.bundle /\ r.member \in ToSet(b.members)
<1> DEFINE named == {j.bundle : j \in ToSet(joins)}
           M == Missing(ifs, r.k)
           D == 1..Cardinality(M)
<1>1. IsFiniteSet(M)
  <2>1. DOMAIN joins = 1..Len(joins) /\ Len(joins) \in Nat
      BY DEF IsList
  <2> DEFINE g == [i \in 1..Len(joins) |-> joins[i].bundle]
  <2>2. g \in [1..Len(joins) -> named] /\ \A e \in named : \E i \in 1..Len(joins) : g[i] = e
      BY <2>1 DEF ToSet
  <2>3. ExistsSurjection(1..Len(joins), named)
      BY <2>2 DEF ExistsSurjection, Surjection
  <2>4. IsFiniteSet(named)
      BY <2>1, <2>3, FS_NatSurjection
  <2>5. M \subseteq named
      BY DEF Missing, ToSet
  <2>6. QED BY <2>4, <2>5, FS_Subset
<1>2. PICK order \in SetToSeqs(M) : s = [j \in DOMAIN order |-> NewBundle(order[j], kind)]
    BY DEF NewBundles
<1> HIDE DEF M
<1>3. Cardinality(M) \in Nat
    BY <1>1, FS_CardinalityType
<1>4. order \in [D -> M] /\ \A i, j \in D : i # j => order[i] # order[j]
    BY <1>2 DEF SetToSeqs
<1>5. order \in Injection(D, M)
    BY <1>4 DEF Injection, IsInjective
<1>6. Cardinality(D) = Cardinality(M)
    BY <1>3, FS_Interval
<1> HIDE DEF D
<1>7. order \in Surjection(D, M)
    BY <1>1, <1>5, <1>6, FS_Injection
<1>8. PICK j \in D : order[j] = r.bundle
    BY <1>7 DEF Surjection, M
<1>9. s[j] = NewBundle(r.bundle, kind) /\ j \in DOMAIN s
    BY <1>2, <1>4, <1>8
<1>10. s[j].name = r.bundle /\ s[j].members = MembersOf(r.bundle)
  <2>1. NewBundle(r.bundle, kind).name = r.bundle /\ NewBundle(r.bundle, kind).members = MembersOf(r.bundle)
      BY DEF NewBundle
  <2>2. QED BY <1>9, <2>1
<1>11. s[j] \in ToSet(s)
    BY <1>9 DEF ToSet
<1>12. QED BY <1>10, <1>11, MembersAre

LEMMA AtTheEnd ==
    ASSUME Honest, Full(x), Unjoined(x), Close
    PROVE  /\ Kept(x, x')
           /\ \A r \in ToSet(joins) : r.k \in JoinWords =>
                  \E b \in ToSet(x'.ifs) : b.name = r.bundle /\ r.member \in ToSet(b.members)
<1>1. Wellformed(x) /\ IsList(joins) /\ IsList(x.ifs)
    BY DEF Honest, Wellformed
<1>2. PICK bridges \in NewBundles(x.ifs, "bridge-group", "bridge"),
           channels \in NewBundles(x.ifs, "channel-group", "aggregate") :
          x' = [x EXCEPT !.ifs = Attach(@) \o bridges \o channels,
                         !.rules = [j \in DOMAIN @ |-> Bound(@[j])]]
    BY DEF Close
<1>3. /\ x'.ifs = Attach(x.ifs) \o bridges \o channels
      /\ x'.nets = x.nets /\ x'.svcs = x.svcs /\ x'.netGroups = x.netGroups /\ x'.svcGroups = x.svcGroups
      /\ x'.nats = x.nats /\ x'.captured = x.captured /\ x'.unparsed = x.unparsed
    BY <1>1, <1>2 DEF Wellformed, Fields
<1>4. IsList(Attach(x.ifs)) /\ DOMAIN Attach(x.ifs) = DOMAIN x.ifs
  <2>1. Attach(x.ifs) = [j \in DOMAIN x.ifs |-> Attach(x.ifs)[j]]
      BY DEF Attach
  <2>2. QED BY <1>1, <2>1, MappedList
<1>5. ToSet(x'.ifs) = ToSet(Attach(x.ifs)) \union ToSet(bridges) \union ToSet(channels)
  <2>1. IsList(bridges) /\ IsList(channels)
      BY <1>1, BundlesList
  <2>2. IsList(Attach(x.ifs) \o bridges)
        /\ ToSet(Attach(x.ifs) \o bridges) = ToSet(Attach(x.ifs)) \union ToSet(bridges)
      BY <1>4, <2>1, ConcatList
  <2>3. ToSet(x'.ifs) = ToSet(Attach(x.ifs) \o bridges) \union ToSet(channels)
      BY <1>3, <2>1, <2>2, ConcatList
  <2>4. QED BY <2>2, <2>3
<1>6. ASSUME NEW j \in DOMAIN x.ifs
      PROVE  /\ Attach(x.ifs)[j] \in ToSet(x'.ifs) /\ Same(x.ifs[j], Attach(x.ifs)[j])
             /\ IsLastOf(x.ifs, j) => Attach(x.ifs)[j].members = x.ifs[j].members \o MembersOf(x.ifs[j].name)
  <2>1. IfaceFields \subseteq DOMAIN x.ifs[j]
      BY DEF Full, ToSet
  <2>2. Attach(x.ifs)[j] = IF IsLastOf(x.ifs, j)
                           THEN [x.ifs[j] EXCEPT !.members = @ \o MembersOf(x.ifs[j].name)] ELSE x.ifs[j]
      BY DEF Attach
  <2>3. Same(x.ifs[j], Attach(x.ifs)[j])
      BY <2>1, <2>2 DEF Same, IfaceFields
  <2>4. IsLastOf(x.ifs, j) => Attach(x.ifs)[j].members = x.ifs[j].members \o MembersOf(x.ifs[j].name)
      BY <2>1, <2>2 DEF IfaceFields
  <2>5. Attach(x.ifs)[j] \in ToSet(x'.ifs)
      BY <1>4, <1>5 DEF ToSet
  <2>6. QED BY <2>3, <2>4, <2>5
<1>7. Kept(x, x')
  <2>1. \A f \in ToSet(x.ifs) : \E g \in ToSet(x'.ifs) : Same(f, g)
      BY <1>6 DEF ToSet
  <2>2. QED BY <1>3, <2>1 DEF Kept
<1>8. ASSUME NEW r \in ToSet(joins), r.k \in JoinWords
      PROVE  \E b \in ToSet(x'.ifs) : b.name = r.bundle /\ r.member \in ToSet(b.members)
  <2> DEFINE J == {j \in DOMAIN x.ifs : x.ifs[j].name = r.bundle}
  <2>1. IsList(MembersOf(r.bundle)) /\ r.member \in ToSet(MembersOf(r.bundle))
      BY <1>1, <1>8, MembersAre
  <2>2. CASE J = {}
    <3>1. r.bundle \in Missing(x.ifs, r.k)
        BY <1>8, <2>2 DEF Missing
    <3>2. CASE r.k = "bridge-group"
        BY <1>1, <1>5, <3>1, <3>2, BundleMade
    <3>3. CASE r.k = "channel-group"
        BY <1>1, <1>5, <3>1, <3>3, BundleMade
    <3>4. QED BY <1>8, <3>2, <3>3 DEF JoinWords
  <2>3. CASE J # {}
    <3>1. Len(x.ifs) \in Nat /\ DOMAIN x.ifs = 1..Len(x.ifs)
        BY <1>1 DEF IsList
    <3>2. Max(J) \in J /\ \A y \in J : y <= Max(J)
        BY <2>3, <3>1, Largest
    <3>3. PICK m \in J : \A y \in J : y <= m
        BY <3>2
    <3>4. m \in DOMAIN x.ifs /\ x.ifs[m].name = r.bundle /\ IsLastOf(x.ifs, m)
        BY <3>1, <3>3 DEF IsLastOf
    <3>5. x.ifs[m].members = <<>>
        BY <3>4 DEF Unjoined, ToSet
    <3>6. Attach(x.ifs)[m].members = MembersOf(r.bundle)
      <4>1. <<>> \o MembersOf(r.bundle) = MembersOf(r.bundle)
          BY <2>1, ConcatEmptySeq DEF IsList
      <4>2. QED BY <1>6, <3>4, <3>5, <4>1
    <3>7. Attach(x.ifs)[m].name = r.bundle
        BY <1>6, <3>4 DEF Same
    <3>8. QED BY <1>6, <2>1, <3>4, <3>6, <3>7
  <2>4. QED BY <2>2, <2>3
<1>9. QED BY <1>7, <1>8

LEMMA CarriedToEnd ==
    ASSUME Honest, Full(x), Unjoined(x), Close, NEW h, NEW i, ~Gone(text, h, i), Carried(text, x, h, i)
    PROVE  Carried(text, x, h, i)'
<1> DEFINE l == text[i]
<1>1. text' = text /\ joins' = joins /\ at = Len(text) + 1 /\ at' = Len(text) + 2 /\ Len(text) \in Nat /\ Kept(x, x')
  <2>1. Kept(x, x')
      BY AtTheEnd
  <2>2. QED BY <2>1 DEF Close, Honest, IsList
<1>2. ~Closed /\ Closed'
    BY <1>1 DEF Closed
<1>3. CASE text[h].k # "interface" \/ l.k \in Attributes
    BY <1>1, <1>3, CarriedOn
<1>4. CASE text[h].k = "interface" /\ l.k \notin Attributes
  <2>1. l.k \in JoinWords
      BY <1>4 DEF Gone, Lost, Words, CapturedWhole, Attributes, JoinWords
  <2>2. CASE \E f \in OfHeader(x.ifs, text, h) : Has(x, f, l)
    <3>1. PICK f \in ToSet(x.ifs) : f.line = h /\ f.name = text[h].name /\ Has(x, f, l)
        BY <2>2 DEF OfHeader
    <3>2. PICK g \in ToSet(x'.ifs) : Same(f, g)
        BY <1>1, <3>1 DEF Kept
    <3>3. [k |-> l.k, bundle |-> l.v, member |-> f.name] \in ToSet(joins)
        BY <1>2, <1>4, <3>1 DEF Has, Attributes, Joined
    <3>4. \E b \in ToSet(x'.ifs) : b.name = l.v /\ f.name \in ToSet(b.members)
      <4> DEFINE r == [k |-> l.k, bundle |-> l.v, member |-> f.name]
      <4>1. r.k = l.k /\ r.bundle = l.v /\ r.member = f.name /\ r \in ToSet(joins)
          BY <3>3
      <4> HIDE DEF r
      <4>2. QED BY <2>1, <4>1, AtTheEnd
    <3>5. Has(x, g, l)'
        BY <1>1, <1>2, <1>4, <3>2, <3>4 DEF Has, Attributes, Joined, Same
    <3>6. g.line = h /\ g.name = text[h].name
        BY <3>1, <3>2 DEF Same
    <3>7. QED BY <1>1, <1>4, <3>2, <3>5, <3>6 DEF Carried, OfHeader
  <2>3. CASE ~\E f \in OfHeader(x.ifs, text, h) : Has(x, f, l)
    <3>1. /\ l.k \notin {"value", "onat", "spec"}
          /\ \/ h \in x.captured
             \/ \E g \in OfHeader(x.netGroups, text, h) : l.v \in ToSet(g.members)
             \/ \E g \in OfHeader(x.svcGroups, text, h) : ParseSvcMember(text[h].proto, l) \in ToSet(g.members)
        BY <2>1, <2>3 DEF Carried, JoinWords
    <3>2. QED BY <1>1, <3>1 DEF Carried, Kept, OfHeader
  <2>4. QED BY <2>2, <2>3
<1>5. QED BY <1>3, <1>4

LEMMA WholeRead == ASSUME Honest, Full(x), Whole, Parse PROVE Whole'
<1>1. /\ text' = text /\ IsList(text) /\ DOMAIN text = 1..Len(text) /\ Len(text) \in Nat
      /\ at \in 1..(Len(text) + 2)
  <2>1. text' = text
      BY ReadHolds
  <2>2. QED BY <2>1 DEF Honest, IsList
<1>2. CASE Close
  <2>1. at = Len(text) + 1 /\ at' = Len(text) + 2
      BY <1>1, <1>2 DEF Close
  <2>2. ASSUME NEW h \in DOMAIN text, NEW i \in DOMAIN text, Within(text, i, h)
        PROVE  Gone(text, h, i) \/ Carried(text, x, h, i)'
    <3>1. i < at /\ Unjoined(x)
        BY <1>1, <2>1 DEF Whole
    <3>2. Gone(text, h, i) \/ Carried(text, x, h, i)
        BY <2>2, <3>1 DEF Whole
    <3>3. QED BY <1>2, <3>1, <3>2, CarriedToEnd
  <2>3. QED BY <1>1, <2>1, <2>2 DEF Whole
<1>3. CASE ~Close
  <2>1. /\ at <= Len(text) /\ Reads
    <3>1. CASE ParseInterface \/ ParseObjectNetwork \/ ParseObjectService \/ ParseObjectGroup
        BY <3>1 DEF ParseInterface, ParseObjectNetwork, ParseObjectService, ParseObjectGroup, Is, Reads, BlockHead
    <3>2. CASE ParseName \/ ParseRemark \/ ParseRule \/ ParseAccessGroup \/ ParseNAT \/ ParseRoute \/ ParseMTU
        BY <3>2 DEF ParseName, ParseRemark, ParseRule, ParseAccessGroup, ParseNAT, ParseRoute, ParseMTU, Is, Reads,
           BlockHead
    <3>3. CASE Capture \/ ParseOther
        BY <3>3 DEF Capture, ParseOther, Is, Reads, BlockHead, Commands, Line
    <3>4. QED BY <1>3, <3>1, <3>2, <3>3 DEF Parse
  <2>2. at \in DOMAIN text /\ at' \in Nat /\ at < at' /\ at' <= Len(text) + 1
      BY <1>1, <2>1, BlockEnds DEF Reads, ReadLine, ReadBlock
  <2>3. ~Closed /\ ~Closed'
      BY <1>1, <2>2 DEF Closed
  <2>4. Kept(x, x') /\ ToSet(joins) \subseteq ToSet(joins') /\ (Unjoined(x) => Unjoined(x'))
      BY <1>3, KeptOn
  <2>5. ASSUME NEW h \in DOMAIN text, NEW i \in DOMAIN text, Within(text, i, h), i < at'
        PROVE  Gone(text, h, i) \/ Carried(text, x, h, i)'
    <3>1. h \in Nat /\ i \in Nat /\ at \in Nat
        BY <1>1
    <3>2. h < i /\ BlockHead(text[h]) /\ i < End(text, h)
          /\ \A g \in 1..(h - 1) : BlockHead(text[g]) => End(text, g) <= h
        BY <2>5 DEF Within
    <3>3. End(text, h) \in Nat
        BY <1>1, BlockEnds
    <3>4. CASE i < at
      <4>1. Gone(text, h, i) \/ Carried(text, x, h, i)
          BY <2>5, <3>4 DEF Whole
      <4>2. QED BY <1>1, <2>3, <2>4, <4>1, CarriedOn
    <3>5. CASE at <= i
      <4>1. ~(h < at)
          BY <3>1, <3>2, <3>3, <3>5 DEF Honest, Sealed
      <4>2. ~(at < h)
        <5>1. SUFFICES ASSUME at < h PROVE FALSE
            OBVIOUS
        <5>2. BlockHead(text[at]) /\ at' = End(text, at)
          <6>1. i < at' /\ h < i /\ at' \in Nat
              BY <2>2, <2>5, <3>2
          <6>2. at' # at + 1
              BY <3>1, <5>1, <6>1
          <6>3. QED BY <2>1, <6>2 DEF Reads, ReadLine, ReadBlock
        <5>3. at \in 1..(h - 1)
            BY <1>1, <3>1, <5>1
        <5>4. End(text, at) <= h
            BY <3>2, <5>2, <5>3
        <5>5. QED BY <2>2, <2>5, <3>1, <3>2, <5>2, <5>4
      <4>3. h = at
          BY <3>1, <4>1, <4>2
      <4>4. BlockHead(text[at]) /\ at' = End(text, at)
          BY <3>2, <4>3, <2>1 DEF Reads, ReadBlock
      <4>5. CASE Gone(text, h, i)
          BY <4>5
      <4>6. CASE ~Gone(text, h, i)
        <5>1. NewLine(i)
            BY <2>5, <3>2, <4>3, <4>4, <4>6 DEF NewLine
        <5>2. QED BY <1>3, <2>3, <4>3, <5>1, NewLines
      <4>7. QED BY <4>5, <4>6
    <3>6. QED BY <3>1, <3>4, <3>5
  <2>6. Unjoined(x)
      BY <1>1, <2>1 DEF Whole
  <2>7. QED BY <1>1, <2>4, <2>5, <2>6 DEF Whole, Gone
<1>4. QED BY <1>2, <1>3

LEMMA WholeInit == Init => Whole
<1>1. Init => at = 1 /\ x = Empty /\ IsList(text)
    BY ParserInit DEF Init, Begin, Honest
<1>2. ToSet(<<>>) = {} /\ Empty.ifs = <<>>
    BY DEF ToSet, Empty
<1>3. ASSUME at = 1, x = Empty, IsList(text) PROVE Whole
  <2>1. \A i \in DOMAIN text : ~(i < at)
      BY <1>3 DEF IsList
  <2>2. QED BY <1>2, <1>3, <2>1 DEF Whole, Unjoined
<1>4. QED BY <1>1, <1>3

LEMMA WholeNext == Honest /\ Holding /\ Whole /\ [Next]_vars => Whole'
<1>1. SUFFICES ASSUME Honest, Holding, Whole, [Next]_vars PROVE Whole'
    OBVIOUS
<1>2. CASE UNCHANGED vars \/ BuildReview
  <2>1. UNCHANGED <<text, at, x, joins>>
      BY <1>2 DEF vars, BuildReview
  <2>2. QED BY <1>1, <2>1 DEF Whole, Gone, Carried, Has, Joined, Closed
<1>3. CASE Read
    BY <1>1, <1>3, WholeRead DEF Read, Holding
<1>4. CASE Convert
  <2>1. IsList(text') /\ at' = 1 /\ x' = Empty
      BY <1>1, <1>4, Generated DEF Convert, Honest
  <2>2. ToSet(<<>>) = {} /\ Empty.ifs = <<>>
      BY DEF ToSet, Empty
  <2>3. \A i \in DOMAIN text' : ~(i < at')
      BY <2>1 DEF IsList
  <2>4. QED BY <2>1, <2>2, <2>3 DEF Whole, Unjoined
<1>5. QED BY <1>1, <1>2, <1>3, <1>4 DEF Next

(* Whatever text is uploaded, every line of it that has been read is an     *)
(* element's, is captured or is listed as not recognised, but for the lines *)
(* that Excepted names; and every line of a block is in the element of its  *)
(* header, a member in its bundle at the end, but for what Lost names: the  *)
(* words the parser has no case for, values that it cannot read, and what a *)
(* later line of the block takes the place of (asa.go:403-639 against the   *)
(* honesty rule of fwir/model.go:8, which promises more).                   *)
THEOREM ParserHonest == Spec => []NothingSilent
<1>1. Honest /\ Whole => NothingSilent
  <2>1. SUFFICES ASSUME Honest, Whole, NEW i \in DOMAIN text, i < at
                 PROVE  \/ Excepted(text, i) \/ i \in Elements(x) \union x.captured \union x.unparsed
                        \/ \E h \in 1..(i - 1) : Within(text, i, h) /\ (Lost(text, h, i) \/ Carried(text, x, h, i))
      BY DEF NothingSilent
  <2>2. CASE Excepted(text, i) \/ i \in All(x)
      BY <2>2 DEF All
  <2>3. CASE InBlockOf(text, i)
    <3>1. PICK h \in 1..(i - 1) : Within(text, i, h)
        BY <2>3 DEF InBlockOf
    <3>2. h \in DOMAIN text
        BY <2>1 DEF Honest, IsList
    <3>3. Gone(text, h, i) \/ Carried(text, x, h, i)
        BY <2>1, <3>1, <3>2 DEF Whole
    <3>4. QED BY <3>1, <3>3 DEF Gone, Excepted
  <2>4. QED BY <2>1, <2>2, <2>3 DEF Honest, Accounted
<1>2. QED BY <1>1, ParserInit, ParserNext, PassInit, PassNext, HoldingInit, HoldingNext, WholeInit, WholeNext,
             PTL DEF Spec
-----------------------------------------------------------------------------
(* A source that is read to its end, and what its lines give to the names.  *)
InOrder(s) == \A i, j \in DOMAIN s : i < j => s[i].line < s[j].line
ReadAll(t, c) == IsList(t) /\ Nested(t) /\ Wellformed(c) /\ Exact(t, c, Len(t) + 2)

LEMMA AllHeld ==
    ASSUME NEW t, NEW c, ReadAll(t, c)
    PROVE  /\ \A e : e \in ToSet(c.nets) <=> \E j \in DOMAIN t : e \in NetsOf(t, j)
           /\ \A e : e \in ToSet(c.svcs) <=> \E j \in DOMAIN t : e \in SvcsOf(t, j)
           /\ \A e : e \in ToSet(c.netGroups) <=> \E j \in DOMAIN t : e \in NetGroupsOf(t, j)
           /\ \A e : e \in ToSet(c.svcGroups) <=> \E j \in DOMAIN t : e \in SvcGroupsOf(t, j)
           /\ \A e : e \in ToSet(c.routes) <=> \E j \in DOMAIN t : e \in RoutesAt(t, j)
           /\ InOrder(c.nets) /\ InOrder(c.svcs) /\ InOrder(c.netGroups) /\ InOrder(c.svcGroups) /\ InOrder(c.routes)
           /\ Zoned0(Ports(c)) = Zoned0(UNION {PortsAt(t, j) : j \in DOMAIN t})
           /\ c.unparsed = {} => \A j \in DOMAIN t : t[j].k = "route" => t[j].ok
<1>1. \A j \in DOMAIN t : j < Len(t) + 2
    BY DEF ReadAll, IsList
<1>2. ASSUME NEW s, NEW F, DOMAIN F = DOMAIN t, Holds(s, F, Len(t) + 2)
      PROVE  InOrder(s) /\ \A e : e \in ToSet(s) <=> \E j \in DOMAIN t : e \in F[j]
    BY <1>1, <1>2 DEF Holds, InOrder
<1>3. InOrder(c.nets) /\ \A e : e \in ToSet(c.nets) <=> \E j \in DOMAIN t : e \in NetsOf(t, j)
  <2> DEFINE F == [j \in DOMAIN t |-> NetsOf(t, j)]
  <2>1. DOMAIN F = DOMAIN t /\ Holds(c.nets, F, Len(t) + 2) /\ \A j \in DOMAIN t : F[j] = NetsOf(t, j)
      BY DEF ReadAll, Exact
  <2> HIDE DEF F
  <2>2. QED BY <1>2, <2>1
<1>4. InOrder(c.svcs) /\ \A e : e \in ToSet(c.svcs) <=> \E j \in DOMAIN t : e \in SvcsOf(t, j)
  <2> DEFINE F == [j \in DOMAIN t |-> SvcsOf(t, j)]
  <2>1. DOMAIN F = DOMAIN t /\ Holds(c.svcs, F, Len(t) + 2) /\ \A j \in DOMAIN t : F[j] = SvcsOf(t, j)
      BY DEF ReadAll, Exact
  <2> HIDE DEF F
  <2>2. QED BY <1>2, <2>1
<1>5. InOrder(c.netGroups) /\ \A e : e \in ToSet(c.netGroups) <=> \E j \in DOMAIN t : e \in NetGroupsOf(t, j)
  <2> DEFINE F == [j \in DOMAIN t |-> NetGroupsOf(t, j)]
  <2>1. DOMAIN F = DOMAIN t /\ Holds(c.netGroups, F, Len(t) + 2) /\ \A j \in DOMAIN t : F[j] = NetGroupsOf(t, j)
      BY DEF ReadAll, Exact
  <2> HIDE DEF F
  <2>2. QED BY <1>2, <2>1
<1>6. InOrder(c.svcGroups) /\ \A e : e \in ToSet(c.svcGroups) <=> \E j \in DOMAIN t : e \in SvcGroupsOf(t, j)
  <2> DEFINE F == [j \in DOMAIN t |-> SvcGroupsOf(t, j)]
  <2>1. DOMAIN F = DOMAIN t /\ Holds(c.svcGroups, F, Len(t) + 2) /\ \A j \in DOMAIN t : F[j] = SvcGroupsOf(t, j)
      BY DEF ReadAll, Exact
  <2> HIDE DEF F
  <2>2. QED BY <1>2, <2>1
<1>7. InOrder(c.routes) /\ \A e : e \in ToSet(c.routes) <=> \E j \in DOMAIN t : e \in RoutesAt(t, j)
  <2> DEFINE F == [j \in DOMAIN t |-> RoutesAt(t, j)]
  <2>1. DOMAIN F = DOMAIN t /\ Holds(c.routes, F, Len(t) + 2) /\ \A j \in DOMAIN t : F[j] = RoutesAt(t, j)
      BY DEF ReadAll, Exact
  <2> HIDE DEF F
  <2>2. QED BY <1>2, <2>1
<1>8. Zoned0(Ports(c)) = Zoned0(UNION {PortsAt(t, j) : j \in DOMAIN t})
  <2>1. {i \in DOMAIN t : i < Len(t) + 2} = DOMAIN t
      BY <1>1
  <2>2. QED BY <2>1 DEF ReadAll, Exact
<1>9. c.unparsed = {} => \A j \in DOMAIN t : t[j].k = "route" => t[j].ok
    BY <1>1 DEF ReadAll, Exact
<1>10. QED BY <1>3, <1>4, <1>5, <1>6, <1>7, <1>8, <1>9

(* Where a part is: below a header, in its block. *)
LEMMA PartAt ==
    ASSUME NEW t, IsList(t), Nested(t), NEW j \in DOMAIN t, t[j].k \in Parts
    PROVE  /\ HeaderAt(t, j) \in DOMAIN t /\ HeaderAt(t, j) < j /\ Stops(t[HeaderAt(t, j)])
           /\ t[j] \in ToSet(Body(t, HeaderAt(t, j))) /\ PartOf(t[j], t[HeaderAt(t, j)])
<1>1. t[j].in /\ (\E i \in 1..j : Stops(t[i])) /\ PartOf(t[j], t[HeaderAt(t, j)])
    BY DEF Nested, Stops, Header
<1>2. HeaderAt(t, j) \in DOMAIN t /\ HeaderAt(t, j) \in 1..j /\ Stops(t[HeaderAt(t, j)])
    BY <1>1, HeaderFound
<1>3. HeaderAt(t, j) < j
  <2>1. HeaderAt(t, j) # j
      BY <1>1, <1>2 DEF Stops
  <2>2. j \in Nat
      BY DEF IsList
  <2>3. QED BY <1>2, <2>1, <2>2
<1>4. ~Blank(t[j])
    BY DEF Blank, Parts, Members
<1>5. QED BY <1>1, <1>2, <1>3, <1>4, BlockLines
-----------------------------------------------------------------------------
(* The places of a sequence that are kept, counted in their order: there is *)
(* one way to do so.                                                         *)
Counts(f, n, S) ==
    /\ n \in Nat /\ f \in [1..n -> S] /\ \A x1 \in S : \E i \in 1..n : f[i] = x1
    /\ \A i, j \in 1..n : i < j => f[i] < f[j]

Agree(f, g, n) == \A i \in 1..n : f[i] = g[i]
Picks(f, u, s) == \A i \in 1..Len(u) : u[i] = s[f[i]]

LEMMA SameCount ==
    ASSUME NEW S, S \subseteq Nat, NEW f, NEW n, Counts(f, n, S), NEW g, NEW m, Counts(g, m, S)
    PROVE  n = m /\ Agree(f, g, n)
<1>1. /\ n \in Nat /\ (\A i \in 1..n : f[i] \in S /\ f[i] \in Nat) /\ (\A y \in S : \E i \in 1..n : f[i] = y)
      /\ \A i, j \in 1..n : i < j => f[i] < f[j]
    BY DEF Counts
<1>2. /\ m \in Nat /\ (\A i \in 1..m : g[i] \in S /\ g[i] \in Nat) /\ (\A y \in S : \E i \in 1..m : g[i] = y)
      /\ \A i, j \in 1..m : i < j => g[i] < g[j]
    BY DEF Counts
<1> DEFINE U == {k \in 0..n : k <= m /\ \A i \in 1..k : f[i] = g[i]}
<1>3. 0 \in U
    BY <1>1, <1>2
<1>4. ASSUME NEW k \in 0..n, k \in U, k < n PROVE k + 1 \in U
  <2>1. k + 1 \in 1..n /\ k <= m /\ k \in Nat /\ \A i \in 1..k : f[i] = g[i]
      BY <1>1, <1>4
  <2>2. PICK i \in 1..m : g[i] = f[k + 1]
      BY <1>1, <1>2, <2>1
  <2>3. k + 1 <= i
    <3>1. SUFFICES ASSUME i \in 1..k PROVE FALSE
        BY <1>2, <2>1
    <3>2. f[i] = f[k + 1] /\ i < k + 1 /\ i \in 1..n
        BY <1>1, <2>1, <2>2, <3>1
    <3>3. QED BY <1>1, <2>1, <3>2
  <2>4. k + 1 \in 1..m
      BY <1>2, <2>1, <2>3
  <2>5. PICK j \in 1..n : f[j] = g[k + 1]
      BY <1>1, <1>2, <2>4
  <2>6. k + 1 <= j
    <3>1. SUFFICES ASSUME j \in 1..k PROVE FALSE
        BY <1>1, <2>1
    <3>2. g[j] = g[k + 1] /\ j < k + 1 /\ j \in 1..m
        BY <1>2, <2>1, <2>5, <3>1
    <3>3. QED BY <1>2, <2>4, <3>2
  <2>7. g[k + 1] <= f[k + 1]
    <3>1. k + 1 = i \/ k + 1 < i
        BY <2>1, <2>3
    <3>2. QED BY <1>2, <2>2, <2>4, <3>1
  <2>8. f[k + 1] <= g[k + 1]
    <3>1. k + 1 = j \/ k + 1 < j
        BY <2>1, <2>6
    <3>2. QED BY <1>1, <2>1, <2>5, <3>1
  <2>9. f[k + 1] = g[k + 1]
      BY <1>1, <1>2, <2>1, <2>4, <2>7, <2>8
  <2>10. \A q \in 1..(k + 1) : q \in 1..k \/ q = k + 1
      BY <2>1
  <2>11. QED BY <2>1, <2>4, <2>9, <2>10
<1>5. n \in U
  <2> HIDE DEF U
  <2>1. 0..n \subseteq U
      BY <1>1, <1>3, <1>4, UpTo
  <2>2. QED BY <1>1, <2>1
<1>6. n <= m /\ \A i \in 1..n : f[i] = g[i]
    BY <1>5
<1>7. ~(n < m)
  <2>1. SUFFICES ASSUME n < m PROVE FALSE
      OBVIOUS
  <2>2. n + 1 \in 1..m
      BY <1>1, <1>2, <2>1
  <2>3. PICK i \in 1..n : f[i] = g[n + 1]
      BY <1>1, <1>2, <2>2
  <2>4. i \in 1..m /\ i < n + 1 /\ g[i] = g[n + 1]
      BY <1>1, <1>2, <1>6, <2>3
  <2>5. QED BY <1>2, <2>2, <2>4
<1>8. QED BY <1>1, <1>2, <1>6, <1>7 DEF Agree

LEMMA ThosePlaces ==
    ASSUME NEW s, IsList(s), NEW T
    PROVE  \E f : Counts(f, Len(Those(s, T)), T \intersect DOMAIN s) /\ Picks(f, Those(s, T), s)
<1> DEFINE n == Len(s)
<1>1. n \in Nat /\ DOMAIN s = 1..n
    BY DEF IsList
<1>2. PICK g : /\ g \in [0..n -> Seq(ToSet(s))] /\ g[0] = <<>> /\ Those(s, T) = g[n]
               /\ \A k \in 1..n : g[k] = IF k \in T THEN Append(g[k - 1], s[k]) ELSE g[k - 1]
    BY ThoseAre
<1> DEFINE Up(m) == T \intersect (1..m)
           U == {m \in 0..n : \E f : Counts(f, Len(g[m]), Up(m)) /\ Picks(f, g[m], s)}
<1>3. 0 \in U
  <2> DEFINE f == [i \in 1..0 |-> 0]
  <2>1. Len(<<>>) = 0 /\ 1..0 = {}
      OBVIOUS
  <2>2. Up(0) = {}
      BY <2>1
  <2>3. Counts(f, 0, {})
      BY <2>1 DEF Counts
  <2>4. Picks(f, <<>>, s)
      BY <2>1 DEF Picks
  <2>5. QED BY <1>1, <1>2, <2>1, <2>2, <2>3, <2>4
<1>4. ASSUME NEW m \in 0..n, m \in U, m < n PROVE m + 1 \in U
  <2>1. m + 1 \in 1..n /\ m + 1 \in 0..n /\ (m + 1) - 1 = m /\ m \in Nat
      BY <1>1, <1>4
  <2>2. g[m + 1] = IF m + 1 \in T THEN Append(g[m], s[m + 1]) ELSE g[m]
      BY <1>2, <2>1
  <2>3. PICK f : Counts(f, Len(g[m]), Up(m)) /\ Picks(f, g[m], s)
      BY <1>4
  <2>4. \A y : y \in Up(m + 1) <=> y \in Up(m) \/ (y = m + 1 /\ m + 1 \in T)
      BY <2>1
  <2>5. CASE m + 1 \notin T
    <3>1. Up(m + 1) = Up(m) /\ g[m + 1] = g[m]
        BY <2>2, <2>4, <2>5
    <3> HIDE DEF Up
    <3>2. QED BY <2>1, <2>3, <3>1
  <2>6. CASE m + 1 \in T
    <3> DEFINE q == Len(g[m])
               h == [i \in 1..(q + 1) |-> IF i = q + 1 THEN m + 1 ELSE f[i]]
    <3>1. g[m] \in Seq(ToSet(s)) /\ q \in Nat
        BY <1>2, <2>1
    <3>2. g[m + 1] = Append(g[m], s[m + 1])
        BY <2>2, <2>6
    <3>3. /\ Len(g[m + 1]) = q + 1 /\ g[m + 1][q + 1] = s[m + 1]
          /\ \A i \in 1..q : g[m + 1][i] = g[m][i]
        BY <3>1, <3>2
    <3>4. (\A i \in 1..q : i \in 1..(q + 1) /\ i # q + 1) /\ q + 1 \in 1..(q + 1)
          /\ \A i \in 1..(q + 1) : i \in 1..q \/ i = q + 1
        BY <3>1
    <3>5. /\ h[q + 1] = m + 1 /\ \A i \in 1..q : h[i] = f[i]
        BY <3>4
    <3>6. f \in [1..q -> Up(m)] /\ (\A y \in Up(m) : \E i \in 1..q : f[i] = y)
          /\ \A i, j \in 1..q : i < j => f[i] < f[j]
        BY <2>3 DEF Counts
    <3>7. \A y \in Up(m) : y \in Nat /\ y < m + 1
        BY <2>1
    <3>8. m + 1 \in Up(m + 1) /\ \A y \in Up(m) : y \in Up(m + 1)
        BY <2>4, <2>6
    <3> DEFINE V == Up(m + 1)
               W == Up(m)
    <3>9. h \in [1..(q + 1) -> V]
      <4> HIDE DEF Up, q
      <4>1. \A i \in 1..(q + 1) : IF i = q + 1 THEN m + 1 \in V ELSE f[i] \in V
          BY <3>4, <3>6, <3>8
      <4>2. QED BY <4>1
    <3> HIDE DEF h, Up, q
    <3>10. \A y \in V : \E i \in 1..(q + 1) : h[i] = y
        BY <2>4, <3>4, <3>5, <3>6
    <3>11. ASSUME NEW i \in 1..(q + 1), NEW j \in 1..(q + 1), i < j PROVE h[i] < h[j]
      <4>1. i \in 1..q
          BY <3>1, <3>11 DEF q
      <4>2. CASE j \in 1..q
          BY <3>5, <3>6, <3>11, <4>1, <4>2
      <4>3. CASE j = q + 1
        <5>1. h[i] \in W
            BY <3>5, <3>6, <4>1
        <5>2. QED BY <3>5, <3>7, <4>3, <5>1
      <4>4. QED BY <3>4, <4>2, <4>3
    <3>12. Counts(h, q + 1, V)
        BY <3>1, <3>9, <3>10, <3>11 DEF Counts, q
    <3>13. Picks(h, g[m + 1], s)
        BY <2>3, <3>3, <3>4, <3>5 DEF q, Picks
    <3>14. QED BY <2>1, <3>3, <3>12, <3>13
  <2>7. QED BY <2>5, <2>6
<1>5. n \in U
  <2> HIDE DEF U
  <2>1. 0..n \subseteq U
      BY <1>1, <1>3, <1>4, UpTo
  <2>2. QED BY <1>1, <2>1
<1>6. QED BY <1>1, <1>2, <1>5

LEMMA ThoseCounted ==
    ASSUME NEW s, IsList(s), NEW T, NEW g, NEW n, Counts(g, n, T \intersect DOMAIN s)
    PROVE  Len(Those(s, T)) = n /\ DOMAIN Those(s, T) = 1..n /\ Picks(g, Those(s, T), s)
<1> DEFINE L == Those(s, T)
           S == T \intersect DOMAIN s
<1>1. \E f : Counts(f, Len(L), S) /\ Picks(f, L, s)
    BY ThosePlaces
<1>2. S \subseteq Nat
    BY DEF IsList
<1>3. Counts(g, n, S)
    OBVIOUS
<1>4. DOMAIN L = 1..Len(L)
    BY ThoseList DEF IsList
<1> SUFFICES Len(L) = n /\ DOMAIN L = 1..n /\ Picks(g, L, s)
    OBVIOUS
<1> HIDE DEF L, S
<1>5. PICK f : Counts(f, Len(L), S) /\ Picks(f, L, s)
    BY <1>1
<1>6. Len(L) = n /\ Agree(f, g, Len(L))
    BY <1>2, <1>3, <1>5, SameCount
<1>7. QED BY <1>4, <1>5, <1>6 DEF Agree, Picks
-----------------------------------------------------------------------------
(* A sequence has what t has at the places S, in order.                     *)
Occupies(u, t, S) == \E f : Counts(f, Len(u), S) /\ Picks(f, u, t)

LEMMA OccupyThose ==
    ASSUME NEW t, IsList(t), NEW u, IsList(u), NEW S, S \subseteq DOMAIN t, Occupies(u, t, S),
           NEW T, NEW R, \A j \in DOMAIN u : j \in T <=> u[j] \in R
    PROVE  Occupies(Those(u, T), t, {q \in S : t[q] \in R})
<1> DEFINE v == Those(u, T)
           W == {q \in S : t[q] \in R}
<1>1. PICK f : Counts(f, Len(u), S) /\ Picks(f, u, t)
    BY DEF Occupies
<1>2. PICK g : Counts(g, Len(v), T \intersect DOMAIN u) /\ Picks(g, v, u)
    BY ThosePlaces
<1>3. DOMAIN u = 1..Len(u) /\ Len(u) \in Nat /\ DOMAIN t \subseteq Nat
    BY DEF IsList
<1> DEFINE n == Len(v)
           h == [i \in 1..n |-> f[g[i]]]
<1>4. /\ f \in [1..Len(u) -> S] /\ (\A q \in S : \E i \in 1..Len(u) : f[i] = q)
      /\ \A i, j \in 1..Len(u) : i < j => f[i] < f[j]
    BY <1>1 DEF Counts
<1>5. /\ n \in Nat /\ g \in [1..n -> T \intersect DOMAIN u] /\ (\A q \in T \intersect DOMAIN u : \E i \in 1..n : g[i] = q)
      /\ \A i, j \in 1..n : i < j => g[i] < g[j]
    BY <1>2 DEF Counts
<1>6. \A i \in 1..Len(u) : u[i] = t[f[i]] /\ f[i] \in S
    BY <1>1, <1>4 DEF Picks
<1>7. \A i \in 1..n : v[i] = u[g[i]] /\ g[i] \in T /\ g[i] \in 1..Len(u)
    BY <1>2, <1>3, <1>5 DEF Picks
<1>8. \A i \in 1..n : h[i] = f[g[i]]
    OBVIOUS
<1>9. \A i \in 1..n : h[i] \in W /\ v[i] = t[h[i]]
    BY <1>3, <1>6, <1>7
<1>10. h \in [1..n -> W]
    BY <1>9
<1> HIDE DEF v, n, h
<1>11. ASSUME NEW q \in W PROVE \E i \in 1..n : h[i] = q
  <2>1. PICK k \in 1..Len(u) : f[k] = q
      BY <1>4
  <2>2. k \in T \intersect DOMAIN u
      BY <1>3, <1>6, <2>1
  <2>3. PICK i \in 1..n : g[i] = k
      BY <1>5, <2>2
  <2>4. QED BY <1>8, <2>1, <2>3
<1>12. \A i, j \in 1..n : i < j => h[i] < h[j]
    BY <1>4, <1>5, <1>7, <1>8
<1> HIDE DEF W
<1>13. Counts(h, n, W)
    BY <1>5, <1>10, <1>11, <1>12 DEF Counts
<1>14. Picks(h, v, t)
    BY <1>9 DEF Picks, n
<1>15. QED BY <1>13, <1>14 DEF Occupies, v, n, W

LEMMA OccupySub ==
    ASSUME NEW t, IsList(t), NEW a \in Nat \ {0}, NEW b \in Nat, b <= Len(t), a <= b + 1
    PROVE  IsList(SubSeq(t, a, b)) /\ Occupies(SubSeq(t, a, b), t, a..b)
<1> DEFINE u == SubSeq(t, a, b)
           n == b - a + 1
           f == [i \in 1..n |-> a + i - 1]
<1>1. DOMAIN t = 1..Len(t) /\ Len(t) \in Nat /\ t \in Seq(ToSet(t))
    BY DEF IsList
<1>2. n \in Nat
    OBVIOUS
<1>3. u \in Seq(ToSet(t)) /\ Len(u) = n
  <2>1. \A i \in a..b : t[i] \in ToSet(t)
      BY <1>1 DEF ToSet
  <2>2. QED BY <1>1, <2>1
<1>4. \A i \in 1..n : u[i] = t[a + i - 1]
    BY <1>1, <1>2
<1>5. IsList(u)
    BY <1>3, SeqIsList
<1>6. (\A i \in 1..n : f[i] = a + i - 1 /\ f[i] \in a..b)
    BY <1>2
<1>7. f \in [1..n -> a..b]
    BY <1>6
<1>8. ASSUME NEW q \in a..b PROVE \E i \in 1..n : f[i] = q
  <2>1. q - a + 1 \in 1..n /\ f[q - a + 1] = q
      BY <1>2
  <2>2. QED BY <2>1
<1> HIDE DEF f
<1>9. \A i, j \in 1..n : i < j => f[i] < f[j]
    BY <1>2, <1>6
<1> HIDE DEF n
<1>10. Counts(f, n, a..b)
    BY <1>2, <1>7, <1>8, <1>9 DEF Counts
<1> HIDE DEF u
<1>11. Picks(f, u, t)
    BY <1>3, <1>4, <1>6 DEF Picks
<1>12. QED BY <1>3, <1>5, <1>10, <1>11 DEF Occupies, u

(* What comes later is counted on. *)
LEMMA CountsJoin ==
    ASSUME NEW f, NEW n, NEW S, S \subseteq Nat, Counts(f, n, S), NEW g, NEW m, NEW R, R \subseteq Nat, Counts(g, m, R),
           \A p \in S : \A q \in R : p < q
    PROVE  Counts([i \in 1..(n + m) |-> IF i <= n THEN f[i] ELSE g[i - n]], n + m, S \union R)
<1> DEFINE h == [i \in 1..(n + m) |-> IF i <= n THEN f[i] ELSE g[i - n]]
<1>1. /\ n \in Nat /\ f \in [1..n -> S] /\ (\A q \in S : \E i \in 1..n : f[i] = q)
      /\ \A i, j \in 1..n : i < j => f[i] < f[j]
    BY DEF Counts
<1>2. /\ m \in Nat /\ g \in [1..m -> R] /\ (\A q \in R : \E i \in 1..m : g[i] = q)
      /\ \A i, j \in 1..m : i < j => g[i] < g[j]
    BY DEF Counts
<1>3. /\ \A i \in 1..n : h[i] = f[i] /\ i \in 1..(n + m)
      /\ \A i \in 1..m : h[n + i] = g[i] /\ n + i \in 1..(n + m)
      /\ \A i \in 1..(n + m) : i \in 1..n \/ (i - n \in 1..m /\ i = n + (i - n))
  <2>1. \A i \in 1..n : i \in 1..(n + m) /\ i <= n
      BY <1>1, <1>2
  <2>2. \A i \in 1..m : n + i \in 1..(n + m) /\ ~(n + i <= n) /\ n + i - n = i
      BY <1>1, <1>2
  <2>3. \A i \in 1..(n + m) : i \in 1..n \/ (i - n \in 1..m /\ i = n + (i - n))
      BY <1>1, <1>2
  <2>4. \A i \in 1..n : h[i] = f[i]
      BY <2>1
  <2>5. ASSUME NEW i \in 1..m PROVE h[n + i] = g[i]
    <3>1. n + i \in 1..(n + m) /\ ~(n + i <= n) /\ (n + i) - n = i
        BY <1>1, <2>2
    <3>2. h[n + i] = g[(n + i) - n]
        BY <3>1
    <3>3. QED BY <3>1, <3>2
  <2> HIDE DEF h
  <2>6. QED BY <2>1, <2>2, <2>3, <2>4, <2>5
<1>4. h \in [1..(n + m) -> S \union R]
  <2>1. \A i \in 1..(n + m) : h[i] \in S \union R
      BY <1>1, <1>2, <1>3
  <2>2. QED BY <2>1
<1> HIDE DEF h
<1>5. \A q \in S \union R : \E i \in 1..(n + m) : h[i] = q
    BY <1>1, <1>2, <1>3
<1>6. ASSUME NEW i \in 1..(n + m), NEW j \in 1..(n + m), i < j PROVE h[i] < h[j]
  <2>1. CASE i \in 1..n /\ j \in 1..n
      BY <1>1, <1>3, <1>6, <2>1
  <2>2. CASE i \in 1..n /\ j - n \in 1..m /\ j = n + (j - n)
    <3>1. h[i] = f[i] /\ h[j] = g[j - n] /\ f[i] \in S /\ g[j - n] \in R
        BY <1>1, <1>2, <1>3, <2>2
    <3>2. QED BY <3>1
  <2>3. CASE i - n \in 1..m /\ i = n + (i - n) /\ j - n \in 1..m /\ j = n + (j - n)
    <3>1. h[i] = g[i - n] /\ h[j] = g[j - n]
        BY <1>3, <2>3
    <3>2. i - n < j - n
        BY <1>1, <1>6
    <3>3. QED BY <1>2, <2>3, <3>1, <3>2
  <2>4. i \in 1..n \/ ~(j \in 1..n)
      BY <1>1, <1>2, <1>6
  <2>5. QED BY <1>3, <2>1, <2>2, <2>3, <2>4
<1>7. n + m \in Nat
    BY <1>1, <1>2
<1>8. QED BY <1>4, <1>5, <1>6, <1>7 DEF Counts, h
-----------------------------------------------------------------------------
(* Translations: which line each of them was read from.                     *)
ManualFrom(l, e) ==
    /\ e.in = l.from /\ e.out = l.onto /\ e.kind = ManualNatKind(l) /\ e.osrc = l.osrc
    /\ e.tsrc = IF l.mapped = <<>> THEN "" ELSE l.mapped[1]
    /\ e.tdst = IF l.dst = <<>> THEN "" ELSE l.dst[1]
    /\ e.odst = IF l.dst = <<>> THEN "" ELSE l.dst[2]
    /\ l.svc = <<>> => e.osvc = <<>> /\ e.tsvc = <<>>
    /\ e.enabled = l.active
ObjectFrom(name, l, e) ==
    /\ l.mode # "other" /\ e.in = l.from /\ e.out = l.onto /\ e.kind = ObjectNatKind(l) /\ e.osrc = name
    /\ e.tsrc = IF l.mode = "dynamic" /\ l.to[1] = "pat-pool" THEN l.to[2] ELSE l.to[1]
    /\ e.tdst = "" /\ e.odst = "" /\ (l.svc = <<>> => e.osvc = <<>> /\ e.tsvc = <<>>)
    /\ e.enabled = TRUE
NatFrom(t, q, e) ==
    /\ t[q].k = "nat" => ManualFrom(t[q], e)
    /\ t[q].k = "onat" => ObjectFrom(Header(t, q).name, t[q], e)
NatPlaces(t, n) == {q \in DOMAIN t : q < n /\ t[q].k \in {"nat", "onat"}}
NatsBy(t, nats, g, S) == Counts(g, Len(nats), S) /\ \A i \in 1..Len(nats) : NatFrom(t, g[i], nats[i])
NatsRead(t, c, n) == c.unparsed = {} => \E g : NatsBy(t, c.nats, g, NatPlaces(t, n))

LEMMA ReadOne ==
    /\ \A l : ManualFrom(l, ParseManualNAT(l))
    /\ \A name, l : l.mode # "other" => ObjectFrom(name, l, ParseObjectNAT(name, l))
<1>1. \A l : ManualFrom(l, ParseManualNAT(l))
    BY DEF ManualFrom, ParseManualNAT
<1>2. \A name, l : l.mode # "other" => ObjectFrom(name, l, ParseObjectNAT(name, l))
    BY DEF ObjectFrom, ParseObjectNAT
<1>3. QED BY <1>1, <1>2

LEMMA NatsSame ==
    ASSUME NEW t, NEW c, NEW d, NEW n, NEW m, NatsRead(t, c, n), d.nats = c.nats, c.unparsed \subseteq d.unparsed,
           d.unparsed = {} => NatPlaces(t, m) = NatPlaces(t, n)
    PROVE  NatsRead(t, d, m)
<1>1. SUFFICES ASSUME d.unparsed = {} PROVE \E g : NatsBy(t, d.nats, g, NatPlaces(t, m))
    BY DEF NatsRead
<1>2. c.unparsed = {} /\ NatPlaces(t, m) = NatPlaces(t, n)
    BY <1>1
<1>3. \E g : NatsBy(t, c.nats, g, NatPlaces(t, n))
    BY <1>2 DEF NatsRead
<1>4. QED BY <1>2, <1>3

LEMMA NatsJoin ==
    ASSUME NEW t, NEW a, IsList(a), NEW b, IsList(b), NEW f, NEW g, NEW S, S \subseteq Nat, NEW R, R \subseteq Nat,
           NatsBy(t, a, f, S), NatsBy(t, b, g, R), \A p \in S : \A q \in R : p < q
    PROVE  \E h : NatsBy(t, a \o b, h, S \union R)
<1> DEFINE n == Len(a)
           m == Len(b)
           h == [i \in 1..(n + m) |-> IF i <= n THEN f[i] ELSE g[i - n]]
<1>1. /\ n \in Nat /\ m \in Nat /\ Len(a \o b) = n + m
      /\ \A i \in 1..n : (a \o b)[i] = a[i]
      /\ \A i \in 1..m : (a \o b)[n + i] = b[i]
    BY ConcatAt
<1>2. /\ Counts(f, n, S) /\ \A i \in 1..n : NatFrom(t, f[i], a[i])
    BY DEF NatsBy
<1>3. /\ Counts(g, m, R) /\ \A i \in 1..m : NatFrom(t, g[i], b[i])
    BY DEF NatsBy
<1>4. Counts(h, n + m, S \union R)
    BY <1>2, <1>3, CountsJoin
<1>5. ASSUME NEW i \in 1..(n + m) PROVE NatFrom(t, h[i], (a \o b)[i])
  <2>1. CASE i \in 1..n
    <3>1. h[i] = f[i]
        BY <1>1, <2>1
    <3> HIDE DEF h
    <3>2. QED BY <1>1, <1>2, <2>1, <3>1
  <2>2. CASE ~(i \in 1..n)
    <3>1. ~(i <= n) /\ i - n \in 1..m /\ i = n + (i - n)
        BY <1>1, <2>2
    <3>2. h[i] = g[i - n]
        BY <1>1, <3>1
    <3>3. (a \o b)[n + (i - n)] = b[i - n]
        BY <1>1, <3>1
    <3>4. (a \o b)[i] = b[i - n]
        BY <3>1, <3>3
    <3> HIDE DEF h, n, m
    <3>5. QED BY <1>3, <3>1, <3>2, <3>4
  <2>3. QED BY <2>1, <2>2
<1> HIDE DEF h, n, m
<1>6. NatsBy(t, a \o b, h, S \union R)
    BY <1>1, <1>4, <1>5 DEF NatsBy
<1>7. QED BY <1>6

(* No command but an object has a translation in its block. *)
LEMMA BlockNatless ==
    ASSUME NEW t, IsList(t), Nested(t), NEW h \in DOMAIN t, t[h].k \in Commands \ {"nat"},
           NEW m, m = h + 1 \/ (m = End(t, h) /\ t[h].k # "object")
    PROVE  NatPlaces(t, m) = NatPlaces(t, h)
<1>1. /\ Len(t) \in Nat /\ DOMAIN t = 1..Len(t)
      /\ End(t, h) \in Nat /\ h < End(t, h) /\ End(t, h) <= Len(t) + 1
      /\ \A j \in DOMAIN t : h < j /\ j < End(t, h) => t[j].in \/ Blank(t[j])
    BY BlockEnds DEF IsList
<1>2. Stops(t[h]) /\ t[h].k \notin {"nat", "onat"}
    BY DEF Stops, Nested, Blank, Commands
<1>3. CASE m = h + 1
    BY <1>1, <1>2, <1>3 DEF NatPlaces
<1>4. CASE m = End(t, h) /\ t[h].k # "object"
  <2>1. ASSUME NEW q \in DOMAIN t, h < q, q < m PROVE t[q].k \notin {"nat", "onat"}
    <3>1. t[q].in \/ Blank(t[q])
        BY <1>1, <1>4, <2>1
    <3>2. t[q].k # "nat"
        BY <3>1 DEF Nested, Blank, Commands
    <3>3. ASSUME t[q].k = "onat" PROVE FALSE
      <4>1. HeaderAt(t, q) = h
          BY <1>2, <1>4, <2>1, InBlock
      <4>2. t[q].k \in Parts
          BY <3>3 DEF Parts
      <4>3. PartOf(t[q], t[h])
          BY <4>1, <4>2, PartAt
      <4>4. QED BY <1>4, <3>3, <4>3 DEF PartOf
    <3>4. QED BY <3>2, <3>3
  <2>2. \A q \in DOMAIN t : q < m <=> q < h \/ q = h \/ (h < q /\ q < m)
      BY <1>1, <1>4
  <2>3. QED BY <1>2, <2>1, <2>2 DEF NatPlaces
<1>5. QED BY <1>3, <1>4
-----------------------------------------------------------------------------
LEMMA OccupyWhere ==
    ASSUME NEW t, IsList(t), NEW u, IsList(u), NEW S, S \subseteq DOMAIN t, Occupies(u, t, S),
           NEW T, NEW R, \A j \in DOMAIN u : j \in T <=> u[j] \in R,
           NEW W, W = {q \in S : t[q] \in R}, NEW v, v = Those(u, T)
    PROVE  IsList(v) /\ Occupies(v, t, W)
<1>1. Occupies(Those(u, T), t, {q \in S : t[q] \in R})
    BY OccupyThose
<1>2. QED BY <1>1, ThoseList

(* The translations of an object's block, when each was understood. *)
LEMMA ObjectNats ==
    ASSUME NEW t, IsList(t), Nested(t), NEW h \in DOMAIN t, t[h].k = "object",
           NEW nats, nats = Only(Body(t, h), "onat"), NEW good, good = Understood(nats)
    PROVE  /\ IsList(nats) /\ IsList(good)
           /\ good = nats => \E g : /\ Counts(g, Len(nats), {q \in DOMAIN t : h < q /\ q < End(t, h) /\ t[q].k = "onat"})
                                    /\ Picks(g, nats, t) /\ \A i \in 1..Len(nats) : nats[i].mode # "other"
<1> DEFINE e == End(t, h)
           u == SubSeq(t, h + 1, e - 1)
           b == Body(t, h)
           R1 == {l \in ToSet(t) : ~Blank(l)}
           R2 == {l \in ToSet(t) : l.k = "onat"}
           S0 == (h + 1)..(e - 1)
           S1 == {q \in S0 : t[q] \in R1}
           S2 == {q \in S1 : t[q] \in R2}
<1>1. /\ Len(t) \in Nat /\ DOMAIN t = 1..Len(t) /\ h \in Nat
      /\ e \in Nat /\ h < e /\ e <= Len(t) + 1
    BY BlockEnds DEF IsList
<1>2. IsList(u) /\ Occupies(u, t, S0)
  <2>1. h + 1 \in Nat \ {0} /\ e - 1 \in Nat /\ e - 1 <= Len(t) /\ h + 1 <= (e - 1) + 1
      BY <1>1
  <2>2. QED BY <2>1, OccupySub
<1>3. S0 \subseteq DOMAIN t
    BY <1>1
<1>4. \A j \in DOMAIN u : u[j] \in ToSet(t)
  <2>1. PICK f : Counts(f, Len(u), S0) /\ Picks(f, u, t)
      BY <1>2 DEF Occupies
  <2>2. DOMAIN u = 1..Len(u)
      BY <1>2 DEF IsList
  <2> HIDE DEF u, S0
  <2>3. \A j \in DOMAIN u : u[j] = t[f[j]] /\ f[j] \in S0
      BY <2>1, <2>2 DEF Counts, Picks
  <2>4. QED BY <1>3, <2>3 DEF ToSet
<1> DEFINE T1 == {n \in DOMAIN u : ~Blank(u[n])}
<1>5. b = Those(u, T1)
    BY DEF Body, Select
<1>6. IsList(b) /\ Occupies(b, t, S1) /\ ToSet(b) \subseteq ToSet(t)
  <2>1. \A j \in DOMAIN u : j \in T1 <=> u[j] \in R1
      BY <1>4
  <2>0. S1 = {q \in S0 : t[q] \in R1}
      OBVIOUS
  <2> HIDE DEF T1, R1, u, S0, S1, b
  <2>2. IsList(b) /\ Occupies(b, t, S1)
      BY <1>2, <1>3, <1>5, <2>0, <2>1, OccupyWhere
  <2>3. ToSet(b) \subseteq ToSet(t)
    <3>1. ToSet(b) = {u[k] : k \in T1 \intersect DOMAIN u}
        BY <1>2, <1>5, ThoseList
    <3>2. QED BY <1>4, <3>1
  <2>4. QED BY <2>2, <2>3
<1> DEFINE T2 == {n \in DOMAIN b : b[n].k = "onat"}
<1>7. nats = Those(b, T2)
    BY DEF Only, Select
<1>8. S1 \subseteq DOMAIN t
    BY <1>3
<1>9. IsList(nats) /\ Occupies(nats, t, S2)
  <2>1. \A j \in DOMAIN b : b[j] \in ToSet(t)
      BY <1>6 DEF ToSet
  <2>2. \A j \in DOMAIN b : j \in T2 <=> b[j] \in R2
      BY <2>1
  <2>0. S2 = {q \in S1 : t[q] \in R2}
      OBVIOUS
  <2> HIDE DEF T2, R2, b, S1, S2
  <2>3. QED BY <1>6, <1>7, <1>8, <2>0, <2>2, OccupyWhere
<1>10. IsList(good) /\ ToSet(good) = {nats[k] : k \in {n \in DOMAIN nats : nats[n].mode # "other"}}
  <2> DEFINE T == {n \in DOMAIN nats : nats[n].mode # "other"}
  <2>1. good = Those(nats, T)
      BY DEF Understood, Select
  <2>2. T \intersect DOMAIN nats = T
      OBVIOUS
  <2>3. QED BY <1>9, <2>1, <2>2, ThoseList
<1>11. S2 = {q \in DOMAIN t : h < q /\ q < e /\ t[q].k = "onat"}
  <2>1. \A q : q \in S2 => q \in DOMAIN t /\ h < q /\ q < e /\ t[q].k = "onat"
      BY <1>1, <1>3
  <2>2. ASSUME NEW q \in DOMAIN t, h < q, q < e, t[q].k = "onat" PROVE q \in S2
    <3>1. q \in S0 /\ t[q] \in ToSet(t) /\ ~Blank(t[q])
        BY <1>1, <2>2 DEF ToSet, Blank
    <3>2. QED BY <2>2, <3>1
  <2> HIDE DEF S2, e
  <2>3. QED BY <2>1, <2>2
<1>12. ASSUME good = nats
       PROVE  \E g : /\ Counts(g, Len(nats), S2) /\ Picks(g, nats, t)
                     /\ \A i \in 1..Len(nats) : nats[i].mode # "other"
  <2>1. PICK g : Counts(g, Len(nats), S2) /\ Picks(g, nats, t)
      BY <1>9 DEF Occupies
  <2>2. \A l \in ToSet(nats) : l.mode # "other"
      BY <1>10, <1>12
  <2>3. \A i \in 1..Len(nats) : nats[i] \in ToSet(nats)
      BY <1>9 DEF IsList, ToSet
  <2> HIDE DEF S2
  <2>4. QED BY <2>1, <2>2, <2>3
<1> HIDE DEF S2
<1>13. QED BY <1>9, <1>10, <1>11, <1>12

LEMMA NatStepObject == ASSUME Honest, Nested(text), ParseObjectNetwork, NatsRead(text, x, at) PROVE NatsRead(text, x', at')
<1> DEFINE nats == Only(Block, "onat")
           good == Understood(nats)
           made == [j \in DOMAIN good |-> ParseObjectNAT(Line.name, good[j])]
           R == {q \in DOMAIN text : at < q /\ q < at' /\ text[q].k = "onat"}
           S == NatPlaces(text, at)
<1>1. /\ IsList(text) /\ Wellformed(x) /\ at \in DOMAIN text /\ text[at].k = "object" /\ at' = End(text, at)
      /\ DOMAIN text = 1..Len(text) /\ Len(text) \in Nat
    BY DEF Honest, ParseObjectNetwork, Is, ReadBlock, IsList
<1>2. x'.nats = x.nats \o made /\ x'.unparsed = IF good = nats THEN x.unparsed ELSE x.unparsed \union {at}
    BY <1>1 DEF ParseObjectNetwork, Wellformed, Fields
<1>3. nats = Only(Body(text, at), "onat")
    BY DEF Block
<1>4. /\ IsList(nats) /\ IsList(good)
      /\ good = nats => \E g : /\ Counts(g, Len(nats), R) /\ Picks(g, nats, text)
                               /\ \A i \in 1..Len(nats) : nats[i].mode # "other"
    BY <1>1, <1>3, ObjectNats
<1> HIDE DEF nats, good
<1>5. SUFFICES ASSUME x'.unparsed = {} PROVE \E g : NatsBy(text, x'.nats, g, NatPlaces(text, at'))
    BY DEF NatsRead
<1>6. good = nats /\ x.unparsed = {}
    BY <1>2, <1>5
<1>7. PICK g : /\ Counts(g, Len(nats), R) /\ Picks(g, nats, text)
               /\ \A i \in 1..Len(nats) : nats[i].mode # "other"
    BY <1>4, <1>6
<1>8. PICK f : NatsBy(text, x.nats, f, S)
    BY <1>6 DEF NatsRead
<1>9. DOMAIN good = 1..Len(good) /\ Len(good) \in Nat
    BY <1>4 DEF IsList
<1>10. IsList(made) /\ Len(made) = Len(nats) /\ \A i \in 1..Len(nats) : made[i] = ParseObjectNAT(Line.name, nats[i])
  <2>1. made \in Seq({ParseObjectNAT(Line.name, good[j]) : j \in DOMAIN good}) /\ Len(made) = Len(good)
      BY <1>9
  <2>2. \A i \in 1..Len(good) : made[i] = ParseObjectNAT(Line.name, good[i])
      BY <1>9
  <2> HIDE DEF made
  <2>3. QED BY <1>6, <2>1, <2>2, SeqIsList
<1>11. R \subseteq Nat /\ S \subseteq Nat /\ \A p \in S : \A q \in R : p < q
    BY <1>1 DEF NatPlaces
<1>12. Stops(text[at])
    BY <1>1 DEF Stops, Nested, Blank, Commands
<1>13. ASSUME NEW i \in 1..Len(nats) PROVE NatFrom(text, g[i], made[i])
  <2>1. g[i] \in R /\ nats[i] = text[g[i]]
      BY <1>7, <1>13 DEF Counts, Picks
  <2>2. g[i] \in DOMAIN text /\ at < g[i] /\ g[i] < End(text, at) /\ text[g[i]].k = "onat"
      BY <1>1, <2>1
  <2>3. HeaderAt(text, g[i]) = at
      BY <1>1, <1>12, <2>2, InBlock
  <2>4. Header(text, g[i]).name = Line.name
      BY <2>3 DEF Header, Line
  <2>5. made[i] = ParseObjectNAT(Line.name, nats[i]) /\ nats[i].mode # "other"
      BY <1>7, <1>10, <1>13
  <2>6. ObjectFrom(Line.name, nats[i], made[i])
      BY <2>5, ReadOne
  <2>7. QED BY <2>1, <2>2, <2>4, <2>6 DEF NatFrom
<1> HIDE DEF made
<1>14. NatsBy(text, made, g, R)
    BY <1>7, <1>10, <1>13 DEF NatsBy
<1>15. NatPlaces(text, at') = S \union R
  <2>1. /\ at \in Nat /\ at < at' /\ at' \in Nat
        /\ \A j \in DOMAIN text : at < j /\ j < at' => text[j].in \/ Blank(text[j])
      BY <1>1, BlockEnds
  <2>2. \A j \in DOMAIN text : at < j /\ j < at' => text[j].k # "nat"
      BY <2>1 DEF Nested, Blank, Commands
  <2>3. \A q \in DOMAIN text : q < at' <=> q < at \/ q = at \/ (at < q /\ q < at')
      BY <1>1, <2>1
  <2>4. QED BY <1>1, <2>1, <2>2, <2>3 DEF NatPlaces
<1>16. IsList(x.nats)
    BY <1>1 DEF Wellformed
<1> HIDE DEF R, S
<1>17. \E h : NatsBy(text, x.nats \o made, h, S \union R)
    BY <1>8, <1>10, <1>11, <1>14, <1>16, NatsJoin
<1>18. QED BY <1>2, <1>15, <1>17

LEMMA NatStepManual == ASSUME Honest, Nested(text), ParseNAT, NatsRead(text, x, at) PROVE NatsRead(text, x', at')
<1> DEFINE S == NatPlaces(text, at)
           e == ParseManualNAT(Line)
           g == [i \in 1..1 |-> at]
<1>1. /\ IsList(text) /\ Wellformed(x) /\ at \in DOMAIN text /\ text[at].k = "nat" /\ at' = at + 1
      /\ DOMAIN text = 1..Len(text) /\ Len(text) \in Nat
    BY DEF Honest, ParseNAT, Is, ReadLine, IsList
<1>2. \/ x'.nats = Append(x.nats, e) /\ x'.unparsed = x.unparsed
      \/ at \in x'.unparsed
    BY <1>1 DEF ParseNAT, Wellformed, Fields
<1>3. SUFFICES ASSUME x'.unparsed = {} PROVE \E h : NatsBy(text, x'.nats, h, NatPlaces(text, at'))
    BY DEF NatsRead
<1>4. x'.nats = Append(x.nats, e) /\ x.unparsed = {}
    BY <1>2, <1>3
<1>5. PICK f : NatsBy(text, x.nats, f, S)
    BY <1>4 DEF NatsRead
<1>6. IsList(x.nats) /\ IsList(<<e>>) /\ Len(<<e>>) = 1 /\ <<e>>[1] = e
  <2>1. <<e>> \in Seq({e})
      OBVIOUS
  <2>2. QED BY <1>1, <2>1, SeqIsList DEF Wellformed
<1>7. x'.nats = x.nats \o <<e>>
    BY <1>4, <1>6 DEF IsList
<1>8. ManualFrom(text[at], e)
    BY ReadOne DEF Line
<1> HIDE DEF e
<1>9. NatsBy(text, <<e>>, g, {at})
  <2>1. NatFrom(text, at, e)
      BY <1>1, <1>8 DEF NatFrom
  <2>2. g[1] = at /\ g \in [1..1 -> {at}] /\ 1..1 = {1}
      OBVIOUS
  <2> HIDE DEF g
  <2>3. Counts(g, 1, {at})
      BY <2>2 DEF Counts
  <2>4. QED BY <1>6, <2>1, <2>2, <2>3 DEF NatsBy
<1>10. S \subseteq Nat /\ {at} \subseteq Nat /\ \A p \in S : \A q \in {at} : p < q
    BY <1>1 DEF NatPlaces
<1>11. NatPlaces(text, at') = S \union {at}
    BY <1>1 DEF NatPlaces
<1> HIDE DEF S, g
<1>12. \E h : NatsBy(text, x.nats \o <<e>>, h, S \union {at})
    BY <1>5, <1>6, <1>9, <1>10, NatsJoin
<1>13. QED BY <1>7, <1>11, <1>12
-----------------------------------------------------------------------------
(* Every other command leaves the translations alone, and none of them      *)
(* passes a line that has one without saying so.                             *)
LEMMA NatStepOther ==
    ASSUME Honest, Nested(text), NatsRead(text, x, at),
           ParseInterface \/ ParseObjectService \/ ParseObjectGroup \/ ParseName \/ ParseRemark \/ ParseRule
           \/ ParseAccessGroup \/ ParseRoute \/ ParseMTU \/ Capture
    PROVE  NatsRead(text, x', at')
<1>1. /\ IsList(text) /\ Wellformed(x) /\ DOMAIN text = 1..Len(text) /\ Len(text) \in Nat /\ at \in Nat \ {0}
    BY DEF Honest, IsList
<1>2. /\ at <= Len(text) /\ text[at].k \in Commands \ {"nat", "object"}
      /\ at' = at + 1 \/ at' = End(text, at)
    BY DEF ParseInterface, ParseObjectService, ParseObjectGroup, ParseName, ParseRemark, ParseRule, ParseAccessGroup,
       ParseRoute, ParseMTU, Capture, Is, Commands, ReadLine, ReadBlock
<1>3. x'.nats = x.nats /\ x.unparsed \subseteq x'.unparsed
  <2>1. CASE ParseInterface \/ ParseObjectService \/ ParseObjectGroup \/ ParseName
      BY <1>1, <2>1 DEF ParseInterface, ParseObjectService, ParseObjectGroup, ParseName, Wellformed, Fields
  <2>2. CASE ParseRemark \/ ParseRule \/ ParseAccessGroup \/ ParseRoute \/ ParseMTU \/ Capture
      BY <1>1, <2>2 DEF ParseRemark, ParseRule, ParseAccessGroup, ParseRoute, ParseMTU, Capture, Wellformed, Fields
  <2>3. QED BY <2>1, <2>2
<1>4. at \in DOMAIN text
    BY <1>1, <1>2
<1>5. NatPlaces(text, at') = NatPlaces(text, at)
    BY <1>1, <1>2, <1>4, BlockNatless
<1>6. QED BY <1>3, <1>5, NatsSame

LEMMA NatStepRest == ASSUME Honest, NatsRead(text, x, at), ParseOther \/ Close PROVE NatsRead(text, x', at')
<1>1. /\ IsList(text) /\ Wellformed(x) /\ DOMAIN text = 1..Len(text) /\ Len(text) \in Nat /\ at \in Nat \ {0}
    BY DEF Honest, IsList
<1>2. CASE ParseOther
  <2>1. at \in DOMAIN text /\ text[at].k \notin Commands /\ at' = at + 1
      BY <1>1, <1>2 DEF ParseOther, Line, ReadLine
  <2>2. x'.nats = x.nats /\ x.unparsed \subseteq x'.unparsed /\ (~Blank(text[at]) => at \in x'.unparsed)
      BY <1>1, <1>2 DEF ParseOther, Line, Wellformed, Fields
  <2>3. text[at].k # "nat"
      BY <2>1 DEF Commands
  <2>4. x'.unparsed = {} => text[at].k \notin {"nat", "onat"}
      BY <2>2, <2>3 DEF Blank
  <2>5. x'.unparsed = {} => NatPlaces(text, at') = NatPlaces(text, at)
      BY <1>1, <2>1, <2>4 DEF NatPlaces
  <2>6. QED BY <2>2, <2>5, NatsSame
<1>3. CASE Close
  <2>1. x'.nats = x.nats /\ x'.unparsed = x.unparsed /\ at = Len(text) + 1 /\ at' = at + 1
      BY <1>1, <1>3 DEF Close, Wellformed, Fields
  <2>2. NatPlaces(text, at') = NatPlaces(text, at)
      BY <1>1, <2>1 DEF NatPlaces
  <2>3. QED BY <2>1, <2>2, NatsSame
<1>4. QED BY <1>2, <1>3

NatsHeld ==
    /\ Nested(text) => NatsRead(text, x, at)
    /\ pass # "source" => (Nested(source) => NatsRead(source, ir, Len(source) + 2))

LEMMA NoNats == ASSUME NEW t, IsList(t) PROVE NatsRead(t, Empty, 1)
<1> DEFINE g == [i \in 1..0 |-> 0]
<1>1. NatPlaces(t, 1) = {}
    BY DEF NatPlaces, IsList
<1>2. Empty.nats = <<>> /\ Len(<<>>) = 0 /\ 1..0 = {}
    BY DEF Empty
<1>3. Counts(g, 0, {})
    BY <1>2 DEF Counts
<1> HIDE DEF g
<1>4. NatsBy(t, Empty.nats, g, NatPlaces(t, 1))
    BY <1>1, <1>2, <1>3 DEF NatsBy
<1>5. QED BY <1>4 DEF NatsRead

LEMMA NatsHeldInit == Init => NatsHeld
<1>1. SUFFICES ASSUME Init PROVE NatsHeld
    OBVIOUS
<1>2. at = 1 /\ x = Empty /\ pass = "source" /\ IsList(text)
    BY <1>1, ParserInit DEF Init, Begin, Honest
<1>3. QED BY <1>2, NoNats DEF NatsHeld

LEMMA NatsHeldNext == Honest /\ PassOK /\ NatsHeld /\ [Next]_vars => NatsHeld'
<1>1. SUFFICES ASSUME Honest, PassOK, NatsHeld, [Next]_vars PROVE NatsHeld'
    OBVIOUS
<1>2. CASE UNCHANGED vars \/ BuildReview
    BY <1>1, <1>2 DEF vars, BuildReview, NatsHeld
<1>3. CASE Read
  <2>1. Parse /\ UNCHANGED <<pass, source, ir>>
      BY <1>3 DEF Read
  <2>2. text' = text
      BY <2>1 DEF Parse, ParseInterface, ParseObjectNetwork, ParseObjectService, ParseObjectGroup,
         ParseName, ParseRemark, ParseRule, ParseAccessGroup, ParseNAT, ParseRoute, ParseMTU, Capture,
         ParseOther, Close, ReadLine, ReadBlock
  <2>3. ASSUME Nested(text), NatsRead(text, x, at) PROVE NatsRead(text, x', at')
      BY <1>1, <2>1, <2>3, NatStepObject, NatStepManual, NatStepOther, NatStepRest DEF Parse
  <2>4. QED BY <1>1, <2>1, <2>2, <2>3 DEF NatsHeld
<1>4. CASE Convert
  <2>1. /\ IsList(text') /\ at' = 1 /\ x' = Empty /\ ir' = x /\ source' = source /\ pass = "source"
        /\ at = Len(text) + 2 /\ text = source
      BY <1>1, <1>4, Generated DEF Convert, Honest, Closed, PassOK
  <2>2. NatsRead(text', x', at')
      BY <2>1, NoNats
  <2>3. QED BY <1>1, <2>1, <2>2 DEF NatsHeld
<1>5. QED BY <1>1, <1>2, <1>3, <1>4 DEF Next
-----------------------------------------------------------------------------
(* Rules: which entry each of them was read from, and what binds its list.  *)
RuleFields == {"name", "action", "src", "dst", "svc", "enabled", "from", "to"}
EnabledAs(e, l) == e.enabled <=> "inactive" \notin l.tail
RuleFrom(t, q, e) ==
    LET l == t[q] IN
    /\ RuleFields \subseteq DOMAIN e /\ AceOk(l) /\ e.name = l.acl /\ e.action = IF l.action = "permit" THEN "allow" ELSE "deny"
    /\ e.src = ParseAddr(l.src) /\ e.dst = ParseDst(l)
    /\ e.svc = IF l.obj # "" THEN <<l.obj>> ELSE SvcLiteral(l.proto, ParseDport(l))
    /\ EnabledAs(e, l)
AcePlaces(t, n) == {q \in DOMAIN t : q < n /\ t[q].k = "ace"}
RulesBy(t, rules, g, S) == Counts(g, Len(rules), S) /\ \A i \in 1..Len(rules) : RuleFrom(t, g[i], rules[i])
RulesRead(t, c, n) == c.unparsed = {} => \E g : RulesBy(t, c.rules, g, AcePlaces(t, n))

Binds(t, q, a) == q \in DOMAIN t /\ t[q].k = "access-group" /\ t[q].acl = a
BindOf(t, a, b) == \E q : Binds(t, q, a) /\ b.dir = t[q].dir /\ b.iface = t[q].iface
BindsRead(t, b, n) ==
    /\ \A a \in DOMAIN b : BindOf(t, a, b[a])
    /\ \A q \in DOMAIN t : q < n /\ t[q].k = "access-group" => t[q].acl \in DOMAIN b

(* At the end each rule is where a binding of its list is, if there is one. *)
BoundAs(t, e) ==
    \/ e.from = <<>> /\ \A q : ~Binds(t, q, e.name)
    \/ e.from = <<>> /\ \E q : Binds(t, q, e.name) /\ t[q].dir \in {"global", "out"}
    \/ \E q : Binds(t, q, e.name) /\ t[q].dir \notin {"global", "out"} /\ e.from = <<t[q].iface>>
AllBound(t, c) == c.unparsed = {} => \A i \in 1..Len(c.rules) : BoundAs(t, c.rules[i])

(* What a device shows of its policy: a binding is global or has a          *)
(* direction and an interface, "ip" has no ports, "tcp-udp" is a word of    *)
(* groups alone, and no name is the reference that stands for none.         *)
PolicyWorded(t) ==
    /\ Unknown \notin Literals /\ Unknown # "any"
    /\ \A j \in DOMAIN t :
          /\ t[j].k \in {"name", "object", "object-group"} => t[j].name # Unknown
          /\ t[j].k = "access-group" => /\ t[j].dir \in {"global", "in", "out"}
                                        /\ t[j].dir = "global" => t[j].iface = ""
          /\ t[j].k = "ace" /\ AceOk(t[j]) => /\ Worded(t[j].dport) /\ t[j].proto # "tcp-udp"
                                              /\ t[j].proto = "ip" => t[j].dport.op = "none"

(* Interfaces with a binding get lists of their own, none the global one.   *)
ListsApart(t) ==
    \A i, j \in {q \in DOMAIN t : t[q].k = "access-group"} :
        /\ AclName(MapZone(t[i].iface)) = AclName(MapZone(t[j].iface)) => t[i].iface = t[j].iface
        /\ AclName(MapZone(t[i].iface)) # GlobalAcl

RulesHeld ==
    /\ Nested(text) => /\ RulesRead(text, x, at) /\ BindsRead(text, bind, at)
                       /\ at = Len(text) + 2 => AllBound(text, x)
    /\ pass # "source" => (Nested(source) => RulesRead(source, ir, Len(source) + 2) /\ AllBound(source, ir))

LEMMA BlockCommandless ==
    ASSUME NEW t, IsList(t), Nested(t), NEW h \in DOMAIN t, NEW m, m = h + 1 \/ m = End(t, h)
    PROVE  /\ m \in Nat /\ h < m /\ m <= Len(t) + 1
           /\ \A q \in DOMAIN t : h < q /\ q < m => t[q].k \notin Commands
<1>1. /\ Len(t) \in Nat /\ DOMAIN t = 1..Len(t)
      /\ End(t, h) \in Nat /\ h < End(t, h) /\ End(t, h) <= Len(t) + 1
      /\ \A j \in DOMAIN t : h < j /\ j < End(t, h) => t[j].in \/ Blank(t[j])
    BY BlockEnds DEF IsList
<1>2. m \in Nat /\ h < m /\ m <= Len(t) + 1
    BY <1>1
<1>3. ASSUME NEW q \in DOMAIN t, h < q, q < m PROVE t[q].k \notin Commands
  <2>1. t[q].in \/ Blank(t[q])
      BY <1>1, <1>3
  <2>2. QED BY <2>1 DEF Nested, Blank, Commands
<1>4. QED BY <1>2, <1>3

LEMMA RuleReadOne == ASSUME AceOk(Line) PROVE RuleFrom(text, at, ParseACL(Line))
<1> DEFINE e == ParseACL(Line)
<1>1. RuleFields \subseteq DOMAIN e
    BY DEF RuleFields, ParseACL
<1>2. /\ e.name = Line.acl /\ e.action = (IF Line.action = "permit" THEN "allow" ELSE "deny")
      /\ e.src = ParseAddr(Line.src) /\ e.dst = ParseDst(Line)
      /\ e.svc = IF Line.obj # "" THEN <<Line.obj>> ELSE SvcLiteral(Line.proto, ParseDport(Line))
    BY DEF ParseACL
<1>3. EnabledAs(e, Line)
    BY Zenon DEF EnabledAs, ParseACL
<1> HIDE DEF e
<1>4. Line = text[at]
    BY DEF Line
<1>5. QED BY <1>1, <1>2, <1>3, <1>4 DEF RuleFrom, e

(* An entry is counted behind those before it. *)
LEMMA RulesMore ==
    ASSUME NEW t, NEW a, IsList(a), NEW e, NEW f, NEW S, S \subseteq Nat, NEW p \in Nat,
           RulesBy(t, a, f, S), \A q \in S : q < p, RuleFrom(t, p, e)
    PROVE  \E h : RulesBy(t, Append(a, e), h, S \union {p})
<1> DEFINE n == Len(a)
           g == [i \in 1..1 |-> p]
           m == 1
           R == {p}
           h == [i \in 1..(n + m) |-> IF i <= n THEN f[i] ELSE g[i - n]]
<1>1. /\ n \in Nat /\ Len(Append(a, e)) = n + 1 /\ Append(a, e)[n + 1] = e
      /\ \A i \in 1..n : Append(a, e)[i] = a[i]
    BY DEF IsList
<1>2. Counts(f, n, S) /\ \A i \in 1..n : RuleFrom(t, f[i], a[i])
    BY DEF RulesBy
<1>3. Counts(g, 1, {p})
  <2>1. g[1] = p /\ g \in [1..1 -> {p}] /\ 1..1 = {1}
      OBVIOUS
  <2> HIDE DEF g
  <2>2. QED BY <2>1 DEF Counts
<1>4. Counts(h, n + 1, S \union {p})
  <2>1. R \subseteq Nat /\ \A q \in S : \A r \in R : q < r
      OBVIOUS
  <2>2. Counts(f, n, S) /\ Counts(g, m, R)
      BY <1>2, <1>3
  <2> HIDE DEF n, g, m, R
  <2>3. Counts(h, n + m, S \union R)
      BY <2>1, <2>2, CountsJoin
  <2>4. QED BY <2>3 DEF m, R
<1>5. (\A i \in 1..n : h[i] = f[i]) /\ h[n + 1] = p
  <2>1. \A i \in 1..n : h[i] = f[i]
      BY <1>1
  <2>2. n + 1 \in 1..(n + 1) /\ ~(n + 1 <= n) /\ (n + 1) - n = 1
      BY <1>1
  <2>3. h[n + 1] = g[(n + 1) - n]
      BY <2>2
  <2>4. h[n + 1] = g[1]
      BY <2>2, <2>3
  <2>5. QED BY <2>1, <2>4
<1> HIDE DEF h, g
<1>6. \A i \in 1..(n + 1) : i \in 1..n \/ i = n + 1
    BY <1>1
<1> HIDE DEF n
<1>7. \A i \in 1..(n + 1) : RuleFrom(t, h[i], Append(a, e)[i])
    BY <1>1, <1>2, <1>5, <1>6
<1>8. RulesBy(t, Append(a, e), h, S \union {p})
    BY <1>1, <1>4, <1>7 DEF RulesBy
<1>9. QED BY <1>8

LEMMA RulesSame ==
    ASSUME NEW t, NEW c, NEW d, NEW n, NEW m, RulesRead(t, c, n), d.rules = c.rules, c.unparsed \subseteq d.unparsed,
           AcePlaces(t, m) = AcePlaces(t, n)
    PROVE  RulesRead(t, d, m)
<1>1. SUFFICES ASSUME d.unparsed = {} PROVE \E g : RulesBy(t, d.rules, g, AcePlaces(t, m))
    BY DEF RulesRead
<1>2. c.unparsed = {}
    BY <1>1
<1>3. \E g : RulesBy(t, c.rules, g, AcePlaces(t, n))
    BY <1>2 DEF RulesRead
<1>4. QED BY <1>3

LEMMA RuleStep == ASSUME Honest, Nested(text), ParseRule, RulesRead(text, x, at) PROVE RulesRead(text, x', at')
<1>1. /\ IsList(text) /\ Wellformed(x) /\ at \in DOMAIN text /\ text[at].k = "ace" /\ at' = at + 1
      /\ DOMAIN text = 1..Len(text) /\ Len(text) \in Nat
    BY DEF Honest, ParseRule, Is, ReadLine, IsList
<1>2. \/ AceOk(Line) /\ x'.rules = Append(x.rules, ParseACL(Line)) /\ x'.unparsed = x.unparsed
      \/ at \in x'.unparsed
    BY <1>1 DEF ParseRule, Wellformed, Fields
<1>3. SUFFICES ASSUME x'.unparsed = {} PROVE \E h : RulesBy(text, x'.rules, h, AcePlaces(text, at'))
    BY DEF RulesRead
<1>4. AceOk(Line) /\ x'.rules = Append(x.rules, ParseACL(Line)) /\ x.unparsed = {}
    BY <1>2, <1>3
<1>5. PICK f : RulesBy(text, x.rules, f, AcePlaces(text, at))
    BY <1>4 DEF RulesRead
<1>6. RuleFrom(text, at, ParseACL(Line))
    BY <1>4, RuleReadOne
<1>7. AcePlaces(text, at) \subseteq Nat /\ at \in Nat /\ \A q \in AcePlaces(text, at) : q < at
    BY <1>1 DEF AcePlaces
<1>8. AcePlaces(text, at') = AcePlaces(text, at) \union {at}
    BY <1>1 DEF AcePlaces
<1>9. IsList(x.rules)
    BY <1>1 DEF Wellformed
<1> DEFINE e == ParseACL(Line)
           S == AcePlaces(text, at)
<1>10. RuleFrom(text, at, e) /\ S \subseteq Nat /\ (\A q \in S : q < at) /\ RulesBy(text, x.rules, f, S)
    BY <1>5, <1>6, <1>7
<1>11. x'.rules = Append(x.rules, e) /\ AcePlaces(text, at') = S \union {at}
    BY <1>4, <1>8
<1> HIDE DEF e, S
<1>12. \E h : RulesBy(text, Append(x.rules, e), h, S \union {at})
    BY <1>7, <1>9, <1>10, RulesMore
<1>13. QED BY <1>11, <1>12
-----------------------------------------------------------------------------
(* A step passes no command but the one it reads. *)
LEMMA CommandsPassed ==
    ASSUME Honest, Nested(text), Parse
    PROVE  \A q \in DOMAIN text : text[q].k \in Commands => (q < at' <=> q < at \/ q = at)
<1>1. IsList(text) /\ DOMAIN text = 1..Len(text) /\ Len(text) \in Nat /\ at \in Nat \ {0}
    BY DEF Honest, IsList
<1>2. CASE Close
    BY <1>1, <1>2 DEF Close
<1>3. CASE ~Close
  <2>1. at <= Len(text) /\ (at' = at + 1 \/ at' = End(text, at))
      BY <1>3 DEF Parse, ParseInterface, ParseObjectNetwork, ParseObjectService, ParseObjectGroup,
         ParseName, ParseRemark, ParseRule, ParseAccessGroup, ParseNAT, ParseRoute, ParseMTU, Capture,
         ParseOther, Is, ReadLine, ReadBlock
  <2>2. at \in DOMAIN text
      BY <1>1, <2>1
  <2>3. at' \in Nat /\ at < at' /\ \A q \in DOMAIN text : at < q /\ q < at' => text[q].k \notin Commands
      BY <1>1, <2>1, <2>2, BlockCommandless
  <2>4. QED BY <1>1, <2>3
<1>4. QED BY <1>2, <1>3

LEMMA RulesOther ==
    ASSUME Honest, Nested(text), Parse, ~ParseRule, ~Close, RulesRead(text, x, at)
    PROVE  RulesRead(text, x', at')
<1>1. /\ IsList(text) /\ Wellformed(x) /\ DOMAIN text = 1..Len(text) /\ Len(text) \in Nat /\ at \in Nat \ {0}
    BY DEF Honest, IsList
<1>2. at <= Len(text) /\ text[at].k # "ace"
    BY DEF Parse, ParseInterface, ParseObjectNetwork, ParseObjectService, ParseObjectGroup,
       ParseName, ParseRemark, ParseAccessGroup, ParseNAT, ParseRoute, ParseMTU, Capture,
       ParseOther, Is, Commands, Line
<1>3. x'.rules = x.rules /\ x.unparsed \subseteq x'.unparsed
  <2>1. CASE ParseInterface \/ ParseObjectNetwork \/ ParseObjectService \/ ParseObjectGroup \/ ParseName
      BY <1>1, <2>1 DEF ParseInterface, ParseObjectNetwork, ParseObjectService, ParseObjectGroup, ParseName, Wellformed, Fields
  <2>2. CASE ParseRemark \/ ParseAccessGroup \/ ParseNAT \/ ParseRoute \/ ParseMTU \/ Capture \/ ParseOther
      BY <1>1, <2>2 DEF ParseRemark, ParseAccessGroup, ParseNAT, ParseRoute, ParseMTU, Capture, ParseOther, Wellformed, Fields
  <2>3. QED BY <2>1, <2>2 DEF Parse
<1>4. "ace" \in Commands
    BY DEF Commands
<1>5. \A q \in DOMAIN text : text[q].k = "ace" => (q < at' <=> q < at)
    BY <1>2, <1>4, CommandsPassed
<1>6. AcePlaces(text, at') = AcePlaces(text, at)
    BY <1>5 DEF AcePlaces
<1>7. QED BY <1>3, <1>6, RulesSame

LEMMA BindsStep == ASSUME Honest, Nested(text), Parse, BindsRead(text, bind, at) PROVE BindsRead(text, bind', at')
<1>1. /\ IsList(text) /\ DOMAIN text = 1..Len(text) /\ Len(text) \in Nat /\ at \in Nat \ {0}
    BY DEF Honest, IsList
<1>2. "access-group" \in Commands
    BY DEF Commands
<1>3. \A q \in DOMAIN text : text[q].k = "access-group" => (q < at' <=> q < at \/ q = at)
    BY <1>2, CommandsPassed
<1>4. CASE ParseAccessGroup
  <2> DEFINE e == [dir |-> Line.dir, iface |-> Line.iface]
  <2>1. at \in DOMAIN text /\ text[at].k = "access-group" /\ Line = text[at]
      BY <1>1, <1>4 DEF ParseAccessGroup, Is, Line
  <2>2. bind' = With(bind, Line.acl, e)
      BY <1>4 DEF ParseAccessGroup
  <2>3. BindOf(text, Line.acl, e)
      BY <2>1 DEF BindOf, Binds
  <2> HIDE DEF e
  <2>4. /\ DOMAIN bind' = DOMAIN bind \union {Line.acl} /\ bind'[Line.acl] = e
        /\ \A a \in DOMAIN bind \ {Line.acl} : bind'[a] = bind[a]
      BY <2>2 DEF With
  <2>5. \A a \in DOMAIN bind' : BindOf(text, a, bind'[a])
      BY <2>3, <2>4 DEF BindsRead
  <2>6. \A q \in DOMAIN text : q < at' /\ text[q].k = "access-group" => text[q].acl \in DOMAIN bind'
      BY <1>3, <2>1, <2>4 DEF BindsRead
  <2>7. QED BY <2>5, <2>6 DEF BindsRead
<1>5. CASE ~ParseAccessGroup
  <2>0. UNCHANGED locals => bind' = bind
      BY DEF locals
  <2>1. bind' = bind
    <3>1. CASE ParseInterface \/ ParseRemark \/ ParseRule \/ Close
        BY <3>1 DEF ParseInterface, ParseRemark, ParseRule, Close
    <3>2. CASE \/ ParseObjectNetwork \/ ParseObjectService \/ ParseObjectGroup \/ ParseName \/ ParseNAT
               \/ ParseRoute \/ ParseMTU \/ Capture \/ ParseOther
        BY <2>0, <3>2 DEF ParseObjectNetwork, ParseObjectService, ParseObjectGroup, ParseName, ParseNAT,
           ParseRoute, ParseMTU, Capture, ParseOther
    <3>3. QED BY <1>5, <3>1, <3>2 DEF Parse
  <2>2. at \in DOMAIN text => text[at].k # "access-group"
    <3>1. CASE Close
        BY <1>1, <3>1 DEF Close
    <3>2. CASE ParseOther
        BY <1>2, <3>2 DEF ParseOther, Line
    <3>3. CASE ~Close /\ ~ParseOther
        BY <1>5, <3>3 DEF Parse, ParseInterface, ParseObjectNetwork, ParseObjectService, ParseObjectGroup,
           ParseName, ParseRemark, ParseRule, ParseNAT, ParseRoute, ParseMTU, Capture, Is
    <3>4. QED BY <3>1, <3>2, <3>3
  <2>3. QED BY <1>3, <2>1, <2>2 DEF BindsRead
<1>6. QED BY <1>4, <1>5

(* The binding of a rule touches its zones alone. *)
LEMMA BoundRule ==
    ASSUME NEW q, NEW r, RuleFrom(text, q, r), r.from = <<>>, NEW n, BindsRead(text, bind, n), \A p \in DOMAIN text : p < n
    PROVE  RuleFrom(text, q, Bound(r)) /\ BoundAs(text, Bound(r))
<1> DEFINE b == Bound(r)
           d == bind[r.name]
<1>1. RuleFields \subseteq DOMAIN r
    BY DEF RuleFrom
<1>2. DOMAIN b = DOMAIN r /\ \A f \in DOMAIN r \ {"from", "to"} : b[f] = r[f]
    BY DEF Bound
<1>3. /\ b.name = r.name /\ b.action = r.action /\ b.src = r.src /\ b.dst = r.dst /\ b.svc = r.svc
      /\ \A l : EnabledAs(r, l) => EnabledAs(b, l)
  <2>1. b.name = r.name /\ b.action = r.action /\ b.src = r.src /\ b.dst = r.dst /\ b.svc = r.svc
      BY <1>1, <1>2 DEF RuleFields
  <2>2. "enabled" \in DOMAIN r \ {"from", "to"}
      BY <1>1 DEF RuleFields
  <2>3. b["enabled"] = r["enabled"]
      BY <1>2, <2>2
  <2> HIDE DEF b
  <2>4. \A l : EnabledAs(r, l) => EnabledAs(b, l)
      BY <2>3, Zenon DEF EnabledAs
  <2>5. QED BY <2>1, <2>4
<1>4. \/ r.name \notin DOMAIN bind /\ b.from = <<>>
      \/ r.name \in DOMAIN bind /\ d.dir \in {"global", "out"} /\ b.from = <<>>
      \/ r.name \in DOMAIN bind /\ d.dir \notin {"global", "out"} /\ b.from = <<d.iface>>
  <2>1. "from" \in DOMAIN r /\ "to" \in DOMAIN r
      BY <1>1 DEF RuleFields
  <2>2. QED BY <2>1 DEF Bound
<1> HIDE DEF b, d
<1>5. RuleFrom(text, q, b)
    BY <1>1, <1>2, <1>3 DEF RuleFrom
<1>6. r.name \notin DOMAIN bind => \A p : ~Binds(text, p, r.name)
    BY DEF BindsRead, Binds
<1>7. r.name \in DOMAIN bind => BindOf(text, r.name, d)
    BY DEF BindsRead, d
<1>8. BoundAs(text, b)
  <2>1. CASE r.name \notin DOMAIN bind
      BY <1>3, <1>4, <1>6, <2>1 DEF BoundAs
  <2>2. CASE r.name \in DOMAIN bind
    <3>1. PICK p : Binds(text, p, r.name) /\ d.dir = text[p].dir /\ d.iface = text[p].iface
        BY <1>7, <2>2 DEF BindOf
    <3>2. QED BY <1>3, <1>4, <2>2, <3>1 DEF BoundAs
  <2>3. QED BY <2>1, <2>2
<1>9. QED BY <1>5, <1>8 DEF b
-----------------------------------------------------------------------------
LEMMA CloseRules ==
    ASSUME Honest, Nested(text), Close, RulesRead(text, x, at), BindsRead(text, bind, at)
    PROVE  RulesRead(text, x', at') /\ AllBound(text, x')
<1> DEFINE n == Len(x.rules)
<1>1. /\ IsList(text) /\ Wellformed(x) /\ DOMAIN text = 1..Len(text) /\ Len(text) \in Nat
      /\ at = Len(text) + 1 /\ at' = at + 1
    BY DEF Honest, Close, IsList
<1>2. n \in Nat /\ DOMAIN x.rules = 1..n
    BY <1>1 DEF Wellformed, IsList
<1>3. x'.rules = [j \in DOMAIN x.rules |-> Bound(x.rules[j])] /\ x'.unparsed = x.unparsed
    BY <1>1 DEF Close, Wellformed, Fields
<1>4. Len(x'.rules) = n /\ \A i \in 1..n : x'.rules[i] = Bound(x.rules[i])
    BY <1>2, <1>3
<1>5. \A i \in 1..n : x.rules[i].from = <<>>
  <2>1. \A r \in ToSet(x.rules) : Behind(r)
      BY DEF Honest
  <2>2. QED BY <1>1, <1>2, <2>1 DEF ToSet, Behind, Unbound
<1>6. AcePlaces(text, at') = AcePlaces(text, at)
    BY <1>1 DEF AcePlaces
<1>7. \A p \in DOMAIN text : p < at
    BY <1>1
<1> HIDE DEF n
<1>8. SUFFICES ASSUME x.unparsed = {}
               PROVE  (\E g : RulesBy(text, x'.rules, g, AcePlaces(text, at'))) /\ \A i \in 1..n : BoundAs(text, x'.rules[i])
    BY <1>3, <1>4 DEF RulesRead, AllBound
<1>9. PICK g : RulesBy(text, x.rules, g, AcePlaces(text, at))
    BY <1>8 DEF RulesRead
<1>10. Counts(g, n, AcePlaces(text, at)) /\ \A i \in 1..n : RuleFrom(text, g[i], x.rules[i])
    BY <1>9 DEF RulesBy, n
<1>11. ASSUME NEW i \in 1..n PROVE RuleFrom(text, g[i], x'.rules[i]) /\ BoundAs(text, x'.rules[i])
  <2>1. RuleFrom(text, g[i], x.rules[i]) /\ x.rules[i].from = <<>> /\ x'.rules[i] = Bound(x.rules[i])
      BY <1>4, <1>5, <1>10
  <2>2. RuleFrom(text, g[i], Bound(x.rules[i])) /\ BoundAs(text, Bound(x.rules[i]))
      BY <1>7, <2>1, BoundRule
  <2>3. QED BY <2>1, <2>2
<1>12. RulesBy(text, x'.rules, g, AcePlaces(text, at'))
    BY <1>4, <1>6, <1>10, <1>11 DEF RulesBy
<1>13. QED BY <1>11, <1>12

LEMMA NoRules == ASSUME NEW t, IsList(t) PROVE RulesRead(t, Empty, 1) /\ BindsRead(t, <<>>, 1)
<1> DEFINE g == [i \in 1..0 |-> 0]
<1>1. AcePlaces(t, 1) = {}
    BY DEF AcePlaces, IsList
<1>2. Empty.rules = <<>> /\ Len(<<>>) = 0 /\ 1..0 = {}
    BY DEF Empty
<1>3. Counts(g, 0, {})
    BY <1>2 DEF Counts
<1> HIDE DEF g
<1>4. RulesBy(t, Empty.rules, g, AcePlaces(t, 1))
    BY <1>1, <1>2, <1>3 DEF RulesBy
<1>5. BindsRead(t, <<>>, 1)
  <2>1. DOMAIN <<>> = {} /\ \A q \in DOMAIN t : ~(q < 1)
      BY DEF IsList
  <2>2. QED BY <2>1 DEF BindsRead
<1>6. QED BY <1>4, <1>5 DEF RulesRead

LEMMA RulesHeldInit == Init => RulesHeld
<1>1. SUFFICES ASSUME Init PROVE RulesHeld
    OBVIOUS
<1>2. at = 1 /\ x = Empty /\ bind = <<>> /\ pass = "source" /\ IsList(text) /\ Len(text) \in Nat
  <2>1. IsList(text)
      BY <1>1, ParserInit DEF Honest
  <2>2. at = 1 /\ x = Empty /\ bind = <<>> /\ pass = "source"
      BY <1>1 DEF Init, Begin
  <2>3. QED BY <2>1, <2>2 DEF IsList
<1>3. RulesRead(text, x, at) /\ BindsRead(text, bind, at) /\ at # Len(text) + 2
  <2>1. RulesRead(text, Empty, 1) /\ BindsRead(text, <<>>, 1)
      BY <1>2, NoRules
  <2>2. QED BY <1>2, <2>1
<1>4. QED BY <1>2, <1>3 DEF RulesHeld

LEMMA RulesHeldNext == Honest /\ PassOK /\ RulesHeld /\ [Next]_vars => RulesHeld'
<1>1. SUFFICES ASSUME Honest, PassOK, RulesHeld, [Next]_vars PROVE RulesHeld'
    OBVIOUS
<1>2. CASE UNCHANGED vars \/ BuildReview
    BY <1>1, <1>2 DEF vars, BuildReview, RulesHeld
<1>3. CASE Read
  <2>1. Parse /\ UNCHANGED <<pass, source, ir>>
      BY <1>3 DEF Read
  <2>2. text' = text
      BY <2>1 DEF Parse, ParseInterface, ParseObjectNetwork, ParseObjectService, ParseObjectGroup,
         ParseName, ParseRemark, ParseRule, ParseAccessGroup, ParseNAT, ParseRoute, ParseMTU, Capture,
         ParseOther, Close, ReadLine, ReadBlock
  <2>3. ASSUME Nested(text)
        PROVE  /\ RulesRead(text, x', at') /\ BindsRead(text, bind', at')
               /\ at' = Len(text) + 2 => AllBound(text, x')
    <3>1. RulesRead(text, x, at) /\ BindsRead(text, bind, at)
        BY <1>1, <2>3 DEF RulesHeld
    <3>2. BindsRead(text, bind', at')
        BY <1>1, <2>1, <2>3, <3>1, BindsStep
    <3>3. CASE Close
        BY <1>1, <2>3, <3>1, <3>2, <3>3, CloseRules
    <3>4. CASE ~Close
      <4>1. RulesRead(text, x', at')
          BY <1>1, <2>1, <2>3, <3>1, <3>4, RuleStep, RulesOther
      <4>2. at' # Len(text) + 2
        <5>1. IsList(text) /\ DOMAIN text = 1..Len(text) /\ Len(text) \in Nat /\ at \in Nat \ {0}
            BY <1>1 DEF Honest, IsList
        <5>2. at <= Len(text) /\ (at' = at + 1 \/ at' = End(text, at))
            BY <2>1, <3>4 DEF Parse, ParseInterface, ParseObjectNetwork, ParseObjectService, ParseObjectGroup,
               ParseName, ParseRemark, ParseRule, ParseAccessGroup, ParseNAT, ParseRoute, ParseMTU, Capture,
               ParseOther, Is, ReadLine, ReadBlock
        <5>3. at \in DOMAIN text
            BY <5>1, <5>2
        <5>4. QED BY <5>1, <5>2, <5>3, <2>3, BlockCommandless
      <4>3. QED BY <3>2, <4>1, <4>2
    <3>5. QED BY <3>3, <3>4
  <2>4. QED BY <1>1, <2>1, <2>2, <2>3 DEF RulesHeld
<1>4. CASE Convert
  <2>1. /\ IsList(text') /\ at' = 1 /\ x' = Empty /\ bind' = <<>> /\ ir' = x /\ source' = source /\ pass = "source"
        /\ at = Len(text) + 2 /\ text = source
      BY <1>1, <1>4, Generated DEF Convert, Honest, Closed, PassOK
  <2>2. RulesRead(text', x', at') /\ BindsRead(text', bind', at') /\ at' # Len(text') + 2
    <3>1. Len(text') \in Nat
        BY <2>1 DEF IsList
    <3>2. QED BY <2>1, <3>1, NoRules
  <2>3. QED BY <1>1, <2>1, <2>2 DEF RulesHeld
<1>5. QED BY <1>1, <1>2, <1>3, <1>4 DEF Next
=============================================================================
