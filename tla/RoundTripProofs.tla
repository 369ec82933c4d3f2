--------------------------- MODULE RoundTripProofs --------------------------
(* What a context of ASA or FTD syntax means before and after the round     *)
(* trip: in a running configuration that is called ready, names stand for   *)
(* the same hosts and flows, interfaces have the same addresses and levels, *)
(* routes lead to the same places, translations do the same, in order, and *)
(* policies decide the same, entry by entry.                                *)
EXTENDS ParserProofs

-----------------------------------------------------------------------------
(* What names stand for, built up line by line.                             *)
LEMMA MeaningIs ==
    ASSUME NEW D, IsList(D)
    PROVE  \E env : /\ env[0] = <<>> /\ Meaning(D) = env[Len(D)]
                    /\ \A k \in 1..Len(D) : env[k] = Told(env[k - 1], D[k])
<1> DEFINE n == Len(D)
           N == UNION {D[j].names : j \in 1..n}
           V == UNION {D[j].base : j \in 1..n}
           S == UNION {[T -> SUBSET V] : T \in SUBSET N}
           step == [k \in Nat |-> [v \in S |-> IF k \in 1..n THEN Told(v, D[k]) ELSE v]]
           Makes(g) == g = [k \in 0..n |-> IF k = 0 THEN <<>> ELSE Told(g[k - 1], D[k])]
<1>1. n \in Nat
    BY DEF IsList
<1>2. ASSUME NEW k \in 1..n, NEW v \in S PROVE Told(v, D[k]) \in S
  <2>1. PICK T \in SUBSET N : v \in [T -> SUBSET V]
      OBVIOUS
  <2>2. D[k].names \subseteq N /\ D[k].base \subseteq V
      BY <1>2
  <2> HIDE DEF N, V
  <2>3. \A r : Lookup(v, r) \subseteq V
      BY <2>1 DEF Lookup
  <2>4. Told(v, D[k]) \in [T \union D[k].names -> SUBSET V]
    <3>1. DOMAIN v = T
        BY <2>1
    <3>2. \A m \in T \union D[k].names : m \notin D[k].names => v[m] \in SUBSET V
        BY <2>1
    <3>3. UNION {Lookup(v, r) : r \in D[k].refs} \subseteq V
        BY <2>3
    <3>4. \A m : (IF D[k].adds THEN Lookup(v, m) ELSE {}) \subseteq V
        BY <2>3
    <3> DEFINE f == Told(v, D[k])
    <3>5. f = [m \in T \union D[k].names |-> f[m]]
        BY <3>1 DEF Told
    <3>6. ASSUME NEW m \in T \union D[k].names PROVE f[m] \in SUBSET V
      <4>1. CASE m \in D[k].names
        <5>1. f[m] = D[k].base \union Others(v, D[k]) \union Before(v, D[k], m)
            BY <4>1 DEF Told
        <5>2. Others(v, D[k]) \subseteq V /\ Before(v, D[k], m) \subseteq V
            BY <3>3, <3>4 DEF Others, Before
        <5> HIDE DEF f
        <5>3. QED BY <2>2, <5>1, <5>2
      <4>2. CASE m \notin D[k].names
        <5>1. f[m] = v[m]
            BY <3>1, <4>2 DEF Told
        <5>2. QED BY <3>2, <4>2, <5>1
      <4>3. QED BY <4>1, <4>2
    <3> HIDE DEF f
    <3>7. QED BY <3>5, <3>6 DEF f
  <2>5. T \union D[k].names \in SUBSET N
      BY <2>1, <2>2
  <2>6. QED BY <2>4, <2>5
<1>3. <<>> \in S
  <2>1. <<>> \in [{} -> SUBSET V]
      OBVIOUS
  <2>2. {} \in SUBSET N
      OBVIOUS
  <2>3. QED BY <2>1, <2>2
<1> HIDE DEF S
<1>4. step \in [Nat -> [S -> S]]
    BY <1>2
<1>5. PICK f : Builds(f, S, <<>>, step, n)
  <2> HIDE DEF step, n
  <2>1. QED BY <1>1, <1>3, <1>4, Built, Zenon
<1>6. f \in [0..n -> S] /\ f[0] = <<>> /\ \A k \in 1..n : f[k] = Told(f[k - 1], D[k])
  <2>1. f \in [0..n -> S] /\ f[0] = <<>> /\ \A k \in 1..n : f[k] = step[k][f[k - 1]]
      BY <1>5 DEF Builds
  <2>2. ASSUME NEW k \in 1..n PROVE f[k] = Told(f[k - 1], D[k])
    <3>1. k - 1 \in 0..n /\ k \in Nat
        BY <1>1
    <3>2. f[k - 1] \in S
        BY <2>1, <3>1
    <3>3. step[k][f[k - 1]] = Told(f[k - 1], D[k])
        BY <3>1, <3>2
    <3>4. QED BY <2>1, <3>3
  <2>3. QED BY <2>1, <2>2
<1>7. Makes(f)
  <2>1. \A k \in 0..n : k = 0 \/ k \in 1..n
      BY <1>1
  <2>2. \A k \in 0..n : f[k] = IF k = 0 THEN <<>> ELSE Told(f[k - 1], D[k])
      BY <1>6, <2>1
  <2>3. QED BY <1>6, <2>2
<1> DEFINE h == CHOOSE g : Makes(g)
<1>8. Meaning(D) = h[n]
    BY DEF Meaning
<1>9. Makes(h)
  <2> HIDE DEF Makes
  <2>1. QED BY <1>7
<1> HIDE DEF h
<1>10. h[0] = <<>> /\ \A k \in 1..n : h[k] = Told(h[k - 1], D[k])
  <2>1. 0 \in 0..n /\ \A k \in 1..n : k \in 0..n /\ k # 0
      BY <1>1
  <2>2. QED BY <1>9, <2>1
<1>11. QED BY <1>8, <1>10

(* A name is given by one line, or by lines that add to it, and the names   *)
(* that a line refers to are given before.                                  *)
InTurn(D) ==
    \A i, j \in DOMAIN D :
        /\ D[i].names \intersect D[j].names # {} => i = j \/ (D[i].adds /\ D[j].adds)
        /\ D[i].names \intersect D[j].refs # {} => i < j
Given(D) == {d \in ToSet(D) : d.names # {}}
Gets(env, d, v) == v \in d.base \/ \E r \in d.refs : v \in Lookup(env, r)

LEMMA ToldIs ==
    ASSUME NEW e, NEW d
    PROVE  /\ DOMAIN Told(e, d) = DOMAIN e \union d.names
           /\ \A m : m \notin d.names => Lookup(Told(e, d), m) = Lookup(e, m)
           /\ \A m \in d.names : \A v : Gets(e, d, v) => v \in Lookup(Told(e, d), m)
<1> DEFINE f == Told(e, d)
<1>1. DOMAIN f = DOMAIN e \union d.names
    BY DEF Told
<1>2. ASSUME NEW m \in DOMAIN e, m \notin d.names PROVE f[m] = e[m]
    BY <1>2 DEF Told
<1>3. ASSUME NEW m \in d.names PROVE f[m] = d.base \union Others(e, d) \union Before(e, d, m)
    BY <1>3 DEF Told
<1>4. \A v : v \in Others(e, d) <=> \E r \in d.refs : v \in Lookup(e, r)
    BY DEF Others
<1> HIDE DEF f
<1>5. \A m : m \notin d.names => Lookup(f, m) = Lookup(e, m)
    BY <1>1, <1>2 DEF Lookup
<1>6. \A m \in d.names : Lookup(f, m) = f[m]
    BY <1>1 DEF Lookup
<1>7. ASSUME NEW m \in d.names, NEW v, Gets(e, d, v) PROVE v \in Lookup(f, m)
    BY <1>3, <1>4, <1>6, <1>7 DEF Gets
<1>8. QED BY <1>1, <1>5, <1>7 DEF f

LEMMA ToldAdds ==
    ASSUME NEW e, NEW d, NEW m \in d.names
    PROVE  /\ d.adds => Lookup(e, m) \subseteq Lookup(Told(e, d), m)
           /\ \A v \in Lookup(Told(e, d), m) : Gets(e, d, v) \/ v \in Lookup(e, m)
<1>1. Lookup(Told(e, d), m) = d.base \union Others(e, d) \union Before(e, d, m)
    BY DEF Told, Lookup
<1>2. \A v : v \in Others(e, d) <=> \E r \in d.refs : v \in Lookup(e, r)
    BY DEF Others
<1>3. Before(e, d, m) \subseteq Lookup(e, m)
    BY DEF Before
<1>4. ASSUME d.adds PROVE Before(e, d, m) = Lookup(e, m)
    BY <1>4 DEF Before
<1>5. ASSUME d.adds PROVE Lookup(e, m) \subseteq Lookup(Told(e, d), m)
  <2>1. Before(e, d, m) = Lookup(e, m)
      BY <1>4, <1>5
  <2>2. QED BY <1>1, <2>1
<1>6. QED BY <1>1, <1>2, <1>3, <1>5 DEF Gets

(* What a name stands for is the sum of what its lines give.                *)
LEMMA MeaningSum ==
    ASSUME NEW D, IsList(D), InTurn(D)
    PROVE  /\ DOMAIN Meaning(D) = UNION {d.names : d \in Given(D)}
           /\ \A m, v : v \in Lookup(Meaning(D), m) <=> \E d \in Given(D) : m \in d.names /\ Gets(Meaning(D), d, v)
<1> DEFINE n == Len(D)
           M == Meaning(D)
<1>1. n \in Nat /\ DOMAIN D = 1..n /\ n \in 0..n /\ ToSet(D) = {D[i] : i \in 1..n}
    BY DEF IsList, ToSet
<1>2. PICK env : env[0] = <<>> /\ M = env[n] /\ \A k \in 1..n : env[k] = Told(env[k - 1], D[k])
    BY MeaningIs
<1> HIDE DEF M, n
<1>3. \A k \in 0..n : k < n => /\ k + 1 \in 1..n /\ k + 1 \in 0..n
                               /\ \A i : i \in 1..(k + 1) <=> i \in 1..k \/ i = k + 1
    BY <1>1
<1>4. \A k \in 0..n : k < n => env[k + 1] = Told(env[k], D[k + 1])
  <2>1. \A k \in 0..n : k < n => (k + 1) - 1 = k
      BY <1>1
  <2>2. QED BY <1>2, <1>3, <2>1
<1>5. \A k \in 0..n : \A m : m \in DOMAIN env[k] <=> \E i \in 1..k : m \in D[i].names
  <2> DEFINE U == {k \in 0..n : \A m : m \in DOMAIN env[k] <=> \E i \in 1..k : m \in D[i].names}
  <2>1. 0 \in U
    <3>1. 1..0 = {} /\ DOMAIN <<>> = {} /\ 0 \in 0..n
        BY <1>1
    <3>2. QED BY <1>2, <3>1
  <2>2. ASSUME NEW k \in 0..n, k \in U, k < n PROVE k + 1 \in U
    <3>1. DOMAIN env[k + 1] = DOMAIN env[k] \union D[k + 1].names
        BY <1>4, <2>2, ToldIs
    <3>2. QED BY <1>3, <2>2, <3>1
  <2>3. 0..n \subseteq U
    <3> HIDE DEF U
    <3>1. QED BY <1>1, <2>1, <2>2, UpTo
  <2>4. QED BY <2>3
(* A name keeps what it has when no line after it gives it more. *)
<1>6. ASSUME NEW m, NEW k \in 0..n, \A i \in 1..n : i > k => m \notin D[i].names
      PROVE  Lookup(env[k], m) = Lookup(M, m)
  <2> DEFINE U == {j \in 0..n : k <= j => Lookup(env[j], m) = Lookup(env[k], m)}
  <2>1. 0 \in U
      BY <1>1
  <2>2. ASSUME NEW j \in 0..n, j \in U, j < n PROVE j + 1 \in U
    <3>1. CASE k <= j
      <4>1. m \notin D[j + 1].names
          BY <1>1, <1>3, <1>6, <2>2, <3>1
      <4>2. env[j + 1] = Told(env[j], D[j + 1])
          BY <1>4, <2>2
      <4>3. Lookup(Told(env[j], D[j + 1]), m) = Lookup(env[j], m)
          BY <4>1, ToldIs
      <4>4. QED BY <1>3, <2>2, <3>1, <4>2, <4>3
    <3>2. CASE k = j + 1
        BY <1>3, <2>2, <3>2
    <3>3. CASE ~(k <= j) /\ k # j + 1
      <4>1. ~(k <= j + 1)
          BY <1>1, <2>2, <3>3
      <4>2. QED BY <1>3, <2>2, <4>1
    <3>4. QED BY <3>1, <3>2, <3>3
  <2>3. 0..n \subseteq U
    <3> HIDE DEF U
    <3>1. QED BY <1>1, <2>1, <2>2, UpTo
  <2>4. n \in U /\ k <= n
      BY <1>1, <2>3
  <2>5. QED BY <1>2, <2>4
<1>7. ASSUME NEW k \in 0..n, k < n, NEW v PROVE Gets(env[k], D[k + 1], v) <=> Gets(M, D[k + 1], v)
  <2>1. ASSUME NEW r \in D[k + 1].refs PROVE Lookup(env[k], r) = Lookup(M, r)
    <3>1. \A i \in 1..n : r \in D[i].names => i < k + 1
        BY <1>1, <1>3, <1>7 DEF InTurn
    <3>2. \A i \in 1..n : i > k => ~(i < k + 1)
        BY <1>1
    <3>3. QED BY <1>6, <3>1, <3>2
  <2>2. QED BY <2>1 DEF Gets
<1>8. ASSUME NEW m
      PROVE \A k \in 0..n : \A v : v \in Lookup(env[k], m) <=> \E i \in 1..k : m \in D[i].names /\ Gets(M, D[i], v)
  <2> DEFINE From(k, v) == \E i \in 1..k : m \in D[i].names /\ Gets(M, D[i], v)
             U == {k \in 0..n : \A v : v \in Lookup(env[k], m) <=> From(k, v)}
  <2>1. 0 \in U
    <3>1. 1..0 = {} /\ 0 \in 0..n
        BY <1>1
    <3>2. Lookup(env[0], m) = {}
        BY <1>2 DEF Lookup
    <3>3. QED BY <3>1, <3>2
  <2>2. ASSUME NEW k \in 0..n, k \in U, k < n PROVE k + 1 \in U
    <3>1. env[k + 1] = Told(env[k], D[k + 1])
        BY <1>4, <2>2
    <3>2. \A v : From(k + 1, v) <=> From(k, v) \/ (m \in D[k + 1].names /\ Gets(M, D[k + 1], v))
        BY <1>3, <2>2
    <3>3. CASE m \notin D[k + 1].names
      <4>1. Lookup(env[k + 1], m) = Lookup(env[k], m)
        <5>1. Lookup(Told(env[k], D[k + 1]), m) = Lookup(env[k], m)
            BY <3>3, ToldIs
        <5>2. QED BY <3>1, <5>1
      <4> HIDE DEF From
      <4>2. QED BY <1>3, <2>2, <3>2, <3>3, <4>1
    <3>4. CASE m \in D[k + 1].names
      <4>1. ASSUME NEW v, v \in Lookup(env[k + 1], m) PROVE From(k + 1, v)
        <5>1. Gets(env[k], D[k + 1], v) \/ v \in Lookup(env[k], m)
            BY <3>1, <3>4, <4>1, ToldAdds
        <5> HIDE DEF From
        <5>2. QED BY <1>7, <2>2, <3>2, <3>4, <5>1
      <4>2. ASSUME NEW v, From(k + 1, v) PROVE v \in Lookup(env[k + 1], m)
        <5>1. CASE Gets(M, D[k + 1], v)
          <6>1. Gets(env[k], D[k + 1], v)
              BY <1>7, <2>2, <5>1
          <6>2. QED BY <3>1, <3>4, <6>1, ToldIs
        <5>2. CASE From(k, v)
          <6>1. PICK i \in 1..k : m \in D[i].names
              BY <5>2
          <6>2. i \in 1..n /\ k + 1 \in 1..n /\ i # k + 1
              BY <1>1, <1>3, <2>2
          <6>3. D[k + 1].adds
              BY <1>1, <3>4, <6>1, <6>2 DEF InTurn
          <6>4. v \in Lookup(env[k], m)
            <7> HIDE DEF From
            <7>1. QED BY <2>2, <5>2
          <6>5. QED BY <3>1, <3>4, <6>3, <6>4, ToldAdds
        <5> HIDE DEF From
        <5>3. QED BY <3>2, <4>2, <5>1, <5>2
      <4> HIDE DEF From
      <4>3. QED BY <1>3, <2>2, <4>1, <4>2
    <3>5. QED BY <3>3, <3>4
  <2>3. 0..n \subseteq U
    <3> HIDE DEF U
    <3>1. QED BY <1>1, <2>1, <2>2, UpTo
  <2>4. QED BY <2>3
<1>9. DOMAIN M = UNION {d.names : d \in Given(D)}
  <2>1. \A m : m \in DOMAIN M <=> \E i \in 1..n : m \in D[i].names
      BY <1>1, <1>2, <1>5
  <2>2. \A m : m \in DOMAIN M <=> \E d \in Given(D) : m \in d.names
      BY <1>1, <2>1 DEF Given
  <2>3. QED BY <2>2
<1>10. ASSUME NEW m, NEW v
       PROVE  v \in Lookup(M, m) <=> \E d \in Given(D) : m \in d.names /\ Gets(M, d, v)
  <2>1. v \in Lookup(M, m) <=> \E i \in 1..n : m \in D[i].names /\ Gets(M, D[i], v)
      BY <1>1, <1>2, <1>8
  <2>2. QED BY <1>1, <2>1 DEF Given
<1>11. QED BY <1>9, <1>10 DEF M

(* So what names stand for depends on what is given only, not on the order  *)
(* of lines and on what is between them.                                    *)
LEMMA MeaningSame ==
    ASSUME NEW D, IsList(D), InTurn(D), NEW E, IsList(E), InTurn(E), Given(D) = Given(E)
    PROVE  DOMAIN Meaning(D) = DOMAIN Meaning(E) /\ \A m : Lookup(Meaning(D), m) = Lookup(Meaning(E), m)
<1> DEFINE n == Len(D)
           M == Meaning(D)
           N == Meaning(E)
           G == Given(D)
           U == {k \in 0..n : \A m : (\A i \in 1..n : m \in D[i].names => i <= k) => Lookup(M, m) = Lookup(N, m)}
<1>1. n \in Nat /\ DOMAIN D = 1..n /\ \A d \in G : \E i \in 1..n : d = D[i]
    BY DEF IsList, ToSet, Given
<1>2. /\ DOMAIN M = DOMAIN N
      /\ \A m, v : v \in Lookup(M, m) <=> \E d \in G : m \in d.names /\ Gets(M, d, v)
      /\ \A m, v : v \in Lookup(N, m) <=> \E d \in G : m \in d.names /\ Gets(N, d, v)
    BY MeaningSum
<1> HIDE DEF M, N, n
<1>3. ASSUME NEW m, \A d \in G : m \in d.names => \A r \in d.refs : Lookup(M, r) = Lookup(N, r)
      PROVE  Lookup(M, m) = Lookup(N, m)
  <2> HIDE DEF G
  <2>1. \A d \in G : m \in d.names => \A v : Gets(M, d, v) <=> Gets(N, d, v)
      BY <1>3 DEF Gets
  <2>2. \A v : v \in Lookup(M, m) <=> v \in Lookup(N, m)
      BY <1>2, <2>1
  <2>3. \A f, r : Lookup(f, r) = {v \in Lookup(f, r) : TRUE}
      OBVIOUS
  <2>4. QED BY <2>2
<1>4. 0 \in U
  <2>1. SUFFICES ASSUME NEW m, \A i \in 1..n : m \in D[i].names => i <= 0 PROVE Lookup(M, m) = Lookup(N, m)
      BY <1>1
  <2>2. \A i \in 1..n : m \notin D[i].names
      BY <1>1, <2>1
  <2> HIDE DEF G
  <2>3. QED BY <1>1, <1>3, <2>2
<1>5. ASSUME NEW k \in 0..n, k \in U, k < n PROVE k + 1 \in U
  <2>1. SUFFICES ASSUME NEW m, \A i \in 1..n : m \in D[i].names => i <= k + 1
                 PROVE  Lookup(M, m) = Lookup(N, m)
      BY <1>1, <1>5
  <2>2. ASSUME NEW d \in G, m \in d.names, NEW r \in d.refs PROVE Lookup(M, r) = Lookup(N, r)
    <3>1. PICK j \in 1..n : d = D[j]
        BY <1>1
    <3>2. \A i \in 1..n : r \in D[i].names => i < j
        BY <1>1, <2>2, <3>1 DEF InTurn
    <3>3. \A i \in 1..n : r \in D[i].names => i <= k
        BY <1>1, <2>1, <2>2, <3>1, <3>2
    <3>4. QED BY <1>5, <3>3
  <2> HIDE DEF G
  <2>3. QED BY <1>3, <2>2
<1>6. n \in U
  <2> HIDE DEF U
  <2>1. 0..n \subseteq U
      BY <1>1, <1>4, <1>5, UpTo
  <2>2. QED BY <1>1, <2>1
<1>7. \A m : Lookup(M, m) = Lookup(N, m)
    BY <1>1, <1>6
<1>8. QED BY <1>2, <1>7 DEF M, N
-----------------------------------------------------------------------------
(* What the lines of the source give to the names of networks.             *)
FamilyOf(v) == IF v \in Fqdns THEN "v4" ELSE ""
ObjectSays(o) == Says({o.name}, FALSE, InFamily(FamilyOf(o.value), Covers[o.value]), {})
MemberSays(g, m) == Says({g.name}, TRUE, HostsOf(<<>>, m), RefsOf(m))
NetGiven(c, d) ==
    \/ \E o \in ToSet(c.nets) : d = ObjectSays(o)
    \/ \E g \in ToSet(c.netGroups) : \E m \in ToSet(g.members) : d = MemberSays(g, m)
NetLines(t) == [j \in DOMAIN t |-> NetLine(t, j)]
NetMember(t, j) == t[j].k \in {"network-object", "group-object"} /\ Header(t, j).of = "network"

LEMMA NetLineIs ==
    ASSUME NEW t, NEW j
    PROVE  /\ t[j].k = "name" => NetLine(t, j) = Says({t[j].name}, FALSE, Covers[t[j].v], {})
           /\ t[j].k = "value" => NetLine(t, j) = Says({Header(t, j).name}, FALSE, InFamily(t[j].fam, Covers[t[j].v]), {})
           /\ NetMember(t, j) => NetLine(t, j) = Says({Header(t, j).name}, TRUE, HostsOf(<<>>, t[j].v), RefsOf(t[j].v))
           /\ t[j].k \notin {"name", "value"} /\ ~NetMember(t, j) => NetLine(t, j) = Nothing
<1>1. t[j].k = "name" => NetLine(t, j) = Says({t[j].name}, FALSE, Covers[t[j].v], {})
    BY DEF NetLine
<1>2. t[j].k = "value" => NetLine(t, j) = Says({Header(t, j).name}, FALSE, InFamily(t[j].fam, Covers[t[j].v]), {})
    BY DEF NetLine
<1>3. NetMember(t, j) => NetLine(t, j) = Says({Header(t, j).name}, TRUE, HostsOf(<<>>, t[j].v), RefsOf(t[j].v))
    BY DEF NetLine, NetMember
<1>4. t[j].k \notin {"name", "value"} /\ ~NetMember(t, j) => NetLine(t, j) = Nothing
    BY DEF NetLine, NetMember
<1>5. QED BY <1>1, <1>2, <1>3, <1>4

LEMMA SaysIs ==
    ASSUME NEW n, NEW a, NEW b, NEW r
    PROVE  LET d == Says(n, a, b, r) IN d.names = n /\ d.adds = a /\ d.base = b /\ d.refs = r
BY DEF Says

LEMMA GivenLines ==
    ASSUME NEW t, IsList(t)
    PROVE  /\ IsList(NetLines(t))
           /\ \A d : d \in Given(NetLines(t)) <=>
                  \E j \in DOMAIN t : d = NetLine(t, j) /\ (t[j].k \in {"name", "value"} \/ NetMember(t, j))
<1>1. NetLines(t) = [j \in DOMAIN t |-> NetLines(t)[j]] /\ DOMAIN NetLines(t) = DOMAIN t
    BY DEF NetLines
<1>2. IsList(NetLines(t))
    BY <1>1, MappedList
<1>3. \A d : d \in ToSet(NetLines(t)) <=> \E j \in DOMAIN t : d = NetLine(t, j)
    BY DEF NetLines, ToSet
<1>4. ASSUME NEW j \in DOMAIN t PROVE NetLine(t, j).names # {} <=> t[j].k \in {"name", "value"} \/ NetMember(t, j)
  <2>1. CASE t[j].k = "name"
    <3>1. NetLine(t, j) = Says({t[j].name}, FALSE, Covers[t[j].v], {})
        BY <2>1, NetLineIs
    <3>2. NetLine(t, j).names = {t[j].name}
        BY <3>1 DEF Says
    <3>3. QED BY <2>1, <3>2
  <2>2. CASE t[j].k = "value"
    <3>1. NetLine(t, j) = Says({Header(t, j).name}, FALSE, InFamily(t[j].fam, Covers[t[j].v]), {})
        BY <2>2, NetLineIs
    <3>2. NetLine(t, j).names = {Header(t, j).name}
        BY <3>1 DEF Says
    <3>3. QED BY <2>2, <3>2
  <2>4. CASE NetMember(t, j)
    <3>1. NetLine(t, j) = Says({Header(t, j).name}, TRUE, HostsOf(<<>>, t[j].v), RefsOf(t[j].v))
        BY <2>4, NetLineIs
    <3>2. NetLine(t, j).names = {Header(t, j).name}
        BY <3>1 DEF Says
    <3>3. QED BY <2>4, <3>2
  <2>3. CASE t[j].k \notin {"name", "value"} /\ ~NetMember(t, j)
    <3>1. NetLine(t, j) = Nothing
        BY <2>3, NetLineIs
    <3>2. Nothing.names = {}
        BY SaysIs DEF Nothing
    <3>3. QED BY <2>3, <3>1, <3>2
  <2>5. QED BY <2>1, <2>2, <2>3, <2>4
<1>5. QED BY <1>2, <1>3, <1>4 DEF Given

(* The value that counts is the only one of its object. *)
LEMMA OneValue ==
    ASSUME NEW t, IsList(t), Running(t), AllReadable(t), NEW j \in DOMAIN t, t[j].k = "value"
    PROVE  LET h == HeaderAt(t, j) IN
           NetsOf(t, h) = {[line |-> h, name |-> Header(t, j).name, value |-> t[j].v]}
<1> DEFINE h == HeaderAt(t, j)
           B == Body(t, h)
<1>1. /\ h \in DOMAIN t /\ h < j /\ Stops(t[h]) /\ t[j] \in ToSet(B) /\ t[h].k = "object"
    BY PartAt DEF Running, Parts, PartOf
<1>2. IsList(B)
    BY <1>1, BodyList
<1>3. IsList(ValuesIn(t, h)) /\ ToSet(ValuesIn(t, h)) = {l \in ToSet(B) : l.k = "value" /\ l.ok}
    BY <1>2, ReadablePicked DEF ValuesIn
<1>4. t[j] \in ToSet(ValuesIn(t, h))
    BY <1>1, <1>3 DEF AllReadable
<1>5. ValuesIn(t, h) # <<>>
    BY <1>3, <1>4, EmptyPicked
<1>6. Last(ValuesIn(t, h)) = t[j]
  <2>1. Last(ValuesIn(t, h)) \in ToSet(B) /\ Last(ValuesIn(t, h)).k = "value"
      BY <1>3, <1>5, LastIn
  <2>2. PICK q \in DOMAIN t : h < q /\ HeaderAt(t, q) = h /\ Last(ValuesIn(t, h)) = t[q]
      BY <1>1, <2>1, BlockLines
  <2>3. Defines(t[q]) /\ Defines(t[j]) /\ NameAt(t, q) = NameAt(t, j) /\ t[q].k \notin Members
      BY <2>1, <2>2 DEF Defines, NameAt, Header, Members
  <2>4. q = j
      BY <2>3 DEF Running
  <2>5. QED BY <2>2, <2>4
<1>7. QED BY <1>1, <1>5, <1>6 DEF NetsOf, Header

(* The members of a group are the lines below it. *)
LEMMA NetMembersAre ==
    ASSUME NEW t, IsList(t), NEW h \in DOMAIN t, Stops(t[h]), t[h].of = "network"
    PROVE  \A m : m \in ToSet(ParseNetMembers(Body(t, h))) <=>
                      \E q \in DOMAIN t : h < q /\ HeaderAt(t, q) = h /\ NetMember(t, q) /\ m = t[q].v
<1> DEFINE B == Body(t, h)
           T == {n \in DOMAIN B : B[n].k \in {"network-object", "group-object"}}
<1>1. IsList(B)
    BY BodyList
<1>2. ParseNetMembers(B) = Values(Those(B, T))
    BY DEF ParseNetMembers, Select
<1>3. IsList(Those(B, T)) /\ ToSet(Those(B, T)) = {B[k] : k \in T \intersect DOMAIN B}
    BY <1>1, ThoseList
<1>4. ToSet(ParseNetMembers(B)) = {l.v : l \in ToSet(Those(B, T))}
    BY <1>2, <1>3, Picked
<1>5. \A l : l \in ToSet(Those(B, T)) <=> l \in ToSet(B) /\ l.k \in {"network-object", "group-object"}
    BY <1>3 DEF ToSet
<1> HIDE DEF B, T
<1>6. \A l : l \in ToSet(B) <=> \E q \in DOMAIN t : h < q /\ HeaderAt(t, q) = h /\ ~Blank(t[q]) /\ l = t[q]
    BY BlockLines DEF B
<1>7. ASSUME NEW m, m \in ToSet(ParseNetMembers(B))
      PROVE  \E q \in DOMAIN t : h < q /\ HeaderAt(t, q) = h /\ NetMember(t, q) /\ m = t[q].v
    BY <1>4, <1>5, <1>6, <1>7 DEF NetMember, Header
<1>8. ASSUME NEW q \in DOMAIN t, h < q, HeaderAt(t, q) = h, NetMember(t, q)
      PROVE  t[q].v \in ToSet(ParseNetMembers(B))
  <2>1. ~Blank(t[q]) /\ t[q].k \in {"network-object", "group-object"}
      BY <1>8 DEF NetMember, Blank
  <2>2. QED BY <1>4, <1>5, <1>6, <1>8, <2>1
<1>9. QED BY <1>7, <1>8 DEF B

(* The family that is written is the one that was read. *)
LEMMA SameFamily ==
    ASSUME NEW t, Spoken(t), PlainNetworks(t), NEW j \in DOMAIN t
    PROVE  /\ t[j].k = "name" => InFamily(FamilyOf(t[j].v), Covers[t[j].v]) = Covers[t[j].v]
           /\ t[j].k = "value" => t[j].fam = FamilyOf(t[j].v)
<1>1. t[j].k = "name" => t[j].v \notin Fqdns
    BY DEF Spoken
<1>2. t[j].k = "value" => t[j].fam \in (IF t[j].v \in Fqdns THEN {"", "v4", "v6"} ELSE {""})
    BY DEF Spoken
<1>3. t[j].k = "value" /\ t[j].v \in Fqdns => t[j].fam = "v4"
    BY DEF PlainNetworks, PlainNetwork
<1>4. \A hosts : InFamily("", hosts) = hosts
    BY DEF InFamily
<1>5. QED BY <1>1, <1>2, <1>3, <1>4 DEF FamilyOf

LEMMA SourceNets ==
    ASSUME NEW t, NEW c, ReadAll(t, c), Running(t), AllReadable(t), PlainNetworks(t)
    PROVE  \A d : d \in Given(NetLines(t)) <=> NetGiven(c, d)
<1>1. IsList(t) /\ Nested(t) /\ Spoken(t)
    BY DEF ReadAll, Running
<1>0. ASSUME NEW j \in DOMAIN t, t[j].k \in {"name", "value"}, NEW o, o.value = t[j].v,
             o.name = IF t[j].k = "name" THEN t[j].name ELSE Header(t, j).name
      PROVE  NetLine(t, j) = ObjectSays(o)
  <2>1. CASE t[j].k = "name"
    <3>1. NetLine(t, j) = Says({t[j].name}, FALSE, Covers[t[j].v], {})
        BY <2>1, NetLineIs
    <3>2. InFamily(FamilyOf(t[j].v), Covers[t[j].v]) = Covers[t[j].v]
        BY <1>1, <2>1, SameFamily
    <3>3. QED BY <1>0, <2>1, <3>1, <3>2 DEF ObjectSays
  <2>2. CASE t[j].k = "value"
    <3>1. NetLine(t, j) = Says({Header(t, j).name}, FALSE, InFamily(t[j].fam, Covers[t[j].v]), {})
        BY <2>2, NetLineIs
    <3>2. t[j].fam = FamilyOf(t[j].v)
        BY <1>1, <2>2, SameFamily
    <3>3. QED BY <1>0, <2>2, <3>1, <3>2 DEF ObjectSays
  <2>3. QED BY <1>0, <2>1, <2>2
<1>2. ASSUME NEW j \in DOMAIN t, t[j].k \in {"name", "value"} \/ NetMember(t, j) PROVE NetGiven(c, NetLine(t, j))
  <2>1. CASE t[j].k = "name"
    <3> DEFINE o == [line |-> j, name |-> t[j].name, value |-> t[j].v]
    <3>1. o \in NetsOf(t, j)
        BY <2>1 DEF NetsOf
    <3>2. o \in ToSet(c.nets)
        BY <3>1, AllHeld
    <3>3. NetLine(t, j) = ObjectSays(o)
        BY <1>0, <2>1
    <3>4. QED BY <3>2, <3>3 DEF NetGiven
  <2>2. CASE t[j].k = "value"
    <3> DEFINE h == HeaderAt(t, j)
               o == [line |-> h, name |-> Header(t, j).name, value |-> t[j].v]
    <3>1. o \in NetsOf(t, h) /\ h \in DOMAIN t
        BY <1>1, <2>2, OneValue, PartAt DEF Parts
    <3>2. o \in ToSet(c.nets)
        BY <3>1, AllHeld
    <3>3. NetLine(t, j) = ObjectSays(o)
        BY <1>0, <2>2
    <3>4. QED BY <3>2, <3>3 DEF NetGiven
  <2>3. CASE NetMember(t, j)
    <3> DEFINE h == HeaderAt(t, j)
               g == [line |-> h, name |-> t[h].name, members |-> ParseNetMembers(Body(t, h))]
    <3>1. h \in DOMAIN t /\ h < j /\ Stops(t[h]) /\ t[h].k = "object-group" /\ t[h].of = "network"
        BY <1>1, <2>3, PartAt DEF NetMember, Header, PartOf, Parts, Members
    <3>2. g \in NetGroupsOf(t, h)
        BY <3>1 DEF NetGroupsOf
    <3>3. g \in ToSet(c.netGroups)
        BY <3>1, <3>2, AllHeld
    <3>4. t[j].v \in ToSet(g.members)
        BY <1>1, <2>3, <3>1, NetMembersAre
    <3>5. NetLine(t, j) = MemberSays(g, t[j].v)
        BY <2>3, NetLineIs DEF MemberSays, Header
    <3>6. QED BY <3>3, <3>4, <3>5 DEF NetGiven
  <2>4. QED BY <1>2, <2>1, <2>2, <2>3
<1>3. ASSUME NEW o \in ToSet(c.nets)
      PROVE  \E j \in DOMAIN t : ObjectSays(o) = NetLine(t, j) /\ t[j].k \in {"name", "value"}
  <2>1. PICK h \in DOMAIN t : o \in NetsOf(t, h)
      BY AllHeld
  <2>2. CASE t[h].k = "name"
    <3>1. o.name = t[h].name /\ o.value = t[h].v
        BY <2>1, <2>2 DEF NetsOf
    <3>2. ObjectSays(o) = NetLine(t, h)
        BY <1>0, <2>2, <3>1
    <3>3. QED BY <2>2, <3>2
  <2>3. CASE t[h].k # "name"
    <3>1. t[h].k = "object" /\ ValuesIn(t, h) # <<>> /\ o.name = t[h].name /\ o.value = Last(ValuesIn(t, h)).v
        BY <2>1, <2>3 DEF NetsOf
    <3>2. Stops(t[h])
        BY <1>1, <3>1 DEF Nested, Stops, Blank, Commands
    <3>3. IsList(ValuesIn(t, h)) /\ ToSet(ValuesIn(t, h)) = {l \in ToSet(Body(t, h)) : l.k = "value" /\ l.ok}
        BY <1>1, BodyList, ReadablePicked DEF ValuesIn
    <3>4. Last(ValuesIn(t, h)) \in ToSet(Body(t, h)) /\ Last(ValuesIn(t, h)).k = "value"
        BY <3>1, <3>3, LastIn
    <3>5. PICK q \in DOMAIN t : HeaderAt(t, q) = h /\ Last(ValuesIn(t, h)) = t[q]
        BY <1>1, <3>2, <3>4, BlockLines
    <3>6. t[q].k = "value" /\ o.value = t[q].v /\ o.name = Header(t, q).name
        BY <3>1, <3>4, <3>5 DEF Header
    <3>7. ObjectSays(o) = NetLine(t, q)
        BY <1>0, <3>6
    <3>8. QED BY <3>6, <3>7
  <2>4. QED BY <2>2, <2>3
<1>4. ASSUME NEW g \in ToSet(c.netGroups), NEW m \in ToSet(g.members)
      PROVE  \E j \in DOMAIN t : MemberSays(g, m) = NetLine(t, j) /\ NetMember(t, j)
  <2>1. PICK h \in DOMAIN t : g \in NetGroupsOf(t, h)
      BY AllHeld
  <2>2. /\ t[h].k = "object-group" /\ t[h].of = "network"
        /\ g.name = t[h].name /\ g.members = ParseNetMembers(Body(t, h))
      BY <2>1 DEF NetGroupsOf
  <2>3. Stops(t[h])
      BY <1>1, <2>2 DEF Nested, Stops, Blank, Commands
  <2>4. PICK q \in DOMAIN t : HeaderAt(t, q) = h /\ NetMember(t, q) /\ m = t[q].v
      BY <1>1, <1>4, <2>2, <2>3, NetMembersAre
  <2>5. QED BY <2>2, <2>4, NetLineIs DEF MemberSays, Header
<1>5. QED BY <1>1, <1>2, <1>3, <1>4, GivenLines DEF NetGiven
-----------------------------------------------------------------------------
(* Where the blocks of each kind stand in what is written.                  *)
Ahead(s, n, p) == n + Len(p) <= Len(s) /\ \A i \in 1..Len(p) : s[n + i] = p[i]

LEMMA AheadGrows ==
    ASSUME NEW s, IsList(s), NEW t, IsList(t)
    PROVE  /\ IsList(s \o t) /\ Len(s \o t) = Len(s) + Len(t) /\ Len(s) \in Nat /\ Len(t) \in Nat
           /\ Ahead(s \o t, Len(s), t) /\ Ahead(s, 0, s)
           /\ \A n \in Nat : \A p : IsList(p) /\ Ahead(s, n, p) => Ahead(s \o t, n, p)
<1>1. /\ Len(s) \in Nat /\ Len(t) \in Nat /\ Len(s \o t) = Len(s) + Len(t)
      /\ \A i \in 1..Len(s) : (s \o t)[i] = s[i]
      /\ \A i \in 1..Len(t) : (s \o t)[Len(s) + i] = t[i]
    BY ConcatAt
<1>2. Ahead(s \o t, Len(s), t) /\ Ahead(s, 0, s)
    BY <1>1 DEF Ahead
<1>3. ASSUME NEW n \in Nat, NEW p, IsList(p), Ahead(s, n, p) PROVE Ahead(s \o t, n, p)
  <2>1. Len(p) \in Nat
      BY <1>3 DEF IsList
  <2>2. \A i \in 1..Len(p) : n + i \in 1..Len(s)
      BY <1>1, <1>3, <2>1 DEF Ahead
  <2>3. QED BY <1>1, <1>3, <2>1, <2>2 DEF Ahead
<1>4. IsList(s \o t)
    BY ConcatList
<1>5. QED BY <1>1, <1>2, <1>3, <1>4

IfsEnd(c) == Len(IfBlocks(c))
NetsEnd(c) == IfsEnd(c) + Len(NetBlocks(c))
SvcsEnd(c) == NetsEnd(c) + Len(SvcBlocks(c))
NetGroupsEnd(c) == SvcsEnd(c) + Len(NetGroupBlocks(c))
SvcGroupsEnd(c) == NetGroupsEnd(c) + Len(SvcGroupBlocks(c))
RulesEnd(c) == SvcGroupsEnd(c) + Len(RuleBlocks(c))
BindsEnd(c) == RulesEnd(c) + Len(BindBlocks(c))
NatsEnd(c) == BindsEnd(c) + Len(NatBlocks(c))

LEMMA MoreBlocks ==
    ASSUME NEW c, Wellformed(c)
    PROVE  /\ IsList(NetGroupBlocks(c)) /\ Len(NetGroupBlocks(c)) = Len(c.netGroups)
           /\ \A j \in 1..Len(c.netGroups) : NetGroupBlocks(c)[j] = GenNetGroup(c, c.netGroups[j])
           /\ IsList(SvcGroupBlocks(c)) /\ Len(SvcGroupBlocks(c)) = Len(c.svcGroups)
           /\ \A j \in 1..Len(c.svcGroups) : SvcGroupBlocks(c)[j] = GenSvcGroup(c, c.svcGroups[j])
           /\ IsList(GenBindings(c)) /\ \A j \in 1..Len(GenBindings(c)) : GenBindings(c)[j].k = "access-group"
           /\ IsList(BindBlocks(c)) /\ Len(BindBlocks(c)) = Len(GenBindings(c))
           /\ \A j \in 1..Len(GenBindings(c)) : BindBlocks(c)[j] = <<GenBindings(c)[j]>>
<1>1. /\ IsList(NetGroupBlocks(c)) /\ Len(NetGroupBlocks(c)) = Len(c.netGroups)
      /\ \A j \in 1..Len(c.netGroups) : NetGroupBlocks(c)[j] = GenNetGroup(c, c.netGroups[j])
  <2>1. NetGroupBlocks(c) = [j \in DOMAIN c.netGroups |-> GenNetGroup(c, c.netGroups[j])] /\ IsList(c.netGroups)
      BY DEF NetGroupBlocks, Each, Wellformed
  <2>2. NetGroupBlocks(c) = [j \in DOMAIN c.netGroups |-> NetGroupBlocks(c)[j]]
      BY <2>1
  <2>3. QED BY <2>1, <2>2, MappedLen
<1>2. /\ IsList(SvcGroupBlocks(c)) /\ Len(SvcGroupBlocks(c)) = Len(c.svcGroups)
      /\ \A j \in 1..Len(c.svcGroups) : SvcGroupBlocks(c)[j] = GenSvcGroup(c, c.svcGroups[j])
  <2>1. SvcGroupBlocks(c) = [j \in DOMAIN c.svcGroups |-> GenSvcGroup(c, c.svcGroups[j])] /\ IsList(c.svcGroups)
      BY DEF SvcGroupBlocks, Each, Wellformed
  <2>2. SvcGroupBlocks(c) = [j \in DOMAIN c.svcGroups |-> SvcGroupBlocks(c)[j]]
      BY <2>1
  <2>3. QED BY <2>1, <2>2, MappedLen
<1>3. IsList(GenBindings(c)) /\ \A j \in 1..Len(GenBindings(c)) : GenBindings(c)[j].k = "access-group"
  <2> DEFINE all == [j \in DOMAIN c.rules |-> j]
             first == Select(all, LAMBDA j : \A i \in 1..(j - 1) : AclOf(c.rules[i]) # AclOf(c.rules[j]))
             Binding(r) == [k |-> "access-group", in |-> FALSE, acl |-> AclOf(r),
                            dir |-> IF r.from = <<>> THEN "global" ELSE "in",
                            iface |-> IF r.from = <<>> THEN "" ELSE MapZone(r.from[1])]
  <2>1. IsList(all)
      BY MappedList DEF Wellformed
  <2>2. IsList(first)
    <3> HIDE DEF all
    <3>1. QED BY <2>1, ThoseList DEF Select
  <2>3. GenBindings(c) = [j \in DOMAIN first |-> Binding(c.rules[first[j]])]
      BY DEF GenBindings
  <2>4. \A r : Binding(r).k = "access-group"
      OBVIOUS
  <2> HIDE DEF first, Binding
  <2>5. GenBindings(c) = [j \in DOMAIN first |-> GenBindings(c)[j]]
      BY <2>3
  <2>6. IsList(GenBindings(c)) /\ \A j \in DOMAIN GenBindings(c) : GenBindings(c)[j].k = "access-group"
      BY <2>2, <2>3, <2>4, <2>5, MappedList
  <2>7. QED BY <2>6 DEF IsList
<1>4. /\ IsList(BindBlocks(c)) /\ Len(BindBlocks(c)) = Len(GenBindings(c))
      /\ \A j \in 1..Len(GenBindings(c)) : BindBlocks(c)[j] = <<GenBindings(c)[j]>>
  <2>1. BindBlocks(c) = [j \in DOMAIN GenBindings(c) |-> <<GenBindings(c)[j]>>]
      BY DEF BindBlocks, Each
  <2>2. BindBlocks(c) = [j \in DOMAIN GenBindings(c) |-> BindBlocks(c)[j]]
      BY <2>1
  <2>3. QED BY <1>3, <2>1, <2>2, MappedLen
<1>5. QED BY <1>1, <1>2, <1>3, <1>4

LEMMA Places ==
    ASSUME NEW c, Wellformed(c)
    PROVE  /\ IfsEnd(c) \in Nat /\ NetsEnd(c) \in Nat /\ SvcsEnd(c) \in Nat /\ NetGroupsEnd(c) \in Nat
           /\ SvcGroupsEnd(c) \in Nat /\ RulesEnd(c) \in Nat /\ BindsEnd(c) \in Nat /\ NatsEnd(c) \in Nat
           /\ Ahead(Blocks(c), 0, IfBlocks(c)) /\ Ahead(Blocks(c), IfsEnd(c), NetBlocks(c))
           /\ Ahead(Blocks(c), NetsEnd(c), SvcBlocks(c)) /\ Ahead(Blocks(c), SvcsEnd(c), NetGroupBlocks(c))
           /\ Ahead(Blocks(c), NetGroupsEnd(c), SvcGroupBlocks(c)) /\ Ahead(Blocks(c), SvcGroupsEnd(c), RuleBlocks(c))
           /\ Ahead(Blocks(c), RulesEnd(c), BindBlocks(c)) /\ Ahead(Blocks(c), BindsEnd(c), NatBlocks(c))
           /\ Ahead(Blocks(c), NatsEnd(c), RouteBlocks(c))
           /\ Len(Blocks(c)) = NatsEnd(c) + Len(RouteBlocks(c)) /\ Len(RouteBlocks(c)) \in Nat
<1> DEFINE a1 == IfBlocks(c)
           a2 == a1 \o NetBlocks(c)
           a3 == a2 \o SvcBlocks(c)
           a4 == a3 \o NetGroupBlocks(c)
           a5 == a4 \o SvcGroupBlocks(c)
           a6 == a5 \o RuleBlocks(c)
           a7 == a6 \o BindBlocks(c)
           a8 == a7 \o NatBlocks(c)
           At(s, n, p) == n \in Nat /\ IsList(p) /\ Ahead(s, n, p)
           Now(s, n) == IsList(s) /\ Len(s) = n
<1>1. Blocks(c) = a8 \o RouteBlocks(c)
    BY DEF Blocks, IfBlocks, NetBlocks, SvcBlocks, NetGroupBlocks, SvcGroupBlocks, RuleBlocks, BindBlocks,
       NatBlocks, RouteBlocks, NetsWritten, RoutesWritten
<1>2. /\ IsList(IfBlocks(c)) /\ IsList(NetBlocks(c)) /\ IsList(SvcBlocks(c)) /\ IsList(NetGroupBlocks(c))
      /\ IsList(SvcGroupBlocks(c)) /\ IsList(RuleBlocks(c)) /\ IsList(BindBlocks(c)) /\ IsList(NatBlocks(c))
      /\ IsList(RouteBlocks(c))
    BY BlocksOf, MoreBlocks
<1>3. ASSUME NEW s, NEW n, Now(s, n), NEW t, IsList(t)
      PROVE  /\ Now(s \o t, n + Len(t)) /\ n \in Nat /\ Len(t) \in Nat /\ n + Len(t) \in Nat /\ At(s \o t, n, t) /\ At(s, 0, s)
             /\ \A m, p : At(s, m, p) => At(s \o t, m, p)
    BY <1>3, AheadGrows
<1>4. Now(a1, IfsEnd(c)) /\ At(a1, 0, IfBlocks(c))
    BY <1>2, <1>3 DEF IfsEnd
<1> HIDE DEF a1, At, Now
<1>5. Now(a2, NetsEnd(c)) /\ At(a2, 0, IfBlocks(c)) /\ At(a2, IfsEnd(c), NetBlocks(c)) /\ NetsEnd(c) \in Nat /\ IfsEnd(c) \in Nat
    BY <1>2, <1>3, <1>4 DEF NetsEnd
<1> HIDE DEF a2
<1>6. /\ Now(a3, SvcsEnd(c)) /\ At(a3, 0, IfBlocks(c)) /\ At(a3, IfsEnd(c), NetBlocks(c)) /\ At(a3, NetsEnd(c), SvcBlocks(c))
      /\ SvcsEnd(c) \in Nat
    BY <1>2, <1>3, <1>5 DEF SvcsEnd
<1> HIDE DEF a3
<1>7. /\ Now(a4, NetGroupsEnd(c)) /\ At(a4, 0, IfBlocks(c)) /\ At(a4, IfsEnd(c), NetBlocks(c)) /\ At(a4, NetsEnd(c), SvcBlocks(c))
      /\ At(a4, SvcsEnd(c), NetGroupBlocks(c)) /\ NetGroupsEnd(c) \in Nat
    BY <1>2, <1>3, <1>6 DEF NetGroupsEnd
<1> HIDE DEF a4
<1>8. /\ Now(a5, SvcGroupsEnd(c)) /\ At(a5, 0, IfBlocks(c)) /\ At(a5, IfsEnd(c), NetBlocks(c)) /\ At(a5, NetsEnd(c), SvcBlocks(c))
      /\ At(a5, SvcsEnd(c), NetGroupBlocks(c)) /\ At(a5, NetGroupsEnd(c), SvcGroupBlocks(c)) /\ SvcGroupsEnd(c) \in Nat
    BY <1>2, <1>3, <1>7 DEF SvcGroupsEnd
<1> HIDE DEF a5
<1>9. /\ Now(a6, RulesEnd(c)) /\ At(a6, 0, IfBlocks(c)) /\ At(a6, IfsEnd(c), NetBlocks(c)) /\ At(a6, NetsEnd(c), SvcBlocks(c))
      /\ At(a6, SvcsEnd(c), NetGroupBlocks(c)) /\ At(a6, NetGroupsEnd(c), SvcGroupBlocks(c))
      /\ At(a6, SvcGroupsEnd(c), RuleBlocks(c)) /\ RulesEnd(c) \in Nat
    BY <1>2, <1>3, <1>8 DEF RulesEnd
<1> HIDE DEF a6
<1>10. /\ Now(a7, BindsEnd(c)) /\ At(a7, 0, IfBlocks(c)) /\ At(a7, IfsEnd(c), NetBlocks(c)) /\ At(a7, NetsEnd(c), SvcBlocks(c))
       /\ At(a7, SvcsEnd(c), NetGroupBlocks(c)) /\ At(a7, NetGroupsEnd(c), SvcGroupBlocks(c))
       /\ At(a7, SvcGroupsEnd(c), RuleBlocks(c)) /\ At(a7, RulesEnd(c), BindBlocks(c)) /\ BindsEnd(c) \in Nat
    BY <1>2, <1>3, <1>9 DEF BindsEnd
<1> HIDE DEF a7
<1>11. /\ Now(a8, NatsEnd(c)) /\ At(a8, 0, IfBlocks(c)) /\ At(a8, IfsEnd(c), NetBlocks(c)) /\ At(a8, NetsEnd(c), SvcBlocks(c))
       /\ At(a8, SvcsEnd(c), NetGroupBlocks(c)) /\ At(a8, NetGroupsEnd(c), SvcGroupBlocks(c))
       /\ At(a8, SvcGroupsEnd(c), RuleBlocks(c)) /\ At(a8, RulesEnd(c), BindBlocks(c))
       /\ At(a8, BindsEnd(c), NatBlocks(c)) /\ NatsEnd(c) \in Nat
    BY <1>2, <1>3, <1>10 DEF NatsEnd
<1> HIDE DEF a8
<1> DEFINE B == Blocks(c)
<1>12. B = a8 \o RouteBlocks(c)
    BY <1>1
<1> HIDE DEF B
<1>13. /\ At(B, 0, IfBlocks(c)) /\ At(B, IfsEnd(c), NetBlocks(c)) /\ At(B, NetsEnd(c), SvcBlocks(c))
       /\ At(B, SvcsEnd(c), NetGroupBlocks(c)) /\ At(B, NetGroupsEnd(c), SvcGroupBlocks(c))
       /\ At(B, SvcGroupsEnd(c), RuleBlocks(c)) /\ At(B, RulesEnd(c), BindBlocks(c))
       /\ At(B, BindsEnd(c), NatBlocks(c)) /\ At(B, NatsEnd(c), RouteBlocks(c))
       /\ Now(B, NatsEnd(c) + Len(RouteBlocks(c))) /\ Len(RouteBlocks(c)) \in Nat
    BY <1>2, <1>3, <1>11, <1>12
<1>14. QED BY <1>5, <1>6, <1>7, <1>8, <1>9, <1>10, <1>11, <1>13 DEF At, Now, B

(* What each block is, by its place. *)
IfaceAt(c, m, i) == i \in DOMAIN c.ifs /\ m = i /\ Blocks(c)[m] = GenInterface(c.ifs[i])
ObjectAt(c, m, i) == i \in DOMAIN NetsWritten(c) /\ m = IfsEnd(c) + i /\ Blocks(c)[m] = GenObject(NetsWritten(c)[i])
ServiceAt(c, m, i) == i \in DOMAIN c.svcs /\ m = NetsEnd(c) + i /\ Blocks(c)[m] = GenService(c.svcs[i])
NetGroupAt(c, m, i) ==
    i \in DOMAIN c.netGroups /\ m = SvcsEnd(c) + i /\ Blocks(c)[m] = GenNetGroup(c, c.netGroups[i])
SvcGroupAt(c, m, i) ==
    i \in DOMAIN c.svcGroups /\ m = NetGroupsEnd(c) + i /\ Blocks(c)[m] = GenSvcGroup(c, c.svcGroups[i])
RuleAt(c, m, i) == i \in DOMAIN c.rules /\ m = SvcGroupsEnd(c) + i /\ Blocks(c)[m] = GenRule(c, c.rules[i])
BindAt(c, m, i) == i \in DOMAIN GenBindings(c) /\ m = RulesEnd(c) + i /\ Blocks(c)[m] = <<GenBindings(c)[i]>>
NatAt(c, m, i) == i \in DOMAIN c.nats /\ m = BindsEnd(c) + i /\ Blocks(c)[m] = <<GenNAT(c, c.nats[i])>>
RouteAt(c, m, i) ==
    i \in DOMAIN RoutesWritten(c) /\ m = NatsEnd(c) + i /\ Blocks(c)[m] = <<GenRoute(RoutesWritten(c)[i])>>

LEMMA Split ==
    ASSUME NEW n \in Nat, NEW k \in Nat, NEW m \in Nat, n < m, m <= n + k
    PROVE  m - n \in 1..k /\ m = n + (m - n)
OBVIOUS

LEMMA BlockAt ==
    ASSUME NEW c, Wellformed(c)
    PROVE  /\ \A m \in 1..Len(Blocks(c)) : \E i :
                  \/ IfaceAt(c, m, i) \/ ObjectAt(c, m, i) \/ ServiceAt(c, m, i) \/ NetGroupAt(c, m, i)
                  \/ SvcGroupAt(c, m, i) \/ RuleAt(c, m, i) \/ BindAt(c, m, i) \/ NatAt(c, m, i) \/ RouteAt(c, m, i)
           /\ \A i \in DOMAIN c.ifs : IfaceAt(c, i, i) /\ i \in 1..Len(Blocks(c))
           /\ \A i \in DOMAIN NetsWritten(c) : ObjectAt(c, IfsEnd(c) + i, i) /\ IfsEnd(c) + i \in 1..Len(Blocks(c))
           /\ \A i \in DOMAIN c.svcs : ServiceAt(c, NetsEnd(c) + i, i) /\ NetsEnd(c) + i \in 1..Len(Blocks(c))
           /\ \A i \in DOMAIN c.netGroups : NetGroupAt(c, SvcsEnd(c) + i, i) /\ SvcsEnd(c) + i \in 1..Len(Blocks(c))
           /\ \A i \in DOMAIN c.svcGroups :
                  SvcGroupAt(c, NetGroupsEnd(c) + i, i) /\ NetGroupsEnd(c) + i \in 1..Len(Blocks(c))
           /\ \A i \in DOMAIN c.rules : RuleAt(c, SvcGroupsEnd(c) + i, i) /\ SvcGroupsEnd(c) + i \in 1..Len(Blocks(c))
           /\ \A i \in DOMAIN GenBindings(c) : BindAt(c, RulesEnd(c) + i, i) /\ RulesEnd(c) + i \in 1..Len(Blocks(c))
           /\ \A i \in DOMAIN c.nats : NatAt(c, BindsEnd(c) + i, i) /\ BindsEnd(c) + i \in 1..Len(Blocks(c))
           /\ \A i \in DOMAIN RoutesWritten(c) : RouteAt(c, NatsEnd(c) + i, i) /\ NatsEnd(c) + i \in 1..Len(Blocks(c))
<1> DEFINE B == Blocks(c)
           n1 == IfsEnd(c)
           n2 == NetsEnd(c)
           n3 == SvcsEnd(c)
           n4 == NetGroupsEnd(c)
           n5 == SvcGroupsEnd(c)
           n6 == RulesEnd(c)
           n7 == BindsEnd(c)
           n8 == NatsEnd(c)
           Row(n, s, At(_, _)) ==
               /\ Len(s) \in Nat /\ DOMAIN s = 1..Len(s) /\ n + Len(s) <= Len(B)
               /\ \A i \in 1..Len(s) : At(n + i, i)
<1>1. /\ n1 \in Nat /\ n2 \in Nat /\ n3 \in Nat /\ n4 \in Nat /\ n5 \in Nat /\ n6 \in Nat /\ n7 \in Nat /\ n8 \in Nat
      /\ IsList(B) /\ Len(B) \in Nat
    BY Places, Layout DEF IsList
<1>2. Row(0, c.ifs, LAMBDA m, i : IfaceAt(c, m, i)) /\ n1 = 0 + Len(c.ifs)
  <2>1. IsList(c.ifs) /\ Ahead(B, 0, IfBlocks(c)) /\ Len(IfBlocks(c)) = Len(c.ifs)
        /\ \A j \in 1..Len(c.ifs) : IfBlocks(c)[j] = GenInterface(c.ifs[j])
      BY Places, BlocksOf DEF Wellformed
  <2>2. Len(c.ifs) \in Nat /\ DOMAIN c.ifs = 1..Len(c.ifs)
      BY <2>1 DEF IsList
  <2>3. \A i \in 1..Len(c.ifs) : IfaceAt(c, 0 + i, i)
      BY <2>1, <2>2 DEF Ahead, IfaceAt
  <2>4. QED BY <2>1, <2>2, <2>3 DEF Ahead, IfsEnd
<1>3. Row(n1, NetsWritten(c), LAMBDA m, i : ObjectAt(c, m, i)) /\ n2 = n1 + Len(NetsWritten(c))
  <2>1. IsList(NetsWritten(c)) /\ Ahead(B, n1, NetBlocks(c)) /\ Len(NetBlocks(c)) = Len(NetsWritten(c))
        /\ \A j \in 1..Len(NetsWritten(c)) : NetBlocks(c)[j] = GenObject(NetsWritten(c)[j])
      BY Places, BlocksOf DEF Wellformed
  <2>2. Len(NetsWritten(c)) \in Nat /\ DOMAIN NetsWritten(c) = 1..Len(NetsWritten(c))
      BY <2>1 DEF IsList
  <2>3. \A i \in 1..Len(NetsWritten(c)) : ObjectAt(c, n1 + i, i)
      BY <2>1, <2>2 DEF Ahead, ObjectAt
  <2>4. QED BY <2>1, <2>2, <2>3 DEF Ahead, NetsEnd
<1>4. Row(n2, c.svcs, LAMBDA m, i : ServiceAt(c, m, i)) /\ n3 = n2 + Len(c.svcs)
  <2>1. IsList(c.svcs) /\ Ahead(B, n2, SvcBlocks(c)) /\ Len(SvcBlocks(c)) = Len(c.svcs)
        /\ \A j \in 1..Len(c.svcs) : SvcBlocks(c)[j] = GenService(c.svcs[j])
      BY Places, BlocksOf DEF Wellformed
  <2>2. Len(c.svcs) \in Nat /\ DOMAIN c.svcs = 1..Len(c.svcs)
      BY <2>1 DEF IsList
  <2>3. \A i \in 1..Len(c.svcs) : ServiceAt(c, n2 + i, i)
      BY <2>1, <2>2 DEF Ahead, ServiceAt
  <2>4. QED BY <2>1, <2>2, <2>3 DEF Ahead, SvcsEnd
<1>5. Row(n3, c.netGroups, LAMBDA m, i : NetGroupAt(c, m, i)) /\ n4 = n3 + Len(c.netGroups)
  <2>1. IsList(c.netGroups) /\ Ahead(B, n3, NetGroupBlocks(c)) /\ Len(NetGroupBlocks(c)) = Len(c.netGroups)
        /\ \A j \in 1..Len(c.netGroups) : NetGroupBlocks(c)[j] = GenNetGroup(c, c.netGroups[j])
      BY Places, MoreBlocks DEF Wellformed
  <2>2. Len(c.netGroups) \in Nat /\ DOMAIN c.netGroups = 1..Len(c.netGroups)
      BY <2>1 DEF IsList
  <2>3. \A i \in 1..Len(c.netGroups) : NetGroupAt(c, n3 + i, i)
      BY <2>1, <2>2 DEF Ahead, NetGroupAt
  <2>4. QED BY <2>1, <2>2, <2>3 DEF Ahead, NetGroupsEnd
<1>6. Row(n4, c.svcGroups, LAMBDA m, i : SvcGroupAt(c, m, i)) /\ n5 = n4 + Len(c.svcGroups)
  <2>1. IsList(c.svcGroups) /\ Ahead(B, n4, SvcGroupBlocks(c)) /\ Len(SvcGroupBlocks(c)) = Len(c.svcGroups)
        /\ \A j \in 1..Len(c.svcGroups) : SvcGroupBlocks(c)[j] = GenSvcGroup(c, c.svcGroups[j])
      BY Places, MoreBlocks DEF Wellformed
  <2>2. Len(c.svcGroups) \in Nat /\ DOMAIN c.svcGroups = 1..Len(c.svcGroups)
      BY <2>1 DEF IsList
  <2>3. \A i \in 1..Len(c.svcGroups) : SvcGroupAt(c, n4 + i, i)
      BY <2>1, <2>2 DEF Ahead, SvcGroupAt
  <2>4. QED BY <2>1, <2>2, <2>3 DEF Ahead, SvcGroupsEnd
<1>7. Row(n5, c.rules, LAMBDA m, i : RuleAt(c, m, i)) /\ n6 = n5 + Len(c.rules)
  <2>1. IsList(c.rules) /\ Ahead(B, n5, RuleBlocks(c)) /\ Len(RuleBlocks(c)) = Len(c.rules)
        /\ \A j \in 1..Len(c.rules) : RuleBlocks(c)[j] = GenRule(c, c.rules[j])
      BY Places, BlocksOf DEF Wellformed
  <2>2. Len(c.rules) \in Nat /\ DOMAIN c.rules = 1..Len(c.rules)
      BY <2>1 DEF IsList
  <2>3. \A i \in 1..Len(c.rules) : RuleAt(c, n5 + i, i)
      BY <2>1, <2>2 DEF Ahead, RuleAt
  <2>4. QED BY <2>1, <2>2, <2>3 DEF Ahead, RulesEnd
<1>8. Row(n6, GenBindings(c), LAMBDA m, i : BindAt(c, m, i)) /\ n7 = n6 + Len(GenBindings(c))
  <2>1. IsList(GenBindings(c)) /\ Ahead(B, n6, BindBlocks(c)) /\ Len(BindBlocks(c)) = Len(GenBindings(c))
        /\ \A j \in 1..Len(GenBindings(c)) : BindBlocks(c)[j] = <<GenBindings(c)[j]>>
      BY Places, MoreBlocks
  <2>2. Len(GenBindings(c)) \in Nat /\ DOMAIN GenBindings(c) = 1..Len(GenBindings(c))
      BY <2>1 DEF IsList
  <2>3. \A i \in 1..Len(GenBindings(c)) : BindAt(c, n6 + i, i)
      BY <2>1, <2>2 DEF Ahead, BindAt
  <2>4. QED BY <2>1, <2>2, <2>3 DEF Ahead, BindsEnd
<1>9. Row(n7, c.nats, LAMBDA m, i : NatAt(c, m, i)) /\ n8 = n7 + Len(c.nats)
  <2>1. IsList(c.nats) /\ Ahead(B, n7, NatBlocks(c)) /\ Len(NatBlocks(c)) = Len(c.nats)
        /\ \A j \in 1..Len(c.nats) : NatBlocks(c)[j] = <<GenNAT(c, c.nats[j])>>
      BY Places, BlocksOf DEF Wellformed
  <2>2. Len(c.nats) \in Nat /\ DOMAIN c.nats = 1..Len(c.nats)
      BY <2>1 DEF IsList
  <2>3. \A i \in 1..Len(c.nats) : NatAt(c, n7 + i, i)
      BY <2>1, <2>2 DEF Ahead, NatAt
  <2>4. QED BY <2>1, <2>2, <2>3 DEF Ahead, NatsEnd
<1>10. Row(n8, RoutesWritten(c), LAMBDA m, i : RouteAt(c, m, i)) /\ Len(B) = n8 + Len(RoutesWritten(c))
  <2>1. /\ IsList(RoutesWritten(c)) /\ Ahead(B, n8, RouteBlocks(c)) /\ Len(RouteBlocks(c)) = Len(RoutesWritten(c))
        /\ \A j \in 1..Len(RoutesWritten(c)) : RouteBlocks(c)[j] = <<GenRoute(RoutesWritten(c)[j])>>
        /\ Len(B) = n8 + Len(RouteBlocks(c))
      BY Places, BlocksOf
  <2>2. Len(RoutesWritten(c)) \in Nat /\ DOMAIN RoutesWritten(c) = 1..Len(RoutesWritten(c))
      BY <2>1 DEF IsList
  <2>3. \A i \in 1..Len(RoutesWritten(c)) : RouteAt(c, n8 + i, i)
      BY <2>1, <2>2 DEF Ahead, RouteAt
  <2>4. Len(B) = n8 + Len(RoutesWritten(c))
      BY <2>1
  <2> HIDE DEF n8, B
  <2>5. n8 + Len(RoutesWritten(c)) <= Len(B)
      BY <1>1, <2>2, <2>4
  <2>6. QED BY <2>2, <2>3, <2>4, <2>5
<1> HIDE DEF n1, n2, n3, n4, n5, n6, n7, n8, B
<1>11. ASSUME NEW m \in 1..Len(B)
       PROVE  \E i : \/ IfaceAt(c, m, i) \/ ObjectAt(c, m, i) \/ ServiceAt(c, m, i) \/ NetGroupAt(c, m, i)
                     \/ SvcGroupAt(c, m, i) \/ RuleAt(c, m, i) \/ BindAt(c, m, i) \/ NatAt(c, m, i) \/ RouteAt(c, m, i)
  <2>1. m \in Nat /\ 0 < m
      BY <1>1
  <2>2. CASE m <= n1
    <3>1. m \in 1..Len(c.ifs) /\ 0 + m = m
        BY <1>2, <2>1, <2>2
    <3>2. IfaceAt(c, m, m)
        BY <1>2, <3>1
    <3>3. QED BY <3>2
  <2>3. CASE n1 < m /\ m <= n2
    <3>1. m - n1 \in 1..Len(NetsWritten(c)) /\ m = n1 + (m - n1)
        BY <1>1, <1>3, <2>1, <2>3, Split
    <3>2. ObjectAt(c, m, m - n1)
        BY <1>3, <3>1
    <3>3. QED BY <3>2
  <2>4. CASE n2 < m /\ m <= n3
    <3>1. m - n2 \in 1..Len(c.svcs) /\ m = n2 + (m - n2)
        BY <1>1, <1>4, <2>1, <2>4, Split
    <3>2. ServiceAt(c, m, m - n2)
        BY <1>4, <3>1
    <3>3. QED BY <3>2
  <2>5. CASE n3 < m /\ m <= n4
    <3>1. m - n3 \in 1..Len(c.netGroups) /\ m = n3 + (m - n3)
        BY <1>1, <1>5, <2>1, <2>5, Split
    <3>2. NetGroupAt(c, m, m - n3)
        BY <1>5, <3>1
    <3>3. QED BY <3>2
  <2>6. CASE n4 < m /\ m <= n5
    <3>1. m - n4 \in 1..Len(c.svcGroups) /\ m = n4 + (m - n4)
        BY <1>1, <1>6, <2>1, <2>6, Split
    <3>2. SvcGroupAt(c, m, m - n4)
        BY <1>6, <3>1
    <3>3. QED BY <3>2
  <2>7. CASE n5 < m /\ m <= n6
    <3>1. m - n5 \in 1..Len(c.rules) /\ m = n5 + (m - n5)
        BY <1>1, <1>7, <2>1, <2>7, Split
    <3>2. RuleAt(c, m, m - n5)
        BY <1>7, <3>1
    <3>3. QED BY <3>2
  <2>8. CASE n6 < m /\ m <= n7
    <3>1. m - n6 \in 1..Len(GenBindings(c)) /\ m = n6 + (m - n6)
        BY <1>1, <1>8, <2>1, <2>8, Split
    <3>2. BindAt(c, m, m - n6)
        BY <1>8, <3>1
    <3>3. QED BY <3>2
  <2>9. CASE n7 < m /\ m <= n8
    <3>1. m - n7 \in 1..Len(c.nats) /\ m = n7 + (m - n7)
        BY <1>1, <1>9, <2>1, <2>9, Split
    <3>2. NatAt(c, m, m - n7)
        BY <1>9, <3>1
    <3>3. QED BY <3>2
  <2>10. CASE n8 < m
    <3>1. m <= n8 + Len(RoutesWritten(c))
        BY <1>1, <1>10, <2>1
    <3>2. m - n8 \in 1..Len(RoutesWritten(c)) /\ m = n8 + (m - n8)
        BY <1>1, <1>10, <2>1, <2>10, <3>1, Split
    <3>3. RouteAt(c, m, m - n8)
        BY <1>10, <3>2
    <3>4. QED BY <3>3
  <2>11. QED BY <1>1, <2>1, <2>2, <2>3, <2>4, <2>5, <2>6, <2>7, <2>8, <2>9, <2>10
<1>12. \A i \in DOMAIN c.ifs : IfaceAt(c, i, i) /\ i \in 1..Len(B)
    BY <1>1, <1>2
<1>13. \A i \in DOMAIN NetsWritten(c) : ObjectAt(c, n1 + i, i) /\ n1 + i \in 1..Len(B)
    BY <1>1, <1>3
<1>14. \A i \in DOMAIN c.svcs : ServiceAt(c, n2 + i, i) /\ n2 + i \in 1..Len(B)
    BY <1>1, <1>4
<1>15. \A i \in DOMAIN c.netGroups : NetGroupAt(c, n3 + i, i) /\ n3 + i \in 1..Len(B)
    BY <1>1, <1>5
<1>16. \A i \in DOMAIN c.svcGroups : SvcGroupAt(c, n4 + i, i) /\ n4 + i \in 1..Len(B)
    BY <1>1, <1>6
<1>17. \A i \in DOMAIN c.rules : RuleAt(c, n5 + i, i) /\ n5 + i \in 1..Len(B)
    BY <1>1, <1>7
<1>18. \A i \in DOMAIN GenBindings(c) : BindAt(c, n6 + i, i) /\ n6 + i \in 1..Len(B)
    BY <1>1, <1>8
<1>19. \A i \in DOMAIN c.nats : NatAt(c, n7 + i, i) /\ n7 + i \in 1..Len(B)
    BY <1>1, <1>9
<1>20. \A i \in DOMAIN RoutesWritten(c) : RouteAt(c, n8 + i, i) /\ n8 + i \in 1..Len(B)
    BY <1>1, <1>10
<1>21. QED
    BY <1>11, <1>12, <1>13, <1>14, <1>15, <1>16, <1>17, <1>18, <1>19, <1>20
       DEF B, n1, n2, n3, n4, n5, n6, n7, n8
-----------------------------------------------------------------------------
(* A line of what is written is a line of a block, below the same header.   *)
LEMMA LaidIn ==
    ASSUME NEW s, IsList(s), \A j \in DOMAIN s : IsList(s[j]), NEW t, IsList(t), NEW st, Laid(s, t, st),
           NEW m \in 1..Len(s), NEW i \in 1..Len(s[m])
    PROVE  /\ st[m] \in Nat \ {0} /\ i \in Nat /\ st[m] + i - 1 \in DOMAIN t /\ t[st[m] + i - 1] = s[m][i]
           /\ \A k \in 1..Len(s) : k < m => st[k] + Len(s[k]) <= st[m] /\ st[k] \in Nat /\ Len(s[k]) \in Nat
<1> DEFINE n == Len(s)
           a == st[m]
           b == Len(s[m])
           w == Len(t)
<1>1. n \in Nat /\ DOMAIN s = 1..n /\ w \in Nat /\ DOMAIN t = 1..w
    BY DEF IsList
<1>2. \A k \in 1..n : Len(s[k]) \in Nat
    BY <1>1 DEF IsList
<1>3. /\ \A k \in 1..(n + 1) : st[k] \in Nat \ {0}
      /\ st[n + 1] = w + 1
      /\ t[a + i - 1] = s[m][i]
    BY DEF Laid
<1>4. \A q \in 1..(n + 1) : \A k \in 1..n : k < q => st[k] + Len(s[k]) <= st[q]
    BY LaidUp
<1>5. m \in 1..n /\ i \in 1..b /\ b \in Nat /\ a \in Nat \ {0}
  <2>1. m \in 1..n /\ m \in 1..(n + 1)
      BY <1>1
  <2>2. QED BY <1>2, <1>3, <2>1
<1>6. a + b <= w + 1
  <2>1. m < n + 1 /\ n + 1 \in 1..(n + 1)
      BY <1>1
  <2>2. QED BY <1>3, <1>4, <2>1
<1>7. \A k \in 1..n : k < m => st[k] + Len(s[k]) <= st[m] /\ st[k] \in Nat /\ Len(s[k]) \in Nat
  <2>1. \A k \in 1..n : k \in 1..(n + 1)
      BY <1>1
  <2>2. QED BY <1>2, <1>3, <1>4, <2>1
<1> HIDE DEF n, a, b, w
<1>8. a + i - 1 \in 1..w /\ i \in Nat
    BY <1>1, <1>5, <1>6
<1>9. QED BY <1>1, <1>3, <1>5, <1>7, <1>8 DEF n, a, b, w

LEMMA LaidHeaders ==
    ASSUME NEW s, IsList(s), \A j \in DOMAIN s : Heads(s[j]), NEW t, IsList(t), NEW st, Laid(s, t, st),
           NEW m \in 1..Len(s), NEW i \in 1..Len(s[m])
    PROVE  Header(t, st[m] + i - 1) = Header(s[m], i)
<1> DEFINE b == s[m]
           a == st[m]
           p == a + i - 1
           k == HeaderAt(b, i)
<1>1. m \in DOMAIN s /\ IsList(b) /\ DOMAIN b = 1..Len(b) /\ Len(b) \in Nat /\ Stops(b[1])
  <2>1. m \in DOMAIN s
      BY DEF IsList
  <2>2. QED BY <2>1 DEF Heads, IsList
<1>2. \A j \in DOMAIN s : IsList(s[j])
    BY DEF Heads
<1>3. ASSUME NEW j \in 1..Len(b) PROVE a \in Nat \ {0} /\ j \in Nat /\ a + j - 1 \in DOMAIN t /\ t[a + j - 1] = b[j]
  <2> HIDE DEF a, b
  <2>1. j \in 1..Len(s[m]) /\ IsList(s) /\ Laid(s, t, st)
      BY DEF b
  <2>2. st[m] \in Nat \ {0} /\ j \in Nat /\ st[m] + j - 1 \in DOMAIN t /\ t[st[m] + j - 1] = s[m][j]
      BY <1>2, <2>1, LaidIn
  <2>3. QED BY <2>2 DEF a, b
<1> HIDE DEF b, a
<1>4. i \in DOMAIN b /\ 1 \in 1..i /\ i \in 1..Len(b)
    BY <1>1 DEF b
<1>5. k \in 1..i /\ Stops(b[k]) /\ \A j \in 1..i : Stops(b[j]) => j <= k
    BY <1>1, <1>4, HeaderFound
<1> HIDE DEF k
<1>6. k \in 1..Len(b) /\ a \in Nat \ {0} /\ p \in DOMAIN t /\ a + k - 1 \in 1..p /\ t[a + k - 1] = b[k]
    BY <1>1, <1>3, <1>4, <1>5
<1>7. ASSUME NEW q \in 1..p, Stops(t[q]) PROVE q <= a + k - 1
  <2>1. CASE q < a
      BY <1>1, <1>5, <1>6, <2>1
  <2>2. CASE ~(q < a)
    <3>1. q - a + 1 \in 1..i /\ q - a + 1 \in 1..Len(b) /\ a + (q - a + 1) - 1 = q
        BY <1>1, <1>4, <1>6, <2>2
    <3>2. Stops(b[q - a + 1])
        BY <1>3, <1>7, <3>1
    <3>3. q - a + 1 <= k
        BY <1>5, <3>1, <3>2
    <3>4. QED BY <1>1, <1>5, <1>6, <3>1, <3>3
  <2>3. QED BY <2>1, <2>2
<1>8. HeaderAt(t, p) = a + k - 1
  <2> DEFINE h == a + k - 1
  <2>1. p \in DOMAIN t /\ h \in 1..p /\ Stops(t[h]) /\ \A q \in 1..p : Stops(t[q]) => q <= h
      BY <1>5, <1>6, <1>7
  <2> HIDE DEF h, p
  <2>2. QED BY <2>1, HeaderIs DEF h
<1>9. QED BY <1>6, <1>8 DEF Header, k, b, a

LEMMA FlattenHolds ==
    ASSUME NEW s, IsList(s), \A j \in DOMAIN s : IsList(s[j])
    PROVE  \A l : l \in ToSet(FlattenSeq(s)) <=> \E j \in DOMAIN s : l \in ToSet(s[j])
<1>1. IsList(FlattenSeq(s)) /\ DOMAIN s = 1..Len(s)
    BY FlattenList DEF IsList
<1>2. PICK st : Laid(s, FlattenSeq(s), st)
    BY FlattenAt
<1>3. ASSUME NEW j \in DOMAIN s, NEW l \in ToSet(s[j]) PROVE l \in ToSet(FlattenSeq(s))
  <2>1. PICK i \in 1..Len(s[j]) : l = s[j][i]
      BY <1>3 DEF ToSet, IsList
  <2>2. st[j] + i - 1 \in DOMAIN FlattenSeq(s) /\ FlattenSeq(s)[st[j] + i - 1] = s[j][i]
      BY <1>1, <1>2, LaidIn
  <2>3. QED BY <2>1, <2>2 DEF ToSet
<1>4. ASSUME NEW l \in ToSet(FlattenSeq(s)) PROVE \E j \in DOMAIN s : l \in ToSet(s[j])
    BY FlattenIn
<1>5. QED BY <1>3, <1>4

(* Below one header, all lines are. *)
LEMMA LedHeader ==
    ASSUME NEW b, NEW l, Led(b, l), Stops(l), NEW i \in DOMAIN b
    PROVE  HeaderAt(b, i) = 1 /\ Header(b, i) = l
<1>1. IsList(b) /\ DOMAIN b = 1..Len(b) /\ Len(b) \in Nat /\ b[1] = l /\ 1 \in 1..i
    BY DEF Led, IsList
<1>2. \A k \in 1..i : Stops(b[k]) => k <= 1
  <2>1. SUFFICES ASSUME NEW k \in 1..i, Stops(b[k]), ~(k <= 1) PROVE FALSE
      OBVIOUS
  <2>2. k \in 2..Len(b)
      BY <1>1, <2>1
  <2>3. QED BY <2>1, <2>2 DEF Led, Under, Stops
<1>3. QED BY <1>1, <1>2, HeaderIs DEF Header

(* What a line says below its header. *)
NetSays(h, l) ==
    CASE l.k = "name" -> Says({l.name}, FALSE, Covers[l.v], {})
      [] l.k = "value" -> Says({h.name}, FALSE, InFamily(l.fam, Covers[l.v]), {})
      [] l.k \in {"network-object", "group-object"} /\ h.of = "network" ->
           Says({h.name}, TRUE, HostsOf(<<>>, l.v), RefsOf(l.v))
      [] OTHER -> Nothing
SvcSays(h, l) ==
    CASE l.k = "spec" -> Says({h.name}, FALSE, FlowsOf(l.proto, l.sport, l.dport), {})
      [] l.k = "port-object" -> Says({h.name}, TRUE, FlowsOf(h.proto, NoClause, l.dport), {})
      [] l.k = "service-object" -> Says({h.name}, TRUE, FlowsOf(l.proto, l.sport, l.dport), {})
      [] l.k \in {"svc-object", "group-object"} /\ h.of = "service" ->
           Says({h.name}, TRUE, {}, {l.v})
      [] OTHER -> Nothing

LEMMA LineSays ==
    ASSUME NEW t, NEW j
    PROVE  NetLine(t, j) = NetSays(Header(t, j), t[j]) /\ SvcLine(t, j) = SvcSays(Header(t, j), t[j])
<1>1. NetLine(t, j) = NetSays(Header(t, j), t[j])
    BY DEF NetLine, NetSays
<1>2. SvcLine(t, j) = SvcSays(Header(t, j), t[j])
    BY DEF SvcLine, SvcSays
<1>3. QED BY <1>1, <1>2

(* Each line of a written context: the block, the place in it, the header.  *)
OfBlock(c, st, p, m, i) ==
    /\ m \in 1..Len(Blocks(c)) /\ i \in 1..Len(Blocks(c)[m]) /\ p = st[m] + i - 1
    /\ GenASA(c)[p] = Blocks(c)[m][i] /\ Header(GenASA(c), p) = Header(Blocks(c)[m], i)

LEMMA WrittenLines ==
    ASSUME NEW c, Wellformed(c)
    PROVE  \E st : /\ \A p \in DOMAIN GenASA(c) : \E m, i : OfBlock(c, st, p, m, i)
                   /\ \A m \in 1..Len(Blocks(c)) : \A i \in 1..Len(Blocks(c)[m]) :
                          /\ st[m] + i - 1 \in DOMAIN GenASA(c) /\ OfBlock(c, st, st[m] + i - 1, m, i)
                   /\ \A p, q, m, i, n, k : OfBlock(c, st, p, m, i) /\ OfBlock(c, st, q, n, k) /\ m < n => p < q
<1> DEFINE B == Blocks(c)
           t == GenASA(c)
<1>1. IsList(B) /\ (\A j \in DOMAIN B : Heads(B[j])) /\ IsList(t)
    BY Layout, Generated
<1>2. (\A j \in DOMAIN B : IsList(B[j])) /\ t = FlattenSeq(B)
    BY <1>1 DEF Heads, GenASA
<1> HIDE DEF B, t
<1>3. PICK st : Laid(B, t, st)
    BY <1>1, <1>2, FlattenAt
<1>4. ASSUME NEW m \in 1..Len(B), NEW i \in 1..Len(B[m])
      PROVE  st[m] + i - 1 \in DOMAIN t /\ OfBlock(c, st, st[m] + i - 1, m, i)
  <2>1. st[m] + i - 1 \in DOMAIN t /\ t[st[m] + i - 1] = B[m][i]
      BY <1>1, <1>2, <1>3, LaidIn
  <2>2. Header(t, st[m] + i - 1) = Header(B[m], i)
      BY <1>1, <1>3, LaidHeaders
  <2>3. QED BY <2>1, <2>2 DEF OfBlock, B, t
<1>5. ASSUME NEW p \in DOMAIN t PROVE \E m, i : OfBlock(c, st, p, m, i)
  <2>1. PICK m \in 1..Len(B) : \E i \in 1..Len(B[m]) : p = st[m] + i - 1
      BY <1>1, <1>2, <1>3, LaidAll
  <2>2. PICK i \in 1..Len(B[m]) : p = st[m] + i - 1
      BY <2>1
  <2>3. QED BY <1>4, <2>2
<1>6. ASSUME NEW p, NEW q, NEW m, NEW i, NEW n, NEW k, OfBlock(c, st, p, m, i), OfBlock(c, st, q, n, k), m < n
      PROVE  p < q
  <2>1. m \in 1..Len(B) /\ i \in 1..Len(B[m]) /\ p = st[m] + i - 1 /\ n \in 1..Len(B) /\ k \in 1..Len(B[n]) /\ q = st[n] + k - 1
      BY <1>6 DEF OfBlock, B
  <2>2. st[m] + Len(B[m]) <= st[n] /\ st[m] \in Nat /\ Len(B[m]) \in Nat /\ st[n] \in Nat \ {0} /\ k \in Nat
      BY <1>1, <1>2, <1>3, <1>6, <2>1, LaidIn
  <2>3. QED BY <2>1, <2>2
<1>7. QED BY <1>4, <1>5, <1>6 DEF B, t
-----------------------------------------------------------------------------
(* What the blocks say that are written.                                    *)
Quiet(b) ==
    \A i \in DOMAIN b : NetSays(Header(b, i), b[i]) = Nothing /\ SvcSays(Header(b, i), b[i]) = Nothing

Telling == {"name", "value", "network-object", "group-object", "spec", "port-object", "service-object", "svc-object"}

LEMMA QuietKind ==
    ASSUME NEW h, NEW l, l.k \notin Telling
    PROVE  NetSays(h, l) = Nothing /\ SvcSays(h, l) = Nothing
<1>1. NetSays(h, l) = Nothing
    BY DEF NetSays, Telling
<1>2. SvcSays(h, l) = Nothing
    BY DEF SvcSays, Telling
<1>3. QED BY <1>1, <1>2

LEMMA QuietLines == ASSUME NEW b, \A l \in ToSet(b) : l.k \notin Telling PROVE Quiet(b)
<1>1. \A i \in DOMAIN b : b[i].k \notin Telling
    BY DEF ToSet
<1>2. QED BY <1>1, QuietKind DEF Quiet

(* The lines of an interface. *)
IfaceHead(i) == [k |-> "interface", in |-> FALSE, name |-> MapIface(i.name)]
VlanLine(i) == [k |-> "vlan", in |-> TRUE, v |-> i.vlan]
NameifLine(i) == [k |-> "nameif", in |-> TRUE, v |-> MapZone(i.alias)]
LevelLine(i) == [k |-> "security-level", in |-> TRUE, v |-> IF i.sec = NoLevel THEN GuessLevel(i.alias) ELSE i.sec]
IpLine(v) == [k |-> "ip", in |-> TRUE, ok |-> TRUE, v |-> v]
DownLine == [k |-> "shutdown", in |-> TRUE]
IfaceLine(i, l) ==
    \/ l = IfaceHead(i)
    \/ i.kind = "subif" /\ i.vlan # "" /\ l = VlanLine(i)
    \/ i.alias # "" /\ (l = NameifLine(i) \/ l = LevelLine(i))
    \/ \E v \in ToSet(i.ips) : l = IpLine(v)
    \/ i.shutdown /\ l = DownLine

LEMMA FewSets ==
    /\ ToSet(<<>>) = {} /\ \A a : ToSet(<<a>>) = {a}
    /\ \A a, b : ToSet(<<a, b>>) = {a, b}
<1>1. /\ DOMAIN <<>> = {} /\ \A a : DOMAIN <<a>> = {1} /\ <<a>>[1] = a
      /\ \A a, b : DOMAIN <<a, b>> = {1, 2} /\ <<a, b>>[1] = a /\ <<a, b>>[2] = b
    OBVIOUS
<1>2. QED BY <1>1 DEF ToSet

LEMMA IfaceLines ==
    ASSUME NEW i, IfaceOK(i)
    PROVE  /\ Led(GenInterface(i), IfaceHead(i)) /\ Stops(IfaceHead(i))
           /\ \A l : l \in ToSet(GenInterface(i)) <=> IfaceLine(i, l)
<1> DEFINE head == IfaceHead(i)
           vlan == IF i.kind = "subif" /\ i.vlan # "" THEN <<VlanLine(i)>> ELSE <<>>
           zone == IF i.alias = "" THEN <<>> ELSE <<NameifLine(i), LevelLine(i)>>
           ips == [j \in DOMAIN i.ips |-> IpLine(i.ips[j])]
           down == IF i.shutdown THEN <<DownLine>> ELSE <<>>
           b == GenInterface(i)
<1>1. b = <<head>> \o vlan \o zone \o ips \o down
    BY DEF GenInterface, IfaceHead, VlanLine, NameifLine, LevelLine, IpLine, DownLine
<1>2. IsList(vlan) /\ IsList(zone) /\ IsList(down)
    BY ShortLists, Zenon
<1>3. IsList(ips) /\ DOMAIN ips = DOMAIN i.ips
  <2>1. IsList(ips)
      BY MappedList DEF IfaceOK
  <2>2. QED BY <2>1
<1>4. Under(VlanLine(i)) /\ Under(NameifLine(i)) /\ Under(LevelLine(i)) /\ Under(DownLine) /\ \A v : Under(IpLine(v))
    BY DEF Under, Blank, VlanLine, NameifLine, LevelLine, DownLine, IpLine
<1>5. \A l : l \in ToSet(vlan) <=> i.kind = "subif" /\ i.vlan # "" /\ l = VlanLine(i)
  <2>1. CASE i.kind = "subif" /\ i.vlan # ""
    <3>1. vlan = <<VlanLine(i)>>
        BY <2>1, Zenon
    <3>2. ToSet(vlan) = {VlanLine(i)}
        BY <3>1, FewSets
    <3>3. QED BY <2>1, <3>2
  <2>2. CASE ~(i.kind = "subif" /\ i.vlan # "")
    <3>1. vlan = <<>>
        BY <2>2, Zenon
    <3>2. ToSet(vlan) = {}
        BY <3>1, FewSets
    <3>3. QED BY <2>2, <3>2
  <2>3. QED BY <2>1, <2>2
<1>6. \A l : l \in ToSet(zone) <=> i.alias # "" /\ (l = NameifLine(i) \/ l = LevelLine(i))
  <2>1. CASE i.alias # ""
    <3>1. zone = <<NameifLine(i), LevelLine(i)>>
        BY <2>1, Zenon
    <3>2. ToSet(zone) = {NameifLine(i), LevelLine(i)}
        BY <3>1, FewSets
    <3>3. QED BY <2>1, <3>2
  <2>2. CASE i.alias = ""
    <3>1. zone = <<>>
        BY <2>2, Zenon
    <3>2. ToSet(zone) = {}
        BY <3>1, FewSets
    <3>3. QED BY <2>2, <3>2
  <2>3. QED BY <2>1, <2>2
<1>7. \A l : l \in ToSet(down) <=> i.shutdown /\ l = DownLine
  <2>1. CASE i.shutdown
    <3>1. down = <<DownLine>>
        BY <2>1, Zenon
    <3>2. QED BY <2>1, <3>1, FewSets
  <2>2. CASE ~i.shutdown
    <3>1. down = <<>>
        BY <2>2, Zenon
    <3>2. QED BY <2>2, <3>1, FewSets
  <2>3. QED BY <2>1, <2>2
<1>8. \A l : l \in ToSet(ips) <=> \E v \in ToSet(i.ips) : l = IpLine(v)
  <2>1. \A j \in DOMAIN i.ips : ips[j] = IpLine(i.ips[j])
      OBVIOUS
  <2> HIDE DEF ips
  <2>2. QED BY <1>3, <2>1 DEF ToSet
<1>9. Stops(head)
    BY DEF Stops, Blank, IfaceHead
<1> HIDE DEF head, vlan, zone, ips, down, b
<1>10. Led(<<head>> \o vlan, head) /\ ToSet(<<head>> \o vlan) = {head} \union ToSet(vlan)
  <2>1. Led(<<head>>, head)
      BY LedAlone
  <2>2. ToSet(<<head>>) = {head}
      BY FewSets
  <2>3. \A l \in ToSet(vlan) : Under(l)
      BY <1>4, <1>5
  <2>4. QED BY <1>2, <2>1, <2>2, <2>3, LedGrows
<1>11. /\ Led(<<head>> \o vlan \o zone, head)
       /\ ToSet(<<head>> \o vlan \o zone) = {head} \union ToSet(vlan) \union ToSet(zone)
  <2>1. \A l \in ToSet(zone) : Under(l)
      BY <1>4, <1>6
  <2>2. QED BY <1>2, <1>10, <2>1, LedGrows
<1>12. /\ Led(<<head>> \o vlan \o zone \o ips, head)
       /\ ToSet(<<head>> \o vlan \o zone \o ips) = {head} \union ToSet(vlan) \union ToSet(zone) \union ToSet(ips)
    BY <1>3, <1>4, <1>8, <1>11, LedGrows
<1>13. /\ Led(b, head)
       /\ ToSet(b) = {head} \union ToSet(vlan) \union ToSet(zone) \union ToSet(ips) \union ToSet(down)
    BY <1>1, <1>2, <1>4, <1>7, <1>12, LedGrows
<1>14. ASSUME NEW l PROVE l \in ToSet(b) <=> IfaceLine(i, l)
  <2>1. l \in ToSet(b) <=> l = head \/ l \in ToSet(vlan) \/ l \in ToSet(zone) \/ l \in ToSet(ips) \/ l \in ToSet(down)
      BY <1>13
  <2>2. QED BY <1>5, <1>6, <1>7, <1>8, <2>1, Zenon DEF IfaceLine, head
<1>15. QED BY <1>9, <1>13, <1>14 DEF b, head

LEMMA IfaceQuiet == ASSUME NEW i, IfaceOK(i) PROVE Quiet(GenInterface(i))
<1>1. \A l : IfaceLine(i, l) => l.k \in {"interface", "vlan", "nameif", "security-level", "ip", "shutdown"}
  <2>1. /\ IfaceHead(i).k = "interface" /\ VlanLine(i).k = "vlan" /\ NameifLine(i).k = "nameif"
        /\ LevelLine(i).k = "security-level" /\ DownLine.k = "shutdown" /\ \A v : IpLine(v).k = "ip"
      BY DEF IfaceHead, VlanLine, NameifLine, LevelLine, DownLine, IpLine
  <2>2. QED BY <2>1, Zenon DEF IfaceLine
<1>2. \A l \in ToSet(GenInterface(i)) : l.k \notin Telling
    BY <1>1, IfaceLines DEF Telling
<1>3. QED BY <1>2, QuietLines

LEMMA LinesQuiet ==
    ASSUME NEW c, Wellformed(c)
    PROVE  /\ \A r : Quiet(GenRule(c, r)) /\ Quiet(<<GenRoute(r)>>) /\ Quiet(<<GenNAT(c, r)>>)
           /\ \A j \in 1..Len(GenBindings(c)) : Quiet(<<GenBindings(c)[j]>>)
<1>1. ASSUME NEW r PROVE Quiet(GenRule(c, r))
  <2>1. /\ GenRule(c, r) = <<GenRule(c, r)[1], GenRule(c, r)[2]>>
        /\ GenRule(c, r)[1].k = "remark" /\ GenRule(c, r)[2].k = "ace"
      BY DEF GenRule
  <2>2. \A l \in ToSet(GenRule(c, r)) : l.k \in {"remark", "ace"}
      BY <2>1, FewSets
  <2>3. QED BY <2>2, QuietLines DEF Telling
<1>2. ASSUME NEW l, l.k \notin Telling PROVE Quiet(<<l>>)
    BY <1>2, FewSets, QuietLines
<1>3. \A r : GenRoute(r).k = "route" /\ GenNAT(c, r).k = "nat"
    BY DEF GenRoute, GenNAT
<1>4. \A r : Quiet(<<GenRoute(r)>>) /\ Quiet(<<GenNAT(c, r)>>)
    BY <1>2, <1>3 DEF Telling
<1>5. \A j \in 1..Len(GenBindings(c)) : GenBindings(c)[j].k = "access-group"
    BY MoreBlocks
<1>6. \A j \in 1..Len(GenBindings(c)) : Quiet(<<GenBindings(c)[j]>>)
    BY <1>2, <1>5 DEF Telling
<1>7. QED BY <1>1, <1>4, <1>6

ServiceSays(s) == Says({s.name}, FALSE, FlowsOf(s.proto, Clause(s.sport), Clause(s.port)), {})
SvcMemberSays(g, m) ==
    IF Len(m) = 1 THEN Says({g.name}, TRUE, {}, {m[1]})
    ELSE Says({g.name}, TRUE, FlowsOf(Proto(m), NoClause, Clause(Port(m))), {})

LEMMA PairSays ==
    ASSUME NEW a, NEW l, Stops(a), Under(l)
    PROVE  DOMAIN <<a, l>> = {1, 2} /\ <<a, l>>[1] = a /\ <<a, l>>[2] = l
           /\ Header(<<a, l>>, 1) = a /\ Header(<<a, l>>, 2) = a
<1>1. <<a, l>> # <<>> /\ <<a, l>>[1] = a /\ <<a, l>>[2] = l /\ 2..Len(<<a, l>>) = {2} /\ DOMAIN <<a, l>> = {1, 2}
    OBVIOUS
<1>2. Led(<<a, l>>, a)
    BY <1>1, ShortLists DEF Led
<1>3. QED BY <1>1, <1>2, LedHeader

LEMMA ObjectSaid ==
    ASSUME NEW o
    PROVE  LET b == GenObject(o) IN
           /\ DOMAIN b = {1, 2}
           /\ NetSays(Header(b, 1), b[1]) = Nothing /\ NetSays(Header(b, 2), b[2]) = ObjectSays(o)
           /\ \A i \in DOMAIN b : SvcSays(Header(b, i), b[i]) = Nothing
<1> DEFINE a == [k |-> "object", in |-> FALSE, name |-> o.name]
           l == [k |-> "value", in |-> TRUE, ok |-> TRUE, fam |-> FamilyOf(o.value), v |-> o.value]
<1>1. GenObject(o) = <<a, l>>
    BY DEF GenObject, FamilyOf
<1>2. Stops(a) /\ Under(l) /\ a.k = "object" /\ l.k = "value" /\ a.name = o.name /\ l.v = o.value /\ l.fam = FamilyOf(o.value)
    BY DEF Stops, Blank, Under
<1> HIDE DEF a, l
<1>3. /\ DOMAIN <<a, l>> = {1, 2} /\ <<a, l>>[1] = a /\ <<a, l>>[2] = l
      /\ Header(<<a, l>>, 1) = a /\ Header(<<a, l>>, 2) = a
    BY <1>2, PairSays
<1>4. NetSays(a, a) = Nothing /\ SvcSays(a, a) = Nothing
    BY <1>2, QuietKind DEF Telling
<1>5. NetSays(a, l) = ObjectSays(o)
    BY <1>2 DEF NetSays, ObjectSays
<1>6. SvcSays(a, l) = Nothing
    BY <1>2 DEF SvcSays
<1>7. QED BY <1>1, <1>3, <1>4, <1>5, <1>6

LEMMA ServiceSaid ==
    ASSUME NEW s
    PROVE  LET b == GenService(s) IN
           /\ DOMAIN b = {1, 2}
           /\ SvcSays(Header(b, 1), b[1]) = Nothing /\ SvcSays(Header(b, 2), b[2]) = ServiceSays(s)
           /\ \A i \in DOMAIN b : NetSays(Header(b, i), b[i]) = Nothing
<1> DEFINE a == [k |-> "service", in |-> FALSE, name |-> s.name]
           l == [k |-> "spec", in |-> TRUE, proto |-> s.proto, sport |-> Clause(s.sport), dport |-> Clause(s.port)]
<1>1. GenService(s) = <<a, l>>
    BY DEF GenService
<1>2. /\ Stops(a) /\ Under(l) /\ a.k = "service" /\ l.k = "spec" /\ a.name = s.name
      /\ l.proto = s.proto /\ l.sport = Clause(s.sport) /\ l.dport = Clause(s.port)
    BY DEF Stops, Blank, Under
<1> HIDE DEF a, l
<1>3. /\ DOMAIN <<a, l>> = {1, 2} /\ <<a, l>>[1] = a /\ <<a, l>>[2] = l
      /\ Header(<<a, l>>, 1) = a /\ Header(<<a, l>>, 2) = a
    BY <1>2, PairSays
<1>4. NetSays(a, a) = Nothing /\ SvcSays(a, a) = Nothing
    BY <1>2, QuietKind DEF Telling
<1>5. SvcSays(a, l) = ServiceSays(s)
    BY <1>2 DEF SvcSays, ServiceSays
<1>6. NetSays(a, l) = Nothing
    BY <1>2 DEF NetSays
<1>7. QED BY <1>1, <1>3, <1>4, <1>5, <1>6
-----------------------------------------------------------------------------
(* What a group says that is written.                                       *)
NetHead(g) == [k |-> "object-group", in |-> FALSE, of |-> "network", name |-> g.name]
SvcHead(g) == [k |-> "object-group", in |-> FALSE, of |-> "service", proto |-> "", name |-> g.name]

LEMMA GroupLines ==
    ASSUME NEW c, NEW g, IsList(g.members)
    PROVE  /\ Led(GenNetGroup(c, g), NetHead(g)) /\ Stops(NetHead(g))
           /\ \A l : l \in ToSet(GenNetGroup(c, g)) <=>
                        l = NetHead(g) \/ \E m \in ToSet(g.members) : l \in ToSet(GenMember(c, m))
           /\ Led(GenSvcGroup(c, g), SvcHead(g)) /\ Stops(SvcHead(g))
           /\ \A l : l \in ToSet(GenSvcGroup(c, g)) <=>
                        l = SvcHead(g) \/ \E m \in ToSet(g.members) : l \in ToSet(GenSvcMember(c, m))
<1> DEFINE nets == [j \in DOMAIN g.members |-> GenMember(c, g.members[j])]
           svcs == [j \in DOMAIN g.members |-> GenSvcMember(c, g.members[j])]
           a == NetHead(g)
           b == SvcHead(g)
<1>1. \A m : IsList(GenMember(c, m)) /\ IsList(GenSvcMember(c, m))
    BY ShortLists DEF GenMember, GenSvcMember
<1>2. \A m : \A l \in ToSet(GenMember(c, m)) : Under(l)
    BY DEF GenMember, ToSet, Under, Blank
<1>3. \A m : \A l \in ToSet(GenSvcMember(c, m)) : Under(l)
    BY DEF GenSvcMember, ToSet, Under, Blank
<1>4. IsList(nets) /\ \A j \in DOMAIN nets : IsList(nets[j]) /\ \A l \in ToSet(nets[j]) : Under(l)
    BY <1>1, <1>2, MappedList
<1>5. IsList(svcs) /\ \A j \in DOMAIN svcs : IsList(svcs[j]) /\ \A l \in ToSet(svcs[j]) : Under(l)
    BY <1>1, <1>3, MappedList
<1>6. Stops(a) /\ Stops(b)
    BY DEF Stops, Blank, NetHead, SvcHead
<1>7. GenNetGroup(c, g) = <<a>> \o FlattenSeq(nets) /\ GenSvcGroup(c, g) = <<b>> \o FlattenSeq(svcs)
    BY DEF GenNetGroup, GenSvcGroup, NetHead, SvcHead
<1>8. /\ DOMAIN nets = DOMAIN g.members /\ \A j \in DOMAIN g.members : nets[j] = GenMember(c, g.members[j])
      /\ DOMAIN svcs = DOMAIN g.members /\ \A j \in DOMAIN g.members : svcs[j] = GenSvcMember(c, g.members[j])
    OBVIOUS
<1> HIDE DEF nets, svcs, a, b
<1>9. \A l : l \in ToSet(FlattenSeq(nets)) <=> \E m \in ToSet(g.members) : l \in ToSet(GenMember(c, m))
  <2>1. \A l : l \in ToSet(FlattenSeq(nets)) <=> \E j \in DOMAIN nets : l \in ToSet(nets[j])
      BY <1>4, FlattenHolds
  <2>2. \A m : m \in ToSet(g.members) <=> \E j \in DOMAIN g.members : m = g.members[j]
      BY DEF ToSet
  <2>3. QED BY <1>8, <2>1, <2>2
<1>10. \A l : l \in ToSet(FlattenSeq(svcs)) <=> \E m \in ToSet(g.members) : l \in ToSet(GenSvcMember(c, m))
  <2>1. \A l : l \in ToSet(FlattenSeq(svcs)) <=> \E j \in DOMAIN svcs : l \in ToSet(svcs[j])
      BY <1>5, FlattenHolds
  <2>2. \A m : m \in ToSet(g.members) <=> \E j \in DOMAIN g.members : m = g.members[j]
      BY DEF ToSet
  <2>3. QED BY <1>8, <2>1, <2>2
<1>11. IsList(FlattenSeq(nets)) /\ \A l \in ToSet(FlattenSeq(nets)) : Under(l)
    BY <1>4, FlattenList, FlattenIn
<1>12. IsList(FlattenSeq(svcs)) /\ \A l \in ToSet(FlattenSeq(svcs)) : Under(l)
    BY <1>5, FlattenList, FlattenIn
<1>13. ToSet(<<a>>) = {a} /\ ToSet(<<b>>) = {b} /\ Led(<<a>>, a) /\ Led(<<b>>, b)
    BY FewSets, LedAlone
<1>14. Led(GenNetGroup(c, g), a) /\ ToSet(GenNetGroup(c, g)) = {a} \union ToSet(FlattenSeq(nets))
  <2>1. Led(<<a>> \o FlattenSeq(nets), a) /\ ToSet(<<a>> \o FlattenSeq(nets)) = ToSet(<<a>>) \union ToSet(FlattenSeq(nets))
      BY <1>11, <1>13, LedGrows
  <2>2. QED BY <1>7, <1>13, <2>1
<1>15. Led(GenSvcGroup(c, g), b) /\ ToSet(GenSvcGroup(c, g)) = {b} \union ToSet(FlattenSeq(svcs))
    BY <1>7, <1>12, <1>13, LedGrows
<1>16. \A l : l \in ToSet(GenNetGroup(c, g)) <=> l = a \/ \E m \in ToSet(g.members) : l \in ToSet(GenMember(c, m))
    BY <1>9, <1>14
<1>17. \A l : l \in ToSet(GenSvcGroup(c, g)) <=> l = b \/ \E m \in ToSet(g.members) : l \in ToSet(GenSvcMember(c, m))
    BY <1>10, <1>15
<1>18. QED BY <1>6, <1>14, <1>15, <1>16, <1>17 DEF a, b

LEMMA MemberSaid ==
    ASSUME NEW c, NEW g, NEW m, GenMember(c, m) # <<>>
    PROVE  \E l : /\ ToSet(GenMember(c, m)) = {l}
                  /\ m \notin Prefixes6 => NetSays(NetHead(g), l) = MemberSays(g, m)
                  /\ SvcSays(NetHead(g), l) = Nothing
<1> DEFINE l1 == [k |-> "group-object", in |-> TRUE, v |-> m]
           l2 == [k |-> "network-object", in |-> TRUE, v |-> m]
           l3 == [k |-> "network-object", in |-> TRUE, v |-> Literally(m)]
           h == NetHead(g)
<1>1. GenMember(c, m) = <<l1>> \/ GenMember(c, m) = <<l2>> \/ GenMember(c, m) = <<l3>>
    BY Zenon DEF GenMember
<1>2. /\ l1.k = "group-object" /\ l1.v = m /\ l2.k = "network-object" /\ l2.v = m
      /\ l3.k = "network-object" /\ (m \notin Prefixes6 => l3.v = m)
    BY DEF Literally
<1>3. h.of = "network" /\ h.name = g.name
    BY DEF NetHead
<1> HIDE DEF l1, l2, l3, h
<1>4. ASSUME NEW l, l.k \in {"network-object", "group-object"}, l.v = m
      PROVE  NetSays(h, l) = MemberSays(g, m)
    BY <1>3, <1>4 DEF NetSays, MemberSays
<1>5. ASSUME NEW l, l.k \in {"network-object", "group-object"} PROVE SvcSays(h, l) = Nothing
    BY <1>3, <1>5 DEF SvcSays
<1>6. ToSet(<<l1>>) = {l1} /\ ToSet(<<l2>>) = {l2} /\ ToSet(<<l3>>) = {l3}
    BY FewSets
<1>7. CASE GenMember(c, m) = <<l1>>
  <2>1. NetSays(h, l1) = MemberSays(g, m) /\ SvcSays(h, l1) = Nothing
      BY <1>2, <1>4, <1>5
  <2>2. QED BY <1>6, <1>7, <2>1 DEF h
<1>8. CASE GenMember(c, m) = <<l2>>
  <2>1. NetSays(h, l2) = MemberSays(g, m) /\ SvcSays(h, l2) = Nothing
      BY <1>2, <1>4, <1>5
  <2>2. QED BY <1>6, <1>8, <2>1 DEF h
<1>9. CASE GenMember(c, m) = <<l3>>
  <2>1. (m \notin Prefixes6 => NetSays(h, l3) = MemberSays(g, m)) /\ SvcSays(h, l3) = Nothing
      BY <1>2, <1>4, <1>5
  <2>2. QED BY <1>6, <1>9, <2>1 DEF h
<1>10. QED BY <1>1, <1>7, <1>8, <1>9

LEMMA SvcMemberSaid ==
    ASSUME NEW c, NEW g, NEW m, GenSvcMember(c, m) # <<>>
    PROVE  \E l : /\ ToSet(GenSvcMember(c, m)) = {l} /\ SvcSays(SvcHead(g), l) = SvcMemberSays(g, m)
                  /\ NetSays(SvcHead(g), l) = Nothing
<1> DEFINE l1 == [k |-> "svc-object", in |-> TRUE, v |-> m[1]]
           l2 == [k |-> "group-object", in |-> TRUE, v |-> m[1]]
           l3 == [k |-> "service-object", in |-> TRUE, proto |-> Proto(m), sport |-> NoClause, dport |-> Clause(Port(m))]
           h == SvcHead(g)
<1>1. \/ GenSvcMember(c, m) = <<l1>> /\ Len(m) = 1
      \/ GenSvcMember(c, m) = <<l2>> /\ Len(m) = 1
      \/ GenSvcMember(c, m) = <<l3>> /\ Len(m) # 1
  <2>1. Known(m) => Len(m) # 1
    <3>1. Known(m) => m = <<>> \/ Len(m) = 2
        BY Zenon DEF Known
    <3>2. Len(<<>>) = 0
        OBVIOUS
    <3>3. QED BY <3>1, <3>2
  <2>2. QED BY <2>1, Zenon DEF GenSvcMember, IsSvc, IsSvcGroup
<1>2. /\ l1.k = "svc-object" /\ l1.v = m[1] /\ l2.k = "group-object" /\ l2.v = m[1]
      /\ l3.k = "service-object" /\ l3.proto = Proto(m) /\ l3.sport = NoClause /\ l3.dport = Clause(Port(m))
    OBVIOUS
<1>3. h.of = "service" /\ h.name = g.name
    BY DEF SvcHead
<1> HIDE DEF l1, l2, l3, h
<1>4. ASSUME NEW l, l.k \in {"svc-object", "group-object"}, l.v = m[1], Len(m) = 1
      PROVE  SvcSays(h, l) = SvcMemberSays(g, m)
    BY <1>3, <1>4 DEF SvcSays, SvcMemberSays
<1>5. Len(m) # 1 => SvcSays(h, l3) = SvcMemberSays(g, m)
    BY <1>2, <1>3 DEF SvcSays, SvcMemberSays
<1>6. ASSUME NEW l, l.k \in {"svc-object", "group-object", "service-object"} PROVE NetSays(h, l) = Nothing
    BY <1>3, <1>6 DEF NetSays
<1>7. ToSet(<<l1>>) = {l1} /\ ToSet(<<l2>>) = {l2} /\ ToSet(<<l3>>) = {l3}
    BY FewSets
<1>8. CASE GenSvcMember(c, m) = <<l1>> /\ Len(m) = 1
  <2>1. SvcSays(h, l1) = SvcMemberSays(g, m) /\ NetSays(h, l1) = Nothing
      BY <1>2, <1>4, <1>6, <1>8
  <2>2. QED BY <1>7, <1>8, <2>1 DEF h
<1>9. CASE GenSvcMember(c, m) = <<l2>> /\ Len(m) = 1
  <2>1. SvcSays(h, l2) = SvcMemberSays(g, m) /\ NetSays(h, l2) = Nothing
      BY <1>2, <1>4, <1>6, <1>9
  <2>2. QED BY <1>7, <1>9, <2>1 DEF h
<1>10. CASE GenSvcMember(c, m) = <<l3>> /\ Len(m) # 1
  <2>1. SvcSays(h, l3) = SvcMemberSays(g, m) /\ NetSays(h, l3) = Nothing
      BY <1>2, <1>5, <1>6, <1>10
  <2>2. QED BY <1>7, <1>10, <2>1 DEF h
<1>11. QED BY <1>1, <1>8, <1>9, <1>10

LEMMA NetGroupSaid ==
    ASSUME NEW c, NEW g, IsList(g.members), \A m \in ToSet(g.members) : GenMember(c, m) # <<>>
    PROVE  LET b == GenNetGroup(c, g) IN
           /\ \A i \in DOMAIN b : SvcSays(Header(b, i), b[i]) = Nothing
           /\ (\A m \in ToSet(g.members) : m \notin Prefixes6) =>
                 /\ \A i \in DOMAIN b :
                       \/ NetSays(Header(b, i), b[i]) = Nothing
                       \/ \E m \in ToSet(g.members) : NetSays(Header(b, i), b[i]) = MemberSays(g, m)
                 /\ \A m \in ToSet(g.members) : \E i \in DOMAIN b : NetSays(Header(b, i), b[i]) = MemberSays(g, m)
<1> DEFINE b == GenNetGroup(c, g)
           h == NetHead(g)
<1>1. \A i \in DOMAIN b : Header(b, i) = h
    BY GroupLines, LedHeader
<1>2. \A l : l \in ToSet(b) <=> l = h \/ \E m \in ToSet(g.members) : l \in ToSet(GenMember(c, m))
    BY GroupLines
<1>3. NetSays(h, h) = Nothing /\ SvcSays(h, h) = Nothing
    BY QuietKind DEF Telling, NetHead
<1> HIDE DEF b, h
<1>4. ASSUME NEW i \in DOMAIN b
      PROVE  /\ (\A m \in ToSet(g.members) : m \notin Prefixes6) =>
                    \/ NetSays(h, b[i]) = Nothing
                    \/ \E m \in ToSet(g.members) : NetSays(h, b[i]) = MemberSays(g, m)
             /\ SvcSays(h, b[i]) = Nothing
  <2>1. b[i] \in ToSet(b)
      BY DEF ToSet
  <2>2. CASE b[i] = h
      BY <1>3, <2>2
  <2>3. CASE b[i] # h
    <3>1. PICK m \in ToSet(g.members) : b[i] \in ToSet(GenMember(c, m))
        BY <1>2, <2>1, <2>3
    <3>2. GenMember(c, m) # <<>>
        OBVIOUS
    <3>3. PICK l : /\ ToSet(GenMember(c, m)) = {l}
                   /\ m \notin Prefixes6 => NetSays(h, l) = MemberSays(g, m)
                   /\ SvcSays(h, l) = Nothing
        BY <3>2, MemberSaid, Zenon DEF h
    <3>4. b[i] = l
        BY <3>1, <3>3
    <3>5. QED BY <3>3, <3>4
  <2>4. QED BY <2>2, <2>3
<1>5. ASSUME NEW m \in ToSet(g.members), m \notin Prefixes6 PROVE \E i \in DOMAIN b : NetSays(h, b[i]) = MemberSays(g, m)
  <2>1. PICK l : ToSet(GenMember(c, m)) = {l} /\ NetSays(h, l) = MemberSays(g, m)
      BY <1>5, MemberSaid DEF h
  <2>2. l \in ToSet(b)
      BY <1>2, <2>1
  <2>3. QED BY <2>1, <2>2 DEF ToSet
<1>6. QED BY <1>1, <1>4, <1>5 DEF b

LEMMA SvcGroupSaid ==
    ASSUME NEW c, NEW g, IsList(g.members), \A m \in ToSet(g.members) : GenSvcMember(c, m) # <<>>
    PROVE  LET b == GenSvcGroup(c, g) IN
           /\ \A i \in DOMAIN b :
                 /\ SvcSays(Header(b, i), b[i]) = Nothing
                    \/ \E m \in ToSet(g.members) : SvcSays(Header(b, i), b[i]) = SvcMemberSays(g, m)
                 /\ NetSays(Header(b, i), b[i]) = Nothing
           /\ \A m \in ToSet(g.members) : \E i \in DOMAIN b : SvcSays(Header(b, i), b[i]) = SvcMemberSays(g, m)
<1> DEFINE b == GenSvcGroup(c, g)
           h == SvcHead(g)
<1>1. \A i \in DOMAIN b : Header(b, i) = h
    BY GroupLines, LedHeader
<1>2. \A l : l \in ToSet(b) <=> l = h \/ \E m \in ToSet(g.members) : l \in ToSet(GenSvcMember(c, m))
    BY GroupLines
<1>3. NetSays(h, h) = Nothing /\ SvcSays(h, h) = Nothing
    BY QuietKind DEF Telling, SvcHead
<1> HIDE DEF b, h
<1>4. ASSUME NEW i \in DOMAIN b
      PROVE  /\ SvcSays(h, b[i]) = Nothing \/ \E m \in ToSet(g.members) : SvcSays(h, b[i]) = SvcMemberSays(g, m)
             /\ NetSays(h, b[i]) = Nothing
  <2>1. b[i] \in ToSet(b)
      BY DEF ToSet
  <2>2. CASE b[i] = h
      BY <1>3, <2>2
  <2>3. CASE b[i] # h
    <3>1. PICK m \in ToSet(g.members) : b[i] \in ToSet(GenSvcMember(c, m))
        BY <1>2, <2>1, <2>3
    <3>2. PICK l : /\ ToSet(GenSvcMember(c, m)) = {l} /\ SvcSays(h, l) = SvcMemberSays(g, m)
                   /\ NetSays(h, l) = Nothing
        BY SvcMemberSaid DEF h
    <3>3. b[i] = l
        BY <3>1, <3>2
    <3>4. QED BY <3>2, <3>3
  <2>4. QED BY <2>2, <2>3
<1>5. ASSUME NEW m \in ToSet(g.members) PROVE \E i \in DOMAIN b : SvcSays(h, b[i]) = SvcMemberSays(g, m)
  <2>1. PICK l : ToSet(GenSvcMember(c, m)) = {l} /\ SvcSays(h, l) = SvcMemberSays(g, m)
      BY SvcMemberSaid DEF h
  <2>2. l \in ToSet(b)
      BY <1>2, <2>1
  <2>3. QED BY <2>1, <2>2 DEF ToSet
<1>6. QED BY <1>1, <1>4, <1>5 DEF b
-----------------------------------------------------------------------------
(* What is written gives the names what the context gives them.             *)
SvcLines(t) == [j \in DOMAIN t |-> SvcLine(t, j)]
SvcGiven(c, d) ==
    \/ \E s \in ToSet(c.svcs) : d = ServiceSays(s)
    \/ \E g \in ToSet(c.svcGroups) : \E m \in ToSet(g.members) : d = SvcMemberSays(g, m)
NetsSound(c) ==
    /\ Wellformed(c) /\ NetsWritten(c) = c.nets
    /\ \A g \in ToSet(c.netGroups) : \A m \in ToSet(g.members) : GenMember(c, m) # <<>>
NetsPlain(c) == NetsSound(c) /\ \A g \in ToSet(c.netGroups) : \A m \in ToSet(g.members) : m \notin Prefixes6
SvcsSound(c) ==
    Wellformed(c) /\ \A g \in ToSet(c.svcGroups) : \A m \in ToSet(g.members) : GenSvcMember(c, m) # <<>>

LEMMA NothingGiven ==
    /\ Nothing.names = {} /\ Nothing.refs = {}
    /\ \A o : ObjectSays(o).names = {o.name} /\ ObjectSays(o).refs = {}
    /\ \A g, m : MemberSays(g, m).names = {g.name} /\ MemberSays(g, m).refs \subseteq {m}
    /\ \A s : ServiceSays(s).names = {s.name} /\ ServiceSays(s).refs = {}
    /\ \A g, m : /\ SvcMemberSays(g, m).names = {g.name}
                 /\ SvcMemberSays(g, m).refs = IF Len(m) = 1 THEN {m[1]} ELSE {}
<1>1. Nothing.names = {} /\ Nothing.refs = {}
    BY DEF Nothing, Says
<1>2. ASSUME NEW o PROVE ObjectSays(o).names = {o.name} /\ ObjectSays(o).refs = {}
    BY DEF ObjectSays, Says
<1>3. \A m : RefsOf(m) \subseteq {m}
    BY DEF RefsOf
<1>4. ASSUME NEW g, NEW m PROVE MemberSays(g, m).names = {g.name} /\ MemberSays(g, m).refs \subseteq {m}
  <2>1. MemberSays(g, m).names = {g.name} /\ MemberSays(g, m).refs = RefsOf(m)
      BY DEF MemberSays, Says
  <2>2. QED BY <1>3, <2>1
<1>5. ASSUME NEW s PROVE ServiceSays(s).names = {s.name} /\ ServiceSays(s).refs = {}
    BY DEF ServiceSays, Says
<1>6. ASSUME NEW g, NEW m
      PROVE  /\ SvcMemberSays(g, m).names = {g.name}
             /\ SvcMemberSays(g, m).refs = IF Len(m) = 1 THEN {m[1]} ELSE {}
  <2>1. CASE Len(m) = 1
    <3>1. SvcMemberSays(g, m) = Says({g.name}, TRUE, {}, {m[1]})
        BY <2>1 DEF SvcMemberSays
    <3>2. SvcMemberSays(g, m).names = {g.name} /\ SvcMemberSays(g, m).refs = {m[1]}
        BY <3>1 DEF Says
    <3>3. QED BY <2>1, <3>2
  <2>2. CASE Len(m) # 1
    <3>1. SvcMemberSays(g, m) = Says({g.name}, TRUE, FlowsOf(Proto(m), NoClause, Clause(Port(m))), {})
        BY <2>2 DEF SvcMemberSays
    <3>2. SvcMemberSays(g, m).names = {g.name} /\ SvcMemberSays(g, m).refs = {}
        BY <3>1 DEF Says
    <3>3. QED BY <2>2, <3>2
  <2>3. QED BY <2>1, <2>2
<1>7. QED BY <1>1, <1>2, <1>4, <1>5, <1>6

LEMMA BlockSays ==
    ASSUME NEW c, Wellformed(c), NEW st, NEW p, NEW m, NEW i, OfBlock(c, st, p, m, i)
    PROVE  LET b == Blocks(c)[m] IN
           /\ m \in 1..Len(Blocks(c)) /\ i \in DOMAIN b
           /\ NetLine(GenASA(c), p) = NetSays(Header(b, i), b[i])
           /\ SvcLine(GenASA(c), p) = SvcSays(Header(b, i), b[i])
<1>1. m \in 1..Len(Blocks(c)) /\ i \in 1..Len(Blocks(c)[m])
    BY DEF OfBlock
<1>2. IsList(Blocks(c)[m])
    BY <1>1, Layout DEF Heads, IsList
<1>3. i \in DOMAIN Blocks(c)[m]
    BY <1>1, <1>2 DEF IsList
<1>4. QED BY <1>1, <1>3, LineSays DEF OfBlock

LEMMA NetPlaces ==
    ASSUME NEW c, NetsPlain(c), NEW st, NEW p, NEW m, NEW i, OfBlock(c, st, p, m, i)
    PROVE  LET d == NetLine(GenASA(c), p) IN
           \/ d = Nothing
           \/ \E k \in DOMAIN c.nets : m = IfsEnd(c) + k /\ i = 2 /\ d = ObjectSays(c.nets[k])
           \/ \E k \in DOMAIN c.netGroups :
                 m = SvcsEnd(c) + k /\ \E v \in ToSet(c.netGroups[k].members) : d = MemberSays(c.netGroups[k], v)
<1> DEFINE b == Blocks(c)[m]
           d == NetLine(GenASA(c), p)
<1>1. Wellformed(c) /\ NetsWritten(c) = c.nets
    BY DEF NetsPlain, NetsSound
<1>2. m \in 1..Len(Blocks(c)) /\ i \in DOMAIN b /\ d = NetSays(Header(b, i), b[i])
    BY <1>1, BlockSays
<1>3. PICK k : \/ IfaceAt(c, m, k) \/ ObjectAt(c, m, k) \/ ServiceAt(c, m, k) \/ NetGroupAt(c, m, k)
               \/ SvcGroupAt(c, m, k) \/ RuleAt(c, m, k) \/ BindAt(c, m, k) \/ NatAt(c, m, k) \/ RouteAt(c, m, k)
    BY <1>1, <1>2, BlockAt
<1> HIDE DEF d
<1>4. Quiet(b) => d = Nothing
    BY <1>2 DEF Quiet
<1>5. CASE IfaceAt(c, m, k)
  <2>1. k \in DOMAIN c.ifs /\ b = GenInterface(c.ifs[k]) /\ c.ifs[k] \in ToSet(c.ifs)
      BY <1>5 DEF IfaceAt, ToSet
  <2>2. QED BY <1>1, <1>4, <2>1, IfaceQuiet DEF Wellformed, d
<1>6. CASE ObjectAt(c, m, k)
  <2>1. k \in DOMAIN c.nets /\ b = GenObject(c.nets[k]) /\ m = IfsEnd(c) + k
      BY <1>1, <1>6 DEF ObjectAt
  <2>2. i = 1 \/ i = 2
      BY <1>2, <2>1, ObjectSaid
  <2>3. (i = 1 => d = Nothing) /\ (i = 2 => d = ObjectSays(c.nets[k]))
      BY <1>2, <2>1, ObjectSaid
  <2>4. QED BY <2>1, <2>2, <2>3 DEF d
<1>7. CASE ServiceAt(c, m, k)
  <2>1. b = GenService(c.svcs[k])
      BY <1>7 DEF ServiceAt
  <2>2. QED BY <1>2, <2>1, ServiceSaid DEF d
<1>8. CASE NetGroupAt(c, m, k)
  <2>1. k \in DOMAIN c.netGroups /\ b = GenNetGroup(c, c.netGroups[k]) /\ m = SvcsEnd(c) + k
      BY <1>8 DEF NetGroupAt
  <2>2. c.netGroups[k] \in ToSet(c.netGroups)
      BY <2>1 DEF ToSet
  <2>3. IsList(c.netGroups[k].members) /\ \A v \in ToSet(c.netGroups[k].members) : GenMember(c, v) # <<>> /\ v \notin Prefixes6
      BY <2>2 DEF NetsPlain, NetsSound, Wellformed
  <2>4. d = Nothing \/ \E v \in ToSet(c.netGroups[k].members) : d = MemberSays(c.netGroups[k], v)
      BY <1>2, <2>1, <2>3, NetGroupSaid
  <2>5. QED BY <2>1, <2>4 DEF d
<1>9. CASE SvcGroupAt(c, m, k)
  <2>1. k \in DOMAIN c.svcGroups /\ b = GenSvcGroup(c, c.svcGroups[k])
      BY <1>9 DEF SvcGroupAt
  <2>2. IsList(c.svcGroups[k].members)
      BY <1>1, <2>1 DEF Wellformed, ToSet
  <2>3. Led(b, SvcHead(c.svcGroups[k])) /\ Stops(SvcHead(c.svcGroups[k]))
      BY <2>1, <2>2, GroupLines
  <2>4. d = NetSays(SvcHead(c.svcGroups[k]), b[i])
      BY <1>2, <2>3, LedHeader
  <2>5. b[i].k \notin {"name", "value"}
    <3>1. b[i] \in ToSet(b)
        BY <1>2 DEF ToSet
    <3>2. b[i] = SvcHead(c.svcGroups[k]) \/ \E v \in ToSet(c.svcGroups[k].members) : b[i] \in ToSet(GenSvcMember(c, v))
        BY <2>1, <2>2, <3>1, GroupLines
    <3>3. \A v : \A l \in ToSet(GenSvcMember(c, v)) : l.k \in {"svc-object", "group-object", "service-object"}
        BY DEF GenSvcMember, ToSet
    <3>4. SvcHead(c.svcGroups[k]).k = "object-group"
        BY DEF SvcHead
    <3> HIDE DEF b
    <3>5. QED BY <3>2, <3>3, <3>4
  <2>6. SvcHead(c.svcGroups[k]).of = "service"
      BY DEF SvcHead
  <2> HIDE DEF b
  <2>7. d = Nothing
      BY <2>4, <2>5, <2>6 DEF NetSays
  <2>8. QED BY <2>7 DEF d
<1>10. CASE RuleAt(c, m, k)
  <2>1. b = GenRule(c, c.rules[k])
      BY <1>10 DEF RuleAt
  <2>2. QED BY <1>1, <1>4, <2>1, LinesQuiet DEF d
<1>11. CASE BindAt(c, m, k)
  <2>1. b = <<GenBindings(c)[k]>> /\ k \in DOMAIN GenBindings(c)
      BY <1>11 DEF BindAt
  <2>2. k \in 1..Len(GenBindings(c))
      BY <1>1, <2>1, MoreBlocks DEF IsList
  <2>3. QED BY <1>1, <1>4, <2>1, <2>2, LinesQuiet DEF d
<1>12. CASE NatAt(c, m, k)
  <2>1. b = <<GenNAT(c, c.nats[k])>>
      BY <1>12 DEF NatAt
  <2>2. QED BY <1>1, <1>4, <2>1, LinesQuiet DEF d
<1>13. CASE RouteAt(c, m, k)
  <2>1. b = <<GenRoute(RoutesWritten(c)[k])>>
      BY <1>13 DEF RouteAt
  <2>2. QED BY <1>1, <1>4, <2>1, LinesQuiet DEF d
<1>14. QED BY <1>3, <1>5, <1>6, <1>7, <1>8, <1>9, <1>10, <1>11, <1>12, <1>13

LEMMA WrittenNets ==
    ASSUME NEW c, NetsPlain(c)
    PROVE  \A d : d \in Given(NetLines(GenASA(c))) <=> NetGiven(c, d)
<1> DEFINE t == GenASA(c)
           B == Blocks(c)
<1>1. Wellformed(c) /\ NetsWritten(c) = c.nets
    BY DEF NetsPlain, NetsSound
<1>2. PICK st : /\ \A p \in DOMAIN t : \E m, i : OfBlock(c, st, p, m, i)
                /\ \A m \in 1..Len(B) : \A i \in 1..Len(B[m]) :
                       st[m] + i - 1 \in DOMAIN t /\ OfBlock(c, st, st[m] + i - 1, m, i)
    BY <1>1, WrittenLines
<1>3. \A d : d \in Given(NetLines(t)) <=> d.names # {} /\ \E p \in DOMAIN t : d = NetLine(t, p)
    BY DEF Given, NetLines, ToSet
<1>4. \A m \in 1..Len(B) : IsList(B[m]) /\ DOMAIN B[m] = 1..Len(B[m])
    BY <1>1, Layout DEF Heads, IsList
<1>5. ASSUME NEW m \in 1..Len(B), NEW i \in DOMAIN B[m]
      PROVE  \E p \in DOMAIN t : NetLine(t, p) = NetSays(Header(B[m], i), B[m][i])
  <2>1. st[m] + i - 1 \in DOMAIN t /\ OfBlock(c, st, st[m] + i - 1, m, i)
      BY <1>2, <1>4, <1>5
  <2>2. QED BY <1>1, <2>1, BlockSays
<1> HIDE DEF t, B
<1>6. ASSUME NEW d, NetGiven(c, d) PROVE d \in Given(NetLines(t))
  <2>1. CASE \E o \in ToSet(c.nets) : d = ObjectSays(o)
    <3>1. PICK k \in DOMAIN c.nets : d = ObjectSays(c.nets[k])
        BY <2>1 DEF ToSet
    <3> DEFINE m == IfsEnd(c) + k
    <3>2. m \in 1..Len(B) /\ B[m] = GenObject(c.nets[k])
        BY <1>1, <3>1, BlockAt DEF ObjectAt, B
    <3> HIDE DEF m
    <3>3. 2 \in DOMAIN B[m] /\ NetSays(Header(B[m], 2), B[m][2]) = d
        BY <3>1, <3>2, ObjectSaid
    <3>4. \E p \in DOMAIN t : d = NetLine(t, p)
        BY <1>5, <3>2, <3>3
    <3>5. d.names # {}
        BY <3>1, NothingGiven
    <3>6. QED BY <1>3, <3>4, <3>5
  <2>2. CASE \E g \in ToSet(c.netGroups) : \E v \in ToSet(g.members) : d = MemberSays(g, v)
    <3>1. PICK k \in DOMAIN c.netGroups : \E v \in ToSet(c.netGroups[k].members) : d = MemberSays(c.netGroups[k], v)
      <4>1. PICK g \in ToSet(c.netGroups) : \E v \in ToSet(g.members) : d = MemberSays(g, v)
          BY <2>2
      <4>2. PICK k \in DOMAIN c.netGroups : g = c.netGroups[k]
          BY DEF ToSet
      <4>3. QED BY <4>1, <4>2
    <3> DEFINE m == SvcsEnd(c) + k
               g == c.netGroups[k]
    <3>2. m \in 1..Len(B) /\ B[m] = GenNetGroup(c, g)
        BY <1>1, <3>1, BlockAt DEF NetGroupAt, B
    <3>3. g \in ToSet(c.netGroups)
        BY DEF ToSet
    <3>4. IsList(g.members) /\ \A v \in ToSet(g.members) : GenMember(c, v) # <<>> /\ v \notin Prefixes6
        BY <3>3 DEF NetsPlain, NetsSound, Wellformed
    <3> HIDE DEF m, g
    <3>5. \E i \in DOMAIN B[m] : NetSays(Header(B[m], i), B[m][i]) = d
        BY <3>1, <3>2, <3>4, NetGroupSaid DEF g
    <3>6. \E p \in DOMAIN t : d = NetLine(t, p)
        BY <1>5, <3>2, <3>5
    <3>7. d.names # {}
      <4>1. PICK v : d = MemberSays(c.netGroups[k], v)
          BY <3>1
      <4>2. MemberSays(c.netGroups[k], v).names = {c.netGroups[k].name}
          BY NothingGiven
      <4>3. QED BY <4>1, <4>2
    <3>8. QED BY <1>3, <3>6, <3>7
  <2>3. QED BY <1>6, <2>1, <2>2 DEF NetGiven
<1>7. ASSUME NEW d, d \in Given(NetLines(t)) PROVE NetGiven(c, d)
  <2>1. d.names # {} /\ \E p \in DOMAIN t : d = NetLine(t, p)
      BY <1>3, <1>7
  <2>2. PICK p \in DOMAIN t : d = NetLine(t, p)
      BY <2>1
  <2>3. PICK m, i : OfBlock(c, st, p, m, i)
      BY <1>2 DEF t
  <2>4. d # Nothing
      BY <2>1, NothingGiven
  <2>5. \/ \E k \in DOMAIN c.nets : d = ObjectSays(c.nets[k])
        \/ \E k \in DOMAIN c.netGroups : \E v \in ToSet(c.netGroups[k].members) : d = MemberSays(c.netGroups[k], v)
      BY <2>2, <2>3, <2>4, NetPlaces DEF t
  <2>6. (\A k \in DOMAIN c.nets : c.nets[k] \in ToSet(c.nets))
        /\ \A k \in DOMAIN c.netGroups : c.netGroups[k] \in ToSet(c.netGroups)
      BY DEF ToSet
  <2>7. QED BY <2>5, <2>6 DEF NetGiven
<1>8. QED BY <1>6, <1>7 DEF t
-----------------------------------------------------------------------------
(* Nothing is used before it is defined, in the source and in what is       *)
(* written: single elements before groups, groups in the source's order.    *)
Order(S, G, R) ==
    /\ \A i, j \in DOMAIN S : S[i].name = S[j].name => i = j
    /\ \A i \in DOMAIN S : \A j \in DOMAIN G : G[j].members # <<>> => S[i].name # G[j].name
    /\ \A i, j \in DOMAIN G : G[i].members # <<>> /\ G[i].name \in R[j] => i < j
Telt(d, S, G, R, a, b, m, i) ==
    \/ d.names = {} /\ d.refs = {}
    \/ \E k \in DOMAIN S : m = a + k /\ i = 2 /\ d.names = {S[k].name} /\ d.refs = {}
    \/ \E k \in DOMAIN G : /\ m = b + k /\ d.names = {G[k].name} /\ d.refs \subseteq R[k]
                           /\ G[k].members # <<>> /\ d.adds

LEMMA TurnByPlace ==
    ASSUME NEW c, NEW st, NEW D, NEW S, NEW G, NEW R, NEW a \in Nat, NEW b \in Nat, Order(S, G, R),
           IsList(S), IsList(G), a + Len(S) <= b,
           \A p \in DOMAIN D : \E m, i : OfBlock(c, st, p, m, i) /\ Telt(D[p], S, G, R, a, b, m, i),
           \A p, q, m, i, n, k : OfBlock(c, st, p, m, i) /\ OfBlock(c, st, q, n, k) /\ m < n => p < q
    PROVE  InTurn(D)
<1>1. /\ Len(S) \in Nat /\ DOMAIN S = 1..Len(S) /\ Len(G) \in Nat /\ DOMAIN G = 1..Len(G)
    BY DEF IsList
<1>2. SUFFICES ASSUME NEW p \in DOMAIN D, NEW q \in DOMAIN D
               PROVE  /\ D[p].names \intersect D[q].names # {} => p = q \/ (D[p].adds /\ D[q].adds)
                      /\ D[p].names \intersect D[q].refs # {} => p < q
    BY DEF InTurn
<1>3. PICK m, i : OfBlock(c, st, p, m, i) /\ Telt(D[p], S, G, R, a, b, m, i)
    OBVIOUS
<1>4. PICK n, k : OfBlock(c, st, q, n, k) /\ Telt(D[q], S, G, R, a, b, n, k)
    OBVIOUS
<1>5. m < n => p < q
    BY <1>3, <1>4
<1> DEFINE Single(d, u, v, e) == e \in DOMAIN S /\ u = a + e /\ v = 2 /\ d.names = {S[e].name} /\ d.refs = {}
           Several(d, u, e) == /\ e \in DOMAIN G /\ u = b + e /\ d.names = {G[e].name} /\ d.refs \subseteq R[e]
                               /\ G[e].members # <<>> /\ d.adds
<1>6. D[p].names = {} \/ (\E e : Single(D[p], m, i, e)) \/ (\E e : Several(D[p], m, e))
    BY <1>3 DEF Telt
<1>7. (D[q].names = {} /\ D[q].refs = {}) \/ (\E e : Single(D[q], n, k, e)) \/ (\E e : Several(D[q], n, e))
    BY <1>4 DEF Telt
<1>8. ASSUME D[p].names \intersect D[q].names # {} PROVE p = q \/ (D[p].adds /\ D[q].adds)
  <2>1. ASSUME NEW e, Single(D[p], m, i, e), NEW f, Single(D[q], n, k, f) PROVE p = q
    <3>1. S[e].name = S[f].name
        BY <1>8, <2>1
    <3>2. e = f
        BY <2>1, <3>1 DEF Order
    <3>3. m = n /\ i = k
        BY <2>1, <3>2
    <3>4. QED BY <1>3, <1>4, <3>3 DEF OfBlock
  <2>2. ASSUME NEW e, Single(D[p], m, i, e), NEW f, Several(D[q], n, f) PROVE FALSE
    <3>1. S[e].name = G[f].name
        BY <1>8, <2>2
    <3>2. QED BY <2>2, <3>1 DEF Order
  <2>3. ASSUME NEW e, Several(D[p], m, e), NEW f, Single(D[q], n, k, f) PROVE FALSE
    <3>1. S[f].name = G[e].name
        BY <1>8, <2>3
    <3>2. QED BY <2>3, <3>1 DEF Order
  <2>4. ASSUME NEW e, Several(D[p], m, e), NEW f, Several(D[q], n, f) PROVE D[p].adds /\ D[q].adds
      BY <2>4
  <2>5. D[p].names # {} /\ D[q].names # {}
      BY <1>8
  <2> HIDE DEF Single, Several
  <2>6. QED BY <1>6, <1>7, <2>1, <2>2, <2>3, <2>4, <2>5
<1>9. ASSUME D[p].names \intersect D[q].refs # {} PROVE p < q
  <2>1. ASSUME NEW e, Single(D[p], m, i, e), NEW f, Several(D[q], n, f) PROVE m < n
      BY <1>1, <2>1
  <2>2. ASSUME NEW e, Several(D[p], m, e), NEW f, Several(D[q], n, f) PROVE m < n
    <3>1. G[e].name \in R[f]
        BY <1>9, <2>2
    <3>2. e < f
        BY <2>2, <3>1 DEF Order
    <3>3. QED BY <1>1, <2>2, <3>2
  <2>3. \A e : ~Single(D[q], n, k, e)
      BY <1>9
  <2>4. D[p].names # {} /\ D[q].refs # {}
      BY <1>9
  <2> HIDE DEF Single, Several
  <2>5. QED BY <1>5, <1>6, <1>7, <2>1, <2>2, <2>3, <2>4
<1>10. QED BY <1>8, <1>9

NetOrder(c) == Order(c.nets, c.netGroups, [j \in DOMAIN c.netGroups |-> ToSet(c.netGroups[j].members)])
RefsIn(ms) == {m[1] : m \in {n \in ToSet(ms) : Len(n) = 1}}
SvcOrder(c) == Order(c.svcs, c.svcGroups, [j \in DOMAIN c.svcGroups |-> RefsIn(c.svcGroups[j].members)])

LEMMA WrittenNetsTurn ==
    ASSUME NEW c, NetsPlain(c), NetOrder(c)
    PROVE  InTurn(NetLines(GenASA(c)))
<1> DEFINE t == GenASA(c)
           D == NetLines(t)
           S == c.nets
           G == c.netGroups
           R == [j \in DOMAIN c.netGroups |-> ToSet(c.netGroups[j].members)]
           a == IfsEnd(c)
           b == SvcsEnd(c)
<1>1. Wellformed(c) /\ NetsWritten(c) = c.nets
    BY DEF NetsPlain, NetsSound
<1>2. PICK st : /\ \A p \in DOMAIN t : \E m, i : OfBlock(c, st, p, m, i)
                /\ \A p, q, m, i, n, k : OfBlock(c, st, p, m, i) /\ OfBlock(c, st, q, n, k) /\ m < n => p < q
    BY <1>1, WrittenLines
<1>3. a \in Nat /\ b \in Nat /\ a + Len(S) <= b /\ IsList(S) /\ IsList(G)
  <2>1. a \in Nat /\ b \in Nat /\ IsList(S) /\ IsList(G)
      BY <1>1, Places DEF Wellformed
  <2>2. Len(NetBlocks(c)) = Len(S) /\ Len(SvcBlocks(c)) \in Nat
      BY <1>1, BlocksOf DEF IsList
  <2>3. Len(S) \in Nat
      BY <2>1 DEF IsList
  <2>4. b = a + Len(S) + Len(SvcBlocks(c))
      BY <2>2 DEF SvcsEnd, NetsEnd
  <2> HIDE DEF a, b, S
  <2>5. QED BY <2>1, <2>2, <2>3, <2>4
<1>4. Order(S, G, R)
    BY DEF NetOrder
<1>5. DOMAIN D = DOMAIN t /\ \A p \in DOMAIN t : D[p] = NetLine(t, p)
    BY DEF NetLines
<1>6. ASSUME NEW p \in DOMAIN D PROVE \E m, i : OfBlock(c, st, p, m, i) /\ Telt(D[p], S, G, R, a, b, m, i)
  <2>1. PICK m, i : OfBlock(c, st, p, m, i)
      BY <1>2, <1>5
  <2>2. \/ D[p] = Nothing
        \/ \E k \in DOMAIN S : m = a + k /\ i = 2 /\ D[p] = ObjectSays(S[k])
        \/ \E k \in DOMAIN G : m = b + k /\ \E v \in ToSet(G[k].members) : D[p] = MemberSays(G[k], v)
      BY <1>5, <2>1, NetPlaces
  <2>3. CASE D[p] = Nothing
      BY <2>1, <2>3, NothingGiven DEF Telt
  <2>4. CASE \E k \in DOMAIN S : m = a + k /\ i = 2 /\ D[p] = ObjectSays(S[k])
      BY <2>1, <2>4, NothingGiven DEF Telt
  <2>5. CASE \E k \in DOMAIN G : m = b + k /\ \E v \in ToSet(G[k].members) : D[p] = MemberSays(G[k], v)
    <3>1. PICK k \in DOMAIN G : m = b + k /\ \E v \in ToSet(G[k].members) : D[p] = MemberSays(G[k], v)
        BY <2>5
    <3>2. PICK v \in ToSet(G[k].members) : D[p] = MemberSays(G[k], v)
        BY <3>1
    <3>3. MemberSays(G[k], v).names = {G[k].name} /\ MemberSays(G[k], v).refs \subseteq {v}
        BY NothingGiven
    <3>4. R[k] = ToSet(G[k].members) /\ G[k].members # <<>>
        BY FewSets
    <3>5. D[p].adds
      <4>1. D[p] = Says({G[k].name}, TRUE, HostsOf(<<>>, v), RefsOf(v))
          BY <3>2 DEF MemberSays
      <4>2. QED BY <4>1 DEF Says
    <3> HIDE DEF D, R, S, G, a, b
    <3>6. D[p].names = {G[k].name} /\ D[p].refs \subseteq R[k]
        BY <3>2, <3>3, <3>4
    <3>7. QED BY <2>1, <3>1, <3>4, <3>5, <3>6 DEF Telt
  <2>6. QED BY <2>2, <2>3, <2>4, <2>5
<1> HIDE DEF D, R, S, G, a, b
<1>7. InTurn(D)
    BY <1>2, <1>3, <1>4, <1>6, TurnByPlace
<1>8. QED BY <1>7 DEF D

(* In the source, what a line says stands by the premise on names.          *)
Tells(t, j, d) ==
    \/ d.names = {} /\ d.refs = {}
    \/ /\ Defines(t[j]) /\ d.names = {NameAt(t, j)}
       /\ d.refs = {} \/ (Uses(t[j]) /\ d.refs \subseteq {t[j].v})
       /\ t[j].k \in Members => d.adds

LEMMA SourceTurn ==
    ASSUME NEW t, IsList(t), Running(t), NEW D, DOMAIN D = DOMAIN t, \A j \in DOMAIN t : Tells(t, j, D[j])
    PROVE  InTurn(D)
<1>1. Nested(t) /\ DOMAIN t \subseteq Nat
    BY DEF Running, IsList
<1>2. SUFFICES ASSUME NEW p \in DOMAIN t, NEW q \in DOMAIN t
               PROVE  /\ D[p].names \intersect D[q].names # {} => p = q \/ (D[p].adds /\ D[q].adds)
                      /\ D[p].names \intersect D[q].refs # {} => p < q
    BY DEF InTurn
<1>3. Tells(t, p, D[p]) /\ Tells(t, q, D[q])
    OBVIOUS
<1>4. ASSUME D[p].names \intersect D[q].names # {} PROVE p = q \/ (D[p].adds /\ D[q].adds)
  <2>1. Defines(t[p]) /\ Defines(t[q]) /\ NameAt(t, p) = NameAt(t, q)
      BY <1>3, <1>4 DEF Tells
  <2>2. p = q \/ (t[p].k \in Members /\ t[q].k \in Members)
      BY <2>1 DEF Running
  <2>3. (t[p].k \in Members => D[p].adds) /\ (t[q].k \in Members => D[q].adds)
      BY <1>3, <1>4 DEF Tells
  <2>4. QED BY <2>2, <2>3
<1>5. ASSUME D[p].names \intersect D[q].refs # {} PROVE p < q
  <2>1. Defines(t[p]) /\ Uses(t[q]) /\ NameAt(t, p) = t[q].v
      BY <1>3, <1>5 DEF Tells
  <2>2. p < HeaderAt(t, q)
      BY <2>1 DEF Running
  <2>3. HeaderAt(t, q) < q /\ HeaderAt(t, q) \in DOMAIN t
      BY <1>1, <2>1, PartAt DEF Uses, Parts, Members
  <2>4. QED BY <1>1, <2>2, <2>3
<1>6. QED BY <1>4, <1>5

LEMMA SourceNetsTurn == ASSUME NEW t, IsList(t), Running(t) PROVE InTurn(NetLines(t))
<1>1. DOMAIN NetLines(t) = DOMAIN t /\ \A j \in DOMAIN t : NetLines(t)[j] = NetLine(t, j)
    BY DEF NetLines
<1>2. ASSUME NEW j \in DOMAIN t PROVE Tells(t, j, NetLine(t, j))
  <2>1. CASE t[j].k = "name"
    <3>1. NetLine(t, j) = Says({t[j].name}, FALSE, Covers[t[j].v], {})
        BY <2>1, NetLineIs
    <3>2. NetLine(t, j).names = {t[j].name} /\ NetLine(t, j).refs = {}
        BY <3>1 DEF Says
    <3>3. Defines(t[j]) /\ NameAt(t, j) = t[j].name /\ t[j].k \notin Members
        BY <2>1 DEF Defines, NameAt, Members
    <3>4. QED BY <3>2, <3>3 DEF Tells
  <2>2. CASE t[j].k = "value"
    <3>1. NetLine(t, j) = Says({Header(t, j).name}, FALSE, InFamily(t[j].fam, Covers[t[j].v]), {})
        BY <2>2, NetLineIs
    <3>2. NetLine(t, j).names = {Header(t, j).name} /\ NetLine(t, j).refs = {}
        BY <3>1 DEF Says
    <3>3. Defines(t[j]) /\ NameAt(t, j) = Header(t, j).name /\ t[j].k \notin Members
        BY <2>2 DEF Defines, NameAt, Members
    <3>4. QED BY <3>2, <3>3 DEF Tells
  <2>3. CASE NetMember(t, j)
    <3>1. NetLine(t, j) = Says({Header(t, j).name}, TRUE, HostsOf(<<>>, t[j].v), RefsOf(t[j].v))
        BY <2>3, NetLineIs
    <3>2. NetLine(t, j).names = {Header(t, j).name} /\ NetLine(t, j).refs = RefsOf(t[j].v)
        BY <3>1 DEF Says
    <3>3. NetLine(t, j).adds
        BY <3>1 DEF Says
    <3>4. Defines(t[j]) /\ NameAt(t, j) = Header(t, j).name /\ Uses(t[j])
        BY <2>3 DEF Defines, NameAt, Members, NetMember, Uses
    <3>5. RefsOf(t[j].v) \subseteq {t[j].v}
        BY DEF RefsOf
    <3>6. QED BY <3>2, <3>3, <3>4, <3>5 DEF Tells
  <2>4. CASE t[j].k \notin {"name", "value"} /\ ~NetMember(t, j)
    <3>1. NetLine(t, j) = Nothing
        BY <2>4, NetLineIs
    <3>2. QED BY <3>1, NothingGiven DEF Tells
  <2>5. QED BY <2>1, <2>2, <2>3, <2>4
<1>3. QED BY <1>1, <1>2, SourceTurn

(* Where the elements of the context are defined in the source. *)
LEMMA NetDefined ==
    ASSUME NEW t, NEW c, ReadAll(t, c), NEW o \in ToSet(c.nets)
    PROVE  \E q \in DOMAIN t : /\ Defines(t[q]) /\ NameAt(t, q) = o.name /\ t[q].k \notin Members
                               /\ o.line = IF t[q].k = "name" THEN q ELSE HeaderAt(t, q)
<1>1. IsList(t) /\ Nested(t)
    BY DEF ReadAll
<1>2. PICK h \in DOMAIN t : o \in NetsOf(t, h)
    BY AllHeld
<1>3. CASE t[h].k = "name"
  <2>1. o.name = t[h].name /\ o.line = h
      BY <1>2, <1>3 DEF NetsOf
  <2>2. QED BY <1>3, <2>1 DEF Defines, NameAt, Members
<1>4. CASE t[h].k # "name"
  <2>1. t[h].k = "object" /\ ValuesIn(t, h) # <<>> /\ o.name = t[h].name /\ o.line = h
      BY <1>2, <1>4 DEF NetsOf
  <2>2. Stops(t[h])
      BY <1>1, <2>1 DEF Nested, Stops, Blank, Commands
  <2>3. IsList(ValuesIn(t, h)) /\ ToSet(ValuesIn(t, h)) = {l \in ToSet(Body(t, h)) : l.k = "value" /\ l.ok}
      BY <1>1, BodyList, ReadablePicked DEF ValuesIn
  <2>4. Last(ValuesIn(t, h)) \in ToSet(Body(t, h)) /\ Last(ValuesIn(t, h)).k = "value"
      BY <2>1, <2>3, LastIn
  <2>5. PICK q \in DOMAIN t : HeaderAt(t, q) = h /\ Last(ValuesIn(t, h)) = t[q]
      BY <1>1, <2>2, <2>4, BlockLines
  <2>6. QED BY <2>1, <2>4, <2>5 DEF Defines, NameAt, Members, Header
<1>5. QED BY <1>3, <1>4

LEMMA NetMemberDefined ==
    ASSUME NEW t, NEW c, ReadAll(t, c), NEW g \in ToSet(c.netGroups), NEW m \in ToSet(g.members)
    PROVE  \E q \in DOMAIN t : /\ t[q].k \in Members /\ Defines(t[q]) /\ Uses(t[q]) /\ t[q].v = m
                               /\ HeaderAt(t, q) = g.line /\ NameAt(t, q) = g.name /\ g.line < q
<1>1. IsList(t) /\ Nested(t)
    BY DEF ReadAll
<1>2. PICK h \in DOMAIN t : g \in NetGroupsOf(t, h)
    BY AllHeld
<1>3. /\ t[h].k = "object-group" /\ t[h].of = "network" /\ g.line = h
      /\ g.name = t[h].name /\ g.members = ParseNetMembers(Body(t, h))
    BY <1>2 DEF NetGroupsOf
<1>4. Stops(t[h])
    BY <1>1, <1>3 DEF Nested, Stops, Blank, Commands
<1>5. PICK q \in DOMAIN t : h < q /\ HeaderAt(t, q) = h /\ NetMember(t, q) /\ m = t[q].v
    BY <1>1, <1>3, <1>4, NetMembersAre
<1>6. t[q].k \in Members /\ Defines(t[q]) /\ Uses(t[q])
    BY <1>5 DEF NetMember, Members, Defines, Uses
<1>7. NameAt(t, q) = g.name
    BY <1>3, <1>5 DEF NameAt, Header, NetMember
<1>8. QED BY <1>3, <1>5, <1>6, <1>7

LEMMA LineNumbers ==
    ASSUME NEW t, NEW c, ReadAll(t, c)
    PROVE  /\ \A e \in ToSet(c.nets) : e.line \in Nat
           /\ \A e \in ToSet(c.svcs) : e.line \in Nat
           /\ \A e \in ToSet(c.netGroups) : e.line \in Nat
           /\ \A e \in ToSet(c.svcGroups) : e.line \in Nat
           /\ \A e \in ToSet(c.routes) : e.line \in Nat
           /\ DOMAIN c.nets \subseteq Nat /\ DOMAIN c.svcs \subseteq Nat /\ DOMAIN c.netGroups \subseteq Nat
           /\ DOMAIN c.svcGroups \subseteq Nat /\ DOMAIN c.routes \subseteq Nat
<1>1. /\ IsList(t) /\ IsList(c.nets) /\ IsList(c.svcs) /\ IsList(c.netGroups) /\ IsList(c.svcGroups) /\ IsList(c.routes)
    BY DEF ReadAll, Wellformed
<1>2. /\ DOMAIN c.nets \subseteq Nat /\ DOMAIN c.svcs \subseteq Nat /\ DOMAIN c.netGroups \subseteq Nat
      /\ DOMAIN c.svcGroups \subseteq Nat /\ DOMAIN c.routes \subseteq Nat /\ DOMAIN t \subseteq Nat
  <2>1. \A s : IsList(s) => DOMAIN s \subseteq Nat
      BY DEF IsList
  <2>2. QED BY <1>1, <2>1
<1>3. ASSUME NEW e \in ToSet(c.nets) PROVE e.line \in Nat
  <2>1. PICK j \in DOMAIN t : e \in NetsOf(t, j)
      BY AllHeld
  <2>2. QED BY <1>2, <2>1 DEF NetsOf
<1>4. ASSUME NEW e \in ToSet(c.svcs) PROVE e.line \in Nat
  <2>1. PICK j \in DOMAIN t : e \in SvcsOf(t, j)
      BY AllHeld
  <2>2. QED BY <1>2, <2>1 DEF SvcsOf
<1>5. ASSUME NEW e \in ToSet(c.netGroups) PROVE e.line \in Nat
  <2>1. PICK j \in DOMAIN t : e \in NetGroupsOf(t, j)
      BY AllHeld
  <2>2. QED BY <1>2, <2>1 DEF NetGroupsOf
<1>6. ASSUME NEW e \in ToSet(c.svcGroups) PROVE e.line \in Nat
  <2>1. PICK j \in DOMAIN t : e \in SvcGroupsOf(t, j)
      BY AllHeld
  <2>2. QED BY <1>2, <2>1 DEF SvcGroupsOf
<1>7. ASSUME NEW e \in ToSet(c.routes) PROVE e.line \in Nat
  <2>1. PICK j \in DOMAIN t : e \in RoutesAt(t, j)
      BY AllHeld
  <2>2. QED BY <1>2, <2>1 DEF RoutesAt
<1>8. QED BY <1>2, <1>3, <1>4, <1>5, <1>6, <1>7

LEMMA ByLine ==
    ASSUME NEW s, DOMAIN s \subseteq Nat, InOrder(s), \A e \in ToSet(s) : e.line \in Nat,
           NEW i \in DOMAIN s, NEW j \in DOMAIN s
    PROVE  /\ s[i].line = s[j].line => i = j
           /\ s[i].line < s[j].line => i < j
<1>1. s[i].line \in Nat /\ s[j].line \in Nat /\ i \in Nat /\ j \in Nat
    BY DEF ToSet
<1>2. i < j => s[i].line < s[j].line
    BY DEF InOrder
<1>3. j < i => s[j].line < s[i].line
    BY DEF InOrder
<1>4. QED BY <1>1, <1>2, <1>3

LEMMA SourceNetOrder == ASSUME NEW t, NEW c, ReadAll(t, c), Running(t) PROVE NetOrder(c)
<1> DEFINE R == [j \in DOMAIN c.netGroups |-> ToSet(c.netGroups[j].members)]
<1>1. /\ DOMAIN c.nets \subseteq Nat /\ DOMAIN c.netGroups \subseteq Nat /\ InOrder(c.nets) /\ InOrder(c.netGroups)
      /\ (\A e \in ToSet(c.nets) : e.line \in Nat) /\ (\A e \in ToSet(c.netGroups) : e.line \in Nat)
    BY LineNumbers, AllHeld
<1>2. /\ \A i \in DOMAIN c.nets : c.nets[i] \in ToSet(c.nets)
      /\ \A i \in DOMAIN c.netGroups : c.netGroups[i] \in ToSet(c.netGroups)
    BY DEF ToSet
<1>3. ASSUME NEW g \in ToSet(c.netGroups), g.members # <<>> PROVE \E m : m \in ToSet(g.members)
  <2>1. IsList(g.members)
      BY DEF ReadAll, Wellformed
  <2>2. QED BY <1>3, <2>1, EmptyPicked
<1>4. ASSUME NEW i \in DOMAIN c.nets, NEW j \in DOMAIN c.nets, c.nets[i].name = c.nets[j].name PROVE i = j
  <2>1. PICK p \in DOMAIN t : /\ Defines(t[p]) /\ NameAt(t, p) = c.nets[i].name /\ t[p].k \notin Members
                              /\ c.nets[i].line = IF t[p].k = "name" THEN p ELSE HeaderAt(t, p)
      BY <1>2, NetDefined
  <2>2. PICK q \in DOMAIN t : /\ Defines(t[q]) /\ NameAt(t, q) = c.nets[j].name /\ t[q].k \notin Members
                              /\ c.nets[j].line = IF t[q].k = "name" THEN q ELSE HeaderAt(t, q)
      BY <1>2, NetDefined
  <2>3. p = q
      BY <1>4, <2>1, <2>2 DEF Running
  <2>4. c.nets[i].line = c.nets[j].line
      BY <2>1, <2>2, <2>3
  <2>5. QED BY <1>1, <2>4, ByLine
<1>5. ASSUME NEW i \in DOMAIN c.nets, NEW j \in DOMAIN c.netGroups, c.netGroups[j].members # <<>>
      PROVE  c.nets[i].name # c.netGroups[j].name
  <2>1. PICK p \in DOMAIN t : Defines(t[p]) /\ NameAt(t, p) = c.nets[i].name /\ t[p].k \notin Members
      BY <1>2, NetDefined
  <2>2. PICK m : m \in ToSet(c.netGroups[j].members)
      BY <1>2, <1>3, <1>5
  <2>3. PICK q \in DOMAIN t : t[q].k \in Members /\ Defines(t[q]) /\ NameAt(t, q) = c.netGroups[j].name
      BY <1>2, <2>2, NetMemberDefined
  <2>4. QED BY <2>1, <2>3 DEF Running
<1>6. ASSUME NEW i \in DOMAIN c.netGroups, NEW j \in DOMAIN c.netGroups, c.netGroups[i].members # <<>>,
             c.netGroups[i].name \in R[j]
      PROVE  i < j
  <2>1. PICK m : m \in ToSet(c.netGroups[i].members)
      BY <1>2, <1>3, <1>6
  <2>2. PICK p \in DOMAIN t : Defines(t[p]) /\ NameAt(t, p) = c.netGroups[i].name /\ c.netGroups[i].line < p
      BY <1>2, <2>1, NetMemberDefined
  <2>3. c.netGroups[i].name \in ToSet(c.netGroups[j].members)
      BY <1>6
  <2>4. PICK q \in DOMAIN t : Uses(t[q]) /\ t[q].v = c.netGroups[i].name /\ HeaderAt(t, q) = c.netGroups[j].line
      BY <1>2, <2>3, NetMemberDefined
  <2>5. p < c.netGroups[j].line
      BY <2>2, <2>4 DEF Running
  <2>6. c.netGroups[i].line \in Nat /\ c.netGroups[j].line \in Nat /\ p \in Nat
      BY <1>1, <1>2 DEF ReadAll, IsList
  <2>7. c.netGroups[i].line < c.netGroups[j].line
      BY <2>2, <2>5, <2>6
  <2>8. QED BY <1>1, <2>7, ByLine
<1>7. QED BY <1>4, <1>5, <1>6 DEF NetOrder, Order
-----------------------------------------------------------------------------
(* What the lines of the source give to the names of services.              *)
SvcMember(t, j) ==
    \/ t[j].k \in {"port-object", "service-object"}
    \/ t[j].k \in {"svc-object", "group-object"} /\ Header(t, j).of = "service"

LEMMA SvcLineIs ==
    ASSUME NEW t, NEW j
    PROVE  LET h == Header(t, j) l == t[j] IN
           /\ l.k = "spec" => SvcLine(t, j) = Says({h.name}, FALSE, FlowsOf(l.proto, l.sport, l.dport), {})
           /\ l.k = "port-object" => SvcLine(t, j) = Says({h.name}, TRUE, FlowsOf(h.proto, NoClause, l.dport), {})
           /\ l.k = "service-object" => SvcLine(t, j) = Says({h.name}, TRUE, FlowsOf(l.proto, l.sport, l.dport), {})
           /\ l.k \in {"svc-object", "group-object"} /\ h.of = "service" => SvcLine(t, j) = Says({h.name}, TRUE, {}, {l.v})
           /\ l.k # "spec" /\ ~SvcMember(t, j) => SvcLine(t, j) = Nothing
<1> DEFINE h == Header(t, j)
           l == t[j]
<1>1. l.k = "spec" => SvcLine(t, j) = Says({h.name}, FALSE, FlowsOf(l.proto, l.sport, l.dport), {})
    BY DEF SvcLine
<1>2. l.k = "port-object" => SvcLine(t, j) = Says({h.name}, TRUE, FlowsOf(h.proto, NoClause, l.dport), {})
    BY DEF SvcLine
<1>3. l.k = "service-object" => SvcLine(t, j) = Says({h.name}, TRUE, FlowsOf(l.proto, l.sport, l.dport), {})
    BY DEF SvcLine
<1>4. l.k \in {"svc-object", "group-object"} /\ h.of = "service" => SvcLine(t, j) = Says({h.name}, TRUE, {}, {l.v})
    BY DEF SvcLine
<1>5. l.k # "spec" /\ ~SvcMember(t, j) => SvcLine(t, j) = Nothing
    BY DEF SvcLine, SvcMember
<1>6. QED BY <1>1, <1>2, <1>3, <1>4, <1>5

(* A clause that is read and written again means the same. *)
LEMMA ClauseKept ==
    ASSUME NEW c, PlainClause(c), Worded(c), NEW port
    PROVE  InClause(port, Clause(ParsePortSpec(c))) <=> InClause(port, c)
<1>1. CASE c.op = "none"
  <2>1. Clause(ParsePortSpec(c)).op = "none"
      BY <1>1 DEF ParsePortSpec, Clause
  <2>2. QED BY <1>1, <2>1 DEF InClause
<1>2. CASE c.op \in {"eq", "range"}
  <2>1. ParsePortSpec(c) = c.v /\ c.v # ""
      BY <1>2 DEF ParsePortSpec, Worded
  <2>2. Clause(c.v).op = "eq" /\ Clause(c.v).v = c.v
      BY <2>1 DEF Clause
  <2>3. QED BY <1>2, <2>1, <2>2 DEF InClause
<1>3. QED BY <1>1, <1>2 DEF PlainClause

LEMMA FlowsSame ==
    ASSUME NEW p, NEW a, NEW b, NEW c, NEW d,
           \A port : InClause(port, a) <=> InClause(port, c), \A port : InClause(port, b) <=> InClause(port, d)
    PROVE  FlowsOf(p, a, b) = FlowsOf(p, c, d)
BY DEF FlowsOf

(* What of a member of a service group is kept, and what of a service. *)
LEMMA ServiceKept ==
    ASSUME NEW t, IsList(t), Running(t), PlainServices(t), NEW j \in DOMAIN t, t[j].k = "spec",
           NEW s, s.name = Header(t, j).name, s.proto = t[j].proto,
           s.sport = ParsePortSpec(t[j].sport), s.port = ParsePortSpec(t[j].dport)
    PROVE  SvcLine(t, j) = ServiceSays(s)
<1>1. PlainClause(t[j].sport) /\ PlainClause(t[j].dport) /\ Worded(t[j].sport) /\ Worded(t[j].dport)
    BY DEF PlainServices, PlainService, Running, Spoken
<1>2. /\ \A port : InClause(port, Clause(s.sport)) <=> InClause(port, t[j].sport)
      /\ \A port : InClause(port, Clause(s.port)) <=> InClause(port, t[j].dport)
    BY <1>1, ClauseKept
<1>3. FlowsOf(t[j].proto, t[j].sport, t[j].dport) = FlowsOf(s.proto, Clause(s.sport), Clause(s.port))
    BY <1>2, FlowsSame
<1>4. QED BY <1>3, SvcLineIs DEF ServiceSays

LEMMA SvcMemberKept ==
    ASSUME NEW t, IsList(t), Running(t), PlainServices(t), NEW j \in DOMAIN t, SvcMember(t, j),
           NEW g, g.name = Header(t, j).name
    PROVE  SvcLine(t, j) = SvcMemberSays(g, ParseSvcMember(Header(t, j).proto, t[j]))
<1> DEFINE h == Header(t, j)
           l == t[j]
           m == ParseSvcMember(h.proto, l)
<1>1. PartOf(l, h) /\ HeaderAt(t, j) \in DOMAIN t
  <2>1. l.k \in Parts
      BY DEF SvcMember, Parts, Members
  <2>2. QED BY <2>1, PartAt DEF Running, Header
<1>2. \A port : InClause(port, NoClause)
    BY DEF InClause, NoClause, Clause
<1>3. \A a, b : Len(<<a, b>>) = 2 /\ <<a, b>> # <<>> /\ <<a, b>>[1] = a /\ <<a, b>>[2] = b
    OBVIOUS
<1>4. CASE l.k = "port-object"
  <2>1. h.proto \in {"tcp", "udp"}
    <3>1. h.k = "object-group" /\ h.of = "service" /\ h.proto \in {"tcp", "udp", "tcp-udp"}
        BY <1>1, <1>4 DEF PartOf
    <3>2. h.proto # "tcp-udp"
        BY <1>1, <3>1 DEF PlainServices, PlainService, Header
    <3>3. QED BY <3>1, <3>2
  <2>2. m = <<h.proto, ParsePortSpec(l.dport)>>
      BY <1>4, <2>1 DEF ParseSvcMember, SvcLiteral
  <2> HIDE DEF m, h
  <2>3. Len(m) # 1 /\ Proto(m) = h.proto /\ Port(m) = ParsePortSpec(l.dport)
      BY <1>3, <2>1, <2>2 DEF Proto, Port
  <2>4. PlainClause(l.dport) /\ Worded(l.dport)
      BY <1>4 DEF PlainServices, PlainService, Running, Spoken
  <2>5. \A port : InClause(port, Clause(Port(m))) <=> InClause(port, l.dport)
      BY <2>3, <2>4, ClauseKept
  <2>6. FlowsOf(h.proto, NoClause, l.dport) = FlowsOf(Proto(m), NoClause, Clause(Port(m)))
      BY <2>3, <2>5, FlowsSame
  <2>7. SvcLine(t, j) = Says({h.name}, TRUE, FlowsOf(h.proto, NoClause, l.dport), {})
      BY <1>4, SvcLineIs DEF h
  <2>8. SvcMemberSays(g, m) = Says({g.name}, TRUE, FlowsOf(Proto(m), NoClause, Clause(Port(m))), {})
      BY <2>3 DEF SvcMemberSays
  <2>9. g.name = h.name
      BY DEF h
  <2>10. SvcLine(t, j) = SvcMemberSays(g, m)
      BY <2>6, <2>7, <2>8, <2>9
  <2>11. QED BY <2>10 DEF m, h
<1>5. CASE l.k = "service-object"
  <2>1. l.sport.op = "none" /\ l.proto # "tcp-udp" /\ PlainClause(l.dport) /\ Worded(l.dport)
        /\ (l.proto = "ip" => l.dport.op = "none")
      BY <1>5 DEF PlainServices, PlainService, Running, Spoken
  <2>2. m = IF l.proto = "ip" THEN <<>> ELSE <<l.proto, ParsePortSpec(l.dport)>>
      BY <1>5 DEF ParseSvcMember, SvcLiteral
  <2> HIDE DEF m, h
  <2>3. Len(m) # 1 /\ Proto(m) = l.proto /\ Port(m) = ParsePortSpec(l.dport)
    <3>1. CASE l.proto = "ip"
      <4>1. m = <<>>
          BY <2>2, <3>1, Zenon
      <4>2. ParsePortSpec(l.dport) = ""
          BY <2>1, <3>1 DEF ParsePortSpec
      <4>3. Len(<<>>) = 0
          OBVIOUS
      <4>4. Proto(m) = "ip" /\ Port(m) = ""
          BY <4>1, Zenon DEF Proto, Port
      <4>5. Len(m) # 1
          BY <4>1, <4>3
      <4>6. QED BY <3>1, <4>2, <4>4, <4>5
    <3>2. CASE l.proto # "ip"
      <4>1. m = <<l.proto, ParsePortSpec(l.dport)>>
          BY <2>2, <3>2, Zenon
      <4>2. QED BY <1>3, <2>1, <4>1 DEF Proto, Port
    <3>3. QED BY <3>1, <3>2
  <2>5. /\ \A port : InClause(port, Clause(Port(m))) <=> InClause(port, l.dport)
        /\ \A port : InClause(port, NoClause) <=> InClause(port, l.sport)
    <3>1. \A port : InClause(port, l.sport)
        BY <2>1 DEF InClause
    <3>2. QED BY <1>2, <2>1, <2>3, <3>1, ClauseKept
  <2>6. FlowsOf(l.proto, l.sport, l.dport) = FlowsOf(Proto(m), NoClause, Clause(Port(m)))
      BY <2>3, <2>5, FlowsSame
  <2>7. SvcLine(t, j) = Says({h.name}, TRUE, FlowsOf(l.proto, l.sport, l.dport), {})
      BY <1>5, SvcLineIs DEF h
  <2>8. SvcMemberSays(g, m) = Says({g.name}, TRUE, FlowsOf(Proto(m), NoClause, Clause(Port(m))), {})
      BY <2>3 DEF SvcMemberSays
  <2>9. g.name = h.name
      BY DEF h
  <2>10. SvcLine(t, j) = SvcMemberSays(g, m)
      BY <2>6, <2>7, <2>8, <2>9
  <2>11. QED BY <2>10 DEF m, h
<1>6. CASE l.k \in {"svc-object", "group-object"}
  <2>1. h.of = "service"
      BY <1>6 DEF SvcMember
  <2>2. m = <<l.v>>
      BY <1>6 DEF ParseSvcMember
  <2>3. Len(m) = 1 /\ m[1] = l.v
      BY <2>2
  <2>4. SvcLine(t, j) = Says({h.name}, TRUE, {}, {l.v})
      BY <1>6, <2>1, SvcLineIs
  <2>5. SvcMemberSays(g, m) = Says({g.name}, TRUE, {}, {m[1]})
      BY <2>3 DEF SvcMemberSays
  <2>6. QED BY <2>3, <2>4, <2>5
<1>7. QED BY <1>4, <1>5, <1>6 DEF SvcMember

LEMMA GivenSvcLines ==
    ASSUME NEW t, IsList(t)
    PROVE  /\ IsList(SvcLines(t))
           /\ \A d : d \in Given(SvcLines(t)) <=>
                  \E j \in DOMAIN t : d = SvcLine(t, j) /\ (t[j].k = "spec" \/ SvcMember(t, j))
<1>1. SvcLines(t) = [j \in DOMAIN t |-> SvcLines(t)[j]] /\ DOMAIN SvcLines(t) = DOMAIN t
    BY DEF SvcLines
<1>2. IsList(SvcLines(t))
    BY <1>1, MappedList
<1>3. \A d : d \in ToSet(SvcLines(t)) <=> \E j \in DOMAIN t : d = SvcLine(t, j)
    BY DEF SvcLines, ToSet
<1>4. ASSUME NEW j \in DOMAIN t PROVE SvcLine(t, j).names # {} <=> t[j].k = "spec" \/ SvcMember(t, j)
  <2> DEFINE n == Header(t, j).name
  <2>1. CASE t[j].k = "spec" \/ SvcMember(t, j)
    <3>1. \/ SvcLine(t, j) = Says({n}, FALSE, FlowsOf(t[j].proto, t[j].sport, t[j].dport), {})
          \/ SvcLine(t, j) = Says({n}, TRUE, FlowsOf(Header(t, j).proto, NoClause, t[j].dport), {})
          \/ SvcLine(t, j) = Says({n}, TRUE, FlowsOf(t[j].proto, t[j].sport, t[j].dport), {})
          \/ SvcLine(t, j) = Says({n}, TRUE, {}, {t[j].v})
        BY <2>1, SvcLineIs DEF SvcMember
    <3>2. /\ \A b, r : Says({n}, TRUE, b, r).names = {n}
          /\ \A b, r : Says({n}, FALSE, b, r).names = {n}
        BY DEF Says
    <3>3. SvcLine(t, j).names = {n}
        BY <3>1, <3>2, Zenon
    <3>4. QED BY <2>1, <3>3
  <2>2. CASE t[j].k # "spec" /\ ~SvcMember(t, j)
    <3>1. SvcLine(t, j) = Nothing
        BY <2>2, SvcLineIs
    <3>2. QED BY <2>2, <3>1, NothingGiven
  <2>3. QED BY <2>1, <2>2
<1>5. QED BY <1>2, <1>3, <1>4 DEF Given

LEMMA OneSpec ==
    ASSUME NEW t, IsList(t), Running(t), NEW j \in DOMAIN t, t[j].k = "spec"
    PROVE  LET h == HeaderAt(t, j) IN
           SvcsOf(t, h) = {[line |-> h, name |-> Header(t, j).name, proto |-> t[j].proto,
                            sport |-> ParsePortSpec(t[j].sport), port |-> ParsePortSpec(t[j].dport)]}
<1> DEFINE h == HeaderAt(t, j)
           B == Body(t, h)
<1>1. /\ h \in DOMAIN t /\ h < j /\ Stops(t[h]) /\ t[j] \in ToSet(B) /\ t[h].k = "service"
    BY PartAt DEF Running, Parts, PartOf
<1>2. IsList(B)
    BY <1>1, BodyList
<1>3. IsList(SpecLines(t, h)) /\ ToSet(SpecLines(t, h)) = {l \in ToSet(B) : l.k = "spec"}
    BY <1>2, Selected, Picked DEF SpecLines
<1>4. t[j] \in ToSet(SpecLines(t, h))
    BY <1>1, <1>3
<1>5. SpecLines(t, h) # <<>>
    BY <1>3, <1>4, EmptyPicked
<1>6. Last(SpecLines(t, h)) = t[j]
  <2>1. Last(SpecLines(t, h)) \in ToSet(B) /\ Last(SpecLines(t, h)).k = "spec"
      BY <1>3, <1>5, LastIn
  <2>2. PICK q \in DOMAIN t : h < q /\ HeaderAt(t, q) = h /\ Last(SpecLines(t, h)) = t[q]
      BY <1>1, <2>1, BlockLines
  <2>3. Defines(t[q]) /\ Defines(t[j]) /\ NameAt(t, q) = NameAt(t, j) /\ t[q].k \notin Members
      BY <2>1, <2>2 DEF Defines, NameAt, Header, Members
  <2>4. q = j
      BY <2>3 DEF Running
  <2>5. QED BY <2>2, <2>4
<1>7. QED BY <1>1, <1>5, <1>6 DEF SvcsOf, Header

LEMMA SvcMembersAre ==
    ASSUME NEW t, IsList(t), NEW h \in DOMAIN t, Stops(t[h]), t[h].of = "service"
    PROVE  \A m : m \in ToSet(ParseSvcMembers(t[h].proto, Body(t, h))) <=>
                      \E q \in DOMAIN t : /\ h < q /\ HeaderAt(t, q) = h /\ SvcMember(t, q)
                                          /\ m = ParseSvcMember(t[h].proto, t[q])
<1> DEFINE B == Body(t, h)
           K == {"port-object", "service-object", "svc-object", "group-object"}
           T == {n \in DOMAIN B : B[n].k \in K}
           L == Those(B, T)
           P == ParseSvcMembers(t[h].proto, B)
<1>1. IsList(B)
    BY BodyList
<1>2. P = [j \in DOMAIN L |-> ParseSvcMember(t[h].proto, L[j])]
    BY DEF ParseSvcMembers, Select
<1>3. IsList(L) /\ ToSet(L) = {B[k] : k \in T \intersect DOMAIN B}
    BY <1>1, ThoseList
<1>4. \A m : m \in ToSet(P) <=> \E l \in ToSet(L) : m = ParseSvcMember(t[h].proto, l)
    BY <1>2 DEF ToSet
<1>5. \A l : l \in ToSet(L) <=> l \in ToSet(B) /\ l.k \in K
    BY <1>3 DEF ToSet
<1> HIDE DEF B, T, L, P
<1>6. \A l : l \in ToSet(B) <=> \E q \in DOMAIN t : h < q /\ HeaderAt(t, q) = h /\ ~Blank(t[q]) /\ l = t[q]
    BY BlockLines DEF B
<1>7. ASSUME NEW m, m \in ToSet(P)
      PROVE  \E q \in DOMAIN t : /\ h < q /\ HeaderAt(t, q) = h /\ SvcMember(t, q)
                                 /\ m = ParseSvcMember(t[h].proto, t[q])
  <2>1. PICK l \in ToSet(L) : m = ParseSvcMember(t[h].proto, l)
      BY <1>4, <1>7
  <2>2. PICK q \in DOMAIN t : h < q /\ HeaderAt(t, q) = h /\ l = t[q]
      BY <1>5, <1>6
  <2>3. t[q].k \in K
      BY <1>5, <2>2
  <2>4. SvcMember(t, q)
      BY <2>2, <2>3 DEF SvcMember, Header
  <2>5. QED BY <2>1, <2>2, <2>4
<1>8. ASSUME NEW q \in DOMAIN t, h < q, HeaderAt(t, q) = h, SvcMember(t, q)
      PROVE  ParseSvcMember(t[h].proto, t[q]) \in ToSet(P)
  <2>1. ~Blank(t[q]) /\ t[q].k \in K
      BY <1>8 DEF SvcMember, Blank
  <2>2. t[q] \in ToSet(L)
      BY <1>5, <1>6, <1>8, <2>1
  <2>3. QED BY <1>4, <2>2
<1>9. QED BY <1>7, <1>8 DEF P, B

LEMMA SourceSvcs ==
    ASSUME NEW t, NEW c, ReadAll(t, c), Running(t), PlainServices(t)
    PROVE  \A d : d \in Given(SvcLines(t)) <=> SvcGiven(c, d)
<1>1. IsList(t) /\ Nested(t)
    BY DEF ReadAll
<1>2. ASSUME NEW j \in DOMAIN t, t[j].k = "spec" PROVE SvcGiven(c, SvcLine(t, j))
  <2> DEFINE h == HeaderAt(t, j)
             s == [line |-> h, name |-> Header(t, j).name, proto |-> t[j].proto,
                   sport |-> ParsePortSpec(t[j].sport), port |-> ParsePortSpec(t[j].dport)]
  <2>1. s \in SvcsOf(t, h) /\ h \in DOMAIN t
      BY <1>1, <1>2, OneSpec, PartAt DEF Parts
  <2>2. s \in ToSet(c.svcs)
      BY <2>1, AllHeld
  <2>3. /\ s.name = Header(t, j).name /\ s.proto = t[j].proto
        /\ s.sport = ParsePortSpec(t[j].sport) /\ s.port = ParsePortSpec(t[j].dport)
      OBVIOUS
  <2> HIDE DEF s
  <2>4. SvcLine(t, j) = ServiceSays(s)
      BY <1>1, <1>2, <2>3, ServiceKept
  <2>5. QED BY <2>2, <2>4 DEF SvcGiven
<1>3. ASSUME NEW j \in DOMAIN t, SvcMember(t, j) PROVE SvcGiven(c, SvcLine(t, j))
  <2> DEFINE h == HeaderAt(t, j)
             g == [line |-> h, name |-> t[h].name, members |-> ParseSvcMembers(t[h].proto, Body(t, h))]
             m == ParseSvcMember(t[h].proto, t[j])
  <2>1. h \in DOMAIN t /\ h < j /\ Stops(t[h]) /\ t[h].k = "object-group" /\ t[h].of = "service"
    <3>1. t[j].k \in Parts
        BY <1>3 DEF SvcMember, Parts, Members
    <3>2. h \in DOMAIN t /\ h < j /\ Stops(t[h]) /\ PartOf(t[j], t[h])
        BY <1>1, <3>1, PartAt
    <3>3. QED BY <1>3, <3>2 DEF SvcMember, Header, PartOf
  <2>2. g \in SvcGroupsOf(t, h)
      BY <2>1 DEF SvcGroupsOf
  <2>3. g \in ToSet(c.svcGroups)
      BY <2>1, <2>2, AllHeld
  <2>4. m \in ToSet(g.members)
      BY <1>1, <1>3, <2>1, SvcMembersAre
  <2>5. g.name = Header(t, j).name /\ m = ParseSvcMember(Header(t, j).proto, t[j])
      BY DEF Header
  <2> HIDE DEF g, m
  <2>6. SvcLine(t, j) = SvcMemberSays(g, m)
      BY <1>1, <1>3, <2>5, SvcMemberKept
  <2>7. QED BY <2>3, <2>4, <2>6 DEF SvcGiven
<1>4. ASSUME NEW s \in ToSet(c.svcs) PROVE \E j \in DOMAIN t : ServiceSays(s) = SvcLine(t, j) /\ t[j].k = "spec"
  <2>1. PICK h \in DOMAIN t : s \in SvcsOf(t, h)
      BY AllHeld
  <2>2. /\ t[h].k = "service" /\ SpecLines(t, h) # <<>> /\ s.name = t[h].name /\ s.proto = Last(SpecLines(t, h)).proto
        /\ s.sport = ParsePortSpec(Last(SpecLines(t, h)).sport) /\ s.port = ParsePortSpec(Last(SpecLines(t, h)).dport)
      BY <2>1 DEF SvcsOf
  <2>3. Stops(t[h])
      BY <1>1, <2>2 DEF Nested, Stops, Blank, Commands
  <2>4. IsList(SpecLines(t, h)) /\ ToSet(SpecLines(t, h)) = {l \in ToSet(Body(t, h)) : l.k = "spec"}
      BY <1>1, BodyList, Selected, Picked DEF SpecLines
  <2>5. Last(SpecLines(t, h)) \in ToSet(Body(t, h)) /\ Last(SpecLines(t, h)).k = "spec"
      BY <2>2, <2>4, LastIn
  <2>6. PICK q \in DOMAIN t : HeaderAt(t, q) = h /\ Last(SpecLines(t, h)) = t[q]
      BY <1>1, <2>3, <2>5, BlockLines
  <2>7. /\ t[q].k = "spec" /\ s.name = Header(t, q).name /\ s.proto = t[q].proto
        /\ s.sport = ParsePortSpec(t[q].sport) /\ s.port = ParsePortSpec(t[q].dport)
      BY <2>2, <2>5, <2>6 DEF Header
  <2>8. SvcLine(t, q) = ServiceSays(s)
      BY <1>1, <2>7, ServiceKept
  <2>9. QED BY <2>7, <2>8
<1>5. ASSUME NEW g \in ToSet(c.svcGroups), NEW m \in ToSet(g.members)
      PROVE  \E j \in DOMAIN t : SvcMemberSays(g, m) = SvcLine(t, j) /\ SvcMember(t, j)
  <2>1. PICK h \in DOMAIN t : g \in SvcGroupsOf(t, h)
      BY AllHeld
  <2>2. /\ t[h].k = "object-group" /\ t[h].of = "service"
        /\ g.name = t[h].name /\ g.members = ParseSvcMembers(t[h].proto, Body(t, h))
      BY <2>1 DEF SvcGroupsOf
  <2>3. Stops(t[h])
      BY <1>1, <2>2 DEF Nested, Stops, Blank, Commands
  <2>4. PICK q \in DOMAIN t : HeaderAt(t, q) = h /\ SvcMember(t, q) /\ m = ParseSvcMember(t[h].proto, t[q])
      BY <1>1, <1>5, <2>2, <2>3, SvcMembersAre
  <2>5. g.name = Header(t, q).name /\ m = ParseSvcMember(Header(t, q).proto, t[q])
      BY <2>2, <2>4 DEF Header
  <2>6. SvcLine(t, q) = SvcMemberSays(g, m)
      BY <1>1, <2>4, <2>5, SvcMemberKept
  <2>7. QED BY <2>4, <2>6
<1>6. QED BY <1>1, <1>2, <1>3, <1>4, <1>5, GivenSvcLines DEF SvcGiven

LEMMA SourceSvcsTurn == ASSUME NEW t, IsList(t), Running(t) PROVE InTurn(SvcLines(t))
<1>1. DOMAIN SvcLines(t) = DOMAIN t /\ \A j \in DOMAIN t : SvcLines(t)[j] = SvcLine(t, j)
    BY DEF SvcLines
<1>2. ASSUME NEW j \in DOMAIN t PROVE Tells(t, j, SvcLine(t, j))
  <2> DEFINE n == Header(t, j).name
  <2>1. CASE t[j].k = "spec"
    <3>1. SvcLine(t, j) = Says({n}, FALSE, FlowsOf(t[j].proto, t[j].sport, t[j].dport), {})
        BY <2>1, SvcLineIs
    <3>2. SvcLine(t, j).names = {n} /\ SvcLine(t, j).refs = {}
        BY <3>1 DEF Says
    <3>3. Defines(t[j]) /\ NameAt(t, j) = n /\ t[j].k \notin Members
        BY <2>1 DEF Defines, NameAt, Members
    <3>4. QED BY <3>2, <3>3 DEF Tells
  <2>2. CASE t[j].k \in {"port-object", "service-object"}
    <3>1. \/ SvcLine(t, j) = Says({n}, TRUE, FlowsOf(Header(t, j).proto, NoClause, t[j].dport), {})
          \/ SvcLine(t, j) = Says({n}, TRUE, FlowsOf(t[j].proto, t[j].sport, t[j].dport), {})
        BY <2>2, SvcLineIs
    <3>2. SvcLine(t, j).names = {n} /\ SvcLine(t, j).refs = {}
        BY <3>1 DEF Says
    <3>3. SvcLine(t, j).adds
        BY <3>1 DEF Says
    <3>4. Defines(t[j]) /\ NameAt(t, j) = n
        BY <2>2 DEF Defines, NameAt, Members
    <3>5. QED BY <3>2, <3>3, <3>4 DEF Tells
  <2>3. CASE t[j].k \in {"svc-object", "group-object"} /\ Header(t, j).of = "service"
    <3>1. SvcLine(t, j) = Says({n}, TRUE, {}, {t[j].v})
        BY <2>3, SvcLineIs
    <3>2. SvcLine(t, j).names = {n} /\ SvcLine(t, j).refs = {t[j].v}
        BY <3>1 DEF Says
    <3>3. SvcLine(t, j).adds
        BY <3>1 DEF Says
    <3>4. Defines(t[j]) /\ NameAt(t, j) = n /\ Uses(t[j])
        BY <2>3 DEF Defines, NameAt, Members, Uses
    <3>5. QED BY <3>2, <3>3, <3>4 DEF Tells
  <2>4. CASE t[j].k # "spec" /\ ~SvcMember(t, j)
    <3>1. SvcLine(t, j) = Nothing
        BY <2>4, SvcLineIs
    <3>2. QED BY <3>1, NothingGiven DEF Tells
  <2>5. QED BY <2>1, <2>2, <2>3, <2>4 DEF SvcMember
<1>3. QED BY <1>1, <1>2, SourceTurn

LEMMA SvcDefined ==
    ASSUME NEW t, NEW c, ReadAll(t, c), NEW s \in ToSet(c.svcs)
    PROVE  \E q \in DOMAIN t : /\ Defines(t[q]) /\ NameAt(t, q) = s.name /\ t[q].k = "spec"
                               /\ s.line = HeaderAt(t, q)
<1>1. IsList(t) /\ Nested(t)
    BY DEF ReadAll
<1>2. PICK h \in DOMAIN t : s \in SvcsOf(t, h)
    BY AllHeld
<1>3. t[h].k = "service" /\ SpecLines(t, h) # <<>> /\ s.name = t[h].name /\ s.line = h
    BY <1>2 DEF SvcsOf
<1>4. Stops(t[h])
    BY <1>1, <1>3 DEF Nested, Stops, Blank, Commands
<1>5. IsList(SpecLines(t, h)) /\ ToSet(SpecLines(t, h)) = {l \in ToSet(Body(t, h)) : l.k = "spec"}
    BY <1>1, BodyList, Selected, Picked DEF SpecLines
<1>6. Last(SpecLines(t, h)) \in ToSet(Body(t, h)) /\ Last(SpecLines(t, h)).k = "spec"
    BY <1>3, <1>5, LastIn
<1>7. PICK q \in DOMAIN t : HeaderAt(t, q) = h /\ Last(SpecLines(t, h)) = t[q]
    BY <1>1, <1>4, <1>6, BlockLines
<1>8. QED BY <1>3, <1>6, <1>7 DEF Defines, NameAt, Header

LEMMA SvcMemberDefined ==
    ASSUME NEW t, NEW c, ReadAll(t, c), NEW g \in ToSet(c.svcGroups), NEW m \in ToSet(g.members)
    PROVE  \E q \in DOMAIN t : /\ t[q].k \in Members /\ Defines(t[q]) /\ HeaderAt(t, q) = g.line
                               /\ NameAt(t, q) = g.name /\ g.line < q
                               /\ Len(m) = 1 => Uses(t[q]) /\ t[q].v = m[1]
<1>1. IsList(t) /\ Nested(t)
    BY DEF ReadAll
<1>2. PICK h \in DOMAIN t : g \in SvcGroupsOf(t, h)
    BY AllHeld
<1>3. /\ t[h].k = "object-group" /\ t[h].of = "service" /\ g.line = h
      /\ g.name = t[h].name /\ g.members = ParseSvcMembers(t[h].proto, Body(t, h))
    BY <1>2 DEF SvcGroupsOf
<1>4. Stops(t[h])
    BY <1>1, <1>3 DEF Nested, Stops, Blank, Commands
<1>5. PICK q \in DOMAIN t : /\ h < q /\ HeaderAt(t, q) = h /\ SvcMember(t, q)
                            /\ m = ParseSvcMember(t[h].proto, t[q])
    BY <1>1, <1>3, <1>4, SvcMembersAre
<1>6. t[q].k \in Members /\ Defines(t[q])
    BY <1>5 DEF SvcMember, Members, Defines
<1>7. NameAt(t, q) = g.name
    BY <1>3, <1>5 DEF NameAt, Header, SvcMember
<1>8. Len(m) = 1 => Uses(t[q]) /\ t[q].v = m[1]
  <2>1. ASSUME NEW p, NEW v PROVE Len(SvcLiteral(p, v)) # 1
    <3>1. CASE p = "ip"
      <4>1. SvcLiteral(p, v) = <<>>
          BY <3>1, Zenon DEF SvcLiteral
      <4>2. QED BY <4>1
    <3>2. CASE p # "ip"
      <4>1. SvcLiteral(p, v) = <<p, v>>
          BY <3>2, Zenon DEF SvcLiteral
      <4>2. QED BY <4>1
    <3>3. QED BY <3>1, <3>2
  <2>2. CASE t[q].k \in {"port-object", "service-object"}
    <3>1. \E p, v : m = SvcLiteral(p, v)
        BY <1>5, <2>2 DEF ParseSvcMember
    <3>2. QED BY <2>1, <3>1
  <2>3. CASE t[q].k \in {"svc-object", "group-object"}
    <3>1. m = <<t[q].v>> /\ Uses(t[q])
        BY <1>5, <2>3 DEF ParseSvcMember, Uses
    <3>2. QED BY <3>1
  <2>4. QED BY <1>5, <2>2, <2>3 DEF SvcMember
<1>9. QED BY <1>3, <1>5, <1>6, <1>7, <1>8

LEMMA SourceSvcOrder == ASSUME NEW t, NEW c, ReadAll(t, c), Running(t) PROVE SvcOrder(c)
<1> DEFINE R == [j \in DOMAIN c.svcGroups |-> RefsIn(c.svcGroups[j].members)]
<1>1. /\ DOMAIN c.svcs \subseteq Nat /\ DOMAIN c.svcGroups \subseteq Nat /\ InOrder(c.svcs) /\ InOrder(c.svcGroups)
      /\ (\A e \in ToSet(c.svcs) : e.line \in Nat) /\ (\A e \in ToSet(c.svcGroups) : e.line \in Nat)
    BY LineNumbers, AllHeld
<1>2. /\ \A i \in DOMAIN c.svcs : c.svcs[i] \in ToSet(c.svcs)
      /\ \A i \in DOMAIN c.svcGroups : c.svcGroups[i] \in ToSet(c.svcGroups)
    BY DEF ToSet
<1>3. ASSUME NEW g \in ToSet(c.svcGroups), g.members # <<>> PROVE \E m : m \in ToSet(g.members)
  <2>1. IsList(g.members)
      BY DEF ReadAll, Wellformed
  <2>2. QED BY <1>3, <2>1, EmptyPicked
<1>4. ASSUME NEW i \in DOMAIN c.svcs, NEW j \in DOMAIN c.svcs, c.svcs[i].name = c.svcs[j].name PROVE i = j
  <2>1. PICK p \in DOMAIN t : /\ Defines(t[p]) /\ NameAt(t, p) = c.svcs[i].name /\ t[p].k = "spec"
                              /\ c.svcs[i].line = HeaderAt(t, p)
      BY <1>2, SvcDefined
  <2>2. PICK q \in DOMAIN t : /\ Defines(t[q]) /\ NameAt(t, q) = c.svcs[j].name /\ t[q].k = "spec"
                              /\ c.svcs[j].line = HeaderAt(t, q)
      BY <1>2, SvcDefined
  <2>3. p = q
      BY <1>4, <2>1, <2>2 DEF Running, Members
  <2>4. c.svcs[i].line = c.svcs[j].line
      BY <2>1, <2>2, <2>3
  <2>5. QED BY <1>1, <2>4, ByLine
<1>5. ASSUME NEW i \in DOMAIN c.svcs, NEW j \in DOMAIN c.svcGroups, c.svcGroups[j].members # <<>>
      PROVE  c.svcs[i].name # c.svcGroups[j].name
  <2>1. PICK p \in DOMAIN t : Defines(t[p]) /\ NameAt(t, p) = c.svcs[i].name /\ t[p].k = "spec"
      BY <1>2, SvcDefined
  <2>2. PICK m : m \in ToSet(c.svcGroups[j].members)
      BY <1>2, <1>3, <1>5
  <2>3. PICK q \in DOMAIN t : t[q].k \in Members /\ Defines(t[q]) /\ NameAt(t, q) = c.svcGroups[j].name
      BY <1>2, <2>2, SvcMemberDefined
  <2>4. QED BY <2>1, <2>3 DEF Running, Members
<1>6. ASSUME NEW i \in DOMAIN c.svcGroups, NEW j \in DOMAIN c.svcGroups, c.svcGroups[i].members # <<>>,
             c.svcGroups[i].name \in R[j]
      PROVE  i < j
  <2>1. PICK m : m \in ToSet(c.svcGroups[i].members)
      BY <1>2, <1>3, <1>6
  <2>2. PICK p \in DOMAIN t : Defines(t[p]) /\ NameAt(t, p) = c.svcGroups[i].name /\ c.svcGroups[i].line < p
      BY <1>2, <2>1, SvcMemberDefined
  <2>3. PICK w \in ToSet(c.svcGroups[j].members) : Len(w) = 1 /\ w[1] = c.svcGroups[i].name
      BY <1>6 DEF RefsIn
  <2>4. PICK q \in DOMAIN t : Uses(t[q]) /\ t[q].v = c.svcGroups[i].name /\ HeaderAt(t, q) = c.svcGroups[j].line
      BY <1>2, <2>3, SvcMemberDefined
  <2>5. p < c.svcGroups[j].line
      BY <2>2, <2>4 DEF Running
  <2>6. c.svcGroups[i].line \in Nat /\ c.svcGroups[j].line \in Nat /\ p \in Nat
      BY <1>1, <1>2 DEF ReadAll, IsList
  <2>7. c.svcGroups[i].line < c.svcGroups[j].line
      BY <2>2, <2>5, <2>6
  <2>8. QED BY <1>1, <2>7, ByLine
<1>7. QED BY <1>4, <1>5, <1>6 DEF SvcOrder, Order
-----------------------------------------------------------------------------
(* The same of services: what is written gives the names what the context   *)
(* gives them, and nothing is used before it is defined.                    *)
LEMMA SvcPlaces ==
    ASSUME NEW c, NetsSound(c), SvcsSound(c), NEW st, NEW p, NEW m, NEW i, OfBlock(c, st, p, m, i)
    PROVE  LET d == SvcLine(GenASA(c), p) IN
           \/ d = Nothing
           \/ \E k \in DOMAIN c.svcs : m = NetsEnd(c) + k /\ i = 2 /\ d = ServiceSays(c.svcs[k])
           \/ \E k \in DOMAIN c.svcGroups :
                 m = NetGroupsEnd(c) + k /\ \E v \in ToSet(c.svcGroups[k].members) : d = SvcMemberSays(c.svcGroups[k], v)
<1> DEFINE b == Blocks(c)[m]
           d == SvcLine(GenASA(c), p)
<1>1. Wellformed(c)
    BY DEF SvcsSound
<1>2. m \in 1..Len(Blocks(c)) /\ i \in DOMAIN b /\ d = SvcSays(Header(b, i), b[i])
    BY <1>1, BlockSays
<1>3. PICK k : \/ IfaceAt(c, m, k) \/ ObjectAt(c, m, k) \/ ServiceAt(c, m, k) \/ NetGroupAt(c, m, k)
               \/ SvcGroupAt(c, m, k) \/ RuleAt(c, m, k) \/ BindAt(c, m, k) \/ NatAt(c, m, k) \/ RouteAt(c, m, k)
    BY <1>1, <1>2, BlockAt
<1> HIDE DEF d
<1>4. Quiet(b) => d = Nothing
    BY <1>2 DEF Quiet
<1>5. CASE IfaceAt(c, m, k)
  <2>1. k \in DOMAIN c.ifs /\ b = GenInterface(c.ifs[k]) /\ c.ifs[k] \in ToSet(c.ifs)
      BY <1>5 DEF IfaceAt, ToSet
  <2>2. QED BY <1>1, <1>4, <2>1, IfaceQuiet DEF Wellformed, d
<1>6. CASE ObjectAt(c, m, k)
  <2>1. b = GenObject(NetsWritten(c)[k])
      BY <1>6 DEF ObjectAt
  <2>2. QED BY <1>2, <2>1, ObjectSaid DEF d
<1>7. CASE ServiceAt(c, m, k)
  <2>1. k \in DOMAIN c.svcs /\ b = GenService(c.svcs[k]) /\ m = NetsEnd(c) + k
      BY <1>7 DEF ServiceAt
  <2>2. i = 1 \/ i = 2
      BY <1>2, <2>1, ServiceSaid
  <2>3. (i = 1 => d = Nothing) /\ (i = 2 => d = ServiceSays(c.svcs[k]))
      BY <1>2, <2>1, ServiceSaid
  <2>4. QED BY <2>1, <2>2, <2>3 DEF d
<1>8. CASE NetGroupAt(c, m, k)
  <2>1. k \in DOMAIN c.netGroups /\ b = GenNetGroup(c, c.netGroups[k])
      BY <1>8 DEF NetGroupAt
  <2>2. c.netGroups[k] \in ToSet(c.netGroups)
      BY <2>1 DEF ToSet
  <2>3. IsList(c.netGroups[k].members) /\ \A v \in ToSet(c.netGroups[k].members) : GenMember(c, v) # <<>>
      BY <2>2 DEF NetsSound, Wellformed
  <2>4. d = Nothing
      BY <1>2, <2>1, <2>3, NetGroupSaid
  <2>5. QED BY <2>4 DEF d
<1>9. CASE SvcGroupAt(c, m, k)
  <2>1. k \in DOMAIN c.svcGroups /\ b = GenSvcGroup(c, c.svcGroups[k]) /\ m = NetGroupsEnd(c) + k
      BY <1>9 DEF SvcGroupAt
  <2>2. c.svcGroups[k] \in ToSet(c.svcGroups)
      BY <2>1 DEF ToSet
  <2>3. IsList(c.svcGroups[k].members) /\ \A v \in ToSet(c.svcGroups[k].members) : GenSvcMember(c, v) # <<>>
      BY <2>2 DEF SvcsSound, Wellformed
  <2>4. d = Nothing \/ \E v \in ToSet(c.svcGroups[k].members) : d = SvcMemberSays(c.svcGroups[k], v)
      BY <1>2, <2>1, <2>3, SvcGroupSaid
  <2>5. QED BY <2>1, <2>4 DEF d
<1>10. CASE RuleAt(c, m, k)
  <2>1. b = GenRule(c, c.rules[k])
      BY <1>10 DEF RuleAt
  <2>2. QED BY <1>1, <1>4, <2>1, LinesQuiet DEF d
<1>11. CASE BindAt(c, m, k)
  <2>1. b = <<GenBindings(c)[k]>> /\ k \in DOMAIN GenBindings(c)
      BY <1>11 DEF BindAt
  <2>2. k \in 1..Len(GenBindings(c))
      BY <1>1, <2>1, MoreBlocks DEF IsList
  <2>3. QED BY <1>1, <1>4, <2>1, <2>2, LinesQuiet DEF d
<1>12. CASE NatAt(c, m, k)
  <2>1. b = <<GenNAT(c, c.nats[k])>>
      BY <1>12 DEF NatAt
  <2>2. QED BY <1>1, <1>4, <2>1, LinesQuiet DEF d
<1>13. CASE RouteAt(c, m, k)
  <2>1. b = <<GenRoute(RoutesWritten(c)[k])>>
      BY <1>13 DEF RouteAt
  <2>2. QED BY <1>1, <1>4, <2>1, LinesQuiet DEF d
<1>14. QED BY <1>3, <1>5, <1>6, <1>7, <1>8, <1>9, <1>10, <1>11, <1>12, <1>13

LEMMA WrittenSvcs ==
    ASSUME NEW c, NetsSound(c), SvcsSound(c)
    PROVE  \A d : d \in Given(SvcLines(GenASA(c))) <=> SvcGiven(c, d)
<1> DEFINE t == GenASA(c)
           B == Blocks(c)
<1>1. Wellformed(c) /\ NetsSound(c) /\ SvcsSound(c)
    BY DEF SvcsSound
<1>2. PICK st : /\ \A p \in DOMAIN t : \E m, i : OfBlock(c, st, p, m, i)
                /\ \A m \in 1..Len(B) : \A i \in 1..Len(B[m]) :
                       st[m] + i - 1 \in DOMAIN t /\ OfBlock(c, st, st[m] + i - 1, m, i)
    BY <1>1, WrittenLines
<1>3. \A d : d \in Given(SvcLines(t)) <=> d.names # {} /\ \E p \in DOMAIN t : d = SvcLine(t, p)
    BY DEF Given, SvcLines, ToSet
<1>4. \A m \in 1..Len(B) : IsList(B[m]) /\ DOMAIN B[m] = 1..Len(B[m])
    BY <1>1, Layout DEF Heads, IsList
<1>5. ASSUME NEW m \in 1..Len(B), NEW i \in DOMAIN B[m]
      PROVE  \E p \in DOMAIN t : SvcLine(t, p) = SvcSays(Header(B[m], i), B[m][i])
  <2>1. st[m] + i - 1 \in DOMAIN t /\ OfBlock(c, st, st[m] + i - 1, m, i)
      BY <1>2, <1>4, <1>5
  <2>2. QED BY <1>1, <2>1, BlockSays
<1> HIDE DEF t, B
<1>6. ASSUME NEW d, SvcGiven(c, d) PROVE d \in Given(SvcLines(t))
  <2>1. CASE \E o \in ToSet(c.svcs) : d = ServiceSays(o)
    <3>1. PICK k \in DOMAIN c.svcs : d = ServiceSays(c.svcs[k])
        BY <2>1 DEF ToSet
    <3> DEFINE m == NetsEnd(c) + k
    <3>2. m \in 1..Len(B) /\ B[m] = GenService(c.svcs[k])
        BY <1>1, <3>1, BlockAt DEF ServiceAt, B
    <3> HIDE DEF m
    <3>3. 2 \in DOMAIN B[m] /\ SvcSays(Header(B[m], 2), B[m][2]) = d
        BY <3>1, <3>2, ServiceSaid
    <3>4. \E p \in DOMAIN t : d = SvcLine(t, p)
        BY <1>5, <3>2, <3>3
    <3>5. d.names # {}
        BY <3>1, NothingGiven
    <3>6. QED BY <1>3, <3>4, <3>5
  <2>2. CASE \E g \in ToSet(c.svcGroups) : \E v \in ToSet(g.members) : d = SvcMemberSays(g, v)
    <3>1. PICK k \in DOMAIN c.svcGroups : \E v \in ToSet(c.svcGroups[k].members) : d = SvcMemberSays(c.svcGroups[k], v)
      <4>1. PICK g \in ToSet(c.svcGroups) : \E v \in ToSet(g.members) : d = SvcMemberSays(g, v)
          BY <2>2
      <4>2. PICK k \in DOMAIN c.svcGroups : g = c.svcGroups[k]
          BY DEF ToSet
      <4>3. QED BY <4>1, <4>2
    <3> DEFINE m == NetGroupsEnd(c) + k
               g == c.svcGroups[k]
    <3>2. m \in 1..Len(B) /\ B[m] = GenSvcGroup(c, g)
        BY <1>1, <3>1, BlockAt DEF SvcGroupAt, B
    <3>3. g \in ToSet(c.svcGroups)
        BY DEF ToSet
    <3>4. IsList(g.members) /\ \A v \in ToSet(g.members) : GenSvcMember(c, v) # <<>>
        BY <3>3 DEF SvcsSound, Wellformed
    <3> HIDE DEF m, g
    <3>5. \E i \in DOMAIN B[m] : SvcSays(Header(B[m], i), B[m][i]) = d
        BY <3>1, <3>2, <3>4, SvcGroupSaid DEF g
    <3>6. \E p \in DOMAIN t : d = SvcLine(t, p)
        BY <1>5, <3>2, <3>5
    <3>7. d.names # {}
      <4>1. PICK v : d = SvcMemberSays(c.svcGroups[k], v)
          BY <3>1
      <4>2. SvcMemberSays(c.svcGroups[k], v).names = {c.svcGroups[k].name}
          BY NothingGiven
      <4>3. QED BY <4>1, <4>2
    <3>8. QED BY <1>3, <3>6, <3>7
  <2>3. QED BY <1>6, <2>1, <2>2 DEF SvcGiven
<1>7. ASSUME NEW d, d \in Given(SvcLines(t)) PROVE SvcGiven(c, d)
  <2>1. d.names # {} /\ \E p \in DOMAIN t : d = SvcLine(t, p)
      BY <1>3, <1>7
  <2>2. PICK p \in DOMAIN t : d = SvcLine(t, p)
      BY <2>1
  <2>3. PICK m, i : OfBlock(c, st, p, m, i)
      BY <1>2 DEF t
  <2>4. d # Nothing
      BY <2>1, NothingGiven
  <2>5. \/ \E k \in DOMAIN c.svcs : d = ServiceSays(c.svcs[k])
        \/ \E k \in DOMAIN c.svcGroups : \E v \in ToSet(c.svcGroups[k].members) : d = SvcMemberSays(c.svcGroups[k], v)
      BY <2>2, <2>3, <2>4, SvcPlaces DEF t
  <2>6. (\A k \in DOMAIN c.svcs : c.svcs[k] \in ToSet(c.svcs))
        /\ \A k \in DOMAIN c.svcGroups : c.svcGroups[k] \in ToSet(c.svcGroups)
      BY DEF ToSet
  <2>7. QED BY <2>5, <2>6 DEF SvcGiven
<1>8. QED BY <1>6, <1>7 DEF t

LEMMA WrittenSvcsTurn ==
    ASSUME NEW c, NetsSound(c), SvcsSound(c), SvcOrder(c)
    PROVE  InTurn(SvcLines(GenASA(c)))
<1> DEFINE t == GenASA(c)
           D == SvcLines(t)
           S == c.svcs
           G == c.svcGroups
           R == [j \in DOMAIN c.svcGroups |-> RefsIn(c.svcGroups[j].members)]
           a == NetsEnd(c)
           b == NetGroupsEnd(c)
<1>1. Wellformed(c) /\ NetsSound(c) /\ SvcsSound(c)
    BY DEF SvcsSound
<1>2. PICK st : /\ \A p \in DOMAIN t : \E m, i : OfBlock(c, st, p, m, i)
                /\ \A p, q, m, i, n, k : OfBlock(c, st, p, m, i) /\ OfBlock(c, st, q, n, k) /\ m < n => p < q
    BY <1>1, WrittenLines
<1>3. a \in Nat /\ b \in Nat /\ a + Len(S) <= b /\ IsList(S) /\ IsList(G)
  <2>1. a \in Nat /\ b \in Nat /\ IsList(S) /\ IsList(G)
      BY <1>1, Places DEF Wellformed
  <2>2. Len(SvcBlocks(c)) = Len(S) /\ Len(NetGroupBlocks(c)) \in Nat
      BY <1>1, BlocksOf, MoreBlocks DEF IsList
  <2>3. Len(S) \in Nat
      BY <2>1 DEF IsList
  <2>4. b = a + Len(S) + Len(NetGroupBlocks(c))
      BY <2>2 DEF NetGroupsEnd, SvcsEnd
  <2> HIDE DEF a, b, S
  <2>5. QED BY <2>1, <2>2, <2>3, <2>4
<1>4. Order(S, G, R)
    BY DEF SvcOrder
<1>5. DOMAIN D = DOMAIN t /\ \A p \in DOMAIN t : D[p] = SvcLine(t, p)
    BY DEF SvcLines
<1>6. ASSUME NEW p \in DOMAIN D PROVE \E m, i : OfBlock(c, st, p, m, i) /\ Telt(D[p], S, G, R, a, b, m, i)
  <2>1. PICK m, i : OfBlock(c, st, p, m, i)
      BY <1>2, <1>5
  <2>2. \/ D[p] = Nothing
        \/ \E k \in DOMAIN S : m = a + k /\ i = 2 /\ D[p] = ServiceSays(S[k])
        \/ \E k \in DOMAIN G : m = b + k /\ \E v \in ToSet(G[k].members) : D[p] = SvcMemberSays(G[k], v)
      BY <1>5, <2>1, SvcPlaces
  <2>3. CASE D[p] = Nothing
      BY <2>1, <2>3, NothingGiven DEF Telt
  <2>4. CASE \E k \in DOMAIN S : m = a + k /\ i = 2 /\ D[p] = ServiceSays(S[k])
      BY <2>1, <2>4, NothingGiven DEF Telt
  <2>5. CASE \E k \in DOMAIN G : m = b + k /\ \E v \in ToSet(G[k].members) : D[p] = SvcMemberSays(G[k], v)
    <3>1. PICK k \in DOMAIN G : m = b + k /\ \E v \in ToSet(G[k].members) : D[p] = SvcMemberSays(G[k], v)
        BY <2>5
    <3>2. PICK v \in ToSet(G[k].members) : D[p] = SvcMemberSays(G[k], v)
        BY <3>1
    <3>3. /\ SvcMemberSays(G[k], v).names = {G[k].name}
          /\ SvcMemberSays(G[k], v).refs = IF Len(v) = 1 THEN {v[1]} ELSE {}
        BY NothingGiven
    <3>4. R[k] = RefsIn(G[k].members) /\ G[k].members # <<>> /\ (Len(v) = 1 => v[1] \in RefsIn(G[k].members))
        BY FewSets DEF RefsIn
    <3>5. D[p].adds
      <4>1. \/ D[p] = Says({G[k].name}, TRUE, FlowsOf(Proto(v), NoClause, Clause(Port(v))), {})
            \/ D[p] = Says({G[k].name}, TRUE, {}, {v[1]})
          BY <3>2, Zenon DEF SvcMemberSays
      <4>2. QED BY <4>1 DEF Says
    <3> HIDE DEF D, R, S, G, a, b
    <3>6. D[p].names = {G[k].name} /\ D[p].refs \subseteq R[k]
        BY <3>2, <3>3, <3>4
    <3>7. QED BY <2>1, <3>1, <3>4, <3>5, <3>6 DEF Telt
  <2>6. QED BY <2>2, <2>3, <2>4, <2>5
<1> HIDE DEF D, R, S, G, a, b
<1>7. InTurn(D)
    BY <1>2, <1>3, <1>4, <1>6, TurnByPlace
<1>8. QED BY <1>7 DEF D
-----------------------------------------------------------------------------
(* A context that is called ready has nothing that was left out.            *)
Clean(c) == {ItemsOf(c)[j].status : j \in DOMAIN ItemsOf(c)} \intersect {"failed", "partial", "manual"} = {}

LEMMA CleanSound ==
    ASSUME NEW c, Wellformed(c), Clean(c)
    PROVE  NetsSound(c) /\ SvcsSound(c) /\ RoutesWritten(c) = c.routes
<1>1. \A e \in ToSet(ItemsOf(c)) : e.status \notin {"failed", "partial", "manual"}
    BY DEF ToSet, Clean
<1>2. \A v : NotFailed(v) # "failed" => v \in Literals
    BY DEF NotFailed
<1>3. (\A o \in ToSet(c.nets) : o.value \in Literals) /\ \A r \in ToSet(c.routes) : r.dest \in Literals
    BY <1>1, <1>2, ItemsAre
<1>4. NetsWritten(c) = c.nets /\ RoutesWritten(c) = c.routes
    BY <1>3, AllWritten
<1>5. ASSUME NEW g \in ToSet(c.netGroups), NEW m \in ToSet(g.members) PROVE GenMember(c, m) # <<>>
  <2>1. PICK e \in ToSet(ItemsOf(c)) :
            e.status = IF \A j \in DOMAIN g.members : GenMember(c, g.members[j]) # <<>> THEN "converted" ELSE "partial"
      BY ItemsAre
  <2>2. \A j \in DOMAIN g.members : GenMember(c, g.members[j]) # <<>>
      BY <1>1, <2>1
  <2>3. QED BY <2>2 DEF ToSet
<1>6. ASSUME NEW g \in ToSet(c.svcGroups), NEW m \in ToSet(g.members) PROVE GenSvcMember(c, m) # <<>>
  <2>1. PICK e \in ToSet(ItemsOf(c)) :
            e.status = IF \A j \in DOMAIN g.members : GenSvcMember(c, g.members[j]) # <<>> THEN "converted" ELSE "partial"
      BY ItemsAre
  <2>2. \A j \in DOMAIN g.members : GenSvcMember(c, g.members[j]) # <<>>
      BY <1>1, <2>1
  <2>3. QED BY <2>2 DEF ToSet
<1>7. QED BY <1>4, <1>5, <1>6 DEF NetsSound, SvcsSound

(* Every name means the same in the source and in what is written of it.    *)
LEMMA PlainMembers ==
    ASSUME NEW t, NEW c, ReadAll(t, c), Running(t), PlainNetworks(t), NetsSound(c)
    PROVE  NetsPlain(c)
<1>1. IsList(t) /\ Nested(t)
    BY DEF ReadAll
<1>2. ASSUME NEW g \in ToSet(c.netGroups), NEW m \in ToSet(g.members) PROVE m \notin Prefixes6
  <2>1. PICK h \in DOMAIN t : g \in NetGroupsOf(t, h)
      BY AllHeld
  <2>2. t[h].k = "object-group" /\ t[h].of = "network" /\ g.members = ParseNetMembers(Body(t, h))
      BY <2>1 DEF NetGroupsOf
  <2>3. Stops(t[h])
      BY <1>1, <2>2 DEF Nested, Stops, Blank, Commands
  <2>4. PICK q \in DOMAIN t : NetMember(t, q) /\ m = t[q].v
      BY <1>1, <1>2, <2>2, <2>3, NetMembersAre
  <2>5. QED BY <2>4 DEF PlainNetworks, PlainNetwork, NetMember
<1>3. QED BY <1>2 DEF NetsPlain

LEMMA NetworksKept ==
    ASSUME NEW t, NEW c, ReadAll(t, c), Running(t), AllReadable(t), PlainNetworks(t), NetsSound(c)
    PROVE  \A n : Lookup(Networks(GenASA(c)), n) = Lookup(Networks(t), n)
<1> DEFINE D == NetLines(t)
           E == NetLines(GenASA(c))
<1>1. Networks(t) = Meaning(D) /\ Networks(GenASA(c)) = Meaning(E)
    BY DEF Networks, NetLines
<1>2. IsList(t) /\ Wellformed(c)
    BY DEF ReadAll
<1>3. IsList(GenASA(c))
    BY <1>2, Generated
<1>4. IsList(D) /\ IsList(E)
    BY <1>2, <1>3, GivenLines
<1>5. InTurn(D)
    BY <1>2, SourceNetsTurn
<1>6. NetOrder(c)
    BY SourceNetOrder
<1>7. InTurn(E)
    BY <1>6, PlainMembers, WrittenNetsTurn
<1>8. \A d : d \in Given(D) <=> d \in Given(E)
  <2>1. \A d : d \in Given(D) <=> NetGiven(c, d)
      BY SourceNets
  <2>2. \A d : d \in Given(E) <=> NetGiven(c, d)
      BY PlainMembers, WrittenNets
  <2>3. QED BY <2>1, <2>2
<1> HIDE DEF D, E
<1>9. \A n : Lookup(Meaning(D), n) = Lookup(Meaning(E), n)
  <2>1. Given(D) = Given(E)
      BY <1>8 DEF Given
  <2>2. QED BY <1>4, <1>5, <1>7, <2>1, MeaningSame
<1>10. QED BY <1>1, <1>9

LEMMA ServicesKept ==
    ASSUME NEW t, NEW c, ReadAll(t, c), Running(t), PlainServices(t), NetsSound(c), SvcsSound(c)
    PROVE  \A n : Lookup(Services(GenASA(c)), n) = Lookup(Services(t), n)
<1> DEFINE D == SvcLines(t)
           E == SvcLines(GenASA(c))
<1>1. Services(t) = Meaning(D) /\ Services(GenASA(c)) = Meaning(E)
    BY DEF Services, SvcLines
<1>2. IsList(t) /\ Wellformed(c)
    BY DEF ReadAll
<1>3. IsList(GenASA(c))
    BY <1>2, Generated
<1>4. IsList(D) /\ IsList(E)
    BY <1>2, <1>3, GivenSvcLines
<1>5. InTurn(D)
    BY <1>2, SourceSvcsTurn
<1>6. SvcOrder(c)
    BY SourceSvcOrder
<1>7. InTurn(E)
    BY <1>6, WrittenSvcsTurn
<1>8. \A d : d \in Given(D) <=> d \in Given(E)
  <2>1. \A d : d \in Given(D) <=> SvcGiven(c, d)
      BY SourceSvcs
  <2>2. \A d : d \in Given(E) <=> SvcGiven(c, d)
      BY WrittenSvcs
  <2>3. QED BY <2>1, <2>2
<1> HIDE DEF D, E
<1>9. \A n : Lookup(Meaning(D), n) = Lookup(Meaning(E), n)
  <2>1. Given(D) = Given(E)
      BY <1>8 DEF Given
  <2>2. QED BY <1>4, <1>5, <1>7, <2>1, MeaningSame
<1>10. QED BY <1>1, <1>9
-----------------------------------------------------------------------------
(* Routes: as many, in their order.                                         *)
LEMMA SourceRoutes ==
    ASSUME NEW t, NEW c, ReadAll(t, c), c.unparsed = {}
    PROVE  /\ Len(Only(t, "route")) = Len(c.routes) /\ DOMAIN Only(t, "route") = 1..Len(c.routes)
           /\ \A i \in 1..Len(c.routes) :
                 /\ Only(t, "route")[i] = t[c.routes[i].line] /\ c.routes[i].line \in DOMAIN t
                 /\ t[c.routes[i].line].k = "route" /\ c.routes[i] \in RoutesAt(t, c.routes[i].line)
<1> DEFINE n == Len(c.routes)
           T == {j \in DOMAIN t : t[j].k = "route"}
           g == [i \in 1..n |-> c.routes[i].line]
<1>1. IsList(t) /\ n \in Nat /\ DOMAIN c.routes = 1..n
    BY DEF ReadAll, Wellformed, IsList
<1>2. /\ \A e : e \in ToSet(c.routes) <=> \E j \in DOMAIN t : e \in RoutesAt(t, j)
      /\ InOrder(c.routes)
      /\ \A j \in DOMAIN t : t[j].k = "route" => t[j].ok
    BY AllHeld
<1>3. \A e : \A j \in DOMAIN t : e \in RoutesAt(t, j) => e.line = j /\ t[j].k = "route"
    BY DEF RoutesAt
<1>4. ASSUME NEW i \in 1..n
      PROVE  c.routes[i].line \in T /\ c.routes[i] \in RoutesAt(t, c.routes[i].line)
  <2>1. c.routes[i] \in ToSet(c.routes)
      BY <1>1 DEF ToSet
  <2>2. PICK j \in DOMAIN t : c.routes[i] \in RoutesAt(t, j)
      BY <1>2, <2>1
  <2>3. QED BY <1>3, <2>2
<1>5. ASSUME NEW j \in T PROVE \E i \in 1..n : c.routes[i].line = j
  <2>1. \E e : e \in RoutesAt(t, j)
      BY <1>2 DEF RoutesAt
  <2>2. PICK e : e \in RoutesAt(t, j)
      BY <2>1
  <2>3. e \in ToSet(c.routes) /\ e.line = j
      BY <1>2, <1>3, <2>2
  <2>4. QED BY <1>1, <2>3 DEF ToSet
<1>6. T \intersect DOMAIN t = T
    OBVIOUS
<1>7. \A i, j \in 1..n : i < j => c.routes[i].line < c.routes[j].line
    BY <1>1, <1>2 DEF InOrder
<1>8. (\A i \in 1..n : g[i] = c.routes[i].line) /\ g \in [1..n -> T]
    BY <1>4
<1>9. Only(t, "route") = Those(t, T)
    BY DEF Only, Select
<1> HIDE DEF T, g, n
<1>10. Counts(g, n, T \intersect DOMAIN t)
    BY <1>1, <1>5, <1>6, <1>7, <1>8 DEF Counts
<1>11. Len(Those(t, T)) = n /\ DOMAIN Those(t, T) = 1..n /\ Picks(g, Those(t, T), t)
    BY <1>1, <1>10, ThoseCounted
<1>12. \A j \in T : j \in DOMAIN t /\ t[j].k = "route"
    BY DEF T
<1>13. QED BY <1>4, <1>8, <1>9, <1>11, <1>12 DEF n, Picks

LEMMA RoutesLast ==
    ASSUME NEW c, Wellformed(c), NEW m \in 1..Len(Blocks(c)), ~ (NatsEnd(c) < m)
    PROVE  Routeless(Blocks(c)[m])
<1>1. PICK a : IsList(a) /\ Blocks(c) = a \o RouteBlocks(c) /\ \A b \in ToSet(a) : Routeless(b)
    BY Layout
<1>2. IsList(RouteBlocks(c)) /\ Len(Blocks(c)) = NatsEnd(c) + Len(RouteBlocks(c)) /\ NatsEnd(c) \in Nat
    BY BlocksOf, Places
<1>3. /\ Len(a) \in Nat /\ Len(RouteBlocks(c)) \in Nat /\ Len(a \o RouteBlocks(c)) = Len(a) + Len(RouteBlocks(c))
      /\ \A i \in 1..Len(a) : (a \o RouteBlocks(c))[i] = a[i]
    BY <1>1, <1>2, ConcatAt DEF IsList
<1>4. m \in 1..Len(a) /\ DOMAIN a = 1..Len(a)
    BY <1>1, <1>2, <1>3 DEF IsList
<1>5. Blocks(c)[m] = a[m] /\ a[m] \in ToSet(a)
    BY <1>1, <1>3, <1>4 DEF ToSet
<1>6. QED BY <1>1, <1>5

LEMMA WrittenRoutes ==
    ASSUME NEW c, Wellformed(c), RoutesWritten(c) = c.routes
    PROVE  /\ DOMAIN Only(GenASA(c), "route") = 1..Len(c.routes)
           /\ \A i \in 1..Len(c.routes) : Only(GenASA(c), "route")[i] = GenRoute(c.routes[i])
<1> DEFINE n == Len(c.routes)
           u == GenASA(c)
           T == {j \in DOMAIN u : u[j].k = "route"}
<1>1. IsList(u) /\ n \in Nat /\ DOMAIN c.routes = 1..n /\ NatsEnd(c) \in Nat
      /\ Len(Blocks(c)) = NatsEnd(c) + n
  <2>0. IsList(u) /\ IsList(c.routes)
      BY Generated DEF Wellformed
  <2>1. Len(Blocks(c)) = NatsEnd(c) + Len(RouteBlocks(c)) /\ Len(RouteBlocks(c)) = Len(c.routes) /\ NatsEnd(c) \in Nat
      BY Places, BlocksOf
  <2>2. n \in Nat /\ DOMAIN c.routes = 1..n
      BY <2>0 DEF IsList
  <2>3. QED BY <2>0, <2>1, <2>2
<1>2. PICK st : /\ \A p \in DOMAIN u : \E m, i : OfBlock(c, st, p, m, i)
                /\ \A m \in 1..Len(Blocks(c)) : \A i \in 1..Len(Blocks(c)[m]) :
                       /\ st[m] + i - 1 \in DOMAIN u /\ OfBlock(c, st, st[m] + i - 1, m, i)
                /\ \A p, q, m, i, k, l : OfBlock(c, st, p, m, i) /\ OfBlock(c, st, q, k, l) /\ m < k => p < q
    BY WrittenLines
<1> DEFINE g == [i \in 1..n |-> st[NatsEnd(c) + i] + 1 - 1]
<1>3. ASSUME NEW i \in 1..n
      PROVE  /\ Blocks(c)[NatsEnd(c) + i] = <<GenRoute(c.routes[i])>> /\ NatsEnd(c) + i \in 1..Len(Blocks(c))
             /\ Len(Blocks(c)[NatsEnd(c) + i]) = 1 /\ Blocks(c)[NatsEnd(c) + i][1] = GenRoute(c.routes[i])
  <2>1. RouteAt(c, NatsEnd(c) + i, i) /\ NatsEnd(c) + i \in 1..Len(Blocks(c))
      BY <1>1, BlockAt
  <2>2. Blocks(c)[NatsEnd(c) + i] = <<GenRoute(c.routes[i])>>
      BY <2>1 DEF RouteAt
  <2>3. QED BY <2>1, <2>2
<1>4. ASSUME NEW i \in 1..n
      PROVE  g[i] \in T /\ OfBlock(c, st, g[i], NatsEnd(c) + i, 1) /\ u[g[i]] = GenRoute(c.routes[i])
  <2>1. g[i] = st[NatsEnd(c) + i] + 1 - 1
      OBVIOUS
  <2>2. 1 \in 1..Len(Blocks(c)[NatsEnd(c) + i])
      BY <1>3
  <2>3. g[i] \in DOMAIN u /\ OfBlock(c, st, g[i], NatsEnd(c) + i, 1)
      BY <1>2, <1>3, <2>1, <2>2
  <2>4. u[g[i]] = GenRoute(c.routes[i])
      BY <1>3, <2>3 DEF OfBlock
  <2>5. u[g[i]].k = "route"
      BY <2>4, NatRouteLines
  <2>6. QED BY <2>3, <2>4, <2>5
<1>5. ASSUME NEW p \in T PROVE \E i \in 1..n : g[i] = p
  <2>1. PICK m, k : OfBlock(c, st, p, m, k)
      BY <1>2
  <2>2. m \in 1..Len(Blocks(c)) /\ k \in 1..Len(Blocks(c)[m]) /\ p = st[m] + k - 1 /\ u[p] = Blocks(c)[m][k]
      BY <2>1 DEF OfBlock
  <2>3. NatsEnd(c) < m
    <3>1. SUFFICES ASSUME ~(NatsEnd(c) < m) PROVE FALSE
        OBVIOUS
    <3>2. Routeless(Blocks(c)[m])
        BY <2>2, <3>1, RoutesLast
    <3>3. IsList(Blocks(c)) /\ \A b \in DOMAIN Blocks(c) : Heads(Blocks(c)[b])
        BY Layout
    <3>4. k \in DOMAIN Blocks(c)[m]
        BY <2>2, <3>3 DEF IsList, Heads
    <3>5. Blocks(c)[m][k].k # "route"
        BY <3>2, <3>4 DEF Routeless, ToSet
    <3>6. QED BY <2>2, <3>5
  <2>4. m - NatsEnd(c) \in 1..n /\ m = NatsEnd(c) + (m - NatsEnd(c))
      BY <1>1, <2>2, <2>3
  <2>5. PICK i \in 1..n : m = NatsEnd(c) + i
      BY <2>4
  <2>6. k = 1
      BY <1>3, <2>2, <2>5
  <2>7. g[i] = p
      BY <2>2, <2>5, <2>6
  <2>8. QED BY <2>7
<1>6. ASSUME NEW i \in 1..n, NEW j \in 1..n, i < j PROVE g[i] < g[j]
  <2>1. OfBlock(c, st, g[i], NatsEnd(c) + i, 1) /\ OfBlock(c, st, g[j], NatsEnd(c) + j, 1)
      BY <1>4
  <2>2. NatsEnd(c) + i < NatsEnd(c) + j
      BY <1>1, <1>6
  <2>3. QED BY <1>2, <2>1, <2>2
<1>7. T \intersect DOMAIN u = T
    OBVIOUS
<1>8. g \in [1..n -> T]
    BY <1>4
<1>9. Only(u, "route") = Those(u, T)
    BY DEF Only, Select
<1> SUFFICES /\ DOMAIN Only(u, "route") = 1..n
             /\ \A i \in 1..n : Only(u, "route")[i] = GenRoute(c.routes[i])
    OBVIOUS
<1> HIDE DEF T, g, n, u
<1>10. Counts(g, n, T \intersect DOMAIN u)
    BY <1>1, <1>5, <1>6, <1>7, <1>8 DEF Counts
<1>11. Len(Those(u, T)) = n /\ DOMAIN Those(u, T) = 1..n /\ Picks(g, Those(u, T), u)
    BY <1>1, <1>10, ThoseCounted
<1>12. QED BY <1>4, <1>9, <1>11 DEF Picks

LEMMA RoutesKept ==
    ASSUME NEW t, NEW c, ReadAll(t, c), c.unparsed = {}, RoutesWritten(c) = c.routes,
           \A j \in DOMAIN t : t[j].k = "route" => MapIface(t[j].iface) = t[j].iface
    PROVE  RoutesOf(GenASA(c)) = [j \in DOMAIN RoutesOf(t) |-> [RoutesOf(t)[j] EXCEPT !.iface = MapZone(@)]]
<1> DEFINE n == Len(c.routes)
           L == Only(t, "route")
           M == Only(GenASA(c), "route")
           Way(l) == [iface |-> l.iface, dest |-> l.dest, gw |-> l.gw, metric |-> IF l.metric = 0 THEN 1 ELSE l.metric]
<1>1. Wellformed(c)
    BY DEF ReadAll
<1>2. /\ DOMAIN L = 1..n
      /\ \A i \in 1..n : /\ L[i] = t[c.routes[i].line] /\ c.routes[i].line \in DOMAIN t
                         /\ L[i].k = "route" /\ c.routes[i] \in RoutesAt(t, c.routes[i].line)
    BY SourceRoutes
<1>3. DOMAIN M = 1..n /\ \A i \in 1..n : M[i] = GenRoute(c.routes[i])
    BY <1>1, WrittenRoutes
<1>4. RoutesOf(t) = [j \in DOMAIN L |-> Way(L[j])] /\ RoutesOf(GenASA(c)) = [j \in DOMAIN M |-> Way(M[j])]
    BY DEF RoutesOf
<1>5. ASSUME NEW i \in 1..n PROVE Way(M[i]) = [Way(L[i]) EXCEPT !.iface = MapZone(@)]
  <2>1. L[i] = t[c.routes[i].line] /\ c.routes[i].line \in DOMAIN t /\ L[i].k = "route"
        /\ c.routes[i] \in RoutesAt(t, c.routes[i].line)
      BY <1>2
  <2>2. c.routes[i].iface = L[i].iface /\ c.routes[i].dest = L[i].dest /\ c.routes[i].gw = L[i].gw
        /\ c.routes[i].metric = L[i].metric
      BY <2>1 DEF RoutesAt
  <2>3. MapIface(L[i].iface) = L[i].iface
      BY <2>1
  <2>4. M[i] = GenRoute(c.routes[i])
      BY <1>3
  <2>5. M[i].dest = L[i].dest /\ M[i].gw = L[i].gw /\ M[i].metric = IF L[i].metric = 0 THEN 1 ELSE L[i].metric
      BY <2>2, <2>4 DEF GenRoute
  <2>6. M[i].iface = MapZone(L[i].iface)
      BY <2>2, <2>3, <2>4 DEF GenRoute
  <2> HIDE DEF L, M
  <2>7. QED BY <2>5, <2>6
<1> HIDE DEF L, M, n, Way
<1>6. QED BY <1>2, <1>3, <1>4, <1>5
-----------------------------------------------------------------------------
(* The interfaces of what is written: the first blocks, and no others.      *)
NoIface(b) == \A l \in ToSet(b) : l.k # "interface"

LEMMA OtherBlocks ==
    ASSUME NEW c, Wellformed(c)
    PROVE  /\ \A o : NoIface(GenObject(o)) /\ NoIface(GenService(o)) /\ NoIface(GenRule(c, o))
                     /\ NoIface(<<GenRoute(o)>>) /\ NoIface(<<GenNAT(c, o)>>)
           /\ \A g : IsList(g.members) => NoIface(GenNetGroup(c, g)) /\ NoIface(GenSvcGroup(c, g))
           /\ \A j \in 1..Len(GenBindings(c)) : NoIface(<<GenBindings(c)[j]>>)
<1>1. ASSUME NEW a, NEW l, a.k # "interface", l.k # "interface" PROVE NoIface(<<a, l>>) /\ NoIface(<<a>>)
  <2>1. ToSet(<<a, l>>) = {a, l} /\ ToSet(<<a>>) = {a}
      BY FewSets
  <2>2. QED BY <1>1, <2>1 DEF NoIface
<1>2. ASSUME NEW o PROVE NoIface(GenObject(o)) /\ NoIface(GenService(o)) /\ NoIface(GenRule(c, o))
  <2>1. /\ GenObject(o) = <<GenObject(o)[1], GenObject(o)[2]>>
        /\ GenObject(o)[1].k = "object" /\ GenObject(o)[2].k = "value"
      BY DEF GenObject
  <2>2. /\ GenService(o) = <<GenService(o)[1], GenService(o)[2]>>
        /\ GenService(o)[1].k = "service" /\ GenService(o)[2].k = "spec"
      BY DEF GenService
  <2>3. /\ GenRule(c, o) = <<GenRule(c, o)[1], GenRule(c, o)[2]>>
        /\ GenRule(c, o)[1].k = "remark" /\ GenRule(c, o)[2].k = "ace"
      BY DEF GenRule
  <2>4. NoIface(GenObject(o))
      BY <1>1, <2>1
  <2>5. NoIface(GenService(o))
      BY <1>1, <2>2
  <2>6. NoIface(GenRule(c, o))
      BY <1>1, <2>3
  <2>7. QED BY <2>4, <2>5, <2>6
<1>3. ASSUME NEW o PROVE NoIface(<<GenRoute(o)>>) /\ NoIface(<<GenNAT(c, o)>>)
    BY <1>1, NatRouteLines
<1>4. ASSUME NEW g, IsList(g.members) PROVE NoIface(GenNetGroup(c, g)) /\ NoIface(GenSvcGroup(c, g))
  <2>1. NetHead(g).k = "object-group" /\ SvcHead(g).k = "object-group"
      BY DEF NetHead, SvcHead
  <2>2. \A m : \A l \in ToSet(GenMember(c, m)) : l.k # "interface"
      BY DEF GenMember, ToSet
  <2>3. \A m : \A l \in ToSet(GenSvcMember(c, m)) : l.k # "interface"
      BY DEF GenSvcMember, ToSet
  <2>4. \A l \in ToSet(GenNetGroup(c, g)) : l = NetHead(g) \/ \E m \in ToSet(g.members) : l \in ToSet(GenMember(c, m))
      BY <1>4, GroupLines
  <2>5. \A l \in ToSet(GenSvcGroup(c, g)) : l = SvcHead(g) \/ \E m \in ToSet(g.members) : l \in ToSet(GenSvcMember(c, m))
      BY <1>4, GroupLines
  <2>6. NoIface(GenNetGroup(c, g))
      BY <2>1, <2>2, <2>4 DEF NoIface
  <2>7. NoIface(GenSvcGroup(c, g))
      BY <2>1, <2>3, <2>5 DEF NoIface
  <2>8. QED BY <2>6, <2>7
<1>5. ASSUME NEW j \in 1..Len(GenBindings(c)) PROVE NoIface(<<GenBindings(c)[j]>>)
    BY <1>1, MoreBlocks
<1>6. QED BY <1>2, <1>3, <1>4, <1>5

LEMMA IfaceBlockOnly ==
    ASSUME NEW c, Wellformed(c), NEW m \in 1..Len(Blocks(c)), NEW i \in 1..Len(Blocks(c)[m]),
           Blocks(c)[m][i].k = "interface"
    PROVE  m \in DOMAIN c.ifs /\ Blocks(c)[m] = GenInterface(c.ifs[m]) /\ i = 1
<1> DEFINE b == Blocks(c)[m]
<1>1. i \in DOMAIN b
  <2>1. IsList(Blocks(c)) /\ \A j \in DOMAIN Blocks(c) : Heads(Blocks(c)[j])
      BY Layout
  <2>2. QED BY <2>1 DEF IsList, Heads
<1>2. ~NoIface(b)
    BY <1>1 DEF NoIface, ToSet
<1>3. \A g \in ToSet(c.netGroups) \union ToSet(c.svcGroups) : IsList(g.members)
    BY DEF Wellformed
<1> HIDE DEF b
<1>4. PICK k : \/ IfaceAt(c, m, k) \/ ObjectAt(c, m, k) \/ ServiceAt(c, m, k) \/ NetGroupAt(c, m, k)
               \/ SvcGroupAt(c, m, k) \/ RuleAt(c, m, k) \/ BindAt(c, m, k) \/ NatAt(c, m, k) \/ RouteAt(c, m, k)
    BY BlockAt
<1>5. ~ObjectAt(c, m, k) /\ ~ServiceAt(c, m, k) /\ ~RuleAt(c, m, k) /\ ~NatAt(c, m, k) /\ ~RouteAt(c, m, k)
    BY <1>2, OtherBlocks DEF b, ObjectAt, ServiceAt, RuleAt, NatAt, RouteAt
<1>6. ~NetGroupAt(c, m, k)
  <2>1. SUFFICES ASSUME NetGroupAt(c, m, k) PROVE FALSE
      OBVIOUS
  <2>2. c.netGroups[k] \in ToSet(c.netGroups) /\ b = GenNetGroup(c, c.netGroups[k])
      BY <2>1 DEF NetGroupAt, ToSet, b
  <2>3. QED BY <1>2, <1>3, <2>2, OtherBlocks
<1>7. ~SvcGroupAt(c, m, k)
  <2>1. SUFFICES ASSUME SvcGroupAt(c, m, k) PROVE FALSE
      OBVIOUS
  <2>2. c.svcGroups[k] \in ToSet(c.svcGroups) /\ b = GenSvcGroup(c, c.svcGroups[k])
      BY <2>1 DEF SvcGroupAt, ToSet, b
  <2>3. QED BY <1>2, <1>3, <2>2, OtherBlocks
<1>8. ~BindAt(c, m, k)
  <2>1. SUFFICES ASSUME BindAt(c, m, k) PROVE FALSE
      OBVIOUS
  <2>2. DOMAIN GenBindings(c) = 1..Len(GenBindings(c))
      BY MoreBlocks DEF IsList
  <2>3. k \in 1..Len(GenBindings(c)) /\ b = <<GenBindings(c)[k]>>
      BY <2>1, <2>2 DEF b, BindAt
  <2>4. NoIface(<<GenBindings(c)[k]>>)
      BY <2>3, OtherBlocks
  <2>5. QED BY <1>2, <2>3, <2>4
<1>9. IfaceAt(c, m, k)
    BY <1>4, <1>5, <1>6, <1>7, <1>8
<1>10. k = m /\ m \in DOMAIN c.ifs /\ b = GenInterface(c.ifs[m])
    BY <1>9 DEF IfaceAt, b
<1>11. Led(b, IfaceHead(c.ifs[m])) /\ \A l : l \in ToSet(b) <=> IfaceLine(c.ifs[m], l)
  <2>1. IfaceOK(c.ifs[m])
      BY <1>10 DEF Wellformed, ToSet
  <2>2. QED BY <1>10, <2>1, IfaceLines
<1>12. i = 1
  <2>1. SUFFICES ASSUME i # 1 PROVE FALSE
      OBVIOUS
  <2>2. i \in 2..Len(b)
      BY <2>1 DEF b
  <2>3. b[i].in /\ b[i] \in ToSet(b) /\ b[i].k = "interface"
      BY <1>1, <1>11, <2>2 DEF Led, Under, ToSet, b
  <2>4. IfaceLine(c.ifs[m], b[i])
      BY <1>11, <2>3
  <2>5. b[i] # IfaceHead(c.ifs[m])
      BY <2>3 DEF IfaceHead
  <2>6. b[i] # VlanLine(c.ifs[m]) /\ b[i] # NameifLine(c.ifs[m]) /\ b[i] # LevelLine(c.ifs[m]) /\ b[i] # DownLine
      BY <2>3 DEF VlanLine, NameifLine, LevelLine, DownLine
  <2>7. \A v : b[i] # IpLine(v)
      BY <2>3 DEF IpLine
  <2>8. QED BY <2>4, <2>5, <2>6, <2>7, Zenon DEF IfaceLine
<1>13. QED BY <1>10, <1>12 DEF b

LEMMA IfacesStand ==
    ASSUME NEW c, Wellformed(c)
    PROVE  \E h : /\ Stand(h, Blocks(c), GenASA(c))
                  /\ \A p \in DOMAIN GenASA(c) : GenASA(c)[p].k = "interface" => \E m \in DOMAIN c.ifs : p = h[m]
<1> DEFINE B == Blocks(c)
           u == GenASA(c)
<1>1. IsList(B) /\ (\A j \in DOMAIN B : Heads(B[j])) /\ IsList(u) /\ u = FlattenSeq(B)
    BY Layout, Generated DEF GenASA
<1>2. \A j \in DOMAIN B : IsList(B[j])
    BY <1>1 DEF Heads
<1> HIDE DEF B, u
<1>3. PICK st : Laid(B, u, st)
    BY <1>1, <1>2, FlattenAt
<1>4. Placed(B, B)
    BY <1>1, PlacedSelf
<1>5. PICK h : Stand(h, B, u) /\ \E off \in Nat : Shifted(h, st, off, Len(B), Len(B))
    BY <1>1, <1>3, <1>4, Standing
<1>6. \A i \in 1..Len(B) : h[i] = st[i] /\ st[i] \in Nat
  <2>1. PICK off \in Nat : Shifted(h, st, off, Len(B), Len(B))
      BY <1>5
  <2>2. Len(B) \in Nat
      BY <1>1 DEF IsList
  <2>3. off = 0
      BY <2>1, <2>2 DEF Shifted
  <2>4. \A i \in 1..Len(B) : 0 + i = i /\ i \in 1..(Len(B) + 1)
      BY <2>2
  <2>5. QED BY <1>3, <2>1, <2>3, <2>4 DEF Shifted, Laid
<1>7. ASSUME NEW p \in DOMAIN u, u[p].k = "interface" PROVE \E m \in DOMAIN c.ifs : p = h[m]
  <2>1. PICK m \in 1..Len(B) : \E i \in 1..Len(B[m]) : p = st[m] + i - 1
      BY <1>1, <1>2, <1>3, LaidAll
  <2>2. PICK i \in 1..Len(B[m]) : p = st[m] + i - 1
      BY <2>1
  <2>3. u[p] = B[m][i]
      BY <1>1, <1>2, <1>3, <2>2, LaidIn
  <2>4. m \in DOMAIN c.ifs /\ i = 1
      BY <1>7, <2>3, IfaceBlockOnly DEF B
  <2>5. p = h[m]
      BY <1>6, <2>2, <2>4
  <2>6. QED BY <2>4, <2>5
<1>8. QED BY <1>5, <1>7 DEF B, u
-----------------------------------------------------------------------------
(* What interfaces have, by their nameif.                                   *)
AliasAt(t, j) == LastOf(Only(Body(t, j), "nameif"), "")
UnderAt(t, kind, j, l, p) ==
    /\ j \in DOMAIN t /\ t[j].k = "interface" /\ Only(Body(t, j), "nameif") # <<>>
    /\ l \in ToSet(Body(t, j)) /\ l.k = kind /\ p = <<AliasAt(t, j), l.v>>

LEMMA UnderIs ==
    ASSUME NEW t, IsList(t), NEW kind, NEW p
    PROVE  p \in UnderNameif(t, kind) <=> \E j, l : UnderAt(t, kind, j, l, p)
<1> DEFINE J == {j \in DOMAIN t : t[j].k = "interface" /\ Only(Body(t, j), "nameif") # <<>>}
           P(j) == {<<AliasAt(t, j), v>> : v \in ToSet(Values(Only(Body(t, j), kind)))}
<1>1. UnderNameif(t, kind) = UNION {P(i) : i \in J}
    BY DEF UnderNameif, AliasAt
<1>2. p \in UnderNameif(t, kind) <=> \E j \in J : p \in P(j)
    BY <1>1
<1>3. ASSUME NEW j \in DOMAIN t
      PROVE  \A v : v \in ToSet(Values(Only(Body(t, j), kind))) <=> \E l \in ToSet(Body(t, j)) : l.k = kind /\ v = l.v
  <2>1. IsList(Body(t, j))
      BY BodyList
  <2>2. IsList(Only(Body(t, j), kind)) /\ ToSet(Only(Body(t, j), kind)) = {l \in ToSet(Body(t, j)) : l.k = kind}
      BY <2>1, Selected, Picked
  <2>3. ToSet(Values(Only(Body(t, j), kind))) = {l.v : l \in ToSet(Only(Body(t, j), kind))}
      BY <2>2, Picked
  <2>4. QED BY <2>2, <2>3
<1>4. ASSUME NEW j \in J
      PROVE  p \in P(j) <=> \E l \in ToSet(Body(t, j)) : l.k = kind /\ p = <<AliasAt(t, j), l.v>>
  <2>1. p \in P(j) <=> \E v \in ToSet(Values(Only(Body(t, j), kind))) : p = <<AliasAt(t, j), v>>
      OBVIOUS
  <2>2. QED BY <1>3, <2>1
<1>5. \A j : j \in J <=> j \in DOMAIN t /\ t[j].k = "interface" /\ Only(Body(t, j), "nameif") # <<>>
    OBVIOUS
<1> HIDE DEF J, P
<1>6. QED BY <1>2, <1>4, <1>5 DEF UnderAt

(* In a text whose zones are named, an interface has a nameif or no alias.  *)
LEMMA AliasIs ==
    ASSUME NEW t, IsList(t), NEW j \in DOMAIN t
    PROVE  /\ Only(Body(t, j), "nameif") = <<>> <=> \A l \in ToSet(Body(t, j)) : l.k # "nameif"
           /\ Only(Body(t, j), "nameif") = <<>> => AliasAt(t, j) = ""
           /\ Only(Body(t, j), "nameif") # <<>> =>
                 \E l \in ToSet(Body(t, j)) : l.k = "nameif" /\ AliasAt(t, j) = l.v
<1> DEFINE N == Only(Body(t, j), "nameif")
<1>1. IsList(Body(t, j))
    BY BodyList
<1>2. IsList(N) /\ ToSet(N) = {l \in ToSet(Body(t, j)) : l.k = "nameif"}
    BY <1>1, Selected, Picked
<1>3. AliasAt(t, j) = IF N = <<>> THEN "" ELSE Last(N).v
    BY DEF AliasAt, LastOf
<1> HIDE DEF N
<1>4. N = <<>> <=> ToSet(N) = {}
    BY <1>2, EmptyPicked
<1>5. N # <<>> => Last(N) \in ToSet(N)
    BY <1>2, LastIn
<1>6. QED BY <1>2, <1>3, <1>4, <1>5 DEF N

LEMMA BodyIn ==
    ASSUME NEW t, IsList(t), NEW j \in DOMAIN t, NEW l \in ToSet(Body(t, j))
    PROVE  \E q \in DOMAIN t : l = t[q]
BY BodyAre

(* The lines below a header that was written for an interface. *)
LEMMA WrittenBody ==
    ASSUME NEW c, Wellformed(c), NEW h, Stand(h, Blocks(c), GenASA(c)), NEW m \in DOMAIN c.ifs
    PROVE  /\ h[m] \in DOMAIN GenASA(c) /\ GenASA(c)[h[m]].k = "interface" /\ IfaceOK(c.ifs[m])
           /\ \A l : l \in ToSet(Body(GenASA(c), h[m])) <=> IfaceLine(c.ifs[m], l) /\ l.k # "interface"
<1> DEFINE i == c.ifs[m]
           u == GenASA(c)
           b == Blocks(c)[m]
<1>1. IfaceOK(i) /\ IsList(u)
    BY Generated DEF Wellformed, ToSet
<1>2. m \in 1..Len(Blocks(c)) /\ b = GenInterface(i)
    BY BlockAt DEF IfaceAt
<1>3. Led(b, IfaceHead(i)) /\ Stops(IfaceHead(i)) /\ \A l : l \in ToSet(b) <=> IfaceLine(i, l)
    BY <1>1, <1>2, IfaceLines
<1>4. IfaceHead(i).k = "interface" /\ \A l : IfaceLine(i, l) /\ l.k = "interface" => l = IfaceHead(i)
  <2>1. IfaceHead(i).k = "interface" /\ VlanLine(i).k # "interface" /\ NameifLine(i).k # "interface"
        /\ LevelLine(i).k # "interface" /\ DownLine.k # "interface" /\ \A v : IpLine(v).k # "interface"
      BY DEF IfaceHead, VlanLine, NameifLine, LevelLine, DownLine, IpLine
  <2>2. QED BY <2>1, Zenon DEF IfaceLine
<1>5. IfaceHead(i).in = FALSE
    BY DEF IfaceHead
<1> HIDE DEF i, u, b
<1>6. Heads(b) /\ Below(b) /\ b[1] = IfaceHead(i)
    BY <1>3, <1>4, LedHeads DEF Led
<1>7. h[m] \in DOMAIN u /\ u[h[m]] = b[1] /\ ToSet(Body(u, h[m])) = LinesBelow(b)
    BY <1>1, <1>2, <1>6, BodyShown DEF b, u
<1>8. IsList(b) /\ DOMAIN b = 1..Len(b) /\ Len(b) \in Nat /\ 1 \in DOMAIN b
    BY <1>6 DEF Heads, IsList
<1>9. ASSUME NEW l PROVE l \in LinesBelow(b) <=> l \in ToSet(b) /\ l # IfaceHead(i)
  <2>1. l \in LinesBelow(b) <=> \E k \in 2..Len(b) : l = b[k]
      BY DEF LinesBelow
  <2>2. l \in ToSet(b) <=> \E k \in DOMAIN b : l = b[k]
      BY DEF ToSet
  <2>3. \A k \in 2..Len(b) : b[k] # IfaceHead(i) /\ k \in DOMAIN b
      BY <1>5, <1>6, <1>8 DEF Below
  <2>4. \A k \in DOMAIN b : k = 1 \/ k \in 2..Len(b)
      BY <1>8
  <2>5. QED BY <1>6, <2>1, <2>2, <2>3, <2>4
<1>10. \A l : l \in ToSet(Body(u, h[m])) <=> IfaceLine(i, l) /\ l.k # "interface"
    BY <1>3, <1>4, <1>7, <1>9
<1>11. QED BY <1>1, <1>4, <1>6, <1>7, <1>10 DEF i, u

(* Of which kind its lines are. *)
LEMMA IfaceKinds ==
    ASSUME NEW i, NEW l, IfaceLine(i, l)
    PROVE  /\ l.k = "nameif" => i.alias # "" /\ l.v = MapZone(i.alias)
           /\ l.k = "ip" => \E v \in ToSet(i.ips) : l = IpLine(v)
<1>1. /\ IfaceHead(i).k = "interface" /\ VlanLine(i).k = "vlan" /\ NameifLine(i).k = "nameif"
      /\ NameifLine(i).v = MapZone(i.alias) /\ LevelLine(i).k = "security-level" /\ DownLine.k = "shutdown"
      /\ \A v : IpLine(v).k = "ip"
    BY DEF IfaceHead, VlanLine, NameifLine, LevelLine, DownLine, IpLine
<1>2. \/ l = IfaceHead(i) \/ l = VlanLine(i) \/ (i.alias # "" /\ l = NameifLine(i)) \/ l = LevelLine(i)
      \/ (\E v \in ToSet(i.ips) : l = IpLine(v)) \/ l = DownLine
    BY Zenon DEF IfaceLine
<1>3. QED BY <1>1, <1>2

LEMMA WrittenAlias ==
    ASSUME NEW c, Wellformed(c), NEW h, Stand(h, Blocks(c), GenASA(c)), NEW m \in DOMAIN c.ifs
    PROVE  /\ Only(Body(GenASA(c), h[m]), "nameif") # <<>> <=> c.ifs[m].alias # ""
           /\ c.ifs[m].alias # "" => AliasAt(GenASA(c), h[m]) = MapZone(c.ifs[m].alias)
<1> DEFINE i == c.ifs[m]
           u == GenASA(c)
<1>1. /\ h[m] \in DOMAIN u /\ IsList(u)
      /\ \A l : l \in ToSet(Body(u, h[m])) <=> IfaceLine(i, l) /\ l.k # "interface"
    BY WrittenBody, Generated
<1>2. \A l : IfaceLine(i, l) /\ l.k = "nameif" => i.alias # "" /\ l.v = MapZone(i.alias)
    BY IfaceKinds
<1>3. i.alias # "" => IfaceLine(i, NameifLine(i))
    BY Zenon DEF IfaceLine
<1>4. NameifLine(i).k = "nameif"
    BY DEF NameifLine
<1> HIDE DEF i, u
<1>5. Only(Body(u, h[m]), "nameif") = <<>> <=> \A l \in ToSet(Body(u, h[m])) : l.k # "nameif"
    BY <1>1, AliasIs
<1>6. Only(Body(u, h[m]), "nameif") # <<>> =>
          \E l \in ToSet(Body(u, h[m])) : l.k = "nameif" /\ AliasAt(u, h[m]) = l.v
    BY <1>1, AliasIs
<1>7. i.alias # "" => NameifLine(i) \in ToSet(Body(u, h[m]))
    BY <1>1, <1>3, <1>4
<1>8. QED BY <1>1, <1>2, <1>4, <1>5, <1>6, <1>7 DEF i, u
-----------------------------------------------------------------------------
HasIp(q, p) == q.alias # "" /\ \E v \in ToSet(q.ips) : p = <<MapZone(q.alias), v>>

LEMMA WrittenIps ==
    ASSUME NEW c, Wellformed(c), NEW p
    PROVE  p \in UnderNameif(GenASA(c), "ip") <=> \E m \in DOMAIN c.ifs : HasIp(c.ifs[m], p)
<1> DEFINE u == GenASA(c)
<1>1. IsList(u)
    BY Generated
<1>2. PICK h : /\ Stand(h, Blocks(c), u)
               /\ \A q \in DOMAIN u : u[q].k = "interface" => \E m \in DOMAIN c.ifs : q = h[m]
    BY IfacesStand
<1>3. ASSUME NEW m \in DOMAIN c.ifs
      PROVE  /\ h[m] \in DOMAIN u /\ u[h[m]].k = "interface"
             /\ \A l : l \in ToSet(Body(u, h[m])) <=> IfaceLine(c.ifs[m], l) /\ l.k # "interface"
             /\ Only(Body(u, h[m]), "nameif") # <<>> <=> c.ifs[m].alias # ""
             /\ c.ifs[m].alias # "" => AliasAt(u, h[m]) = MapZone(c.ifs[m].alias)
  <2>1. h[m] \in DOMAIN u /\ u[h[m]].k = "interface"
      BY <1>2, WrittenBody
  <2>2. \A l : l \in ToSet(Body(u, h[m])) <=> IfaceLine(c.ifs[m], l) /\ l.k # "interface"
      BY <1>2, WrittenBody
  <2>3. Only(Body(u, h[m]), "nameif") # <<>> <=> c.ifs[m].alias # ""
      BY <1>2, WrittenAlias
  <2>4. c.ifs[m].alias # "" => AliasAt(u, h[m]) = MapZone(c.ifs[m].alias)
      BY <1>2, WrittenAlias
  <2>5. QED BY <2>1, <2>2, <2>3, <2>4
<1> HIDE DEF u
<1>4. \A i : \A v \in ToSet(i.ips) : IfaceLine(i, IpLine(v))
    BY Zenon DEF IfaceLine
<1>5. \A v : IpLine(v).k = "ip" /\ IpLine(v).v = v
    BY DEF IpLine
<1>6. ASSUME NEW m \in DOMAIN c.ifs, HasIp(c.ifs[m], p) PROVE p \in UnderNameif(u, "ip")
  <2>1. c.ifs[m].alias # ""
      BY <1>6 DEF HasIp
  <2>2. PICK v \in ToSet(c.ifs[m].ips) : p = <<MapZone(c.ifs[m].alias), v>>
      BY <1>6 DEF HasIp
  <2>3. IpLine(v) \in ToSet(Body(u, h[m]))
      BY <1>3, <1>4, <1>5
  <2>4. UnderAt(u, "ip", h[m], IpLine(v), p)
      BY <1>3, <1>5, <2>1, <2>2, <2>3 DEF UnderAt
  <2>5. QED BY <1>1, <2>4, UnderIs
<1>7. ASSUME p \in UnderNameif(u, "ip") PROVE \E m \in DOMAIN c.ifs : HasIp(c.ifs[m], p)
  <2>1. PICK j, l : UnderAt(u, "ip", j, l, p)
      BY <1>1, <1>7, UnderIs
  <2>2. /\ j \in DOMAIN u /\ u[j].k = "interface" /\ Only(Body(u, j), "nameif") # <<>>
        /\ l \in ToSet(Body(u, j)) /\ l.k = "ip" /\ p = <<AliasAt(u, j), l.v>>
      BY <2>1 DEF UnderAt
  <2>3. PICK m \in DOMAIN c.ifs : j = h[m]
      BY <1>2, <2>2
  <2>4. IfaceLine(c.ifs[m], l) /\ c.ifs[m].alias # "" /\ AliasAt(u, j) = MapZone(c.ifs[m].alias)
      BY <1>3, <2>2, <2>3
  <2>5. PICK v \in ToSet(c.ifs[m].ips) : l = IpLine(v)
      BY <2>2, <2>4, IfaceKinds
  <2>6. p = <<MapZone(c.ifs[m].alias), v>>
      BY <1>5, <2>2, <2>4, <2>5
  <2>7. HasIp(c.ifs[m], p)
      BY <2>4, <2>6 DEF HasIp
  <2>8. QED BY <2>7
<1>8. QED BY <1>6, <1>7 DEF u

LEMMA WrittenLevel ==
    ASSUME NEW c, Wellformed(c), NEW m \in DOMAIN c.ifs
    PROVE  c.ifs[m].alias # "" /\ c.ifs[m].sec # NoLevel =>
               <<MapZone(c.ifs[m].alias), c.ifs[m].sec>> \in UnderNameif(GenASA(c), "security-level")
<1>1. IsList(GenASA(c))
    BY Generated
<1>2. PICK h : Stand(h, Blocks(c), GenASA(c))
    BY IfacesStand
<1>3. h[m] \in DOMAIN GenASA(c) /\ GenASA(c)[h[m]].k = "interface"
    BY <1>2, WrittenBody
<1>4. \A l : l \in ToSet(Body(GenASA(c), h[m])) <=> IfaceLine(c.ifs[m], l) /\ l.k # "interface"
    BY <1>2, WrittenBody
<1>5. /\ Only(Body(GenASA(c), h[m]), "nameif") # <<>> <=> c.ifs[m].alias # ""
      /\ c.ifs[m].alias # "" => AliasAt(GenASA(c), h[m]) = MapZone(c.ifs[m].alias)
    BY <1>2, WrittenAlias
<1>6. ASSUME c.ifs[m].alias # "", c.ifs[m].sec # NoLevel
      PROVE  <<MapZone(c.ifs[m].alias), c.ifs[m].sec>> \in UnderNameif(GenASA(c), "security-level")
  <2>1. LevelLine(c.ifs[m]).k = "security-level" /\ LevelLine(c.ifs[m]).v = c.ifs[m].sec
      BY <1>6 DEF LevelLine
  <2>2. IfaceLine(c.ifs[m], LevelLine(c.ifs[m]))
      BY <1>6, Zenon DEF IfaceLine
  <2>3. LevelLine(c.ifs[m]) \in ToSet(Body(GenASA(c), h[m]))
      BY <1>4, <2>1, <2>2
  <2>4. UnderAt(GenASA(c), "security-level", h[m], LevelLine(c.ifs[m]), <<MapZone(c.ifs[m].alias), c.ifs[m].sec>>)
      BY <1>3, <1>5, <1>6, <2>1, <2>3 DEF UnderAt
  <2>5. QED BY <1>1, <2>4, UnderIs
<1>7. QED BY <1>6

(* The same of the source, whose zones have names. *)
SourcePort(t, j) ==
    [line |-> j, alias |-> AliasAt(t, j), sec |-> LastOf(Only(Body(t, j), "security-level"), NoLevel),
     ips |-> Values(Readable(Only(Body(t, j), "ip")))]

IsPort(t, j, q) == j \in DOMAIN t /\ t[j].k = "interface" /\ PortOf(q) = SourcePort(t, j)

LEMMA SourcePorts ==
    ASSUME NEW t, NEW c, ReadAll(t, c)
    PROVE  /\ \A m \in DOMAIN c.ifs : c.ifs[m].alias # "" => \E j : IsPort(t, j, c.ifs[m])
           /\ \A j \in DOMAIN t : t[j].k = "interface" /\ AliasAt(t, j) # "" =>
                 \E m \in DOMAIN c.ifs : PortOf(c.ifs[m]) = SourcePort(t, j)
<1>1. Zoned0(Ports(c)) = Zoned0(UNION {PortsAt(t, j) : j \in DOMAIN t})
    BY AllHeld
<1>2. \A e : e \in Zoned0(Ports(c)) <=> e.alias # "" /\ \E m \in DOMAIN c.ifs : e = PortOf(c.ifs[m])
    BY DEF Zoned0, Ports, ToSet
<1>3. \A j : PortsAt(t, j) = IF t[j].k = "interface" THEN {SourcePort(t, j)} ELSE {}
    BY DEF PortsAt, SourcePort, AliasAt
<1>4. \A e : e \in Zoned0(UNION {PortsAt(t, j) : j \in DOMAIN t}) <=>
                e.alias # "" /\ \E j \in DOMAIN t : t[j].k = "interface" /\ e = SourcePort(t, j)
    BY <1>3 DEF Zoned0
<1>5. ASSUME NEW m \in DOMAIN c.ifs, c.ifs[m].alias # ""
      PROVE  \E j : IsPort(t, j, c.ifs[m])
  <2>1. PortOf(c.ifs[m]).alias # ""
      BY <1>5 DEF PortOf
  <2>2. PortOf(c.ifs[m]) \in Zoned0(Ports(c))
      BY <1>2, <2>1
  <2>3. QED BY <1>1, <1>4, <2>2 DEF IsPort
<1>6. ASSUME NEW j \in DOMAIN t, t[j].k = "interface", AliasAt(t, j) # ""
      PROVE  \E m \in DOMAIN c.ifs : PortOf(c.ifs[m]) = SourcePort(t, j)
  <2>1. SourcePort(t, j).alias # ""
      BY <1>6 DEF SourcePort
  <2>2. SourcePort(t, j) \in Zoned0(Ports(c))
      BY <1>1, <1>4, <1>6, <2>1
  <2>3. QED BY <1>2, <2>2
<1>7. QED BY <1>5, <1>6

LEMMA SourceIps ==
    ASSUME NEW t, IsList(t), AllReadable(t), NEW j \in DOMAIN t, NEW v
    PROVE  v \in ToSet(SourcePort(t, j).ips) <=> \E l \in ToSet(Body(t, j)) : l.k = "ip" /\ v = l.v
<1> DEFINE N == Readable(Only(Body(t, j), "ip"))
<1>1. IsList(Body(t, j))
    BY BodyList
<1>2. IsList(N) /\ ToSet(N) = {l \in ToSet(Body(t, j)) : l.k = "ip" /\ l.ok}
    BY <1>1, ReadablePicked
<1>3. ToSet(Values(N)) = {l.v : l \in ToSet(N)}
    BY <1>2, Picked
<1>4. \A l \in ToSet(Body(t, j)) : l.k = "ip" => l.ok
    BY BodyIn DEF AllReadable
<1>5. SourcePort(t, j).ips = Values(N)
    BY DEF SourcePort
<1> HIDE DEF N
<1>6. QED BY <1>2, <1>3, <1>4, <1>5

LEMMA SourceAlias ==
    ASSUME NEW t, IsList(t), Spoken(t), NEW j \in DOMAIN t
    PROVE  Only(Body(t, j), "nameif") # <<>> <=> AliasAt(t, j) # ""
<1>1. \A q \in DOMAIN t : t[q].k = "nameif" => t[q].v # ""
    BY DEF Spoken
<1>2. ASSUME NEW l \in ToSet(Body(t, j)), l.k = "nameif" PROVE l.v # ""
  <2>1. PICK q \in DOMAIN t : l = t[q]
      BY BodyIn
  <2>2. QED BY <1>1, <1>2, <2>1
<1>3. QED BY <1>2, AliasIs

LEMMA SourceLevel ==
    ASSUME NEW t, IsList(t), Nested(t), Spoken(t), NEW j \in DOMAIN t, t[j].k = "interface",
           NEW l \in ToSet(Body(t, j)), l.k = "security-level"
    PROVE  SourcePort(t, j).sec = l.v /\ l.v # NoLevel
<1> DEFINE N == Only(Body(t, j), "security-level")
<1>1. IsList(Body(t, j)) /\ Stops(t[j])
    BY BodyList DEF Nested, Commands, Stops, Blank
<1>2. IsList(N) /\ ToSet(N) = {m \in ToSet(Body(t, j)) : m.k = "security-level"}
    BY <1>1, Selected, Picked
<1>3. SourcePort(t, j).sec = IF N = <<>> THEN NoLevel ELSE Last(N).v
    BY DEF SourcePort, LastOf
<1> HIDE DEF N
<1>4. N # <<>> /\ Last(N) \in ToSet(N)
    BY <1>2, EmptyPicked, LastIn
<1>5. \A m \in ToSet(Body(t, j)) : \E q \in DOMAIN t : HeaderAt(t, q) = j /\ m = t[q]
    BY <1>1, BlockLines
<1>6. PICK q \in DOMAIN t : HeaderAt(t, q) = j /\ l = t[q]
    BY <1>5
<1>7. PICK r \in DOMAIN t : HeaderAt(t, r) = j /\ Last(N) = t[r]
    BY <1>2, <1>4, <1>5
<1>8. t[r].k = "security-level" /\ t[q].k = "security-level"
    BY <1>2, <1>4, <1>6, <1>7
<1>9. r = q /\ t[q].v # NoLevel
    BY <1>6, <1>7, <1>8 DEF Spoken
<1>10. QED BY <1>3, <1>4, <1>6, <1>7, <1>9
-----------------------------------------------------------------------------
(* An address or a level is at an interface with a nameif of the source     *)
(* exactly if an interface of what was read has it.                         *)
HasLevel(q, p) == q.alias # "" /\ q.sec # NoLevel /\ p = <<q.alias, q.sec>>
HasAddress(q, p) == q.alias # "" /\ \E v \in ToSet(q.ips) : p = <<q.alias, v>>

LEMMA SourceAddresses ==
    ASSUME NEW t, NEW c, ReadAll(t, c), Spoken(t), AllReadable(t), NEW p
    PROVE  p \in UnderNameif(t, "ip") <=> \E m \in DOMAIN c.ifs : HasAddress(c.ifs[m], p)
<1>1. IsList(t)
    BY DEF ReadAll
<1>2. ASSUME NEW m \in DOMAIN c.ifs, NEW j \in DOMAIN t, PortOf(c.ifs[m]) = SourcePort(t, j)
      PROVE  c.ifs[m].alias = AliasAt(t, j) /\ c.ifs[m].ips = SourcePort(t, j).ips
    BY <1>2 DEF PortOf, SourcePort
<1>3. ASSUME p \in UnderNameif(t, "ip") PROVE \E m \in DOMAIN c.ifs : HasAddress(c.ifs[m], p)
  <2>1. PICK j, l : UnderAt(t, "ip", j, l, p)
      BY <1>1, <1>3, UnderIs
  <2>2. /\ j \in DOMAIN t /\ t[j].k = "interface" /\ Only(Body(t, j), "nameif") # <<>>
        /\ l \in ToSet(Body(t, j)) /\ l.k = "ip" /\ p = <<AliasAt(t, j), l.v>>
      BY <2>1 DEF UnderAt
  <2>3. AliasAt(t, j) # ""
      BY <1>1, <2>2, SourceAlias
  <2>4. PICK m \in DOMAIN c.ifs : PortOf(c.ifs[m]) = SourcePort(t, j)
      BY <2>2, <2>3, SourcePorts
  <2>5. l.v \in ToSet(SourcePort(t, j).ips)
      BY <1>1, <2>2, SourceIps
  <2>6. HasAddress(c.ifs[m], p)
      BY <1>2, <2>2, <2>3, <2>4, <2>5 DEF HasAddress
  <2>7. QED BY <2>6
<1>4. ASSUME NEW m \in DOMAIN c.ifs, HasAddress(c.ifs[m], p) PROVE p \in UnderNameif(t, "ip")
  <2>1. c.ifs[m].alias # ""
      BY <1>4 DEF HasAddress
  <2>2. PICK v \in ToSet(c.ifs[m].ips) : p = <<c.ifs[m].alias, v>>
      BY <1>4 DEF HasAddress
  <2>3. PICK j : IsPort(t, j, c.ifs[m])
      BY <2>1, SourcePorts
  <2>4. AliasAt(t, j) = c.ifs[m].alias /\ v \in ToSet(SourcePort(t, j).ips)
      BY <1>2, <2>2, <2>3 DEF IsPort
  <2>5. Only(Body(t, j), "nameif") # <<>>
      BY <1>1, <2>1, <2>3, <2>4, SourceAlias DEF IsPort
  <2>6. PICK l \in ToSet(Body(t, j)) : l.k = "ip" /\ v = l.v
      BY <1>1, <2>3, <2>4, SourceIps DEF IsPort
  <2>7. UnderAt(t, "ip", j, l, p)
      BY <2>2, <2>3, <2>4, <2>5, <2>6 DEF UnderAt, IsPort
  <2>8. QED BY <1>1, <2>7, UnderIs
<1>5. QED BY <1>3, <1>4

LEMMA SourceLevels ==
    ASSUME NEW t, NEW c, ReadAll(t, c), Spoken(t), NEW p, p \in UnderNameif(t, "security-level")
    PROVE  \E m \in DOMAIN c.ifs : HasLevel(c.ifs[m], p)
<1>1. IsList(t) /\ Nested(t)
    BY DEF ReadAll
<1>2. ASSUME NEW m \in DOMAIN c.ifs, NEW j \in DOMAIN t, PortOf(c.ifs[m]) = SourcePort(t, j)
      PROVE  c.ifs[m].alias = AliasAt(t, j) /\ c.ifs[m].sec = SourcePort(t, j).sec
    BY <1>2 DEF PortOf, SourcePort
<1>3. PICK j, l : UnderAt(t, "security-level", j, l, p)
    BY <1>1, UnderIs
<1>4. /\ j \in DOMAIN t /\ t[j].k = "interface" /\ Only(Body(t, j), "nameif") # <<>>
      /\ l \in ToSet(Body(t, j)) /\ l.k = "security-level" /\ p = <<AliasAt(t, j), l.v>>
    BY <1>3 DEF UnderAt
<1>5. AliasAt(t, j) # ""
    BY <1>1, <1>4, SourceAlias
<1>6. PICK m \in DOMAIN c.ifs : PortOf(c.ifs[m]) = SourcePort(t, j)
    BY <1>4, <1>5, SourcePorts
<1>7. SourcePort(t, j).sec = l.v /\ l.v # NoLevel
    BY <1>1, <1>4, SourceLevel
<1>8. HasLevel(c.ifs[m], p)
    BY <1>2, <1>4, <1>5, <1>6, <1>7 DEF HasLevel
<1>9. QED BY <1>8

(* Both are at that interface in the written text. *)
LEMMA AddressesKept ==
    ASSUME NEW t, NEW c, ReadAll(t, c), Spoken(t), AllReadable(t)
    PROVE  AtZone(UnderNameif(t, "ip")) = UnderNameif(GenASA(c), "ip")
<1>1. Wellformed(c)
    BY DEF ReadAll
<1>2. \A e : e \in AtZone(UnderNameif(t, "ip")) <=> \E p \in UnderNameif(t, "ip") : e = <<MapZone(p[1]), p[2]>>
    BY DEF AtZone
<1>3. ASSUME NEW e PROVE e \in AtZone(UnderNameif(t, "ip")) => e \in UnderNameif(GenASA(c), "ip")
  <2> SUFFICES ASSUME e \in AtZone(UnderNameif(t, "ip")) PROVE e \in UnderNameif(GenASA(c), "ip")
      OBVIOUS
  <2>1. PICK p \in UnderNameif(t, "ip") : e = <<MapZone(p[1]), p[2]>>
      BY <1>2
  <2>2. PICK m \in DOMAIN c.ifs : HasAddress(c.ifs[m], p)
      BY SourceAddresses
  <2>3. PICK v \in ToSet(c.ifs[m].ips) : p = <<c.ifs[m].alias, v>>
      BY <2>2 DEF HasAddress
  <2>4. e = <<MapZone(c.ifs[m].alias), v>>
      BY <2>1, <2>3
  <2>5. HasIp(c.ifs[m], e)
      BY <2>2, <2>3, <2>4 DEF HasIp, HasAddress
  <2>6. QED BY <1>1, <2>5, WrittenIps
<1>4. ASSUME NEW e PROVE e \in UnderNameif(GenASA(c), "ip") => e \in AtZone(UnderNameif(t, "ip"))
  <2> SUFFICES ASSUME e \in UnderNameif(GenASA(c), "ip") PROVE e \in AtZone(UnderNameif(t, "ip"))
      OBVIOUS
  <2>1. PICK m \in DOMAIN c.ifs : HasIp(c.ifs[m], e)
      BY <1>1, WrittenIps
  <2>2. PICK v \in ToSet(c.ifs[m].ips) : e = <<MapZone(c.ifs[m].alias), v>>
      BY <2>1 DEF HasIp
  <2>3. HasAddress(c.ifs[m], <<c.ifs[m].alias, v>>)
      BY <2>1 DEF HasIp, HasAddress
  <2>4. <<c.ifs[m].alias, v>> \in UnderNameif(t, "ip")
      BY <2>3, SourceAddresses
  <2>5. e = <<MapZone(<<c.ifs[m].alias, v>>[1]), <<c.ifs[m].alias, v>>[2]>>
      BY <2>2
  <2>6. QED BY <1>2, <2>4, <2>5
<1>5. QED BY <1>3, <1>4

LEMMA LevelsKept ==
    ASSUME NEW t, NEW c, ReadAll(t, c), Spoken(t)
    PROVE  AtZone(UnderNameif(t, "security-level")) \subseteq UnderNameif(GenASA(c), "security-level")
<1>1. Wellformed(c)
    BY DEF ReadAll
<1>2. ASSUME NEW p \in UnderNameif(t, "security-level")
      PROVE  <<MapZone(p[1]), p[2]>> \in UnderNameif(GenASA(c), "security-level")
  <2>1. PICK m \in DOMAIN c.ifs : HasLevel(c.ifs[m], p)
      BY SourceLevels
  <2>2. c.ifs[m].alias # "" /\ c.ifs[m].sec # NoLevel /\ p = <<c.ifs[m].alias, c.ifs[m].sec>>
      BY <2>1 DEF HasLevel
  <2>3. p[1] = c.ifs[m].alias /\ p[2] = c.ifs[m].sec
      BY <2>2
  <2>4. <<MapZone(c.ifs[m].alias), c.ifs[m].sec>> \in UnderNameif(GenASA(c), "security-level")
      BY <1>1, <2>2, WrittenLevel
  <2>5. QED BY <2>3, <2>4
<1>3. QED BY <1>2 DEF AtZone
-----------------------------------------------------------------------------
(* A context is called ready only with nothing left out of it.              *)
Called == verdict = "ready" => pass = "reviewed" /\ Clean(ir)

LEMMA CalledInit == Init => Called
BY DEF Init, Called

LEMMA CalledNext == PassOK /\ Converted /\ Called /\ [Next]_vars => Called'
<1>1. SUFFICES ASSUME PassOK, Converted, Called, [Next]_vars PROVE Called'
    OBVIOUS
<1>2. CASE UNCHANGED vars
    BY <1>1, <1>2 DEF vars, Called
<1>3. CASE Read
    BY <1>1, <1>3 DEF Read, Called
<1>4. CASE Convert
    BY <1>1, <1>4 DEF Convert, Called
<1>5. CASE BuildReview
  <2>1. pass = "generated" /\ pass' = "reviewed" /\ verdict' = Verdict(RoundTripOK(ir, x)) /\ ir' = ir
      BY <1>5 DEF BuildReview
  <2>2. items = ItemsOf(ir)
      BY <1>1, <2>1 DEF Converted
  <2>3. ASSUME NEW ok, Verdict(ok) = "ready" PROVE Statuses \intersect {"failed", "partial", "manual"} = {}
    <3>1. ok /\ "failed" \notin Statuses /\ Statuses \intersect {"partial", "manual"} = {}
        BY <2>3 DEF Verdict
    <3>2. QED BY <3>1
  <2>4. verdict' = "ready" => Clean(ir)
    <3>1. Statuses = {ItemsOf(ir)[j].status : j \in DOMAIN ItemsOf(ir)}
        BY <2>2 DEF Statuses
    <3>2. QED BY <2>1, <2>3, <3>1 DEF Clean
  <2>5. QED BY <2>1, <2>4 DEF Called
<1>6. QED BY <1>1, <1>2, <1>3, <1>4, <1>5 DEF Next

(* A route names a zone, and the mapping of the interfaces leaves the names *)
(* of zones alone.                                                          *)
ZoneRoutes(t) == \A j \in DOMAIN t : t[j].k = "route" => MapIface(t[j].iface) = t[j].iface

LEMMA ReadySound ==
    ASSUME PassOK, Converted, Holding, Called, Running(source), Ready
    PROVE  /\ text = GenASA(ir) /\ ReadAll(source, ir) /\ ir.unparsed = {}
           /\ NetsSound(ir) /\ SvcsSound(ir) /\ RoutesWritten(ir) = ir.routes /\ Spoken(source)
<1>1. pass = "reviewed" /\ Clean(ir) /\ ir.unparsed = {}
    BY DEF Ready, Called
<1>2. text = GenASA(ir) /\ Wellformed(ir)
    BY <1>1 DEF PassOK, Converted
<1>3. IsList(source) /\ Nested(source) /\ Exact(source, ir, Len(source) + 2) /\ Spoken(source)
    BY <1>1 DEF Holding, Running
<1>4. NetsSound(ir) /\ SvcsSound(ir) /\ RoutesWritten(ir) = ir.routes
    BY <1>1, <1>2, CleanSound
<1>5. QED BY <1>1, <1>2, <1>3, <1>4 DEF ReadAll

LEMMA ReadyKept ==
    ASSUME PassOK, Converted, Holding, Called, Running(source), ZoneRoutes(source)
    PROVE  ValuesKept
<1>1. SUFFICES ASSUME Ready, AllReadable(source)
               PROVE  /\ PlainNetworks(source) =>
                            \A n \in DOMAIN Networks(source) : Lookup(Networks(text), n) = Networks(source)[n]
                      /\ PlainServices(source) =>
                            \A n \in DOMAIN Services(source) : Lookup(Services(text), n) = Services(source)[n]
                      /\ AtZone(UnderNameif(source, "ip")) = UnderNameif(text, "ip")
                      /\ AtZone(UnderNameif(source, "security-level")) \subseteq UnderNameif(text, "security-level")
                      /\ RoutesOf(text) = [j \in DOMAIN RoutesOf(source) |->
                                               [RoutesOf(source)[j] EXCEPT !.iface = MapZone(@)]]
    BY DEF ValuesKept
<1>2. /\ text = GenASA(ir) /\ ReadAll(source, ir) /\ ir.unparsed = {}
      /\ NetsSound(ir) /\ SvcsSound(ir) /\ RoutesWritten(ir) = ir.routes /\ Spoken(source)
    BY <1>1, ReadySound
<1>3. ASSUME PlainNetworks(source)
      PROVE  \A n \in DOMAIN Networks(source) : Lookup(Networks(text), n) = Networks(source)[n]
    BY <1>1, <1>2, <1>3, NetworksKept DEF Lookup
<1>4. ASSUME PlainServices(source)
      PROVE  \A n \in DOMAIN Services(source) : Lookup(Services(text), n) = Services(source)[n]
    BY <1>2, <1>4, ServicesKept DEF Lookup
<1>5. AtZone(UnderNameif(source, "ip")) = UnderNameif(text, "ip")
    BY <1>1, <1>2, AddressesKept
<1>6. AtZone(UnderNameif(source, "security-level")) \subseteq UnderNameif(text, "security-level")
    BY <1>2, LevelsKept
<1>7. RoutesOf(text) = [j \in DOMAIN RoutesOf(source) |-> [RoutesOf(source)[j] EXCEPT !.iface = MapZone(@)]]
    BY <1>2, RoutesKept DEF ZoneRoutes
<1>8. QED BY <1>3, <1>4, <1>5, <1>6, <1>7

(* What a running configuration means survives the conversion of a context  *)
(* that is called ready: hosts and flows of every name, the addresses and   *)
(* levels of the interfaces, the routes (genASA, src/gen/asa.go); but for   *)
(* FQDNs of another family than IPv4 and IPv6 prefixes in groups, which     *)
(* asa.go:149 and 198-202 change, and port clauses the parser does not read.*)
THEOREM ReadyKeepsValues == Spec => [](Running(source) /\ ZoneRoutes(source) => ValuesKept)
<1>1. PassOK /\ Converted /\ Holding /\ Called => (Running(source) /\ ZoneRoutes(source) => ValuesKept)
    BY ReadyKept
<1>2. QED BY <1>1, ParserInit, ParserNext, PassInit, PassNext, AlarmInit, AlarmNext,
             HoldingInit, HoldingNext, CalledInit, CalledNext, PTL DEF Spec
-----------------------------------------------------------------------------
(* Which blocks have the lines of policies and translations.                *)
Late == {"nat", "onat", "ace", "access-group"}
Early(b) == \A l \in ToSet(b) : l.k \notin Late

LEMMA EarlyBlocks ==
    ASSUME NEW c, Wellformed(c)
    PROVE  /\ \A o : Early(GenObject(o)) /\ Early(GenService(o)) /\ Early(<<GenRoute(o)>>)
           /\ \A g : IsList(g.members) => Early(GenNetGroup(c, g)) /\ Early(GenSvcGroup(c, g))
           /\ \A i : IfaceOK(i) => Early(GenInterface(i))
<1>1. ASSUME NEW a, NEW l, a.k \notin Late, l.k \notin Late PROVE Early(<<a, l>>) /\ Early(<<a>>)
  <2>1. ToSet(<<a, l>>) = {a, l} /\ ToSet(<<a>>) = {a}
      BY FewSets
  <2>2. QED BY <1>1, <2>1 DEF Early
<1>2. ASSUME NEW o PROVE Early(GenObject(o)) /\ Early(GenService(o)) /\ Early(<<GenRoute(o)>>)
  <2>1. /\ GenObject(o) = <<GenObject(o)[1], GenObject(o)[2]>>
        /\ GenObject(o)[1].k = "object" /\ GenObject(o)[2].k = "value"
      BY DEF GenObject
  <2>2. /\ GenService(o) = <<GenService(o)[1], GenService(o)[2]>>
        /\ GenService(o)[1].k = "service" /\ GenService(o)[2].k = "spec"
      BY DEF GenService
  <2>3. GenRoute(o).k = "route"
      BY NatRouteLines
  <2>4. Early(GenObject(o))
      BY <1>1, <2>1 DEF Late
  <2>5. Early(GenService(o))
      BY <1>1, <2>2 DEF Late
  <2>6. Early(<<GenRoute(o)>>)
      BY <1>1, <2>3 DEF Late
  <2>7. QED BY <2>4, <2>5, <2>6
<1>3. ASSUME NEW g, IsList(g.members) PROVE Early(GenNetGroup(c, g)) /\ Early(GenSvcGroup(c, g))
  <2>1. NetHead(g).k \notin Late /\ SvcHead(g).k \notin Late
      BY DEF NetHead, SvcHead, Late
  <2>2. \A m : \A l \in ToSet(GenMember(c, m)) : l.k \notin Late
      BY DEF GenMember, ToSet, Late
  <2>3. \A m : \A l \in ToSet(GenSvcMember(c, m)) : l.k \notin Late
      BY DEF GenSvcMember, ToSet, Late
  <2>4. \A l \in ToSet(GenNetGroup(c, g)) : l = NetHead(g) \/ \E m \in ToSet(g.members) : l \in ToSet(GenMember(c, m))
      BY <1>3, GroupLines
  <2>5. \A l \in ToSet(GenSvcGroup(c, g)) : l = SvcHead(g) \/ \E m \in ToSet(g.members) : l \in ToSet(GenSvcMember(c, m))
      BY <1>3, GroupLines
  <2>6. Early(GenNetGroup(c, g))
      BY <2>1, <2>2, <2>4 DEF Early
  <2>7. Early(GenSvcGroup(c, g))
      BY <2>1, <2>3, <2>5 DEF Early
  <2>8. QED BY <2>6, <2>7
<1>4. ASSUME NEW i, IfaceOK(i) PROVE Early(GenInterface(i))
  <2>1. \A l \in ToSet(GenInterface(i)) : IfaceLine(i, l)
      BY <1>4, IfaceLines
  <2>2. /\ IfaceHead(i).k \notin Late /\ VlanLine(i).k \notin Late /\ NameifLine(i).k \notin Late
        /\ LevelLine(i).k \notin Late /\ DownLine.k \notin Late /\ \A v : IpLine(v).k \notin Late
      BY DEF IfaceHead, VlanLine, NameifLine, LevelLine, DownLine, IpLine, Late
  <2>3. \A l : IfaceLine(i, l) => l.k \notin Late
      BY <2>2, Zenon DEF IfaceLine
  <2>4. QED BY <2>1, <2>3 DEF Early
<1>5. QED BY <1>2, <1>3, <1>4

LEMMA LateBlocks ==
    ASSUME NEW c, Wellformed(c), NEW m \in 1..Len(Blocks(c)), NEW i \in 1..Len(Blocks(c)[m]),
           Blocks(c)[m][i].k \in Late
    PROVE  /\ i \in DOMAIN Blocks(c)[m]
           /\ \E j : RuleAt(c, m, j) \/ BindAt(c, m, j) \/ NatAt(c, m, j)
<1> DEFINE b == Blocks(c)[m]
<1>1. i \in DOMAIN b
  <2>1. IsList(Blocks(c)) /\ \A j \in DOMAIN Blocks(c) : Heads(Blocks(c)[j])
      BY Layout
  <2>2. QED BY <2>1 DEF IsList, Heads
<1>2. ~Early(b)
    BY <1>1 DEF Early, ToSet
<1>3. (\A g \in ToSet(c.netGroups) \union ToSet(c.svcGroups) : IsList(g.members)) /\ \A e \in ToSet(c.ifs) : IfaceOK(e)
    BY DEF Wellformed
<1> HIDE DEF b
<1>4. PICK k : \/ IfaceAt(c, m, k) \/ ObjectAt(c, m, k) \/ ServiceAt(c, m, k) \/ NetGroupAt(c, m, k)
               \/ SvcGroupAt(c, m, k) \/ RuleAt(c, m, k) \/ BindAt(c, m, k) \/ NatAt(c, m, k) \/ RouteAt(c, m, k)
    BY BlockAt
<1>5. ~ObjectAt(c, m, k) /\ ~ServiceAt(c, m, k) /\ ~RouteAt(c, m, k)
    BY <1>2, EarlyBlocks DEF b, ObjectAt, ServiceAt, RouteAt
<1>6. ~NetGroupAt(c, m, k)
  <2>1. SUFFICES ASSUME NetGroupAt(c, m, k) PROVE FALSE
      OBVIOUS
  <2>2. c.netGroups[k] \in ToSet(c.netGroups) /\ b = GenNetGroup(c, c.netGroups[k])
      BY <2>1 DEF NetGroupAt, ToSet, b
  <2>3. QED BY <1>2, <1>3, <2>2, EarlyBlocks
<1>7. ~SvcGroupAt(c, m, k)
  <2>1. SUFFICES ASSUME SvcGroupAt(c, m, k) PROVE FALSE
      OBVIOUS
  <2>2. c.svcGroups[k] \in ToSet(c.svcGroups) /\ b = GenSvcGroup(c, c.svcGroups[k])
      BY <2>1 DEF SvcGroupAt, ToSet, b
  <2>3. QED BY <1>2, <1>3, <2>2, EarlyBlocks
<1>8. ~IfaceAt(c, m, k)
  <2>1. SUFFICES ASSUME IfaceAt(c, m, k) PROVE FALSE
      OBVIOUS
  <2>2. c.ifs[k] \in ToSet(c.ifs) /\ b = GenInterface(c.ifs[k])
      BY <2>1 DEF IfaceAt, ToSet, b
  <2>3. QED BY <1>2, <1>3, <2>2, EarlyBlocks
<1>9. RuleAt(c, m, k) \/ BindAt(c, m, k) \/ NatAt(c, m, k)
    BY <1>4, <1>5, <1>6, <1>7, <1>8
<1>10. QED BY <1>1, <1>9 DEF b

LEMMA LateKinds ==
    ASSUME NEW c, Wellformed(c)
    PROVE  /\ \A m, j : RuleAt(c, m, j) => /\ Len(Blocks(c)[m]) = 2 /\ Blocks(c)[m][1].k = "remark"
                                           /\ Blocks(c)[m][2].k = "ace" /\ Blocks(c)[m] = GenRule(c, c.rules[j])
           /\ \A m, j : BindAt(c, m, j) => /\ Len(Blocks(c)[m]) = 1 /\ Blocks(c)[m][1] = GenBindings(c)[j]
                                           /\ GenBindings(c)[j].k = "access-group"
           /\ \A m, j : NatAt(c, m, j) => /\ Len(Blocks(c)[m]) = 1 /\ Blocks(c)[m][1] = GenNAT(c, c.nats[j])
                                          /\ GenNAT(c, c.nats[j]).k = "nat"
<1>1. ASSUME NEW m, NEW j, RuleAt(c, m, j)
      PROVE  /\ Len(Blocks(c)[m]) = 2 /\ Blocks(c)[m][1].k = "remark"
             /\ Blocks(c)[m][2].k = "ace" /\ Blocks(c)[m] = GenRule(c, c.rules[j])
  <2>1. Blocks(c)[m] = GenRule(c, c.rules[j])
      BY <1>1 DEF RuleAt
  <2>2. /\ GenRule(c, c.rules[j]) = <<GenRule(c, c.rules[j])[1], GenRule(c, c.rules[j])[2]>>
        /\ GenRule(c, c.rules[j])[1].k = "remark" /\ GenRule(c, c.rules[j])[2].k = "ace"
      BY DEF GenRule
  <2>3. Len(Blocks(c)[m]) = 2
      BY <2>1, <2>2
  <2>4. QED BY <2>1, <2>2, <2>3
<1>2. ASSUME NEW m, NEW j, BindAt(c, m, j)
      PROVE  /\ Len(Blocks(c)[m]) = 1 /\ Blocks(c)[m][1] = GenBindings(c)[j] /\ GenBindings(c)[j].k = "access-group"
  <2>1. Blocks(c)[m] = <<GenBindings(c)[j]>> /\ j \in DOMAIN GenBindings(c)
      BY <1>2 DEF BindAt
  <2>2. IsList(GenBindings(c)) /\ \A i \in 1..Len(GenBindings(c)) : GenBindings(c)[i].k = "access-group"
      BY MoreBlocks
  <2>3. DOMAIN GenBindings(c) = 1..Len(GenBindings(c))
      BY <2>2 DEF IsList
  <2>4. GenBindings(c)[j].k = "access-group"
      BY <2>1, <2>2, <2>3
  <2>5. QED BY <2>1, <2>4
<1>3. ASSUME NEW m, NEW j, NatAt(c, m, j)
      PROVE  /\ Len(Blocks(c)[m]) = 1 /\ Blocks(c)[m][1] = GenNAT(c, c.nats[j]) /\ GenNAT(c, c.nats[j]).k = "nat"
  <2>1. Blocks(c)[m] = <<GenNAT(c, c.nats[j])>>
      BY <1>3 DEF NatAt
  <2>2. GenNAT(c, c.nats[j]).k = "nat"
      BY NatRouteLines
  <2>3. QED BY <2>1, <2>2
<1>4. QED BY <1>1, <1>2, <1>3

LEMMA WrittenNats ==
    ASSUME NEW c, Wellformed(c)
    PROVE  \E h : /\ Counts(h, Len(c.nats), {p \in DOMAIN GenASA(c) : GenASA(c)[p].k \in {"nat", "onat"}})
                  /\ \A i \in 1..Len(c.nats) : GenASA(c)[h[i]] = GenNAT(c, c.nats[i])
<1> DEFINE n == Len(c.nats)
           u == GenASA(c)
           T == {p \in DOMAIN u : u[p].k \in {"nat", "onat"}}
           a == BindsEnd(c)
<1>1. n \in Nat /\ DOMAIN c.nats = 1..n /\ a \in Nat
  <2>1. n \in Nat /\ DOMAIN c.nats = 1..n
      BY DEF Wellformed, IsList
  <2>2. a \in Nat
      BY Places
  <2>3. QED BY <2>1, <2>2
<1>2. PICK st : /\ \A p \in DOMAIN u : \E m, i : OfBlock(c, st, p, m, i)
                /\ \A m \in 1..Len(Blocks(c)) : \A i \in 1..Len(Blocks(c)[m]) :
                       /\ st[m] + i - 1 \in DOMAIN u /\ OfBlock(c, st, st[m] + i - 1, m, i)
                /\ \A p, q, m, i, k, l : OfBlock(c, st, p, m, i) /\ OfBlock(c, st, q, k, l) /\ m < k => p < q
    BY WrittenLines
<1> DEFINE h == [i \in 1..n |-> st[a + i] + 1 - 1]
<1>3. ASSUME NEW i \in 1..n
      PROVE  h[i] \in T /\ OfBlock(c, st, h[i], a + i, 1) /\ u[h[i]] = GenNAT(c, c.nats[i])
  <2>1. NatAt(c, a + i, i) /\ a + i \in 1..Len(Blocks(c))
      BY <1>1, BlockAt
  <2>2. /\ Len(Blocks(c)[a + i]) = 1 /\ Blocks(c)[a + i][1] = GenNAT(c, c.nats[i])
        /\ GenNAT(c, c.nats[i]).k = "nat"
      BY <2>1, LateKinds
  <2>3. h[i] = st[a + i] + 1 - 1
      OBVIOUS
  <2>4. h[i] \in DOMAIN u /\ OfBlock(c, st, h[i], a + i, 1)
      BY <1>2, <2>1, <2>2, <2>3
  <2>5. u[h[i]] = GenNAT(c, c.nats[i])
      BY <2>2, <2>4 DEF OfBlock
  <2>6. QED BY <2>2, <2>4, <2>5
<1>4. ASSUME NEW p \in T PROVE \E i \in 1..n : h[i] = p
  <2>1. PICK m, k : OfBlock(c, st, p, m, k)
      BY <1>2
  <2>2. m \in 1..Len(Blocks(c)) /\ k \in 1..Len(Blocks(c)[m]) /\ p = st[m] + k - 1 /\ u[p] = Blocks(c)[m][k]
      BY <2>1 DEF OfBlock
  <2>3. Blocks(c)[m][k].k \in {"nat", "onat"}
      BY <2>2
  <2>4. PICK j : RuleAt(c, m, j) \/ BindAt(c, m, j) \/ NatAt(c, m, j)
      BY <2>2, <2>3, LateBlocks DEF Late
  <2>5. ~RuleAt(c, m, j)
    <3>1. SUFFICES ASSUME RuleAt(c, m, j) PROVE FALSE
        OBVIOUS
    <3>2. Len(Blocks(c)[m]) = 2 /\ Blocks(c)[m][1].k = "remark" /\ Blocks(c)[m][2].k = "ace"
        BY <3>1, LateKinds
    <3>3. k = 1 \/ k = 2
        BY <2>2, <3>2
    <3>4. QED BY <2>3, <3>2, <3>3
  <2>6. ~BindAt(c, m, j)
    <3>1. SUFFICES ASSUME BindAt(c, m, j) PROVE FALSE
        OBVIOUS
    <3>2. Len(Blocks(c)[m]) = 1 /\ Blocks(c)[m][1].k = "access-group"
        BY <3>1, LateKinds
    <3>3. k = 1
        BY <2>2, <3>2
    <3>4. QED BY <2>3, <3>2, <3>3
  <2>7. NatAt(c, m, j)
      BY <2>4, <2>5, <2>6
  <2>8. k = 1 /\ j \in 1..n /\ m = a + j
    <3>1. Len(Blocks(c)[m]) = 1
        BY <2>7, LateKinds
    <3>2. QED BY <1>1, <2>2, <2>7, <3>1 DEF NatAt
  <2>9. h[j] = p
      BY <2>2, <2>8
  <2>10. QED BY <2>8, <2>9
<1>5. ASSUME NEW i \in 1..n, NEW j \in 1..n, i < j PROVE h[i] < h[j]
  <2>1. OfBlock(c, st, h[i], a + i, 1) /\ OfBlock(c, st, h[j], a + j, 1)
      BY <1>3
  <2>2. a + i < a + j
      BY <1>1, <1>5
  <2>3. QED BY <1>2, <2>1, <2>2
<1>6. h \in [1..n -> T]
    BY <1>3
<1> HIDE DEF T, n, a, h
<1>7. Counts(h, n, T)
    BY <1>1, <1>4, <1>5, <1>6 DEF Counts
<1>8. QED BY <1>3, <1>7 DEF T, n
-----------------------------------------------------------------------------
(* A translation names objects, in words that are there: an address stands  *)
(* in one only as the mapped address of an object, which PlainNat excludes. *)
IsWord(r) == r # "" /\ r \notin Literals
NatWorded(t, j) ==
    LET l == t[j] IN
    /\ l.k = "nat" =>
          /\ l.mode \in {"static", "dynamic"} /\ IsList(l.mapped) /\ IsList(l.dst) /\ Len(l.dst) \in {0, 2}
          /\ IsWord(l.osrc) /\ (\A w \in ToSet(l.mapped) : IsWord(w)) /\ \A w \in ToSet(l.dst) : IsWord(w)
    /\ l.k = "onat" /\ l.mode # "other" =>
          /\ l.mode \in {"static", "dynamic"} /\ IsList(l.to) /\ IsWord(Header(t, j).name)
          /\ \A w \in ToSet(l.to) : IsWord(w)
          /\ IF l.mode = "dynamic" /\ l.to[1] = "pat-pool" THEN Len(l.to) = 2 /\ l.to[2] # "interface" ELSE Len(l.to) = 1
NatsWorded(t) == \A j \in DOMAIN t : NatWorded(t, j)

LEMMA WordKept == ASSUME NEW c, NEW r, IsWord(r) PROVE NatRef(c, r) = r
BY DEF IsWord, NatRef

(* Lists are functions, joined ones too.                                     *)
LEMMA ListMap ==
    ASSUME NEW s, IsList(s)
    PROVE  s = [i \in 1..Len(s) |-> s[i]]
BY DEF IsList

LEMMA ConcatIs ==
    ASSUME NEW s, IsList(s), NEW t, IsList(t)
    PROVE  /\ Len(s \o t) = Len(s) + Len(t)
           /\ s \o t = [i \in 1..(Len(s) + Len(t)) |-> IF i <= Len(s) THEN s[i] ELSE t[i - Len(s)]]
<1> DEFINE r == s \o t
           a == Len(s)
           b == Len(t)
<1>1. /\ a \in Nat /\ b \in Nat /\ Len(r) = a + b
      /\ \A i \in 1..a : r[i] = s[i]
      /\ \A i \in 1..b : r[a + i] = t[i]
    BY ConcatAt
<1>2. IsList(r)
    BY ConcatList
<1> HIDE DEF r, a, b
<1>3. r = [i \in 1..(a + b) |-> r[i]]
    BY <1>1, <1>2, ListMap
<1>4. ASSUME NEW i \in 1..(a + b) PROVE r[i] = IF i <= a THEN s[i] ELSE t[i - a]
  <2>1. CASE i <= a
      BY <1>1, <2>1
  <2>2. CASE ~(i <= a)
    <3>1. i - a \in 1..b /\ a + (i - a) = i
        BY <1>1, <2>2
    <3>2. r[a + (i - a)] = t[i - a]
        BY <1>1, <3>1
    <3>3. QED BY <2>2, <3>1, <3>2
  <2>3. QED BY <2>1, <2>2
<1>5. r = [i \in 1..(a + b) |-> IF i <= a THEN s[i] ELSE t[i - a]]
    BY <1>3, <1>4
<1>6. QED BY <1>1, <1>5 DEF r, a, b

(* The device asks in the order of the text when the sections follow each   *)
(* other in it: the places of each are themselves a count, and counts of    *)
(* later places are joined.                                                  *)
LEMMA OwnPlaces ==
    ASSUME NEW t, IsList(t), NEW S, S \subseteq DOMAIN t, NEW F, F = Those([j \in DOMAIN t |-> j], S)
    PROVE  IsList(F) /\ Counts(F, Len(F), S)
<1> DEFINE s == [j \in DOMAIN t |-> j]
<1>1. IsList(s) /\ DOMAIN s = DOMAIN t /\ \A j \in DOMAIN t : s[j] = j
  <2>1. s \in Seq(DOMAIN t)
      BY DEF IsList
  <2>2. DOMAIN s = DOMAIN t /\ \A j \in DOMAIN t : s[j] = j
      OBVIOUS
  <2> HIDE DEF s
  <2>3. QED BY <2>1, <2>2, SeqIsList
<1>2. F = Those(s, S)
    OBVIOUS
<1> HIDE DEF s
<1>3. IsList(F)
    BY <1>1, <1>2, ThoseList
<1>4. S \intersect DOMAIN s = S
    BY <1>1
<1>5. PICK f : Counts(f, Len(F), S) /\ Picks(f, F, s)
    BY <1>1, <1>2, <1>4, ThosePlaces
<1>6. F \in [1..Len(F) -> S] /\ \A i \in 1..Len(F) : F[i] = f[i]
  <2>1. F = [i \in 1..Len(F) |-> F[i]]
      BY <1>3, ListMap, Zenon
  <2>2. \A i \in 1..Len(F) : F[i] = s[f[i]] /\ f[i] \in S
      BY <1>5 DEF Picks, Counts
  <2>3. \A i \in 1..Len(F) : F[i] = f[i] /\ F[i] \in S
      BY <1>1, <2>2
  <2>4. QED BY <2>1, <2>3
<1>7. QED BY <1>3, <1>5, <1>6 DEF Counts

LEMMA PlacesJoin ==
    ASSUME NEW S, S \subseteq Nat, NEW F, IsList(F), Counts(F, Len(F), S),
           NEW R, R \subseteq Nat, NEW G, IsList(G), Counts(G, Len(G), R), \A p \in S : \A q \in R : p < q
    PROVE  IsList(F \o G) /\ Counts(F \o G, Len(F \o G), S \union R)
<1>1. IsList(F \o G)
    BY ConcatList
<1>3. F \o G = [i \in 1..(Len(F) + Len(G)) |-> IF i <= Len(F) THEN F[i] ELSE G[i - Len(F)]]
    BY ConcatIs, Zenon
<1>4. Len(F \o G) = Len(F) + Len(G)
    BY ConcatIs, Zenon
<1>5. Counts([i \in 1..(Len(F) + Len(G)) |-> IF i <= Len(F) THEN F[i] ELSE G[i - Len(F)]], Len(F) + Len(G), S \union R)
    BY CountsJoin
<1>6. QED BY <1>1, <1>3, <1>4, <1>5

SectionsRise(t) ==
    \A i, j \in DOMAIN t : i < j /\ IsNat(t[i]) /\ IsNat(t[j]) => Section(t[i]) <= Section(t[j])

LEMMA AskedInOrder ==
    ASSUME NEW t, IsList(t), SectionsRise(t)
    PROVE  IsList(Asked(t)) /\ Counts(Asked(t), Len(Asked(t)), {q \in DOMAIN t : IsNat(t[q])})
<1> DEFINE s == [j \in DOMAIN t |-> j]
           P(n) == {q \in DOMAIN t : IsNat(t[q]) /\ Section(t[q]) = n}
<1>1. DOMAIN t \subseteq Nat
    BY DEF IsList
<1>2. \A n : InSection(t, n) = Those(s, P(n))
  <2>1. ASSUME NEW n PROVE InSection(t, n) = Those(s, P(n))
    <3>1. DOMAIN s = DOMAIN t /\ \A j \in DOMAIN t : s[j] = j
        OBVIOUS
    <3>2. InSection(t, n) = Those(s, {j \in DOMAIN s : IsNat(t[s[j]]) /\ Section(t[s[j]]) = n})
        BY DEF InSection, Select
    <3> HIDE DEF s
    <3>3. {j \in DOMAIN s : IsNat(t[s[j]]) /\ Section(t[s[j]]) = n} = P(n)
        BY <3>1
    <3>4. QED BY <3>2, <3>3
  <2>2. QED BY <2>1
<1>3. \A q \in DOMAIN t : IsNat(t[q]) => q \in P(1) \/ q \in P(2) \/ q \in P(3)
    BY DEF Section
<1>4. P(1) \union P(2) \union P(3) = {q \in DOMAIN t : IsNat(t[q])}
    BY <1>3
<1>5. /\ \A p \in P(1) : \A q \in P(2) : p < q
      /\ \A p \in P(1) \union P(2) : \A q \in P(3) : p < q
  <2>1. ASSUME NEW p \in DOMAIN t, NEW q \in DOMAIN t, IsNat(t[p]), IsNat(t[q]), NEW a \in Nat, NEW b \in Nat,
               Section(t[p]) = a, Section(t[q]) = b, a < b
        PROVE  p < q
    <3>1. p \in Nat /\ q \in Nat /\ p # q
        BY <1>1, <2>1
    <3>2. ~(q < p)
        BY <2>1 DEF SectionsRise
    <3>3. QED BY <3>1, <3>2
  <2>2. \A p \in P(1) : \A q \in P(2) : p < q
      BY <2>1
  <2>3. \A p \in P(1) : \A q \in P(3) : p < q
      BY <2>1
  <2>4. \A p \in P(2) : \A q \in P(3) : p < q
      BY <2>1
  <2>5. QED BY <2>2, <2>3, <2>4
<1>6. P(1) \subseteq DOMAIN t /\ P(2) \subseteq DOMAIN t /\ P(3) \subseteq DOMAIN t
    OBVIOUS
<1> DEFINE F == InSection(t, 1)
           G == InSection(t, 2)
           H == InSection(t, 3)
<1>7. IsList(F) /\ Counts(F, Len(F), P(1))
    BY <1>2, <1>6, OwnPlaces
<1>8. IsList(G) /\ Counts(G, Len(G), P(2))
    BY <1>2, <1>6, OwnPlaces
<1>9. IsList(H) /\ Counts(H, Len(H), P(3))
    BY <1>2, <1>6, OwnPlaces
<1>10. Asked(t) = F \o G \o H
    BY DEF Asked
<1> HIDE DEF F, G, H, P
<1>11. IsList(F \o G) /\ Counts(F \o G, Len(F \o G), P(1) \union P(2))
    BY <1>1, <1>5, <1>6, <1>7, <1>8, PlacesJoin
<1>12. IsList(F \o G \o H) /\ Counts(F \o G \o H, Len(F \o G \o H), P(1) \union P(2) \union P(3))
    BY <1>1, <1>5, <1>6, <1>9, <1>11, PlacesJoin
<1>13. QED BY <1>4, <1>10, <1>12

LEMMA NatsAre ==
    ASSUME NEW t, IsList(t), SectionsRise(t), NEW g, NEW n, Counts(g, n, {q \in DOMAIN t : t[q].k \in {"nat", "onat"}})
    PROVE  Nats(t) = [i \in 1..n |-> NatMeaning(t, g[i])]
<1> DEFINE A == Asked(t)
           S == {q \in DOMAIN t : t[q].k \in {"nat", "onat"}}
<1>1. {q \in DOMAIN t : IsNat(t[q])} = S /\ S \subseteq Nat
    BY DEF IsNat, IsList
<1>2. IsList(A) /\ Counts(A, Len(A), S)
    BY <1>1, AskedInOrder
<1>3. Nats(t) = [i \in DOMAIN A |-> NatMeaning(t, A[i])]
    BY DEF Nats
<1>4. Counts(g, n, S)
    OBVIOUS
<1> HIDE DEF A, S
<1>5. Len(A) = n /\ Agree(A, g, n)
    BY <1>1, <1>2, <1>4, SameCount
<1>6. DOMAIN A = 1..n
    BY <1>2, <1>5 DEF IsList
<1>7. QED BY <1>3, <1>5, <1>6 DEF Agree

ToOf(nets, mapped) ==
    IF mapped[1] \in {"interface", "pat-pool"}
    THEN <<mapped[1]>> \o [i \in 1..(Len(mapped) - 1) |-> HostsOf(nets, mapped[i + 1])]
    ELSE [i \in DOMAIN mapped |-> HostsOf(nets, mapped[i])]

LEMMA MeaningOf ==
    ASSUME NEW t, NEW q, NEW l, l = t[q]
    PROVE  /\ l.k = "nat" => NatMeaning(t, q) =
                 [from |-> l.from, onto |-> l.onto, mode |-> l.mode, src |-> HostsOf(Networks(t), l.osrc),
                  to |-> ToOf(Networks(t), IF l.mapped = <<>> THEN <<l.osrc>> ELSE l.mapped),
                  dst |-> [i \in DOMAIN l.dst |-> HostsOf(Networks(t), l.dst[i])],
                  svc |-> [i \in DOMAIN l.svc |-> Lookup(Services(t), l.svc[i])], active |-> l.active,
                  words |-> l.words \ {"after-auto"}]
           /\ l.k # "nat" => NatMeaning(t, q) =
                 [from |-> l.from, onto |-> l.onto, mode |-> l.mode, src |-> HostsOf(Networks(t), Header(t, q).name),
                  to |-> ToOf(Networks(t), l.to), dst |-> <<>>, svc |-> l.svc, active |-> TRUE, words |-> {}]
BY DEF NatMeaning, ToOf

LEMMA HostsSame ==
    ASSUME NEW a, NEW b, \A n : Lookup(a, n) = Lookup(b, n)
    PROVE  (\A r : HostsOf(a, r) = HostsOf(b, r)) /\ \A m : ToOf(a, m) = ToOf(b, m)
<1>1. \A r : HostsOf(a, r) = HostsOf(b, r)
    BY DEF HostsOf
<1>2. QED BY <1>1 DEF ToOf

(* What is written says what was read: in a block or on a line of its own.  *)
LEMMA ManualBack ==
    ASSUME NEW c, NEW l, NEW e, ManualFrom(l, e), NEW t, NEW q, l = t[q], l.k = "nat", PlainNat(l), NatWorded(t, q),
           NEW g, g = GenNAT(c, e)
    PROVE  /\ g.k = "nat" /\ g.from = IfOrAny(MapZone(l.from)) /\ g.onto = IfOrAny(MapZone(l.onto))
           /\ g.mode = l.mode /\ g.osrc = l.osrc /\ g.mapped = l.mapped /\ l.mapped # <<>> /\ g.dst = l.dst
           /\ g.svc = <<>> /\ l.svc = <<>> /\ g.active = l.active /\ g.words = {} /\ l.words = {}
<1>1. /\ e.in = l.from /\ e.out = l.onto /\ e.kind = ManualNatKind(l) /\ e.osrc = l.osrc
      /\ e.tsrc = (IF l.mapped = <<>> THEN "" ELSE l.mapped[1])
      /\ e.tdst = (IF l.dst = <<>> THEN "" ELSE l.dst[1])
      /\ e.odst = (IF l.dst = <<>> THEN "" ELSE l.dst[2]) /\ e.osvc = <<>> /\ l.svc = <<>>
    BY DEF ManualFrom, PlainNat, IsNat
<1>2. /\ l.mode \in {"static", "dynamic"} /\ IsList(l.mapped) /\ IsList(l.dst) /\ Len(l.dst) \in {0, 2}
      /\ IsWord(l.osrc) /\ (\A w \in ToSet(l.mapped) : IsWord(w)) /\ (\A w \in ToSet(l.dst) : IsWord(w))
      /\ Len(l.mapped) = 1 /\ (l.mode = "dynamic" => l.dst = <<>>)
    BY <1>1 DEF NatWorded, PlainNat
<1>3. l.mapped # <<>> /\ l.mapped = <<l.mapped[1]>> /\ IsWord(l.mapped[1])
  <2>1. DOMAIN l.mapped = 1..1 /\ l.mapped \in Seq(ToSet(l.mapped))
      BY <1>2 DEF IsList
  <2>2. l.mapped[1] \in ToSet(l.mapped)
      BY <2>1 DEF ToSet
  <2>3. l.mapped = <<l.mapped[1]>>
      BY <1>2, <2>1
  <2>4. QED BY <1>2, <2>2, <2>3
<1>4. l.dst = <<>> \/ (l.dst # <<>> /\ l.dst = <<l.dst[1], l.dst[2]>> /\ IsWord(l.dst[1]) /\ IsWord(l.dst[2]))
  <2>1. DOMAIN l.dst = 1..Len(l.dst) /\ l.dst \in Seq(ToSet(l.dst))
      BY <1>2 DEF IsList
  <2>2. CASE Len(l.dst) = 0
      BY <2>1, <2>2
  <2>3. CASE Len(l.dst) = 2
    <3>1. l.dst[1] \in ToSet(l.dst) /\ l.dst[2] \in ToSet(l.dst)
        BY <2>1, <2>3 DEF ToSet
    <3>2. l.dst # <<>> /\ l.dst = <<l.dst[1], l.dst[2]>>
        BY <2>1, <2>3
    <3>3. QED BY <1>2, <3>1, <3>2
  <2>4. QED BY <1>2, <2>2, <2>3
<1>5. e.tsrc = l.mapped[1] /\ NatRef(c, e.osrc) = l.osrc /\ NatRef(c, e.tsrc) = l.mapped[1]
    BY <1>1, <1>2, <1>3, WordKept
<1>6. /\ e.kind \in {"pat", "dynamic"} <=> l.mode = "dynamic"
      /\ e.kind = "pat" => l.mapped[1] = "interface"
      /\ l.dst = <<>> \/ e.kind = "twice" \/ l.mode = "dynamic"
      /\ e.kind \in {"pat", "dynamic", "static", "twice"}
    BY <1>1, <1>2 DEF ManualNatKind
<1>7. NatMapped(c, e) = <<l.mapped[1]>>
    BY <1>5, <1>6 DEF NatMapped
<1>8. NatDst(c, e) = l.dst
  <2>1. CASE l.dst = <<>>
      BY <1>1, <2>1 DEF NatDst
  <2>2. CASE l.dst # <<>>
    <3>1. e.kind = "twice" /\ e.tdst = l.dst[1] /\ e.odst = l.dst[2]
        BY <1>1, <1>2, <1>6, <2>2
    <3>2. NatRef(c, e.tdst) = l.dst[1] /\ NatRef(c, e.odst) = l.dst[2] /\ e.odst # ""
        BY <1>4, <2>2, <3>1, WordKept DEF IsWord
    <3>3. NatDst(c, e) = <<NatRef(c, e.tdst), NatRef(c, e.odst)>>
        BY <3>1, <3>2 DEF NatDst
    <3>4. QED BY <1>4, <2>2, <3>2, <3>3
  <2>3. QED BY <2>1, <2>2
<1>9. ~HasSvc(e)
    BY <1>1 DEF HasSvc
<1>10. /\ g.k = "nat" /\ g.from = IfOrAny(MapZone(e.in)) /\ g.onto = IfOrAny(MapZone(e.out))
       /\ g.osrc = NatRef(c, e.osrc) /\ g.mapped = NatMapped(c, e) /\ g.dst = NatDst(c, e)
    BY DEF GenNAT
<1>11. g.mode = l.mode
    BY <1>2, <1>6 DEF GenNAT
<1>12. g.svc = <<>>
    BY <1>9 DEF GenNAT
<1>13. g.active = l.active
    BY DEF GenNAT, ManualFrom
<1>14. g.words = {} /\ l.words = {}
    BY DEF GenNAT, PlainNat
<1>15. QED BY <1>1, <1>3, <1>5, <1>7, <1>8, <1>10, <1>11, <1>12, <1>13, <1>14
-----------------------------------------------------------------------------
(* What is written says what an object's translation says.                  *)
BackAs(g, l, name) ==
    /\ g.k = "nat" /\ g.from = IfOrAny(MapZone(l.from)) /\ g.onto = IfOrAny(MapZone(l.onto))
    /\ g.mode = l.mode /\ g.osrc = name /\ g.mapped = l.to /\ l.to # <<>> /\ g.dst = <<>>
    /\ g.svc = <<>> /\ l.svc = <<>> /\ g.active = TRUE /\ g.words = {}

LEMMA ObjectBack ==
    ASSUME NEW c, NEW t, NEW q, NEW l, l = t[q], l.k = "onat", PlainNat(l), NatWorded(t, q),
           NEW name, name = Header(t, q).name, NEW e, ObjectFrom(name, l, e), NEW g, g = GenNAT(c, e)
    PROVE  BackAs(g, l, name)
<1>1. /\ l.mode # "other" /\ e.in = l.from /\ e.out = l.onto /\ e.kind = ObjectNatKind(l) /\ e.osrc = name
      /\ e.tsrc = (IF l.mode = "dynamic" /\ l.to[1] = "pat-pool" THEN l.to[2] ELSE l.to[1])
      /\ e.tdst = "" /\ e.odst = "" /\ e.osvc = <<>> /\ l.svc = <<>>
    BY DEF ObjectFrom, PlainNat, IsNat
<1>2. /\ l.mode \in {"static", "dynamic"} /\ IsList(l.to) /\ IsWord(name) /\ (\A w \in ToSet(l.to) : IsWord(w))
      /\ (l.mode = "dynamic" /\ l.to[1] = "pat-pool" => Len(l.to) = 2 /\ l.to[2] # "interface")
      /\ (~(l.mode = "dynamic" /\ l.to[1] = "pat-pool") => Len(l.to) = 1)
    BY <1>1 DEF NatWorded
<1>3. DOMAIN l.to = 1..Len(l.to) /\ l.to \in Seq(ToSet(l.to))
    BY <1>2 DEF IsList
<1>4. CASE l.mode = "dynamic" /\ l.to[1] = "pat-pool"
  <2>1. l.to[2] \in ToSet(l.to) /\ l.to = <<l.to[1], l.to[2]>> /\ l.to # <<>>
      BY <1>2, <1>3, <1>4 DEF ToSet
  <2>2. e.kind = "pat" /\ e.tsrc = l.to[2] /\ IsWord(e.tsrc)
      BY <1>1, <1>2, <1>4, <2>1 DEF ObjectNatKind
  <2>3. NatRef(c, e.tsrc) = l.to[2] /\ e.tsrc \notin {"", "interface"}
      BY <1>2, <1>4, <2>2, WordKept DEF IsWord
  <2>4. NatMapped(c, e) = <<"pat-pool", NatRef(c, e.tsrc)>>
      BY <2>2, <2>3 DEF NatMapped
  <2>5. NatMapped(c, e) = l.to
      BY <1>4, <2>1, <2>3, <2>4
  <2>6. NatDst(c, e) = <<>>
      BY <2>2 DEF NatDst
  <2>7. ~HasSvc(e) /\ NatRef(c, e.osrc) = name
      BY <1>1, <1>2, WordKept DEF HasSvc
  <2>8. /\ g.k = "nat" /\ g.from = IfOrAny(MapZone(e.in)) /\ g.onto = IfOrAny(MapZone(e.out))
        /\ g.osrc = NatRef(c, e.osrc) /\ g.mapped = NatMapped(c, e) /\ g.dst = NatDst(c, e)
      BY DEF GenNAT
  <2>9. g.mode = l.mode
      BY <1>4, <2>2 DEF GenNAT
  <2>10. g.svc = <<>>
      BY <2>7 DEF GenNAT
  <2>11. g.active = TRUE /\ g.words = {}
      BY DEF GenNAT, ObjectFrom
  <2>12. QED BY <1>1, <2>1, <2>5, <2>6, <2>7, <2>8, <2>9, <2>10, <2>11 DEF BackAs
<1>5. CASE ~(l.mode = "dynamic" /\ l.to[1] = "pat-pool")
  <2>1. l.to[1] \in ToSet(l.to) /\ l.to = <<l.to[1]>> /\ l.to # <<>>
      BY <1>2, <1>3, <1>5 DEF ToSet
  <2>2. e.tsrc = l.to[1] /\ IsWord(e.tsrc)
      BY <1>1, <1>2, <1>5, <2>1
  <2>3. /\ e.kind \in {"pat", "dynamic"} <=> l.mode = "dynamic"
        /\ e.kind = "pat" => l.to[1] = "interface"
        /\ e.kind \in {"pat", "dynamic", "static"}
      BY <1>1, <1>2, <1>5 DEF ObjectNatKind
  <2>4. NatRef(c, e.tsrc) = l.to[1]
      BY <2>2, WordKept
  <2>5. NatMapped(c, e) = <<l.to[1]>>
      BY <2>2, <2>3, <2>4 DEF NatMapped
  <2>6. NatDst(c, e) = <<>>
      BY <1>1 DEF NatDst
  <2>7. ~HasSvc(e) /\ NatRef(c, e.osrc) = name
      BY <1>1, <1>2, WordKept DEF HasSvc
  <2>8. /\ g.k = "nat" /\ g.from = IfOrAny(MapZone(e.in)) /\ g.onto = IfOrAny(MapZone(e.out))
        /\ g.osrc = NatRef(c, e.osrc) /\ g.mapped = NatMapped(c, e) /\ g.dst = NatDst(c, e)
      BY DEF GenNAT
  <2>9. g.mode = l.mode
      BY <1>2, <2>3 DEF GenNAT
  <2>10. g.svc = <<>>
      BY <2>7 DEF GenNAT
  <2>11. g.active = TRUE /\ g.words = {}
      BY DEF GenNAT, ObjectFrom
  <2>12. QED BY <1>1, <2>1, <2>5, <2>6, <2>7, <2>8, <2>9, <2>10, <2>11 DEF BackAs
<1>6. QED BY <1>4, <1>5

LEMMA ZonedIs ==
    ASSUME NEW from, NEW onto, NEW mode, NEW src, NEW to, NEW dst, NEW svc, NEW active, NEW words
    PROVE  Zoned([from |-> from, onto |-> onto, mode |-> mode, src |-> src, to |-> to, dst |-> dst, svc |-> svc,
                  active |-> active, words |-> words])
           = [from |-> IfOrAny(MapZone(from)), onto |-> IfOrAny(MapZone(onto)), mode |-> mode, src |-> src, to |-> to,
              dst |-> dst, svc |-> svc, active |-> active, words |-> words]
<1> DEFINE n == [from |-> from, onto |-> onto, mode |-> mode, src |-> src, to |-> to, dst |-> dst, svc |-> svc,
                 active |-> active, words |-> words]
           m == [n EXCEPT !.from = IfOrAny(MapZone(n.from))]
<1>1. n.from = from /\ n.onto = onto
    OBVIOUS
<1>2. m = [from |-> IfOrAny(MapZone(from)), onto |-> onto, mode |-> mode, src |-> src, to |-> to, dst |-> dst,
           svc |-> svc, active |-> active, words |-> words]
    OBVIOUS
<1> HIDE DEF n
<1>3. Zoned(n) = [m EXCEPT !.onto = IfOrAny(MapZone(n.onto))]
    BY Zenon DEF Zoned
<1> HIDE DEF m
<1>4. [m EXCEPT !.onto = IfOrAny(MapZone(onto))]
      = [from |-> IfOrAny(MapZone(from)), onto |-> IfOrAny(MapZone(onto)), mode |-> mode, src |-> src, to |-> to,
         dst |-> dst, svc |-> svc, active |-> active, words |-> words]
    BY <1>2
<1>5. QED BY <1>1, <1>3, <1>4 DEF n

LEMMA NatSame ==
    ASSUME NEW c, NEW t, NEW q, t[q].k \in {"nat", "onat"}, PlainNat(t[q]), NatWorded(t, q),
           NEW e, NatFrom(t, q, e), NEW u, NEW p, u[p] = GenNAT(c, e),
           \A n : Lookup(Networks(u), n) = Lookup(Networks(t), n)
    PROVE  NatMeaning(u, p) = Zoned(NatMeaning(t, q))
<1> DEFINE l == t[q]
           g == u[p]
           N == Networks(t)
           M == Networks(u)
<1>1. (\A r : HostsOf(M, r) = HostsOf(N, r)) /\ \A m : ToOf(M, m) = ToOf(N, m)
    BY HostsSame
<1>2. g.k = "nat" => NatMeaning(u, p) =
          [from |-> g.from, onto |-> g.onto, mode |-> g.mode, src |-> HostsOf(M, g.osrc),
           to |-> ToOf(M, IF g.mapped = <<>> THEN <<g.osrc>> ELSE g.mapped),
           dst |-> [i \in DOMAIN g.dst |-> HostsOf(M, g.dst[i])],
           svc |-> [i \in DOMAIN g.svc |-> Lookup(Services(u), g.svc[i])], active |-> g.active,
           words |-> g.words \ {"after-auto"}]
    BY MeaningOf
<1>3. CASE l.k = "nat"
  <2>1. ManualFrom(l, e)
      BY <1>3 DEF NatFrom
  <2>2. /\ g.k = "nat" /\ g.from = IfOrAny(MapZone(l.from)) /\ g.onto = IfOrAny(MapZone(l.onto))
        /\ g.mode = l.mode /\ g.osrc = l.osrc /\ g.mapped = l.mapped /\ l.mapped # <<>> /\ g.dst = l.dst
        /\ g.svc = <<>> /\ l.svc = <<>> /\ g.active = l.active /\ g.words = {} /\ l.words = {}
      BY <1>3, <2>1, ManualBack
  <2>3. NatMeaning(t, q) =
          [from |-> l.from, onto |-> l.onto, mode |-> l.mode, src |-> HostsOf(N, l.osrc),
           to |-> ToOf(N, IF l.mapped = <<>> THEN <<l.osrc>> ELSE l.mapped),
           dst |-> [i \in DOMAIN l.dst |-> HostsOf(N, l.dst[i])],
           svc |-> [i \in DOMAIN l.svc |-> Lookup(Services(t), l.svc[i])], active |-> l.active,
           words |-> l.words \ {"after-auto"}]
      BY <1>3, MeaningOf
  <2> HIDE DEF l, g, N, M
  <2>4. NatMeaning(t, q) =
          [from |-> l.from, onto |-> l.onto, mode |-> l.mode, src |-> HostsOf(N, l.osrc),
           to |-> ToOf(N, l.mapped), dst |-> [i \in DOMAIN l.dst |-> HostsOf(N, l.dst[i])],
           svc |-> <<>>, active |-> l.active, words |-> {}]
    <3>1. [i \in DOMAIN l.svc |-> Lookup(Services(t), l.svc[i])] = <<>>
        BY <2>2
    <3>2. QED BY <2>2, <2>3, <3>1
  <2>5. NatMeaning(u, p) =
          [from |-> IfOrAny(MapZone(l.from)), onto |-> IfOrAny(MapZone(l.onto)), mode |-> l.mode, src |-> HostsOf(N, l.osrc),
           to |-> ToOf(N, l.mapped), dst |-> [i \in DOMAIN l.dst |-> HostsOf(N, l.dst[i])],
           svc |-> <<>>, active |-> l.active, words |-> {}]
    <3>1. [i \in DOMAIN g.svc |-> Lookup(Services(u), g.svc[i])] = <<>>
        BY <2>2
    <3>2. [i \in DOMAIN g.dst |-> HostsOf(M, g.dst[i])] = [i \in DOMAIN l.dst |-> HostsOf(N, l.dst[i])]
        BY <1>1, <2>2
    <3>3. ToOf(M, IF g.mapped = <<>> THEN <<g.osrc>> ELSE g.mapped) = ToOf(N, l.mapped)
        BY <1>1, <2>2
    <3>4. HostsOf(M, g.osrc) = HostsOf(N, l.osrc)
        BY <1>1, <2>2
    <3>5. QED BY <1>2, <2>2, <3>1, <3>2, <3>3, <3>4
  <2> DEFINE none == {}
             nothing == <<>>
  <2>6. NatMeaning(t, q) =
          [from |-> l.from, onto |-> l.onto, mode |-> l.mode, src |-> HostsOf(N, l.osrc),
           to |-> ToOf(N, l.mapped), dst |-> [i \in DOMAIN l.dst |-> HostsOf(N, l.dst[i])],
           svc |-> nothing, active |-> l.active, words |-> none]
      BY <2>4
  <2>7. NatMeaning(u, p) =
          [from |-> IfOrAny(MapZone(l.from)), onto |-> IfOrAny(MapZone(l.onto)), mode |-> l.mode, src |-> HostsOf(N, l.osrc),
           to |-> ToOf(N, l.mapped), dst |-> [i \in DOMAIN l.dst |-> HostsOf(N, l.dst[i])],
           svc |-> nothing, active |-> l.active, words |-> none]
      BY <2>5
  <2> HIDE DEF none, nothing
  <2>8. QED BY <2>6, <2>7, ZonedIs
<1>4. CASE l.k = "onat"
  <2> DEFINE name == Header(t, q).name
  <2>1. ObjectFrom(name, l, e)
      BY <1>4 DEF NatFrom
  <2>2. /\ g.k = "nat" /\ g.from = IfOrAny(MapZone(l.from)) /\ g.onto = IfOrAny(MapZone(l.onto))
        /\ g.mode = l.mode /\ g.osrc = name /\ g.mapped = l.to /\ l.to # <<>> /\ g.dst = <<>>
        /\ g.svc = <<>> /\ l.svc = <<>> /\ g.active = TRUE /\ g.words = {}
    <3>1. BackAs(g, l, name)
        BY <1>4, <2>1, ObjectBack
    <3> HIDE DEF l, g, N, M, name
    <3>2. QED BY <3>1 DEF BackAs
  <2>3. NatMeaning(t, q) =
          [from |-> l.from, onto |-> l.onto, mode |-> l.mode, src |-> HostsOf(N, name),
           to |-> ToOf(N, l.to), dst |-> <<>>, svc |-> l.svc, active |-> TRUE, words |-> {}]
      BY <1>4, MeaningOf
  <2> HIDE DEF l, g, N, M, name
  <2>4. NatMeaning(t, q) =
          [from |-> l.from, onto |-> l.onto, mode |-> l.mode, src |-> HostsOf(N, name),
           to |-> ToOf(N, l.to), dst |-> <<>>, svc |-> <<>>, active |-> TRUE, words |-> {}]
      BY <2>2, <2>3
  <2>5. NatMeaning(u, p) =
          [from |-> IfOrAny(MapZone(l.from)), onto |-> IfOrAny(MapZone(l.onto)), mode |-> l.mode, src |-> HostsOf(N, name),
           to |-> ToOf(N, l.to), dst |-> <<>>, svc |-> <<>>, active |-> TRUE, words |-> {}]
    <3>1. [i \in DOMAIN g.svc |-> Lookup(Services(u), g.svc[i])] = <<>>
        BY <2>2
    <3>2. [i \in DOMAIN g.dst |-> HostsOf(M, g.dst[i])] = <<>>
        BY <2>2
    <3>3. ToOf(M, IF g.mapped = <<>> THEN <<g.osrc>> ELSE g.mapped) = ToOf(N, l.to)
        BY <1>1, <2>2
    <3>4. HostsOf(M, g.osrc) = HostsOf(N, name)
        BY <1>1, <2>2
    <3>5. QED BY <1>2, <2>2, <3>1, <3>2, <3>3, <3>4
  <2> DEFINE yes == TRUE
             none == {}
  <2>6. NatMeaning(t, q) =
          [from |-> l.from, onto |-> l.onto, mode |-> l.mode, src |-> HostsOf(N, name),
           to |-> ToOf(N, l.to), dst |-> <<>>, svc |-> <<>>, active |-> yes, words |-> none]
      BY <2>4
  <2>7. NatMeaning(u, p) =
          [from |-> IfOrAny(MapZone(l.from)), onto |-> IfOrAny(MapZone(l.onto)), mode |-> l.mode, src |-> HostsOf(N, name),
           to |-> ToOf(N, l.to), dst |-> <<>>, svc |-> <<>>, active |-> yes, words |-> none]
      BY <2>5
  <2> HIDE DEF yes, none
  <2>8. QED BY <2>6, <2>7, ZonedIs
<1>5. QED BY <1>3, <1>4

LEMMA NatsKept ==
    ASSUME NEW t, NEW c, ReadAll(t, c), NatsRead(t, c, Len(t) + 2), c.unparsed = {},
           \A j \in DOMAIN t : PlainNat(t[j]), NatsWorded(t), InSections(t),
           \A n : Lookup(Networks(GenASA(c)), n) = Lookup(Networks(t), n)
    PROVE  Nats(GenASA(c)) = [j \in DOMAIN Nats(t) |-> Zoned(Nats(t)[j])]
<1> DEFINE n == Len(c.nats)
           u == GenASA(c)
           S == {q \in DOMAIN t : t[q].k \in {"nat", "onat"}}
<1>1. IsList(t) /\ Wellformed(c) /\ IsList(u) /\ DOMAIN t = 1..Len(t) /\ Len(t) \in Nat
    BY Generated DEF ReadAll, IsList
<1>2. NatPlaces(t, Len(t) + 2) = S
    BY <1>1 DEF NatPlaces
<1>3. PICK g : NatsBy(t, c.nats, g, NatPlaces(t, Len(t) + 2))
    BY DEF NatsRead
<1>4. Counts(g, n, S) /\ \A i \in 1..n : NatFrom(t, g[i], c.nats[i])
    BY <1>2, <1>3 DEF NatsBy
<1>5. PICK h : /\ Counts(h, n, {p \in DOMAIN u : u[p].k \in {"nat", "onat"}})
               /\ \A i \in 1..n : u[h[i]] = GenNAT(c, c.nats[i])
    BY <1>1, WrittenNats
<1>6. Nats(t) = [i \in 1..n |-> NatMeaning(t, g[i])]
  <2>1. SectionsRise(t)
      BY DEF SectionsRise, InSections
  <2>2. QED BY <1>1, <1>4, <2>1, NatsAre
<1>7. Nats(u) = [i \in 1..n |-> NatMeaning(u, h[i])]
  <2>1. ASSUME NEW p \in DOMAIN u, IsNat(u[p]) PROVE Section(u[p]) = 1
    <3>1. u[p].k \in {"nat", "onat"}
        BY <2>1 DEF IsNat
    <3>2. PICK i \in 1..n : h[i] = p
        BY <1>5, <3>1 DEF Counts
    <3>3. u[p] = GenNAT(c, c.nats[i])
        BY <1>5, <3>2
    <3>4. u[p].k = "nat" /\ u[p].words = {}
        BY <3>3 DEF GenNAT
    <3>5. QED BY <3>4 DEF Section
  <2>2. SectionsRise(u)
      BY <2>1 DEF SectionsRise
  <2>3. QED BY <1>1, <1>5, <2>2, NatsAre
<1>8. ASSUME NEW i \in 1..n PROVE NatMeaning(u, h[i]) = Zoned(NatMeaning(t, g[i]))
  <2>1. g[i] \in S
      BY <1>4 DEF Counts
  <2>2. t[g[i]].k \in {"nat", "onat"} /\ PlainNat(t[g[i]]) /\ NatWorded(t, g[i])
      BY <2>1 DEF NatsWorded
  <2>3. NatFrom(t, g[i], c.nats[i]) /\ u[h[i]] = GenNAT(c, c.nats[i])
      BY <1>4, <1>5
  <2>4. QED BY <2>2, <2>3, NatSame
<1> HIDE DEF n, u
<1>9. QED BY <1>6, <1>7, <1>8 DEF u

(* Where every word of a running configuration is there and is a name, the  *)
(* translations of a context that is called ready do at the target what     *)
(* they did, one by one and in the order the device asks them (genASA,      *)
(* parseASANAT, parseASAObjectNAT; src/gen/asa.go, src/parse/asa.go).  Not  *)
(* so with unidirectional, after-auto and the other words that asa.go:434-478*)
(* never writes, and where the text is in another order than the device's.  *)
THEOREM ReadyKeepsTranslations == Spec => [](Running(source) /\ NatsWorded(source) => NatKept)
<1>1. ASSUME PassOK, Converted, Holding, Called, NatsHeld, Running(source), NatsWorded(source) PROVE NatKept
  <2>1. SUFFICES ASSUME Ready, PlainNetworks(source), AllReadable(source), InSections(source),
                        \A j \in DOMAIN source : PlainNat(source[j])
                 PROVE  Nats(text) = [j \in DOMAIN Nats(source) |-> Zoned(Nats(source)[j])]
      BY DEF NatKept
  <2>2. text = GenASA(ir) /\ ReadAll(source, ir) /\ ir.unparsed = {} /\ NetsSound(ir)
      BY <1>1, <2>1, ReadySound
  <2>3. \A n : Lookup(Networks(GenASA(ir)), n) = Lookup(Networks(source), n)
      BY <1>1, <2>1, <2>2, NetworksKept
  <2>4. pass # "source" /\ Nested(source)
      BY <1>1, <2>1 DEF Ready, Called, Running
  <2>5. NatsRead(source, ir, Len(source) + 2)
      BY <1>1, <2>4 DEF NatsHeld
  <2>6. QED BY <1>1, <2>1, <2>2, <2>3, <2>5, NatsKept
<1>2. PassOK /\ Converted /\ Holding /\ Called /\ NatsHeld => (Running(source) /\ NatsWorded(source) => NatKept)
    BY <1>1
<1>3. QED BY <1>2, ParserInit, ParserNext, PassInit, PassNext, AlarmInit, AlarmNext,
             HoldingInit, HoldingNext, CalledInit, CalledNext, NatsHeldInit, NatsHeldNext, PTL DEF Spec
-----------------------------------------------------------------------------
(* Policies as they are written: an entry and its remark for each rule, and *)
(* behind them a binding for each list.                                      *)
LEMMA WrittenRules ==
    ASSUME NEW c, Wellformed(c)
    PROVE  \E h : /\ Counts(h, Len(c.rules), {p \in DOMAIN GenASA(c) : GenASA(c)[p].k = "ace"})
                  /\ \A i \in 1..Len(c.rules) : GenASA(c)[h[i]] = GenRule(c, c.rules[i])[2]
<1> DEFINE n == Len(c.rules)
           u == GenASA(c)
           T == {p \in DOMAIN u : u[p].k = "ace"}
           a == SvcGroupsEnd(c)
<1>1. n \in Nat /\ DOMAIN c.rules = 1..n /\ a \in Nat
  <2>1. n \in Nat /\ DOMAIN c.rules = 1..n
      BY DEF Wellformed, IsList
  <2>2. a \in Nat
      BY Places
  <2>3. QED BY <2>1, <2>2
<1>2. PICK st : /\ \A p \in DOMAIN u : \E m, i : OfBlock(c, st, p, m, i)
                /\ \A m \in 1..Len(Blocks(c)) : \A i \in 1..Len(Blocks(c)[m]) :
                       /\ st[m] + i - 1 \in DOMAIN u /\ OfBlock(c, st, st[m] + i - 1, m, i)
                /\ \A p, q, m, i, k, l : OfBlock(c, st, p, m, i) /\ OfBlock(c, st, q, k, l) /\ m < k => p < q
    BY WrittenLines
<1> DEFINE h == [i \in 1..n |-> st[a + i] + 2 - 1]
<1>3. ASSUME NEW i \in 1..n
      PROVE  h[i] \in T /\ OfBlock(c, st, h[i], a + i, 2) /\ u[h[i]] = GenRule(c, c.rules[i])[2]
  <2>1. RuleAt(c, a + i, i) /\ a + i \in 1..Len(Blocks(c))
      BY <1>1, BlockAt
  <2>2. Len(Blocks(c)[a + i]) = 2 /\ Blocks(c)[a + i][2].k = "ace" /\ Blocks(c)[a + i] = GenRule(c, c.rules[i])
      BY <2>1, LateKinds
  <2>3. h[i] = st[a + i] + 2 - 1
      OBVIOUS
  <2>4. h[i] \in DOMAIN u /\ OfBlock(c, st, h[i], a + i, 2)
      BY <1>2, <2>1, <2>2, <2>3
  <2>5. u[h[i]] = GenRule(c, c.rules[i])[2]
      BY <2>2, <2>4 DEF OfBlock
  <2>6. QED BY <2>2, <2>4, <2>5
<1>4. ASSUME NEW p \in T PROVE \E i \in 1..n : h[i] = p
  <2>1. PICK m, k : OfBlock(c, st, p, m, k)
      BY <1>2
  <2>2. m \in 1..Len(Blocks(c)) /\ k \in 1..Len(Blocks(c)[m]) /\ p = st[m] + k - 1 /\ u[p] = Blocks(c)[m][k]
      BY <2>1 DEF OfBlock
  <2>3. Blocks(c)[m][k].k = "ace"
      BY <2>2
  <2>4. PICK j : RuleAt(c, m, j) \/ BindAt(c, m, j) \/ NatAt(c, m, j)
      BY <2>2, <2>3, LateBlocks DEF Late
  <2>5. ~NatAt(c, m, j)
    <3>1. SUFFICES ASSUME NatAt(c, m, j) PROVE FALSE
        OBVIOUS
    <3>2. Len(Blocks(c)[m]) = 1 /\ Blocks(c)[m][1].k = "nat"
        BY <3>1, LateKinds
    <3>3. k = 1
        BY <2>2, <3>2
    <3>4. QED BY <2>3, <3>2, <3>3
  <2>6. ~BindAt(c, m, j)
    <3>1. SUFFICES ASSUME BindAt(c, m, j) PROVE FALSE
        OBVIOUS
    <3>2. Len(Blocks(c)[m]) = 1 /\ Blocks(c)[m][1].k = "access-group"
        BY <3>1, LateKinds
    <3>3. k = 1
        BY <2>2, <3>2
    <3>4. QED BY <2>3, <3>2, <3>3
  <2>7. RuleAt(c, m, j)
      BY <2>4, <2>5, <2>6
  <2>8. k = 2 /\ j \in 1..n /\ m = a + j
    <3>1. Len(Blocks(c)[m]) = 2 /\ Blocks(c)[m][1].k = "remark"
        BY <2>7, LateKinds
    <3>2. k = 1 \/ k = 2
        BY <2>2, <3>1
    <3>3. QED BY <1>1, <2>3, <2>7, <3>1, <3>2 DEF RuleAt
  <2>9. h[j] = p
      BY <2>2, <2>8
  <2>10. QED BY <2>8, <2>9
<1>5. ASSUME NEW i \in 1..n, NEW j \in 1..n, i < j PROVE h[i] < h[j]
  <2>1. OfBlock(c, st, h[i], a + i, 2) /\ OfBlock(c, st, h[j], a + j, 2)
      BY <1>3
  <2>2. a + i < a + j
      BY <1>1, <1>5
  <2>3. QED BY <1>2, <2>1, <2>2
<1>6. h \in [1..n -> T]
    BY <1>3
<1> HIDE DEF T, n, a, h
<1>7. Counts(h, n, T)
    BY <1>1, <1>4, <1>5, <1>6 DEF Counts
<1>8. QED BY <1>3, <1>7 DEF T, n

LEMMA WrittenBinds ==
    ASSUME NEW c, Wellformed(c)
    PROVE  /\ \A p \in DOMAIN GenASA(c) : GenASA(c)[p].k = "access-group" =>
                 \E j \in DOMAIN GenBindings(c) : GenASA(c)[p] = GenBindings(c)[j]
           /\ \A j \in DOMAIN GenBindings(c) : \E p \in DOMAIN GenASA(c) : GenASA(c)[p] = GenBindings(c)[j]
<1> DEFINE u == GenASA(c)
           a == RulesEnd(c)
<1>1. IsList(GenBindings(c)) /\ DOMAIN GenBindings(c) = 1..Len(GenBindings(c))
    BY MoreBlocks DEF IsList
<1>2. PICK st : /\ \A p \in DOMAIN u : \E m, i : OfBlock(c, st, p, m, i)
                /\ \A m \in 1..Len(Blocks(c)) : \A i \in 1..Len(Blocks(c)[m]) :
                       /\ st[m] + i - 1 \in DOMAIN u /\ OfBlock(c, st, st[m] + i - 1, m, i)
    BY WrittenLines
<1>3. ASSUME NEW j \in DOMAIN GenBindings(c) PROVE \E p \in DOMAIN u : u[p] = GenBindings(c)[j]
  <2>1. BindAt(c, a + j, j) /\ a + j \in 1..Len(Blocks(c))
      BY <1>1, BlockAt
  <2>2. Len(Blocks(c)[a + j]) = 1 /\ Blocks(c)[a + j][1] = GenBindings(c)[j]
      BY <2>1, LateKinds
  <2> DEFINE p == st[a + j] + 1 - 1
  <2>3. p \in DOMAIN u /\ OfBlock(c, st, p, a + j, 1)
      BY <1>2, <2>1, <2>2
  <2> HIDE DEF p
  <2>4. u[p] = GenBindings(c)[j]
      BY <2>2, <2>3 DEF OfBlock
  <2>5. QED BY <2>3, <2>4
<1>4. ASSUME NEW p \in DOMAIN u, u[p].k = "access-group"
      PROVE  \E j \in DOMAIN GenBindings(c) : u[p] = GenBindings(c)[j]
  <2>1. PICK m, k : OfBlock(c, st, p, m, k)
      BY <1>2
  <2>2. m \in 1..Len(Blocks(c)) /\ k \in 1..Len(Blocks(c)[m]) /\ u[p] = Blocks(c)[m][k]
      BY <2>1 DEF OfBlock
  <2>3. Blocks(c)[m][k].k = "access-group"
      BY <1>4, <2>2
  <2>4. PICK j : RuleAt(c, m, j) \/ BindAt(c, m, j) \/ NatAt(c, m, j)
      BY <2>2, <2>3, LateBlocks DEF Late
  <2>5. ~NatAt(c, m, j)
    <3>1. SUFFICES ASSUME NatAt(c, m, j) PROVE FALSE
        OBVIOUS
    <3>2. Len(Blocks(c)[m]) = 1 /\ Blocks(c)[m][1].k = "nat"
        BY <3>1, LateKinds
    <3>3. k = 1
        BY <2>2, <3>2
    <3>4. QED BY <2>3, <3>2, <3>3
  <2>6. ~RuleAt(c, m, j)
    <3>1. SUFFICES ASSUME RuleAt(c, m, j) PROVE FALSE
        OBVIOUS
    <3>2. Len(Blocks(c)[m]) = 2 /\ Blocks(c)[m][1].k = "remark" /\ Blocks(c)[m][2].k = "ace"
        BY <3>1, LateKinds
    <3>3. k = 1 \/ k = 2
        BY <2>2, <3>2
    <3>4. QED BY <2>3, <3>2, <3>3
  <2>7. BindAt(c, m, j)
      BY <2>4, <2>5, <2>6
  <2>8. Len(Blocks(c)[m]) = 1 /\ Blocks(c)[m][1] = GenBindings(c)[j] /\ j \in DOMAIN GenBindings(c)
      BY <2>7, LateKinds DEF BindAt
  <2>9. k = 1
      BY <2>2, <2>8
  <2>10. QED BY <2>2, <2>8, <2>9
<1>5. QED BY <1>3, <1>4

(* A binding is that of a rule, and each rule is in a list that is bound. *)
BindingOf(b, r) ==
    /\ b.k = "access-group" /\ b.acl = AclOf(r) /\ b.dir = IF r.from = <<>> THEN "global" ELSE "in"
    /\ b.iface = IF r.from = <<>> THEN "" ELSE MapZone(r.from[1])

LEMMA BindingsAre ==
    ASSUME NEW c, Wellformed(c)
    PROVE  /\ \A j \in DOMAIN GenBindings(c) : \E i \in DOMAIN c.rules : BindingOf(GenBindings(c)[j], c.rules[i])
           /\ \A i \in DOMAIN c.rules : \E j \in DOMAIN GenBindings(c) : \E m \in DOMAIN c.rules :
                 BindingOf(GenBindings(c)[j], c.rules[m]) /\ AclOf(c.rules[m]) = AclOf(c.rules[i])
<1> DEFINE all == [j \in DOMAIN c.rules |-> j]
           T == {q \in DOMAIN all : \A i \in 1..(all[q] - 1) : AclOf(c.rules[i]) # AclOf(c.rules[all[q]])}
           first == Those(all, T)
           Binding(r) == [k |-> "access-group", in |-> FALSE, acl |-> AclOf(r),
                          dir |-> IF r.from = <<>> THEN "global" ELSE "in",
                          iface |-> IF r.from = <<>> THEN "" ELSE MapZone(r.from[1])]
<1>1. IsList(c.rules) /\ DOMAIN c.rules = 1..Len(c.rules) /\ Len(c.rules) \in Nat
    BY DEF Wellformed, IsList
<1>2. GenBindings(c) = [j \in DOMAIN first |-> Binding(c.rules[first[j]])]
    BY DEF GenBindings, Select
<1>3. \A r : BindingOf(Binding(r), r)
    BY DEF BindingOf
<1>4. DOMAIN all = DOMAIN c.rules /\ \A j \in DOMAIN c.rules : all[j] = j
    OBVIOUS
<1>5. IsList(all)
    BY <1>1, MappedList
<1>6. \A q : q \in T <=> q \in DOMAIN c.rules /\ \A i \in 1..(q - 1) : AclOf(c.rules[i]) # AclOf(c.rules[q])
    BY <1>4
<1> HIDE DEF all, T, Binding
<1>7. IsList(first) /\ ToSet(first) = {all[k] : k \in T \intersect DOMAIN all}
    BY <1>5, ThoseList
<1>8. \A q : (q \in T <=> \E j \in DOMAIN first : first[j] = q)
  <2>1. \A q : q \in ToSet(first) <=> \E j \in DOMAIN first : first[j] = q
      BY DEF ToSet
  <2>2. \A q : q \in ToSet(first) <=> q \in T
      BY <1>4, <1>6, <1>7
  <2>3. QED BY <2>1, <2>2
<1> HIDE DEF first
<1>9. DOMAIN GenBindings(c) = DOMAIN first /\ \A j \in DOMAIN first : BindingOf(GenBindings(c)[j], c.rules[first[j]])
    BY <1>2, <1>3
<1>10. \A j \in DOMAIN GenBindings(c) : \E i \in DOMAIN c.rules : BindingOf(GenBindings(c)[j], c.rules[i])
    BY <1>6, <1>8, <1>9
<1>11. ASSUME NEW i \in DOMAIN c.rules
       PROVE  \E j \in DOMAIN GenBindings(c) : \E m \in DOMAIN c.rules :
                  BindingOf(GenBindings(c)[j], c.rules[m]) /\ AclOf(c.rules[m]) = AclOf(c.rules[i])
  <2> DEFINE R == {q \in DOMAIN c.rules : AclOf(c.rules[q]) = AclOf(c.rules[i])}
  <2>1. R \subseteq Nat /\ R # {}
      BY <1>1, <1>11
  <2>2. PICK m \in R : \A y \in R : m <= y
      BY <2>1, Least
  <2>3. m \in DOMAIN c.rules /\ AclOf(c.rules[m]) = AclOf(c.rules[i])
      BY <2>2
  <2>4. \A y \in 1..(m - 1) : AclOf(c.rules[y]) # AclOf(c.rules[m])
    <3>1. ASSUME NEW y \in 1..(m - 1), AclOf(c.rules[y]) = AclOf(c.rules[m]) PROVE FALSE
      <4>1. y \in DOMAIN c.rules /\ y < m /\ m \in Nat
          BY <1>1, <2>3, <3>1
      <4>2. y \in R
          BY <2>3, <3>1, <4>1
      <4>3. QED BY <2>1, <2>2, <4>1, <4>2
    <3>2. QED BY <3>1
  <2>5. m \in T
      BY <1>6, <2>3, <2>4
  <2>6. PICK j \in DOMAIN first : first[j] = m
      BY <1>8, <2>5
  <2>7. QED BY <1>9, <2>3, <2>6
<1>12. QED BY <1>10, <1>11
-----------------------------------------------------------------------------
(* Which entries a packet meets: those of the list that is bound there.     *)
Here(t, dir, iface) == {q \in DOMAIN t : t[q].k = "access-group" /\ t[q].dir = dir /\ t[q].iface = iface}
Entries(t, acl) == {p \in DOMAIN t : t[p].k = "ace" /\ t[p].acl = acl /\ "inactive" \notin t[p].tail}

LEMMA NoneOf == ASSUME NEW t, IsList(t) PROVE Those(t, {}) = <<>>
<1> DEFINE v == Those(t, {})
<1>1. IsList(v) /\ ToSet(v) = {}
    BY ThoseList
<1> HIDE DEF v
<1>2. DOMAIN v = 1..Len(v) /\ v \in Seq(ToSet(v)) /\ Len(v) \in Nat
    BY <1>1 DEF IsList
<1>3. ~(1 \in DOMAIN v)
    BY <1>1 DEF ToSet
<1>4. Len(v) = 0
    BY <1>2, <1>3
<1>5. v = <<>>
    BY <1>2, <1>4
<1>6. QED BY <1>5 DEF v

LEMMA ListIs ==
    ASSUME NEW t, IsList(t), NEW dir, NEW iface
    PROVE  /\ Here(t, dir, iface) = {} => ListAt(t, dir, iface) = Those(t, {})
           /\ Here(t, dir, iface) # {} => \E q \in Here(t, dir, iface) : ListAt(t, dir, iface) = Those(t, Entries(t, t[q].acl))
<1> DEFINE H == Here(t, dir, iface)
           here == Those(t, H)
<1>3. ListAt(t, dir, iface) = IF here = <<>> THEN <<>> ELSE Those(t, Entries(t, Last(here).acl))
    BY DEF ListAt, Select, Here, Entries
<1>4. H \intersect DOMAIN t = H
    BY DEF Here
<1> HIDE DEF H
<1>5. IsList(here) /\ ToSet(here) = {t[k] : k \in H}
    BY <1>4, ThoseList
<1>6. H = {} => here = <<>>
    BY NoneOf
<1> HIDE DEF here
<1>7. DOMAIN here = 1..Len(here) /\ Len(here) \in Nat /\ here \in Seq(ToSet(here))
    BY <1>5 DEF IsList
<1>8. H # {} => here # <<>>
  <2>1. SUFFICES ASSUME H # {}, here = <<>> PROVE FALSE
      OBVIOUS
  <2>2. PICK k \in H : TRUE
      BY <2>1
  <2>3. t[k] \in ToSet(here)
      BY <1>5, <2>2
  <2>4. ToSet(here) = {}
      BY <2>1 DEF ToSet
  <2>5. QED BY <2>3, <2>4
<1>9. here # <<>> => \E q \in H : Last(here) = t[q]
  <2>1. SUFFICES ASSUME here # <<>> PROVE \E q \in H : Last(here) = t[q]
      OBVIOUS
  <2>2. Len(here) \in DOMAIN here
      BY <1>7, <2>1
  <2>3. Last(here) \in ToSet(here)
      BY <2>2 DEF Last, ToSet
  <2>4. QED BY <1>5, <2>3
<1>10. CASE H = {}
  <2>1. ListAt(t, dir, iface) = <<>>
      BY <1>3, <1>6, <1>10
  <2>2. QED BY <1>10, <2>1, NoneOf DEF H
<1>11. CASE H # {}
  <2>1. PICK q \in H : Last(here) = t[q]
      BY <1>8, <1>9, <1>11
  <2>2. ListAt(t, dir, iface) = Those(t, Entries(t, t[q].acl))
      BY <1>3, <1>8, <1>11, <2>1
  <2>3. QED BY <1>11, <2>1, <2>2 DEF H
<1>12. QED BY <1>10, <1>11

(* The rules of an interface, or those of the whole device.                 *)
Listed(e, dir, iface) == IF dir = "global" THEN e.from = <<>> ELSE e.from = <<iface>>
Image(g, I) == {g[i] : i \in I}

AcesOf(t) == {q \in DOMAIN t : t[q].k = "ace"}
Met(rules, n, dir, iface, t, g) == {i \in 1..n : Listed(rules[i], dir, iface) /\ "inactive" \notin t[g[i]].tail}
RulesAre(t, rules, g, n) == \A i \in 1..n : RuleFrom(t, g[i], rules[i]) /\ BoundAs(t, rules[i])

(* Where a list is looked for. *)
Place(dir, iface, Z) ==
    dir \in {"in", "global"} /\ (dir = "global" => iface = "") /\ (dir = "in" => iface \in Z)

LEMMA SourceList ==
    ASSUME NEW t, IsList(t), NEW rules, NEW g, NEW n, Counts(g, n, AcesOf(t)), RulesAre(t, rules, g, n),
           BoundOnce(t), PolicyWorded(t), NEW dir, NEW iface, NEW Z, Place(dir, iface, Z)
    PROVE  ListAt(t, dir, iface) = Those(t, Image(g, Met(rules, n, dir, iface, t, g)))
<1> DEFINE S == AcesOf(t)
           I == Met(rules, n, dir, iface, t, g)
<1>a. Counts(g, n, S) /\ dir \in {"in", "global"} /\ (dir = "global" => iface = "")
    BY DEF Place
<1>0. /\ I = {i \in 1..n : Listed(rules[i], dir, iface) /\ "inactive" \notin t[g[i]].tail}
      /\ S = {q \in DOMAIN t : t[q].k = "ace"}
    BY DEF Met, AcesOf
<1> HIDE DEF I, S
<1> DEFINE H == Here(t, dir, iface)
<1>1. \A i \in 1..n : g[i] \in S
    BY <1>a DEF Counts
<1>2. \A p \in S : \E i \in 1..n : g[i] = p
    BY <1>a DEF Counts
<1>3. \A i \in 1..n : rules[i].name = t[g[i]].acl /\ BoundAs(t, rules[i])
    BY DEF RuleFrom, RulesAre
<1>4. ASSUME NEW i \in 1..n
      PROVE  \E q : /\ Binds(t, q, t[g[i]].acl) /\ t[q].dir \in {"in", "global"}
                    /\ rules[i].from = IF t[q].dir = "global" THEN <<>> ELSE <<t[q].iface>>
  <2>1. BoundAs(t, rules[i]) /\ rules[i].name = t[g[i]].acl /\ g[i] \in DOMAIN t /\ t[g[i]].k = "ace"
      BY <1>0, <1>1, <1>3
  <2>2. \E q \in DOMAIN t : t[q].k = "access-group" /\ t[q].acl = t[g[i]].acl
      BY <2>1 DEF BoundOnce
  <2>3. \E q : Binds(t, q, t[g[i]].acl)
      BY <2>2 DEF Binds
  <2>4. \A q : Binds(t, q, t[g[i]].acl) => t[q].dir \in {"in", "global"}
      BY DEF Binds, BoundOnce, PolicyWorded
  <2>5. QED BY <2>1, <2>3, <2>4 DEF BoundAs
<1>5. ASSUME NEW i \in 1..n, NEW q \in H PROVE Listed(rules[i], dir, iface) <=> t[g[i]].acl = t[q].acl
  <2>1. PICK p : /\ Binds(t, p, t[g[i]].acl) /\ t[p].dir \in {"in", "global"}
                 /\ rules[i].from = IF t[p].dir = "global" THEN <<>> ELSE <<t[p].iface>>
      BY <1>4
  <2>2. p \in DOMAIN t /\ t[p].k = "access-group" /\ t[p].acl = t[g[i]].acl
      BY <2>1 DEF Binds
  <2>3. q \in DOMAIN t /\ t[q].k = "access-group" /\ t[q].dir = dir /\ t[q].iface = iface
      BY DEF Here
  <2>4. p # q => t[p].acl # t[q].acl /\ <<t[p].dir, t[p].iface>> # <<t[q].dir, t[q].iface>>
      BY <2>2, <2>3 DEF BoundOnce
  <2>5. t[p].dir = "global" => t[p].iface = ""
      BY <2>2 DEF PolicyWorded
  <2>6. Listed(rules[i], dir, iface) => p = q
    <3>1. \A z : <<z>> # <<>> /\ (<<z>> = <<iface>> => z = iface)
        OBVIOUS
    <3>2. Listed(rules[i], dir, iface) => t[p].dir = dir /\ t[p].iface = iface
        BY <1>a, <2>1, <2>5, <3>1 DEF Listed
    <3>3. QED BY <2>3, <2>4, <3>2
  <2>7. p = q => Listed(rules[i], dir, iface)
      BY <2>1, <2>3 DEF Listed
  <2>8. QED BY <2>2, <2>4, <2>6, <2>7
<1>6. ASSUME H = {}, NEW i \in 1..n, Listed(rules[i], dir, iface) PROVE FALSE
  <2>1. PICK p : /\ Binds(t, p, t[g[i]].acl) /\ t[p].dir \in {"in", "global"}
                 /\ rules[i].from = IF t[p].dir = "global" THEN <<>> ELSE <<t[p].iface>>
      BY <1>4, <1>6
  <2>2. p \in DOMAIN t /\ t[p].k = "access-group"
      BY <2>1 DEF Binds
  <2>3. t[p].dir = "global" => t[p].iface = ""
      BY <2>2 DEF PolicyWorded
  <2>4. \A z : <<z>> # <<>> /\ (<<z>> = <<iface>> => z = iface)
      OBVIOUS
  <2>5. t[p].dir = dir /\ t[p].iface = iface
      BY <1>a, <1>6, <2>1, <2>3, <2>4 DEF Listed
  <2>6. QED BY <1>6, <2>2, <2>5 DEF Here
<1>7. CASE H = {}
  <2>1. I = {}
      BY <1>0, <1>6, <1>7
  <2>2. Image(g, I) = {}
      BY <2>1 DEF Image
  <2>3. ListAt(t, dir, iface) = Those(t, {})
      BY <1>7, ListIs
  <2>4. QED BY <2>2, <2>3 DEF I
<1>8. CASE H # {}
  <2>1. PICK q \in H : ListAt(t, dir, iface) = Those(t, Entries(t, t[q].acl))
      BY <1>8, ListIs
  <2>2. \A p : p \in Entries(t, t[q].acl) <=> p \in S /\ t[p].acl = t[q].acl /\ "inactive" \notin t[p].tail
      BY <1>0 DEF Entries
  <2>3. \A p : p \in Image(g, I) <=> \E i \in 1..n : p = g[i] /\ Listed(rules[i], dir, iface) /\ "inactive" \notin t[g[i]].tail
      BY <1>0 DEF Image
  <2>4. \A i \in 1..n : Listed(rules[i], dir, iface) <=> t[g[i]].acl = t[q].acl
      BY <1>5
  <2>5. \A p : p \in Entries(t, t[q].acl) <=> p \in Image(g, I)
    <3>1. ASSUME NEW p \in Entries(t, t[q].acl) PROVE p \in Image(g, I)
      <4>1. PICK i \in 1..n : g[i] = p
          BY <1>2, <2>2
      <4>2. Listed(rules[i], dir, iface) /\ "inactive" \notin t[g[i]].tail
          BY <2>2, <2>4, <4>1
      <4>3. QED BY <2>3, <4>1, <4>2
    <3>2. ASSUME NEW p \in Image(g, I) PROVE p \in Entries(t, t[q].acl)
      <4>1. PICK i \in 1..n : p = g[i] /\ Listed(rules[i], dir, iface) /\ "inactive" \notin t[g[i]].tail
          BY <2>3
      <4>2. g[i] \in S /\ t[g[i]].acl = t[q].acl
          BY <1>1, <2>4, <4>1
      <4>3. QED BY <2>2, <4>1, <4>2
    <3>3. QED BY <3>1, <3>2
  <2>6. Entries(t, t[q].acl) = Image(g, I)
      BY <2>5
  <2>7. QED BY <2>1, <2>6 DEF I
<1>9. QED BY <1>7, <1>8
-----------------------------------------------------------------------------
(* An entry as it is written. *)
EntryOf(c, e, r) ==
    /\ r.acl = AclOf(e) /\ r.action = IF e.action = "deny" THEN "deny" ELSE "permit"
    /\ r.obj = IF Len(e.svc) = 1 /\ SvcResolved(c, e.svc) THEN e.svc[1] ELSE ""
    /\ Len(e.svc) # 1 /\ Known(e.svc) => r.proto = Proto(e.svc) /\ r.dport = Clause(Port(e.svc))
    /\ r.src = GenAddr(c, e.src) /\ r.dst = GenAddr(c, e.dst) /\ r.sport = NoClause /\ "time-range" \notin r.tail
ActiveAs(e, r) == \A l : EnabledAs(e, l) => ("inactive" \in r.tail <=> "inactive" \in l.tail)

LEMMA GenEntry == ASSUME NEW c, NEW e, NEW r, r = GenRule(c, e)[2] PROVE EntryOf(c, e, r) /\ ActiveAs(e, r)
<1> DEFINE named == Len(e.svc) = 1
           off == IF e.enabled THEN {} ELSE {"inactive"}
           on == IF e.log THEN {"log"} ELSE {}
           tail == on \union off
           obj == IF named /\ SvcResolved(c, e.svc) THEN e.svc[1] ELSE ""
           proto == IF ~named /\ Known(e.svc) THEN Proto(e.svc) ELSE "ip"
           dport == IF ~named /\ Known(e.svc) THEN Clause(Port(e.svc)) ELSE NoClause
           action == IF e.action = "deny" THEN "deny" ELSE "permit"
           src == GenAddr(c, e.src)
           dst == GenAddr(c, e.dst)
           no == FALSE
           l2 == [k |-> "ace", in |-> no, acl |-> AclOf(e), action |-> action, obj |-> obj, proto |-> proto,
                  src |-> src, sport |-> NoClause, dst |-> dst, dport |-> dport, tail |-> tail]
<1>1. r = l2
    BY DEF GenRule
<1>2. on \subseteq {"log"} /\ off \subseteq {"inactive"}
    OBVIOUS
<1>3. ASSUME NEW l, EnabledAs(e, l) PROVE "inactive" \in off <=> "inactive" \in l.tail
  <2>1. CASE e.enabled
    <3>1. off = {} /\ "inactive" \notin l.tail
        BY <1>3, <2>1, Zenon DEF EnabledAs
    <3> HIDE DEF off
    <3>2. QED BY <3>1
  <2>2. CASE ~e.enabled
    <3>1. off = {"inactive"} /\ "inactive" \in l.tail
        BY <1>3, <2>2, Zenon DEF EnabledAs
    <3> HIDE DEF off
    <3>2. QED BY <3>1
  <2>3. QED BY <2>1, <2>2
<1> HIDE DEF off, on
<1>4. "time-range" \notin tail /\ ("inactive" \in tail <=> "inactive" \in off)
    BY <1>2
<1> HIDE DEF tail, obj, proto, dport, action, src, dst, no
<1>5. /\ r.acl = AclOf(e) /\ r.action = action /\ r.obj = obj /\ r.proto = proto /\ r.dport = dport
      /\ r.src = src /\ r.dst = dst /\ r.sport = NoClause /\ r.tail = tail
    BY <1>1
<1> HIDE DEF l2
<1>6. /\ r.acl = AclOf(e) /\ r.action = IF e.action = "deny" THEN "deny" ELSE "permit"
    BY <1>5 DEF action
<1>7. r.obj = IF Len(e.svc) = 1 /\ SvcResolved(c, e.svc) THEN e.svc[1] ELSE ""
    BY <1>5 DEF obj
<1>8. Len(e.svc) # 1 /\ Known(e.svc) => r.proto = Proto(e.svc) /\ r.dport = Clause(Port(e.svc))
    BY <1>5 DEF proto, dport
<1>9. r.src = GenAddr(c, e.src) /\ r.dst = GenAddr(c, e.dst) /\ r.sport = NoClause
    BY <1>5 DEF src, dst
<1>10. "time-range" \notin r.tail
    BY <1>4, <1>5
<1>11. ActiveAs(e, r)
    BY <1>3, <1>4, <1>5 DEF ActiveAs
<1>12. EntryOf(c, e, r)
    BY <1>6, <1>7, <1>8, <1>9, <1>10 DEF EntryOf
<1>13. QED BY <1>11, <1>12

(* The zones of the rules are these, and each has a list of its own. *)
FromIn(c, Z) == \A i \in DOMAIN c.rules : c.rules[i].from = <<>> \/ \E z \in Z : c.rules[i].from = <<z>>
Apart(Z) == /\ \A y, z \in Z : AclName(MapZone(y)) = AclName(MapZone(z)) => y = z
            /\ \A z \in Z : AclName(MapZone(z)) # GlobalAcl
There(dir, iface) == IF dir = "global" THEN "" ELSE MapZone(iface)

LEMMA ListedAcl ==
    ASSUME NEW c, NEW Z, FromIn(c, Z), Apart(Z), NEW dir \in {"in", "global"}, NEW iface,
           NEW i \in DOMAIN c.rules, NEW j \in DOMAIN c.rules, Listed(c.rules[j], dir, iface)
    PROVE  Listed(c.rules[i], dir, iface) <=> AclOf(c.rules[i]) = AclOf(c.rules[j])
<1> DEFINE r == c.rules[i]
           s == c.rules[j]
<1>1. (r.from = <<>> \/ \E z \in Z : r.from = <<z>>) /\ (s.from = <<>> \/ \E z \in Z : s.from = <<z>>)
    BY DEF FromIn
<1>2. \A z : <<z>> # <<>> /\ <<z>>[1] = z
    OBVIOUS
<1>3. Listed(s, dir, iface)
    OBVIOUS
<1> HIDE DEF r, s
<1>4. (r.from = <<>> => AclOf(r) = GlobalAcl) /\ (s.from = <<>> => AclOf(s) = GlobalAcl)
    BY DEF AclOf
<1>5. \A z : r.from = <<z>> => AclOf(r) = AclName(MapZone(z))
    BY <1>2 DEF AclOf
<1>6. \A z : s.from = <<z>> => AclOf(s) = AclName(MapZone(z))
    BY <1>2 DEF AclOf
<1>7. r.from = s.from <=> AclOf(r) = AclOf(s)
  <2>1. CASE r.from = <<>> /\ s.from = <<>>
      BY <1>4, <2>1
  <2>2. CASE r.from = <<>> /\ s.from # <<>>
    <3>1. PICK z \in Z : s.from = <<z>>
        BY <1>1, <2>2
    <3>2. AclOf(s) # GlobalAcl
        BY <1>6, <3>1 DEF Apart
    <3>3. QED BY <1>4, <2>2, <3>2
  <2>3. CASE r.from # <<>> /\ s.from = <<>>
    <3>1. PICK z \in Z : r.from = <<z>>
        BY <1>1, <2>3
    <3>2. AclOf(r) # GlobalAcl
        BY <1>5, <3>1 DEF Apart
    <3>3. QED BY <1>4, <2>3, <3>2
  <2>4. CASE r.from # <<>> /\ s.from # <<>>
    <3>1. PICK y \in Z : r.from = <<y>>
        BY <1>1, <2>4
    <3>2. PICK z \in Z : s.from = <<z>>
        BY <1>1, <2>4
    <3>3. AclOf(r) = AclName(MapZone(y)) /\ AclOf(s) = AclName(MapZone(z))
        BY <1>5, <1>6, <3>1, <3>2
    <3>4. <<y>> = <<z>> <=> y = z
        BY <1>2
    <3>5. AclName(MapZone(y)) = AclName(MapZone(z)) <=> y = z
        BY DEF Apart
    <3>6. QED BY <3>1, <3>2, <3>3, <3>4, <3>5
  <2>5. QED BY <2>1, <2>2, <2>3, <2>4
<1>8. Listed(r, dir, iface) <=> r.from = s.from
    BY <1>3 DEF Listed
<1>9. QED BY <1>7, <1>8 DEF r, s

LEMMA ListedBinding ==
    ASSUME NEW c, NEW Z, FromIn(c, Z), Apart(Z), NEW dir \in {"in", "global"}, NEW iface, dir = "in" => iface \in Z,
           NEW i \in DOMAIN c.rules, NEW b, BindingOf(b, c.rules[i])
    PROVE  /\ b.k = "access-group" /\ b.acl = AclOf(c.rules[i])
           /\ (b.dir = dir /\ b.iface = There(dir, iface)) <=> Listed(c.rules[i], dir, iface)
<1> DEFINE r == c.rules[i]
<1>1. r.from = <<>> \/ \E z \in Z : r.from = <<z>>
    BY DEF FromIn
<1>2. \A z : <<z>> # <<>> /\ <<z>>[1] = z
    OBVIOUS
<1>3. BindingOf(b, r)
    OBVIOUS
<1> HIDE DEF r
<1>4. b.k = "access-group" /\ b.acl = AclOf(r)
    BY <1>3 DEF BindingOf
<1>5. CASE r.from = <<>>
  <2>1. b.dir = "global" /\ b.iface = ""
      BY <1>3, <1>5 DEF BindingOf
  <2>2. Listed(r, dir, iface) <=> dir = "global"
      BY <1>2, <1>5 DEF Listed
  <2>3. (b.dir = dir /\ b.iface = There(dir, iface)) <=> dir = "global"
      BY <2>1 DEF There
  <2>4. QED BY <1>4, <2>2, <2>3 DEF r
<1>6. CASE r.from # <<>>
  <2>1. PICK z \in Z : r.from = <<z>>
      BY <1>1, <1>6
  <2>2. r.from[1] = z
      BY <1>2, <2>1
  <2>3. b.dir = "in" /\ b.iface = MapZone(z)
      BY <1>3, <1>6, <2>2 DEF BindingOf
  <2>4. <<z>> = <<iface>> <=> z = iface
      BY <1>2
  <2>5. Listed(r, dir, iface) <=> dir = "in" /\ z = iface
      BY <1>2, <2>1, <2>4 DEF Listed
  <2>6. dir = "in" => (MapZone(z) = MapZone(iface) <=> z = iface)
      BY DEF Apart
  <2>7. (b.dir = dir /\ b.iface = There(dir, iface)) <=> dir = "in" /\ z = iface
      BY <2>3, <2>6 DEF There
  <2>8. QED BY <1>4, <2>5, <2>7 DEF r
<1>7. QED BY <1>5, <1>6

ListsKnown(c, dir, iface) ==
    /\ \A i, j \in DOMAIN c.rules : Listed(c.rules[j], dir, iface) =>
          (Listed(c.rules[i], dir, iface) <=> AclOf(c.rules[i]) = AclOf(c.rules[j]))
    /\ \A i \in DOMAIN c.rules : \A b : BindingOf(b, c.rules[i]) =>
          /\ b.k = "access-group" /\ b.acl = AclOf(c.rules[i])
          /\ (b.dir = dir /\ b.iface = There(dir, iface)) <=> Listed(c.rules[i], dir, iface)

LEMMA ListsAreKnown ==
    ASSUME NEW c, NEW Z, FromIn(c, Z), Apart(Z), NEW dir \in {"in", "global"}, NEW iface, dir = "in" => iface \in Z
    PROVE  ListsKnown(c, dir, iface)
<1>1. ASSUME NEW i \in DOMAIN c.rules, NEW j \in DOMAIN c.rules, Listed(c.rules[j], dir, iface)
      PROVE  Listed(c.rules[i], dir, iface) <=> AclOf(c.rules[i]) = AclOf(c.rules[j])
    BY <1>1, ListedAcl
<1>2. ASSUME NEW i \in DOMAIN c.rules, NEW b, BindingOf(b, c.rules[i])
      PROVE  /\ b.k = "access-group" /\ b.acl = AclOf(c.rules[i])
             /\ (b.dir = dir /\ b.iface = There(dir, iface)) <=> Listed(c.rules[i], dir, iface)
    BY <1>2, ListedBinding
<1>3. QED BY <1>1, <1>2 DEF ListsKnown

EntriesAt(c, u, h, n) ==
    /\ Counts(h, n, AcesOf(u))
    /\ \A i \in 1..n : u[h[i]] = GenRule(c, c.rules[i])[2]

LEMMA EntryAcl == ASSUME NEW c, NEW e PROVE GenRule(c, e)[2].acl = AclOf(e)
BY DEF GenRule

LEMMA TextList ==
    ASSUME NEW c, Wellformed(c), NEW n, n = Len(c.rules), NEW h, EntriesAt(c, GenASA(c), h, n),
           NEW Z, FromIn(c, Z), Apart(Z), NEW dir, NEW iface, Place(dir, iface, Z)
    PROVE  ListAt(GenASA(c), dir, There(dir, iface)) = Those(GenASA(c), Image(h, Met(c.rules, n, dir, iface, GenASA(c), h)))
<1> DEFINE u == GenASA(c)
           I == Met(c.rules, n, dir, iface, u, h)
<1>d. u = GenASA(c)
    OBVIOUS
<1>c. I = {i \in 1..n : Listed(c.rules[i], dir, iface) /\ "inactive" \notin u[h[i]].tail}
    BY DEF Met
<1>e. EntriesAt(c, u, h, n) /\ n = Len(c.rules)
    OBVIOUS
<1>0. ListsKnown(c, dir, iface)
    BY ListsAreKnown DEF Place
<1> HIDE DEF I, u
<1>a. ASSUME NEW i \in DOMAIN c.rules, NEW j \in DOMAIN c.rules, Listed(c.rules[j], dir, iface)
      PROVE  Listed(c.rules[i], dir, iface) <=> AclOf(c.rules[i]) = AclOf(c.rules[j])
    BY <1>a, <1>0 DEF ListsKnown
<1>b. ASSUME NEW i \in DOMAIN c.rules, NEW b, BindingOf(b, c.rules[i])
      PROVE  /\ b.k = "access-group" /\ b.acl = AclOf(c.rules[i])
             /\ (b.dir = dir /\ b.iface = There(dir, iface)) <=> Listed(c.rules[i], dir, iface)
    BY <1>b, <1>0 DEF ListsKnown
<1> DEFINE there == There(dir, iface)
           H == Here(u, dir, there)
           S == {p \in DOMAIN u : u[p].k = "ace"}
<1>1. IsList(u) /\ DOMAIN c.rules = 1..n
  <2>1. IsList(u)
      BY <1>d, Generated
  <2>2. DOMAIN c.rules = 1..n
      BY <1>e DEF Wellformed, IsList
  <2>3. QED BY <2>1, <2>2
<1>2. (\A i \in 1..n : h[i] \in S) /\ \A p \in S : \E i \in 1..n : h[i] = p
    BY <1>e DEF EntriesAt, Counts, AcesOf
<1>3. ASSUME NEW i \in 1..n PROVE u[h[i]].acl = AclOf(c.rules[i])
  <2>1. u[h[i]] = GenRule(c, c.rules[i])[2]
      BY <1>e DEF EntriesAt
  <2>2. GenRule(c, c.rules[i])[2].acl = AclOf(c.rules[i])
      BY EntryAcl
  <2>3. QED BY <2>1, <2>2
<1>4. \A p : p \in S <=> p \in DOMAIN u /\ u[p].k = "ace"
    OBVIOUS
<1>5. \A q : q \in H <=> q \in DOMAIN u /\ u[q].k = "access-group" /\ u[q].dir = dir /\ u[q].iface = there
    BY DEF Here
<1>6. H = {} => ListAt(u, dir, there) = Those(u, {})
    BY <1>1, ListIs
<1>7. H # {} => \E q \in H : ListAt(u, dir, there) = Those(u, Entries(u, u[q].acl))
    BY <1>1, ListIs
<1>8. ASSUME NEW i \in 1..n, NEW b, BindingOf(b, c.rules[i])
      PROVE  /\ b.k = "access-group" /\ b.acl = AclOf(c.rules[i])
             /\ (b.dir = dir /\ b.iface = there) <=> Listed(c.rules[i], dir, iface)
  <2>1. i \in DOMAIN c.rules
      BY <1>1
  <2>2. /\ b.k = "access-group" /\ b.acl = AclOf(c.rules[i])
        /\ (b.dir = dir /\ b.iface = There(dir, iface)) <=> Listed(c.rules[i], dir, iface)
      BY <1>8, <2>1, <1>b
  <2>3. QED BY <2>2
<1> HIDE DEF H, S, there
<1>9. CASE H = {}
  <2>1. ASSUME NEW i \in 1..n, Listed(c.rules[i], dir, iface) PROVE FALSE
    <3>1. PICK j \in DOMAIN GenBindings(c) : \E m \in DOMAIN c.rules :
              BindingOf(GenBindings(c)[j], c.rules[m]) /\ AclOf(c.rules[m]) = AclOf(c.rules[i])
        BY <1>1, BindingsAre
    <3>2. PICK m \in 1..n : BindingOf(GenBindings(c)[j], c.rules[m]) /\ AclOf(c.rules[m]) = AclOf(c.rules[i])
        BY <1>1, <3>1
    <3>3. Listed(c.rules[m], dir, iface)
        BY <1>1, <2>1, <3>2, <1>a
    <3>4. PICK p \in DOMAIN u : u[p] = GenBindings(c)[j]
        BY <1>d, WrittenBinds
    <3>5. u[p].k = "access-group" /\ u[p].dir = dir /\ u[p].iface = there
        BY <1>8, <3>2, <3>3, <3>4
    <3>6. QED BY <1>5, <1>9, <3>5
  <2>2. Image(h, I) = {}
      BY <1>c, <2>1 DEF Image
  <2>3. QED BY <1>6, <1>9, <2>2 DEF there, I, u
<1>10. CASE H # {}
  <2>1. PICK q \in H : ListAt(u, dir, there) = Those(u, Entries(u, u[q].acl))
      BY <1>7, <1>10
  <2>2. q \in DOMAIN u /\ u[q].k = "access-group" /\ u[q].dir = dir /\ u[q].iface = there
      BY <1>5
  <2>3. PICK j \in DOMAIN GenBindings(c) : u[q] = GenBindings(c)[j]
      BY <1>d, <2>2, WrittenBinds
  <2>4. PICK m \in 1..n : BindingOf(GenBindings(c)[j], c.rules[m])
      BY <1>1, BindingsAre
  <2>5. u[q].acl = AclOf(c.rules[m]) /\ Listed(c.rules[m], dir, iface)
      BY <1>8, <2>2, <2>3, <2>4
  <2>6. \A i \in 1..n : Listed(c.rules[i], dir, iface) <=> u[h[i]].acl = u[q].acl
    <3>1. ASSUME NEW i \in 1..n PROVE Listed(c.rules[i], dir, iface) <=> u[h[i]].acl = u[q].acl
      <4>0. i \in DOMAIN c.rules /\ m \in DOMAIN c.rules /\ Listed(c.rules[m], dir, iface)
          BY <1>1, <2>5
      <4>1. Listed(c.rules[i], dir, iface) <=> AclOf(c.rules[i]) = AclOf(c.rules[m])
          BY <4>0, <1>a
      <4>2. u[h[i]].acl = AclOf(c.rules[i]) /\ u[q].acl = AclOf(c.rules[m])
          BY <1>3, <2>5
      <4>3. QED BY <4>1, <4>2
    <3>2. QED BY <3>1
  <2>7. \A p : p \in Entries(u, u[q].acl) <=> p \in S /\ u[p].acl = u[q].acl /\ "inactive" \notin u[p].tail
      BY <1>4 DEF Entries
  <2>8. \A p : p \in Image(h, I) <=> \E i \in 1..n : p = h[i] /\ Listed(c.rules[i], dir, iface) /\ "inactive" \notin u[h[i]].tail
      BY <1>c DEF Image
  <2>9. ASSUME NEW p \in Entries(u, u[q].acl) PROVE p \in Image(h, I)
    <3>1. PICK i \in 1..n : h[i] = p
        BY <1>2, <2>7
    <3>2. Listed(c.rules[i], dir, iface) /\ "inactive" \notin u[h[i]].tail
        BY <2>6, <2>7, <3>1
    <3>3. QED BY <2>8, <3>1, <3>2
  <2>10. ASSUME NEW p \in Image(h, I) PROVE p \in Entries(u, u[q].acl)
    <3>1. PICK i \in 1..n : p = h[i] /\ Listed(c.rules[i], dir, iface) /\ "inactive" \notin u[h[i]].tail
        BY <2>8
    <3>2. h[i] \in S /\ u[h[i]].acl = u[q].acl
        BY <1>2, <2>6, <3>1
    <3>3. QED BY <2>7, <3>1, <3>2
  <2>11. Entries(u, u[q].acl) = Image(h, I)
      BY <2>9, <2>10
  <2>12. QED BY <2>1, <2>11 DEF there, I, u
<1>11. QED BY <1>9, <1>10

(* What is counted twice is picked in the same order. *)
LEMMA CountsAfter ==
    ASSUME NEW n, NEW g, NEW S, Counts(g, n, S), NEW m, NEW f, NEW I, I \subseteq 1..n, Counts(f, m, I)
    PROVE  Counts([k \in 1..m |-> g[f[k]]], m, Image(g, I))
<1> DEFINE e == [k \in 1..m |-> g[f[k]]]
<1>1. n \in Nat /\ \A i, j \in 1..n : i < j => g[i] < g[j]
    BY DEF Counts
<1>2. /\ m \in Nat /\ (\A k \in 1..m : f[k] \in I) /\ (\A i \in I : \E k \in 1..m : f[k] = i)
      /\ \A i, j \in 1..m : i < j => f[i] < f[j]
    BY DEF Counts
<1>3. \A k \in 1..m : e[k] = g[f[k]]
    OBVIOUS
<1>4. e \in [1..m -> Image(g, I)]
    BY <1>2 DEF Image
<1> HIDE DEF e
<1>5. ASSUME NEW p \in Image(g, I) PROVE \E k \in 1..m : e[k] = p
  <2>1. PICK i \in I : p = g[i]
      BY DEF Image
  <2>2. QED BY <1>2, <1>3, <2>1
<1>6. ASSUME NEW i \in 1..m, NEW j \in 1..m, i < j PROVE e[i] < e[j]
  <2>1. f[i] < f[j] /\ f[i] \in 1..n /\ f[j] \in 1..n
      BY <1>2, <1>6
  <2>2. QED BY <1>1, <1>3, <2>1
<1>7. QED BY <1>2, <1>4, <1>5, <1>6 DEF Counts, e

PairedBy(a, t, g, b, u, h, I) ==
    DOMAIN a = DOMAIN b /\ \A k \in DOMAIN a : \E i \in I : a[k] = t[g[i]] /\ b[k] = u[h[i]]

LEMMA ListsPair ==
    ASSUME NEW t, IsList(t), NEW u, IsList(u), NEW n, NEW g, NEW S, S \subseteq DOMAIN t, Counts(g, n, S),
           NEW h, NEW R, R \subseteq DOMAIN u, Counts(h, n, R), NEW I, I \subseteq 1..n
    PROVE  PairedBy(Those(t, Image(g, I)), t, g, Those(u, Image(h, I)), u, h, I)
<1> DEFINE s == [i \in 1..n |-> i]
           m == Len(Those(s, I))
<1>1. n \in Nat
    BY DEF Counts
<1>2. IsList(s) /\ DOMAIN s = 1..n
  <2>1. s \in Seq(1..n)
      BY <1>1
  <2>2. DOMAIN s = 1..n
      OBVIOUS
  <2> HIDE DEF s
  <2>3. QED BY <2>1, <2>2, SeqIsList
<1> HIDE DEF s
<1>3. I \intersect DOMAIN s = I
    BY <1>2
<1>4. PICK f : Counts(f, m, I)
  <2>1. \E f : Counts(f, Len(Those(s, I)), I \intersect DOMAIN s) /\ Picks(f, Those(s, I), s)
      BY <1>2, ThosePlaces
  <2>2. QED BY <1>3, <2>1
<1> HIDE DEF m
<1> DEFINE gf == [k \in 1..m |-> g[f[k]]]
           hf == [k \in 1..m |-> h[f[k]]]
           A == Image(g, I)
           B == Image(h, I)
<1>5. Counts(gf, m, A) /\ Counts(hf, m, B)
  <2>1. Counts(gf, m, A)
      BY <1>4, CountsAfter
  <2>2. Counts(hf, m, B)
      BY <1>4, CountsAfter
  <2>3. QED BY <2>1, <2>2
<1>6. \A k \in 1..m : gf[k] = g[f[k]] /\ hf[k] = h[f[k]] /\ f[k] \in I
    BY <1>4 DEF Counts
<1>7. A \subseteq DOMAIN t /\ B \subseteq DOMAIN u
    BY DEF Image, Counts
<1>8. A \intersect DOMAIN t = A /\ B \intersect DOMAIN u = B
    BY <1>7
<1> HIDE DEF gf, hf, A, B
<1>9. DOMAIN Those(t, A) = 1..m /\ Len(Those(t, A)) = m /\ Picks(gf, Those(t, A), t)
  <2>1. Counts(gf, m, A \intersect DOMAIN t)
      BY <1>5, <1>8
  <2>2. QED BY <2>1, ThoseCounted
<1>10. DOMAIN Those(u, B) = 1..m /\ Len(Those(u, B)) = m /\ Picks(hf, Those(u, B), u)
  <2>1. Counts(hf, m, B \intersect DOMAIN u)
      BY <1>5, <1>8
  <2>2. QED BY <2>1, ThoseCounted
<1>11. \A k \in 1..m : Those(t, A)[k] = t[g[f[k]]] /\ Those(u, B)[k] = u[h[f[k]]] /\ f[k] \in I
    BY <1>6, <1>9, <1>10 DEF Picks
<1>12. PairedBy(Those(t, A), t, g, Those(u, B), u, h, I)
    BY <1>9, <1>10, <1>11 DEF PairedBy
<1>13. QED BY <1>12 DEF A, B
-----------------------------------------------------------------------------
(* What an entry decides, before and after.                                 *)
Decides(t, l) ==
    <<l.action, AddrHosts(Networks(t), l.src), AddrHosts(Networks(t), l.dst), AceFlows(Services(t), l),
      l.tail \intersect {"time-range"}>>

LEMMA PolicyIs ==
    ASSUME NEW t, NEW dir, NEW iface
    PROVE  PolicyAt(t, dir, iface) = [j \in DOMAIN ListAt(t, dir, iface) |-> Decides(t, ListAt(t, dir, iface)[j])]
BY DEF PolicyAt, Decides

LEMMA AddrBack ==
    ASSUME NEW c, NEW a, PlainAddr(a), Resolved(c, ParseAddr(a)), ~Resolved(c, Unknown), NEW env
    PROVE  /\ AddrHosts(env, a) = HostsOf(env, a.v)
           /\ AddrHosts(env, GenAddr(c, ParseAddr(a))) = HostsOf(env, a.v)
<1>1. a.form \notin {"any4", "any6", "nomask"} /\ a.v \notin Prefixes6
    BY DEF PlainAddr
<1>2. AddrHosts(env, a) = HostsOf(env, a.v)
    BY <1>1 DEF AddrHosts
<1>3. ParseAddr(a) # Unknown
    OBVIOUS
<1>4. ParseAddr(a) = a.v
    BY <1>1, <1>3 DEF ParseAddr
<1> DEFINE b == GenAddr(c, a.v)
<1>5. b.v = a.v /\ b.form \in {"any", "host", "object"}
    BY <1>1, <1>4 DEF GenAddr, Literally
<1> HIDE DEF b
<1>6. AddrHosts(env, b) = HostsOf(env, b.v)
    BY <1>5 DEF AddrHosts
<1>7. QED BY <1>2, <1>4, <1>5, <1>6 DEF b

LEMMA FlowsAlone ==
    ASSUME NEW env, NEW l, l.obj = "", l.sport.op # "group", l.dport.op # "group"
    PROVE  AceFlows(env, l) = FlowsOf(l.proto, l.sport, l.dport)
<1>1. Clauseless(l.sport) = l.sport /\ Clauseless(l.dport) = l.dport
    BY DEF Clauseless
<1>2. \A f : Grouped(env, l.dport, f) /\ Grouped(env, l.sport, f)
    BY DEF Grouped
<1> DEFINE F == FlowsOf(l.proto, l.sport, l.dport)
<1>3. AceFlows(env, l) = {f \in F : Grouped(env, l.dport, f) /\ Grouped(env, l.sport, [f EXCEPT !.port = f.sport])}
    BY <1>1 DEF AceFlows
<1> HIDE DEF F
<1>4. QED BY <1>2, <1>3 DEF F

LEMMA ClauseOps == NoClause.op = "none" /\ \A p : Clause(p).op \in {"none", "eq"}
<1>1. NoClause.op = "none"
    BY DEF NoClause, Clause
<1>2. ASSUME NEW p PROVE Clause(p).op \in {"none", "eq"}
    BY DEF Clause
<1>3. QED BY <1>1, <1>2

(* The service of an entry, when it is one that can be written. *)
LEMMA SvcBack ==
    ASSUME NEW l, PlainClause(l.dport), Worded(l.dport), l.proto # "tcp-udp", l.proto = "ip" => l.dport.op = "none",
           NEW s, s = SvcLiteral(l.proto, ParsePortSpec(l.dport))
    PROVE  /\ Len(s) # 1 /\ Proto(s) = l.proto
           /\ \A port : InClause(port, Clause(Port(s))) <=> InClause(port, l.dport)
<1>1. \A a, b : Len(<<a, b>>) = 2 /\ <<a, b>> # <<>> /\ <<a, b>>[1] = a /\ <<a, b>>[2] = b
    OBVIOUS
<1>2. Len(s) # 1 /\ Proto(s) = l.proto /\ Port(s) = ParsePortSpec(l.dport)
  <2>1. CASE l.proto = "ip"
    <3>1. s = <<>> /\ Len(s) = 0
        BY <2>1 DEF SvcLiteral
    <3>2. ParsePortSpec(l.dport) = ""
        BY <2>1 DEF ParsePortSpec
    <3>3. Proto(s) = "ip"
        BY <3>1 DEF Proto
    <3>4. Port(s) = ""
        BY <3>1 DEF Port
    <3>5. Len(s) # 1
        BY <3>1
    <3>6. QED BY <2>1, <3>2, <3>3, <3>4, <3>5
  <2>2. CASE l.proto # "ip"
    <3>1. s = <<l.proto, ParsePortSpec(l.dport)>>
        BY <2>2 DEF SvcLiteral
    <3>2. Len(s) = 2 /\ s # <<>> /\ s[1] = l.proto /\ s[2] = ParsePortSpec(l.dport)
        BY <1>1, <3>1
    <3>3. QED BY <3>2 DEF Proto, Port
  <2>3. QED BY <2>1, <2>2
<1>3. \A port : InClause(port, Clause(ParsePortSpec(l.dport))) <=> InClause(port, l.dport)
    BY ClauseKept
<1>4. QED BY <1>2, <1>3

(* A name means the same hosts and flows in both. *)
MeansAs(u, t) ==
    /\ \A n : Lookup(Networks(u), n) = Lookup(Networks(t), n)
    /\ \A n : Lookup(Services(u), n) = Lookup(Services(t), n)

(* An entry decides the same when its words are those of its entry.         *)
LEMMA EntryBack ==
    ASSUME NEW c, NEW t, NEW q \in DOMAIN t, t[q].k = "ace", PlainAce(t[q]), PolicyWorded(t), NEW e, RuleFrom(t, q, e),
           RuleStatus(c, e) = "converted", ~Resolved(c, Unknown), NEW u, NEW r, EntryOf(c, e, r), MeansAs(u, t)
    PROVE  Decides(u, r) = Decides(t, t[q])
<1> DEFINE l == t[q]
           N == Networks(t)
           M == Networks(u)
           V == Services(t)
           W == Services(u)
<1>1. /\ AceOk(l) /\ e.action = IF l.action = "permit" THEN "allow" ELSE "deny"
      /\ e.src = ParseAddr(l.src) /\ e.dst = ParseDst(l)
      /\ e.svc = IF l.obj # "" THEN <<l.obj>> ELSE SvcLiteral(l.proto, ParseDport(l))
    BY DEF RuleFrom
<1>2. /\ PlainAddr(l.src) /\ PlainAddr(l.dst)
      /\ l.sport.op = "none" /\ PlainClause(l.dport) /\ "time-range" \notin l.tail
    BY DEF PlainAce
<1>3. Worded(l.dport) /\ l.proto # "tcp-udp" /\ (l.proto = "ip" => l.dport.op = "none")
    BY <1>1 DEF PolicyWorded
<1>4. Resolved(c, e.src) /\ Resolved(c, e.dst) /\ SvcResolved(c, e.svc)
    BY DEF RuleStatus
<1>5. \A a : HostsOf(M, a) = HostsOf(N, a)
  <2>1. \A n : Lookup(M, n) = Lookup(N, n)
      BY DEF MeansAs
  <2> HIDE DEF M, N
  <2>2. QED BY <2>1, HostsSame
<1>6. \A n : Lookup(W, n) = Lookup(V, n)
    BY DEF MeansAs
<1> HIDE DEF l, N, M, V, W
<1>7. r.action = l.action
  <2>1. l.action \in {"permit", "deny"}
      BY <1>1 DEF AceOk
  <2>2. r.action = IF e.action = "deny" THEN "deny" ELSE "permit"
      BY DEF EntryOf
  <2>3. QED BY <1>1, <2>1, <2>2
<1>a. l.src.form # "nomask" /\ l.dst.form # "nomask"
    BY <1>2 DEF PlainAddr
<1>b. /\ e.src = ParseAddr(l.src) /\ PlainAddr(l.src) /\ PlainAddr(l.dst)
      /\ Resolved(c, e.src) /\ Resolved(c, e.dst)
    BY <1>1, <1>2, <1>4
<1>8. AddrHosts(M, r.src) = AddrHosts(N, l.src) /\ AddrHosts(M, r.dst) = AddrHosts(N, l.dst)
  <2>1. e.dst = ParseAddr(l.dst)
      BY <1>1, <1>2, <1>a DEF ParseDst
  <2>2. AddrHosts(M, GenAddr(c, e.src)) = HostsOf(M, l.src.v) /\ AddrHosts(N, l.src) = HostsOf(N, l.src.v)
      BY <1>b, AddrBack, Zenon
  <2>3. AddrHosts(M, GenAddr(c, e.dst)) = HostsOf(M, l.dst.v) /\ AddrHosts(N, l.dst) = HostsOf(N, l.dst.v)
      BY <1>b, <2>1, AddrBack, Zenon
  <2>4. r.src = GenAddr(c, e.src) /\ r.dst = GenAddr(c, e.dst)
      BY DEF EntryOf
  <2>5. QED BY <1>5, <2>2, <2>3, <2>4
<1>9. AceFlows(W, r) = AceFlows(V, l)
  <2>0. r.obj = IF Len(e.svc) = 1 /\ SvcResolved(c, e.svc) THEN e.svc[1] ELSE ""
      BY DEF EntryOf
  <2>1. CASE l.obj # ""
    <3>0. e.svc = <<l.obj>>
        BY <1>1, <2>1
    <3>1. Len(e.svc) = 1 /\ e.svc[1] = l.obj
        BY <3>0
    <3>2. r.obj = l.obj
        BY <1>4, <2>0, <3>1
    <3>3. AceFlows(W, r) = Lookup(W, l.obj) /\ AceFlows(V, l) = Lookup(V, l.obj)
        BY <2>1, <3>2 DEF AceFlows
    <3>4. QED BY <1>6, <3>3
  <2>2. CASE l.obj = ""
    <3>1. e.svc = SvcLiteral(l.proto, ParsePortSpec(l.dport))
        BY <1>1, <1>2, <1>a, <2>2 DEF ParseDport
    <3>2. /\ Len(e.svc) # 1 /\ Proto(e.svc) = l.proto
          /\ \A port : InClause(port, Clause(Port(e.svc))) <=> InClause(port, l.dport)
        BY <1>2, <1>3, <3>1, SvcBack
    <3>3. Known(e.svc)
        BY <1>4, <3>2 DEF SvcResolved, IsSvc, IsSvcGroup
    <3>4. r.obj = "" /\ r.proto = l.proto /\ r.dport = Clause(Port(e.svc)) /\ r.sport = NoClause
        BY <2>0, <3>2, <3>3 DEF EntryOf
    <3>5. r.sport.op = "none" /\ r.dport.op # "group"
        BY <3>4, ClauseOps
    <3>6. l.sport.op # "group" /\ l.dport.op # "group"
        BY <1>2 DEF PlainClause
    <3>7. AceFlows(W, r) = FlowsOf(r.proto, r.sport, r.dport)
        BY <3>4, <3>5, FlowsAlone
    <3>8. AceFlows(V, l) = FlowsOf(l.proto, l.sport, l.dport)
        BY <2>2, <3>6, FlowsAlone
    <3>9. \A port : InClause(port, r.sport) <=> InClause(port, l.sport)
        BY <1>2, <3>5 DEF InClause
    <3>10. \A port : InClause(port, r.dport) <=> InClause(port, l.dport)
        BY <3>2, <3>4
    <3>11. FlowsOf(l.proto, r.sport, r.dport) = FlowsOf(l.proto, l.sport, l.dport)
        BY <3>9, <3>10, FlowsSame
    <3>12. QED BY <3>4, <3>7, <3>8, <3>11
  <2>3. QED BY <2>1, <2>2
<1>10. r.tail \intersect {"time-range"} = l.tail \intersect {"time-range"}
  <2>1. "time-range" \notin r.tail
      BY DEF EntryOf
  <2>2. QED BY <1>2, <2>1
<1>11. Decides(t, l) = <<l.action, AddrHosts(N, l.src), AddrHosts(N, l.dst), AceFlows(V, l), l.tail \intersect {"time-range"}>>
    BY DEF Decides, N, V
<1>12. Decides(u, r) = <<r.action, AddrHosts(M, r.src), AddrHosts(M, r.dst), AceFlows(W, r), r.tail \intersect {"time-range"}>>
    BY DEF Decides, M, W
<1>13. Decides(u, r) = Decides(t, l)
    BY <1>7, <1>8, <1>9, <1>10, <1>11, <1>12
<1>14. QED BY <1>13 DEF l
-----------------------------------------------------------------------------
(* A ready context's rules are all resolved, and nothing has the name that  *)
(* stands for none.                                                          *)
LEMMA UnknownOut == ASSUME NEW t, NEW c, ReadAll(t, c), PolicyWorded(t) PROVE ~Resolved(c, Unknown)
<1>1. Unknown # "any" /\ Unknown \notin Literals
    BY DEF PolicyWorded
<1>2. \A j \in DOMAIN t : t[j].k \in {"name", "object", "object-group"} => t[j].name # Unknown
    BY DEF PolicyWorded
<1>3. ~IsNet(c, Unknown)
  <2>1. SUFFICES ASSUME NEW e \in ToSet(c.nets) PROVE e.name # Unknown
      BY DEF IsNet, Named, ToSet
  <2>2. PICK j \in DOMAIN t : e \in NetsOf(t, j)
      BY AllHeld
  <2>3. t[j].k \in {"object", "name"} /\ e.name = t[j].name
      BY <2>2 DEF NetsOf
  <2>4. QED BY <1>2, <2>3
<1>4. ~IsNetGroup(c, Unknown)
  <2>1. SUFFICES ASSUME NEW e \in ToSet(c.netGroups) PROVE e.name # Unknown
      BY DEF IsNetGroup, Named, ToSet
  <2>2. PICK j \in DOMAIN t : e \in NetGroupsOf(t, j)
      BY AllHeld
  <2>3. t[j].k = "object-group" /\ e.name = t[j].name
      BY <2>2 DEF NetGroupsOf
  <2>4. QED BY <1>2, <2>3
<1>5. QED BY <1>1, <1>3, <1>4 DEF Resolved

LEMMA RulesResolved ==
    ASSUME NEW c, Wellformed(c), Clean(c), NEW i \in DOMAIN c.rules
    PROVE  RuleStatus(c, c.rules[i]) = "converted"
<1>1. \A e \in ToSet(ItemsOf(c)) : e.status \notin {"failed", "partial", "manual"}
    BY DEF ToSet, Clean
<1>2. c.rules[i] \in ToSet(c.rules)
    BY DEF ToSet
<1>3. PICK e \in ToSet(ItemsOf(c)) : e.status = RuleStatus(c, c.rules[i])
    BY <1>2, ItemsAre
<1>4. RuleStatus(c, c.rules[i]) \in {"converted", "partial"}
    BY DEF RuleStatus
<1>5. QED BY <1>1, <1>3, <1>4

(* The zones of the rules are those of the bindings.                        *)
ZonesBound(t) == {t[q].iface : q \in {p \in DOMAIN t : t[p].k = "access-group"}}

LEMMA ZonesApart ==
    ASSUME NEW t, NEW c, Wellformed(c), c.unparsed = {}, AllBound(t, c), ListsApart(t)
    PROVE  FromIn(c, ZonesBound(t)) /\ Apart(ZonesBound(t))
<1>1. DOMAIN c.rules = 1..Len(c.rules)
    BY DEF Wellformed, IsList
<1>2. ASSUME NEW i \in DOMAIN c.rules
      PROVE  c.rules[i].from = <<>> \/ \E z \in ZonesBound(t) : c.rules[i].from = <<z>>
  <2>1. BoundAs(t, c.rules[i])
      BY <1>1 DEF AllBound
  <2>2. SUFFICES ASSUME c.rules[i].from # <<>> PROVE \E z \in ZonesBound(t) : c.rules[i].from = <<z>>
      OBVIOUS
  <2>3. PICK q : Binds(t, q, c.rules[i].name) /\ c.rules[i].from = <<t[q].iface>>
      BY <2>1, <2>2 DEF BoundAs
  <2>4. t[q].iface \in ZonesBound(t)
      BY <2>3 DEF Binds, ZonesBound
  <2>5. QED BY <2>3, <2>4
<1>3. FromIn(c, ZonesBound(t))
    BY <1>2 DEF FromIn
<1>4. Apart(ZonesBound(t))
    BY DEF Apart, ZonesBound, ListsApart
<1>5. QED BY <1>3, <1>4

PlainAces(t) == \A j \in DOMAIN t : PlainAce(t[j])

LEMMA BothLists ==
    ASSUME NEW t, NEW c, ReadAll(t, c)
    PROVE  /\ IsList(t) /\ Wellformed(c) /\ IsList(GenASA(c)) /\ DOMAIN c.rules = 1..Len(c.rules)
           /\ AcePlaces(t, Len(t) + 2) = AcesOf(t)
<1>1. IsList(t) /\ Wellformed(c)
    BY DEF ReadAll
<1>2. IsList(GenASA(c))
    BY <1>1, Generated
<1>3. DOMAIN t = 1..Len(t) /\ Len(t) \in Nat
    BY <1>1 DEF IsList
<1>4. DOMAIN c.rules = 1..Len(c.rules)
    BY <1>1 DEF IsList, Wellformed
<1>5. \A q \in DOMAIN t : q < Len(t) + 2
    BY <1>3
<1>6. AcePlaces(t, Len(t) + 2) = AcesOf(t)
    BY <1>5 DEF AcePlaces, AcesOf
<1>7. QED BY <1>1, <1>2, <1>4, <1>6

KeptAs(u, r, t, l) == Decides(u, r) = Decides(t, l) /\ ("inactive" \in r.tail <=> "inactive" \in l.tail)

LEMMA EntryKept ==
    ASSUME NEW c, NEW t, NEW q \in DOMAIN t, t[q].k = "ace", PlainAces(t), PolicyWorded(t), NEW e, RuleFrom(t, q, e),
           RuleStatus(c, e) = "converted", ~Resolved(c, Unknown), NEW u, MeansAs(u, t), NEW r, r = GenRule(c, e)[2]
    PROVE  KeptAs(u, r, t, t[q])
<1>1. PlainAce(t[q])
    BY DEF PlainAces
<1>2. EntryOf(c, e, r) /\ ActiveAs(e, r)
    BY GenEntry
<1>3. EnabledAs(e, t[q])
    BY DEF RuleFrom
<1>4. Decides(u, r) = Decides(t, t[q])
    BY <1>1, <1>2, EntryBack
<1>5. "inactive" \in r.tail <=> "inactive" \in t[q].tail
    BY <1>2, <1>3 DEF ActiveAs
<1>6. QED BY <1>4, <1>5 DEF KeptAs

AllKept(u, h, t, g, I) == \A i \in I : KeptAs(u, u[h[i]], t, t[g[i]])

LEMMA PolicyAsListed ==
    ASSUME NEW t, NEW u, NEW dir, NEW iface, NEW there, NEW g, NEW h, NEW I,
           PairedBy(ListAt(t, dir, iface), t, g, ListAt(u, dir, there), u, h, I),
           AllKept(u, h, t, g, I)
    PROVE  PolicyAt(u, dir, there) = PolicyAt(t, dir, iface)
<1> DEFINE A == ListAt(t, dir, iface)
           B == ListAt(u, dir, there)
<1>1. PolicyAt(t, dir, iface) = [j \in DOMAIN A |-> Decides(t, A[j])]
    BY PolicyIs
<1>2. PolicyAt(u, dir, there) = [j \in DOMAIN B |-> Decides(u, B[j])]
    BY PolicyIs
<1>3. DOMAIN A = DOMAIN B /\ \A k \in DOMAIN A : \E i \in I : A[k] = t[g[i]] /\ B[k] = u[h[i]]
    BY DEF PairedBy
<1> HIDE DEF A, B
<1>4. \A k \in DOMAIN A : Decides(u, B[k]) = Decides(t, A[k])
    BY <1>3 DEF KeptAs, AllKept
<1>5. QED BY <1>1, <1>2, <1>3, <1>4

(* All that a policy is kept from. *)
PolicyGround(t, c) ==
    /\ ReadAll(t, c) /\ RulesRead(t, c, Len(t) + 2) /\ AllBound(t, c) /\ c.unparsed = {} /\ Clean(c)
    /\ BoundOnce(t) /\ PlainAces(t) /\ PolicyWorded(t) /\ ListsApart(t) /\ MeansAs(GenASA(c), t)

LEMMA PolicySame ==
    ASSUME NEW t, NEW c, PolicyGround(t, c), NEW dir, NEW iface, Place(dir, iface, ZonesBound(t))
    PROVE  PolicyAt(GenASA(c), dir, There(dir, iface)) = PolicyAt(t, dir, iface)
<1> DEFINE n == Len(c.rules)
           u == GenASA(c)
           S == AcesOf(t)
           R == AcesOf(u)
           Z == ZonesBound(t)
           there == There(dir, iface)
<1>0. /\ ReadAll(t, c) /\ RulesRead(t, c, Len(t) + 2) /\ AllBound(t, c) /\ c.unparsed = {} /\ Clean(c)
      /\ BoundOnce(t) /\ PlainAces(t) /\ PolicyWorded(t) /\ ListsApart(t) /\ MeansAs(GenASA(c), t)
    BY DEF PolicyGround
<1>1. IsList(t) /\ Wellformed(c) /\ IsList(u) /\ DOMAIN c.rules = 1..n /\ AcePlaces(t, Len(t) + 2) = S
    BY <1>0, BothLists
<1>2. u = GenASA(c) /\ n = Len(c.rules) /\ MeansAs(u, t)
    BY <1>0
<1>3. PICK g : RulesBy(t, c.rules, g, AcePlaces(t, Len(t) + 2))
    BY <1>0 DEF RulesRead
<1>4. Counts(g, n, S) /\ RulesAre(t, c.rules, g, n)
    BY <1>0, <1>1, <1>3 DEF RulesBy, AllBound, RulesAre
<1>5. PICK h : EntriesAt(c, u, h, n)
  <2>1. \E h : /\ Counts(h, n, R)
               /\ \A i \in 1..n : u[h[i]] = GenRule(c, c.rules[i])[2]
      BY <1>1, WrittenRules DEF AcesOf
  <2>2. QED BY <2>1 DEF EntriesAt
<1>6. FromIn(c, Z) /\ Apart(Z)
    BY <1>0, <1>1, ZonesApart
<1>7. ~Resolved(c, Unknown)
    BY <1>0, UnknownOut
<1>8. S \subseteq DOMAIN t /\ R \subseteq DOMAIN u /\ \A q \in S : t[q].k = "ace"
    BY DEF AcesOf
<1>9. Place(dir, iface, Z)
    OBVIOUS
<1> HIDE DEF n, u, S, R, Z, there
<1>10. ASSUME NEW i \in 1..n PROVE KeptAs(u, u[h[i]], t, t[g[i]])
  <2>1. u[h[i]] = GenRule(c, c.rules[i])[2]
      BY <1>5 DEF EntriesAt
  <2>2. RuleFrom(t, g[i], c.rules[i]) /\ g[i] \in DOMAIN t /\ t[g[i]].k = "ace"
      BY <1>4, <1>8 DEF Counts, RulesAre
  <2>3. RuleStatus(c, c.rules[i]) = "converted"
      BY <1>0, <1>1, RulesResolved
  <2>4. QED BY <1>0, <1>2, <1>7, <2>1, <2>2, <2>3, EntryKept
<1> DEFINE I == Met(c.rules, n, dir, iface, t, g)
<1>11. I = Met(c.rules, n, dir, iface, u, h) /\ I \subseteq 1..n
  <2>1. \A i \in 1..n : "inactive" \notin t[g[i]].tail <=> "inactive" \notin u[h[i]].tail
      BY <1>10 DEF KeptAs
  <2>2. QED BY <2>1 DEF Met
<1> HIDE DEF I
<1>a. ListAt(u, dir, there) = Those(u, Image(h, Met(c.rules, n, dir, iface, u, h)))
  <2>1. EntriesAt(c, GenASA(c), h, n) /\ n = Len(c.rules)
      BY <1>5 DEF u, n
  <2>2. QED BY <1>1, <1>6, <1>9, <2>1, TextList DEF u, there
<1>13. ListAt(t, dir, iface) = Those(t, Image(g, I))
    BY <1>0, <1>1, <1>4, <1>9, SourceList DEF S, I
<1>14. ListAt(u, dir, there) = Those(u, Image(h, I))
    BY <1>a, <1>11
<1>15. Counts(h, n, R)
    BY <1>5 DEF EntriesAt, R
<1>16. PairedBy(Those(t, Image(g, I)), t, g, Those(u, Image(h, I)), u, h, I)
    BY <1>1, <1>4, <1>8, <1>11, <1>15, ListsPair
<1>17. PairedBy(ListAt(t, dir, iface), t, g, ListAt(u, dir, there), u, h, I)
    BY <1>13, <1>14, <1>16
<1>18. AllKept(u, h, t, g, I)
    BY <1>10, <1>11 DEF AllKept
<1>19. PolicyAt(u, dir, there) = PolicyAt(t, dir, iface)
    BY <1>17, <1>18, PolicyAsListed
<1>20. QED BY <1>19 DEF u, there

(* Where the words of a running configuration's entries are ones the device *)
(* shows, and the zones of its bindings get lists of their own, a context   *)
(* that is called ready decides at the target at every interface as the     *)
(* source did, entry by entry and in their order (parseASAACL,              *)
(* parseASAAccessGroup, the closing of Parse, genASA; src/parse/asa.go,     *)
(* src/gen/asa.go).  any4 and any6, which parse/asa.go:745 takes for any,   *)
(* IPv6 prefixes, FQDNs of another family and clauses that are not read are *)
(* excepted (PlainAce, PlainNetworks, PlainServices).                       *)
THEOREM ReadyKeepsPolicy == Spec => [](Running(source) /\ PolicyWorded(source) /\ ListsApart(source) => PolicyKept)
<1>1. ASSUME PassOK, Converted, Holding, Called, RulesHeld, Running(source), PolicyWorded(source), ListsApart(source)
      PROVE  PolicyKept
  <2>1. SUFFICES ASSUME Ready, BoundOnce(source), PlainNetworks(source), PlainServices(source), AllReadable(source),
                        \A j \in DOMAIN source : PlainAce(source[j])
                 PROVE  /\ PolicyAt(text, "global", "") = PolicyAt(source, "global", "")
                        /\ \A j \in DOMAIN source : source[j].k = "access-group" =>
                              PolicyAt(text, "in", MapZone(source[j].iface)) = PolicyAt(source, "in", source[j].iface)
      BY DEF PolicyKept
  <2>2. text = GenASA(ir) /\ ReadAll(source, ir) /\ ir.unparsed = {} /\ NetsSound(ir) /\ SvcsSound(ir)
      BY <1>1, <2>1, ReadySound
  <2>3. \A n : Lookup(Networks(GenASA(ir)), n) = Lookup(Networks(source), n)
      BY <1>1, <2>1, <2>2, NetworksKept
  <2>4. \A n : Lookup(Services(GenASA(ir)), n) = Lookup(Services(source), n)
      BY <1>1, <2>1, <2>2, ServicesKept
  <2>a. MeansAs(GenASA(ir), source) /\ PlainAces(source)
      BY <2>1, <2>3, <2>4 DEF MeansAs, PlainAces
  <2>5. pass # "source" /\ Nested(source) /\ Clean(ir)
      BY <1>1, <2>1 DEF Ready, Called, Running
  <2>6. RulesRead(source, ir, Len(source) + 2) /\ AllBound(source, ir)
      BY <1>1, <2>5 DEF RulesHeld
  <2>b. BoundOnce(source) /\ PolicyWorded(source) /\ ListsApart(source)
      BY <1>1, <2>1
  <2>c. PolicyGround(source, ir)
      BY <2>2, <2>a, <2>b, <2>5, <2>6 DEF PolicyGround
  <2>7. ASSUME NEW dir, NEW iface, Place(dir, iface, ZonesBound(source))
        PROVE  PolicyAt(text, dir, There(dir, iface)) = PolicyAt(source, dir, iface)
      BY <2>2, <2>c, <2>7, PolicySame
  <2>8. PolicyAt(text, "global", "") = PolicyAt(source, "global", "")
    <3>1. Place("global", "", ZonesBound(source))
        BY DEF Place
    <3>2. There("global", "") = ""
        BY DEF There
    <3>3. QED BY <2>7, <3>1, <3>2
  <2>9. ASSUME NEW j \in DOMAIN source, source[j].k = "access-group"
        PROVE  PolicyAt(text, "in", MapZone(source[j].iface)) = PolicyAt(source, "in", source[j].iface)
    <3>1. source[j].iface \in ZonesBound(source)
        BY <2>9 DEF ZonesBound
    <3>2. There("in", source[j].iface) = MapZone(source[j].iface)
        BY DEF There
    <3>3. Place("in", source[j].iface, ZonesBound(source))
        BY <3>1 DEF Place
    <3>4. QED BY <2>7, <3>2, <3>3
  <2>10. QED BY <2>8, <2>9
<1>2. PassOK /\ Converted /\ Holding /\ Called /\ RulesHeld
      => (Running(source) /\ PolicyWorded(source) /\ ListsApart(source) => PolicyKept)
    BY <1>1
<1>3. QED BY <1>2, ParserInit, ParserNext, PassInit, PassNext, AlarmInit, AlarmNext,
             HoldingInit, HoldingNext, CalledInit, CalledNext, RulesHeldInit, RulesHeldNext, PTL DEF Spec
=============================================================================
