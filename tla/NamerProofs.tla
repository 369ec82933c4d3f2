----------------------------- MODULE NamerProofs ----------------------------
(* Theorems about Namer, for every set of source names, every character     *)
(* filter and every way of adding suffixes that NamerAssumption admits.     *)
EXTENDS Namer, TLAPS

(* A source that is its own clean form keeps its name; any other is given   *)
(* one that is taken, and that lookup knows.                                *)
NamedOK ==
    \A src \in Sources :
        /\ named[src] # Absent => named[src] \in used
        /\ named[src] # Absent /\ Clean(src) = src => named[src] = src
        /\ Renames[src] = IF Renamed(src) THEN named[src] ELSE Absent

NamerInv == TypeOK /\ SkippedTaken /\ RenamedApart /\ NamedOK

(* The names one call may answer with. *)
LEMMA Candidates ==
    ASSUME NEW src \in Sources, NEW i \in Probes(Clean(src)), TypeOK
    PROVE  /\ Clean(src) \in Bases /\ Start(Clean(src)) \in 2..(MaxSuffix + 1)
           /\ i = 1 \/ (i \in Suffixes /\ i >= Start(Clean(src)))
           /\ Candidate(Clean(src), i) \in Names
           /\ Candidate(Clean(src), i) = src => Clean(src) = src
<1>1. Clean(src) \in Bases
    BY DEF Bases
<1>2. Start(Clean(src)) \in 2..(MaxSuffix + 1)
    BY <1>1, NamerAssumption DEF Start, TypeOK
<1>3. i = 1 \/ (i \in Suffixes /\ i >= Start(Clean(src)))
    BY DEF Probes
<1>4. Candidate(Clean(src), i) \in Names
    BY <1>1, <1>3 DEF Candidate, Names
<1>5. ASSUME Candidate(Clean(src), i) = src PROVE Clean(src) = src
  <2>1. CASE i = 1
      BY <1>5, <2>1 DEF Candidate
  <2>2. CASE i # 1
    <3>1. i \in Suffixes /\ Suffixed(Clean(src), i) = src
        BY <1>3, <1>5, <2>2 DEF Candidate
    <3>2. Clean(Suffixed(Clean(src), i)) = Suffixed(Clean(src), i)
        BY <1>1, <3>1, NamerAssumption
    <3>3. QED BY <3>1, <3>2
  <2>3. QED BY <2>1, <2>2
<1>6. QED BY <1>1, <1>2, <1>3, <1>4, <1>5

(* The call that takes the first candidate that stops it leaves only taken  *)
(* suffixes behind.                                                         *)
LEMMA ResumeKeepsSkipped ==
    ASSUME TypeOK, SkippedTaken, NEW src \in Sources, NEW stopAt,
           NEW i \in Stops(Clean(src), stopAt),
           \A j \in Stops(Clean(src), stopAt) : i <= j,
           used' = used \union {Candidate(Clean(src), i)},
           nextSfx' = Resume(Clean(src), i)
    PROVE  SkippedTaken' /\ nextSfx' \in [Bases -> {0} \union 2..(MaxSuffix + 1)]
<1>. DEFINE base == Clean(src)
<1>1. i \in Probes(base)
    BY DEF Stops
<1>2. /\ base \in Bases /\ Start(base) \in 2..(MaxSuffix + 1)
      /\ i = 1 \/ (i \in Suffixes /\ i >= Start(base))
    BY <1>1, Candidates
<1>3. nextSfx' = [nextSfx EXCEPT ![base] = IF i = 1 THEN Start(base) ELSE i + 1]
    BY DEF Resume
<1>4. nextSfx' \in [Bases -> {0} \union 2..(MaxSuffix + 1)]
    BY <1>2, <1>3, NamerAssumption DEF TypeOK, Suffixes
<1>5. ASSUME NEW b \in Bases, NEW k \in Suffixes, k < nextSfx'[b]
      PROVE  Suffixed(b, k) \in used'
  <2>1. CASE b # base \/ k < Start(base)
    <3>1. k < nextSfx[b] \/ (b = base /\ nextSfx[b] < 2 /\ k < 2)
        BY <1>2, <1>3, <1>5, <2>1, NamerAssumption DEF TypeOK, Start, Suffixes
    <3>2. k < nextSfx[b]
        BY <3>1, NamerAssumption DEF Suffixes
    <3>3. QED BY <3>2 DEF SkippedTaken
  <2>2. CASE b = base /\ k >= Start(base)
    <3>1. i \in Suffixes /\ k <= i
        BY <1>2, <1>3, <1>5, <2>2, NamerAssumption DEF TypeOK, Suffixes
    <3>2. k \in Probes(base) /\ k # 1
        BY <2>2, NamerAssumption DEF Probes, Suffixes
    <3>3. CASE k = i
        BY <2>2, <3>2, <3>3 DEF Candidate
    <3>4. CASE k # i
      <4>1. k \notin Stops(base, stopAt)
          BY <3>1, <3>4, NamerAssumption DEF Suffixes
      <4>2. QED BY <2>2, <3>2, <4>1 DEF Stops, Candidate
    <3>5. QED BY <3>3, <3>4
  <2>3. QED BY <1>2, <2>1, <2>2, NamerAssumption DEF Suffixes
<1>6. QED BY <1>4, <1>5 DEF SkippedTaken

LEMMA NamerInit == Init => NamerInv
BY NamerAssumption
   DEF Init, NamerInv, TypeOK, SkippedTaken, RenamedApart, NamedOK, Renamed, Suffixes

LEMMA NameKeeps ==
    ASSUME NamerInv, NEW src \in Sources, Name(src)
    PROVE  NamerInv'
<1>. DEFINE base == Clean(src)
<1>1. PICK i \in Stops(base, src) :
          /\ \A j \in Stops(base, src) : i <= j
          /\ used' = used \union {Candidate(base, i)}
          /\ nextSfx' = Resume(base, i)
          /\ Renames' = IF Candidate(base, i) # src
                        THEN [Renames EXCEPT ![src] = Candidate(base, i)] ELSE Renames
          /\ named' = [named EXCEPT ![src] = Candidate(base, i)]
          /\ UNCHANGED <<rules, calls>>
    BY DEF Name
<1>. DEFINE out == Candidate(base, i)
<1>2. i \in Probes(base) /\ (out \notin used \/ out = src)
    BY DEF Stops
<1>3. out \in Names /\ (out = src => base = src)
    BY <1>2, Candidates DEF NamerInv
<1>4. base = src => out = src
  <2>1. SUFFICES ASSUME base = src PROVE out = src
      OBVIOUS
  <2>2. 1 \in Stops(base, src)
      BY <2>1 DEF Stops, Probes, Candidate
  <2>3. i <= 1
      BY <1>1, <2>2
  <2>4. i = 1 \/ i >= 2
      BY <1>2, Candidates, NamerAssumption DEF NamerInv, Suffixes
  <2>5. i = 1
      BY <1>2, <2>3, <2>4, Candidates, NamerAssumption DEF NamerInv, Suffixes
  <2>6. QED BY <2>1, <2>5 DEF Candidate
<1>5. out # Absent /\ out \in used'
    BY <1>1, <1>3, NamerAssumption
<1>6. SkippedTaken' /\ nextSfx' \in [Bases -> {0} \union 2..(MaxSuffix + 1)]
    BY <1>1, ResumeKeepsSkipped DEF NamerInv
<1>. HIDE DEF out, base
<1>7. /\ used' = used \union {out} /\ named' = [named EXCEPT ![src] = out]
      /\ Renames' = IF out # src THEN [Renames EXCEPT ![src] = out] ELSE Renames
    BY <1>1 DEF out
<1>8. TypeOK'
    BY <1>1, <1>3, <1>6, <1>7 DEF NamerInv, TypeOK
<1>9. NamedOK'
  <2>1. ASSUME NEW s \in Sources, s # src
        PROVE  named'[s] = named[s] /\ Renames'[s] = Renames[s] /\ Renamed(s)' = Renamed(s)
      BY <1>7, <2>1 DEF NamerInv, TypeOK, Renamed
  <2>2. named'[src] = out /\ Renames'[src] = IF out # src THEN out ELSE Renames[src]
      BY <1>7 DEF NamerInv, TypeOK
  <2>3. out = src => Renames[src] = Absent
      BY <1>3, NamerAssumption DEF NamerInv, NamedOK, Renamed, base
  <2>4. ASSUME NEW s \in Sources
        PROVE  /\ named'[s] # Absent => named'[s] \in used'
               /\ named'[s] # Absent /\ Clean(s) = s => named'[s] = s
               /\ Renames'[s] = IF Renamed(s)' THEN named'[s] ELSE Absent
    <3>1. CASE s # src
        BY <1>7, <2>1, <3>1 DEF NamerInv, NamedOK
    <3>2. CASE s = src
        BY <1>4, <1>5, <2>2, <2>3, <3>2 DEF Renamed, base
    <3>3. QED BY <3>1, <3>2
  <2>5. QED BY <2>4 DEF NamedOK
<1>10. RenamedApart'
  <2>1. ASSUME NEW a \in Sources, NEW b \in Sources,
               Renamed(a)', Renamed(b)', named'[a] = named'[b]
        PROVE  a = b
    <3>1. \A s \in Sources : s # src => named'[s] = named[s] /\ Renamed(s)' = Renamed(s)
        BY <1>7 DEF NamerInv, TypeOK, Renamed
    <3>2. named'[src] = out
        BY <1>7 DEF NamerInv, TypeOK
    <3>3. CASE a # src /\ b # src
        BY <2>1, <3>1, <3>3 DEF NamerInv, RenamedApart
    <3>4. ASSUME NEW s \in Sources, s # src, Renamed(s)', Renamed(src)',
                 named'[s] = named'[src]
          PROVE  FALSE
      <4>1. named[s] = out /\ named[s] # Absent
          BY <3>1, <3>2, <3>4 DEF Renamed
      <4>2. out \in used
          BY <4>1 DEF NamerInv, NamedOK
      <4>3. out # src
          BY <3>2, <3>4 DEF Renamed
      <4>4. QED BY <1>2, <4>2, <4>3 DEF out
    <3>5. QED BY <2>1, <3>3, <3>4
  <2>2. QED BY <2>1 DEF RenamedApart
<1>11. QED BY <1>6, <1>8, <1>9, <1>10 DEF NamerInv

LEMMA UniqueKeeps ==
    ASSUME NamerInv, NEW src \in Sources, Unique(src)
    PROVE  NamerInv' /\ \E out \in Names \ used : rules' = rules \union {out}
<1>. DEFINE base == Clean(src)
<1>1. PICK i \in Stops(base, Absent) :
          /\ calls < MaxRules /\ calls' = calls + 1
          /\ \A j \in Stops(base, Absent) : i <= j
          /\ used' = used \union {Candidate(base, i)}
          /\ nextSfx' = Resume(base, i)
          /\ rules' = rules \union {Candidate(base, i)}
          /\ UNCHANGED <<Renames, named>>
    BY DEF Unique
<1>. DEFINE out == Candidate(base, i)
<1>2. i \in Probes(base) /\ (out \notin used \/ out = Absent)
    BY DEF Stops
<1>3. out \in Names \ used
    BY <1>2, Candidates, NamerAssumption DEF NamerInv
<1>4. SkippedTaken' /\ nextSfx' \in [Bases -> {0} \union 2..(MaxSuffix + 1)]
    BY <1>1, ResumeKeepsSkipped DEF NamerInv
<1>5. TypeOK'
    BY <1>1, <1>3, <1>4, NamerAssumption DEF NamerInv, TypeOK
<1>6. RenamedApart' /\ NamedOK'
    BY <1>1 DEF NamerInv, RenamedApart, NamedOK, Renamed
<1>7. QED BY <1>1, <1>3, <1>4, <1>5, <1>6 DEF NamerInv

LEMMA NamerNext == NamerInv /\ [Next]_vars => NamerInv'
<1> SUFFICES ASSUME NamerInv, [Next]_vars PROVE NamerInv'
    OBVIOUS
<1>1. CASE Next
    BY <1>1, NameKeeps, UniqueKeeps DEF Next
<1>2. CASE UNCHANGED vars
    BY <1>2 DEF vars, NamerInv, TypeOK, SkippedTaken, RenamedApart, NamedOK, Renamed
<1>3. QED BY <1>1, <1>2

LEMMA NamerCorrect == Spec => []NamerInv
BY NamerInit, NamerNext, PTL DEF Spec

(* Every name given has a source it was given to, and no counter stands     *)
(* below the first suffix (gen.go:115-183).                                 *)
THEOREM NamerTypeCorrect == Spec => []TypeOK
<1>1. NamerInv => TypeOK
    BY DEF NamerInv
<1>2. QED BY <1>1, NamerCorrect, PTL

(* Resuming the probe where the last call left off finds the same name as   *)
(* starting it again: every suffix it skips is taken.                       *)
THEOREM ResumeExact == Spec => []SkippedTaken
<1>1. NamerInv => SkippedTaken
    BY DEF NamerInv
<1>2. QED BY <1>1, NamerCorrect, PTL

(* Two renamed sources never end up under one name. *)
THEOREM RenamesApart == Spec => []RenamedApart
<1>1. NamerInv => RenamedApart
    BY DEF NamerInv
<1>2. QED BY <1>1, NamerCorrect, PTL

(* A reference carries the name its object was given last. *)
THEOREM LookupsAgree == Spec => []LookupLast
<1>1. NamerInv => LookupLast
    BY DEF NamerInv, NamedOK, LookupLast, Lookup, Renamed
<1>2. QED BY <1>1, NamerCorrect, PTL

(* No rule is given a name that any rule or object has. *)
THEOREM UniqueIsFresh == Spec => UniqueFresh
<1>1. NamerInv /\ [Next]_vars
      => [calls' # calls => \E out \in Names \ used : rules' = rules \union {out}]_vars
  <2>1. SUFFICES ASSUME NamerInv, Next, calls' # calls
                 PROVE  \E out \in Names \ used : rules' = rules \union {out}
      BY DEF vars
  <2>2. QED BY <2>1, UniqueKeeps DEF Next, Name
<1>2. QED BY <1>1, NamerCorrect, PTL DEF Spec, UniqueFresh
=============================================================================
