-------------------------------- MODULE Namer -------------------------------
(***************************************************************************)
(* The namer of the generators (src/gen/gen.go): target names for objects   *)
(* (name), for things that must be unique per instance, such as rules       *)
(* (unique), and the references to them (lookup).  One namer serves a whole *)
(* context; a generator asks it in the order of the source configuration.   *)
(***************************************************************************)
EXTENDS Naturals, FiniteSets

CONSTANTS
    Sources,          \* names in the source configuration
    Clean(_),         \* a name cut to the target's characters and length
    Suffixed(_, _),   \* a clean name with "_i", cut to the target's length
    MaxSuffix,        \* bound: the largest suffix
    MaxRules,         \* bound: calls of unique
    Absent            \* no name

Bases == {Clean(src) : src \in Sources}
Suffixes == 2..MaxSuffix
Names == Sources \union Bases \union {Suffixed(base, i) : base \in Bases, i \in Suffixes}

(* What comes out of the character filter and the cut goes through it       *)
(* unchanged, and suffixes tell the candidates of one base apart.  A        *)
(* candidate may be the base itself: a stem of full length that ends in     *)
(* "_2" is cut and given its own ending back.                               *)
ASSUME NamerAssumption ==
    /\ MaxSuffix \in Nat \ {0} /\ MaxRules \in Nat
    /\ \A base \in Bases : base \in Sources => Clean(base) = base
    /\ \A base \in Bases, i \in Suffixes :
          /\ Suffixed(base, i) \in Sources => Clean(Suffixed(base, i)) = Suffixed(base, i)
          /\ \A j \in Suffixes : Suffixed(base, i) = Suffixed(base, j) => i = j
    /\ Absent \notin Names

VARIABLES
    used,      \* namer.used
    nextSfx,   \* namer.nextSfx, 0 for a base never asked for
    Renames,   \* namer.Renames
    named,     \* history: source -> the last answer of name, or Absent
    rules,     \* history: the answers of unique
    calls      \* history: how often unique was called

vars == <<used, nextSfx, Renames, named, rules, calls>>

TypeOK ==
    /\ used \subseteq Names
    /\ nextSfx \in [Bases -> {0} \union 2..(MaxSuffix + 1)]
    /\ Renames \in [Sources -> Names \union {Absent}]
    /\ named \in [Sources -> Names \union {Absent}]
    /\ rules \subseteq used /\ calls \in 0..MaxRules

Init ==
    /\ used = {}
    /\ nextSfx = [base \in Bases |-> 0]
    /\ Renames = [src \in Sources |-> Absent]
    /\ named = [src \in Sources |-> Absent]
    /\ rules = {} /\ calls = 0

-----------------------------------------------------------------------------
Start(base) == IF nextSfx[base] < 2 THEN 2 ELSE nextSfx[base]

Candidate(base, i) == IF i = 1 THEN base ELSE Suffixed(base, i)

(* Mutant: the counter resumes one suffix late. *)
ProbesSkipping(base) == {1} \union {i \in Suffixes : i > Start(base)}

(* disambiguate: the base itself, then the suffixes from where the last     *)
(* call for the base left off, up to the first that is free or is stopAt.   *)
Probes(base) == {1} \union {i \in Suffixes : i >= Start(base)}

(* Mutant: the base is given out a second time. *)
StopsAtBase(base, stopAt) ==
    {i \in Probes(base) : i = 1 \/ Candidate(base, i) \notin used
                                \/ Candidate(base, i) = stopAt}

Stops(base, stopAt) ==
    {i \in Probes(base) : Candidate(base, i) \notin used \/ Candidate(base, i) = stopAt}

(* Mutant: the counter stays at the candidate that was taken. *)
ResumeAtTaken(base, i) == [nextSfx EXCEPT ![base] = i]

Resume(base, i) == [nextSfx EXCEPT ![base] = IF i = 1 THEN Start(base) ELSE i + 1]

(* Mutant: the first rename of a source is kept. *)
NameKeepsFirst(src) ==
    LET base == Clean(src) IN
    \E i \in Stops(base, src) :
        LET out == Candidate(base, i) IN
        /\ \A j \in Stops(base, src) : i <= j
        /\ used' = used \union {out}
        /\ nextSfx' = Resume(base, i)
        /\ Renames' = IF out # src /\ Renames[src] = Absent
                      THEN [Renames EXCEPT ![src] = out] ELSE Renames
        /\ named' = [named EXCEPT ![src] = out]
        /\ UNCHANGED <<rules, calls>>

(* name: asking for a name that needs no change is always granted. *)
Name(src) ==
    LET base == Clean(src) IN
    \E i \in Stops(base, src) :
        LET out == Candidate(base, i) IN
        /\ \A j \in Stops(base, src) : i <= j
        /\ used' = used \union {out}
        /\ nextSfx' = Resume(base, i)
        /\ Renames' = IF out # src THEN [Renames EXCEPT ![src] = out] ELSE Renames
        /\ named' = [named EXCEPT ![src] = out]
        /\ UNCHANGED <<rules, calls>>

(* unique: like name, but nothing stops at a used name and nothing is       *)
(* recorded for lookup.                                                     *)
Unique(src) ==
    LET base == Clean(src) IN
    \E i \in Stops(base, Absent) :
        LET out == Candidate(base, i) IN
        /\ calls < MaxRules /\ calls' = calls + 1
        /\ \A j \in Stops(base, Absent) : i <= j
        /\ used' = used \union {out}
        /\ nextSfx' = Resume(base, i)
        /\ rules' = rules \union {out}
        /\ UNCHANGED <<Renames, named>>

(* lookup: how a reference to src is written. *)
Lookup(src) == IF Renames[src] # Absent THEN Renames[src] ELSE src

Next == \E src \in Sources : Name(src) \/ Unique(src)

Spec == Init /\ [][Next]_vars

-----------------------------------------------------------------------------
(* The counter only ever moves forward, so a name it skips is one that was  *)
(* taken anyway: probing from the counter finds what probing from "_2"      *)
(* would.                                                                   *)
SkippedTaken ==
    \A base \in Bases : \A i \in Suffixes : i < nextSfx[base] => Suffixed(base, i) \in used

(* unique answers with a name nothing had before, objects included. *)
UniqueFresh ==
    [][calls' # calls => \E out \in Names \ used : rules' = rules \union {out}]_vars

(* Two sources that both had to be renamed never share a name. *)
Renamed(src) == named[src] \notin {Absent, src}
RenamedApart ==
    \A a, b \in Sources : Renamed(a) /\ Renamed(b) /\ named[a] = named[b] => a = b

(* A reference is written with the name the last call of name gave. *)
LookupLast == \A src \in Sources : named[src] # Absent => Lookup(src) = named[src]
=============================================================================
