------------------------------- MODULE MCNamer ------------------------------
(* A TLC instance of Namer, where a name has at most five characters: two   *)
(* names that both become a_b, the name a_b itself, one that looks like a   *)
(* suffixed a_b and is its own second candidate, and two long names that    *)
(* are cut to the same stem when a suffix is added.                         *)
EXTENDS Namer, Sequences, TLC

SourceNames == {"a b", "a/b", "a_b", "a_b_2", "long1", "long2"}

CleanName(src) == IF src \in {"a b", "a/b"} THEN "a_b" ELSE src

SuffixedName(base, i) ==
    (IF Len(base) + 2 > 5 THEN SubSeq(base, 1, 3) ELSE base) \o "_" \o ToString(i)
=============================================================================
