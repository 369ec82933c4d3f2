----------------------------- MODULE MCExplain ------------------------------
(* TLC instance of Explain: items that convert, fail or are only noted, or  *)
(* that a later conversion no longer has.                                   *)
EXTENDS Explain

OnePlace == {<<"system", 0>>}
OneOutcome == UNION {[some -> {"converted", "failed", "info"}] : some \in SUBSET OnePlace}
SomeNarrations == {<<"plain">>, <<"other severity">>, <<"plain", "other severity", "plain">>}
=============================================================================
