---------------------------- MODULE MCJobServer -----------------------------
(* TLC instances of JobServer: two requests at a time.                      *)
EXTENDS JobServer, TLC

(* The pro tier's 25 jobs are scaled down to 2. *)
Limits == [t \in AllTiers |-> CASE t = "pro" -> 2 [] t = "team" -> 0 [] OTHER -> 1]

AllSources == BOOLEAN \X BOOLEAN
SmallSource == {<<FALSE, FALSE>>}

Symmetric == Permutations(Clients) \union Permutations(JobIds)
=============================================================================
