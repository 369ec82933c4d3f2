----------------------------- MODULE MCJobStore -----------------------------
(* TLC instances of JobStore: one or two goroutines on one or two jobs.     *)
EXTENDS JobStore, TLC

AllFaults == FaultKinds
OnlyUpdate == {"update"}

SymmetricThreads == Permutations(Threads)
=============================================================================
