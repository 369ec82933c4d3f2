------------------------ MODULE MCJobStoreRefinement ------------------------
(* TLC instances of JobStoreRefinement: two goroutines, jobs stored by an   *)
(* earlier release and new ones.                                            *)
EXTENDS JobStoreRefinement, TLC

StepFaults == {"write", "rename", "remove", "insert", "update", "query"}

=============================================================================
