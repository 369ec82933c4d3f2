SPECIFICATION Spec
CONSTANTS
  Threads = {t1, t2}
  Ids = {j1, j2}
  LegacyIds = {j2}
  MaxPuts = 2
  MaxCrashes = 1
  Faults <- AllFaults
  Absent = Absent
  Partial = Partial
  Free = Free
SYMMETRY SymmetricThreads
INVARIANT TypeOK
INVARIANT WholeFiles
INVARIANT RowHasFile
INVARIANT SummaryCurrent
INVARIANT NoOrphans
