SPECIFICATION Spec
CONSTANTS
  Threads = {t1}
  Ids = {j1}
  LegacyIds = {}
  MaxPuts = 2
  MaxCrashes = 0
  Faults <- OnlyUpdate
  Absent = Absent
  Partial = Partial
  Free = Free
INVARIANT RowKeepsFile
