SPECIFICATION FairHSpec
CONSTANTS
  Threads = {t1, t2}
  Ids = {j1}
  LegacyIds = {j1}
  MaxPuts = 2
  MaxCrashes = 1
  Faults <- StepFaults
  Absent = Absent
  Partial = Partial
  Free = Free
PROPERTY Linearizable
PROPERTY EveryCallReturns
