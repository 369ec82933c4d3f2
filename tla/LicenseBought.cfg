SPECIFICATION Spec
CONSTANTS
  Clients = {c1, c2}
  Keys <- SomeKeys
  Builds = {TRUE, FALSE}
  Faults = {"open", "write"}
  MaxNow = 3
  Empty = Empty
  Torn = Torn
SYMMETRY Symmetric
INVARIANT TypeOK
INVARIANT BoughtTier
INVARIANT SavedKeyUnlocks
