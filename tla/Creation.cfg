SPECIFICATION CSpec
CONSTANTS
  Clients = {c1, c2}
  JobIds = {j1, j2, j3}
  Tiers = {"free"}
  JobLimit <- FreeLimits
  Sources <- SmallSource
  StoreFaults = {"put"}
  UiOnly = FALSE
  MaxMaps = 0
  MaxConvs = 0
  Limit = 3
  Requests <- SomeRequests
  Absent = Absent
SYMMETRY Symmetric
INVARIANT JobsBounded
INVARIANT WholeInputs
INVARIANT LimitExact
INVARIANT FilesRemoved
