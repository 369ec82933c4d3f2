SPECIFICATION Spec
CONSTANTS
  Clients = {c1, c2}
  JobIds = {j1}
  Tiers = {"free"}
  JobLimit <- Limits
  Sources <- SmallSource
  StoreFaults = {}
  UiOnly = TRUE
  MaxMaps = 2
  MaxConvs = 2
  Absent = Absent
SYMMETRY Symmetric
INVARIANT NoUnseenMap
