SPECIFICATION Spec
CONSTANTS
  Clients = {c1, c2}
  JobIds = {j1}
  Tiers = {"free", "pro", "other"}
  JobLimit <- Limits
  Sources <- AllSources
  StoreFaults = {"put"}
  UiOnly = FALSE
  MaxMaps = 1
  MaxConvs = 2
  Absent = Absent
SYMMETRY Symmetric
INVARIANT TypeOK
INVARIANT ConvertedFresh
INVARIANT OneConversion
