SPECIFICATION Spec
CONSTANTS
  Places <- OnePlace
  Outcomes <- OneOutcome
  Narrations <- SomeNarrations
  Endpoints = {"off", "open", "keyed"}
  Tiers = {"free", "pro"}
  RetryCounts = {0, 2}
  Timeout = 2
  Backoff = 1
  MaxConvs = 2
  MaxAsks = 2
  Nothing = Nothing
CHECK_DEADLOCK FALSE
INVARIANT ETypeOK
INVARIANT WaitBounded
PROPERTY EveryAskAnswered
