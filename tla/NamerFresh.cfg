SPECIFICATION Spec
CONSTANTS
  Sources <- SourceNames
  Clean <- CleanName
  Suffixed <- SuffixedName
  MaxSuffix = 4
  MaxRules = 3
  Absent = Absent
INVARIANT TypeOK
INVARIANT SkippedTaken
INVARIANT RenamedApart
INVARIANT LookupLast
PROPERTY UniqueFresh
