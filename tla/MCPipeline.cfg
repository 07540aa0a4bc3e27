SPECIFICATION MCSpec
CONSTANTS
  Parts = {"text", "names", "integers", "logic", "results", "rows"}
  Cases <- Sound
  Inputs <- Short
  Trees <- Nested
  Matches <- SomeMatches
  Creates <- SomeCreates
  Merges <- SomeMerges
  Updates <- SomeUpdates
  Unwinds <- SomeUnwinds
  Projections <- SomeProjections
  MaxClauses = 4
  MaxArms = 2
  Half = 8
  Lists <- ShortLists
  Queries <- SomeQueries
  MaxRows = 4
  MaxSum = 3
CHECK_DEADLOCK FALSE
INVARIANTS
  ScansExact
  MergeOnce
  SettingsOnly
  Answered
  AnonymousApart
  NeverWraps
  NullMeansUnknown
  
  
