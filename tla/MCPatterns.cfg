SPECIFICATION MCSpec
CONSTANTS
  Data <- Graphs
  Queries <- Patterns
  Catalogs <- Indexes
  MaxEdge = 4
  varExpandMaxDepth = 4
CHECK_DEADLOCK FALSE
INVARIANTS
  PlansExact
  TrailsExact
  ShortestExact
