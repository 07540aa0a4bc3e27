SPECIFICATION MCSpec
CONSTANTS
  a = a
  b = b
  Absent = Absent
  Client = {c1, c2}
  Value = {a, b}
  Settings <- Serializable
  MaxNode = 3
  MaxEdge = 1
  MaxQuery = 2
  maxRetries = 1
  Swallows = FALSE
INVARIANTS
  Consistent
  MergedOnce
  IndexExact
PROPERTIES
  SerialEffects
  CommitIsSerial
