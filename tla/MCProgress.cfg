SPECIFICATION MCSpec
CONSTANTS
  x = x
  Absent = Absent
  Client = {c1, c2}
  Value = {a}
  Node = {n1, n2}
  Key = {x}
  maxRetries = 1
CHECK_DEADLOCK FALSE
PROPERTIES
  CallsReturn
  SearchEnds
  ClusterForms
