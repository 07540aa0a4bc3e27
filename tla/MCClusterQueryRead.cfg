SPECIFICATION Spec
CONSTANTS
  n1 = n1
  n2 = n2
  x = x
  y = y
  Node <- Voters
  Key = {x, y}
  Bounds <- QueryRead
SYMMETRY Symmetry
CHECK_DEADLOCK FALSE
INVARIANT LinearizableReads
