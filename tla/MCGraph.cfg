SPECIFICATION Spec
CONSTANTS
  one = one
  oneFloat = oneFloat
  nan = nan
  list = list
  A = A
  B = B
  k = k
  Nil = Nil
  NoForm = NoForm
  Label = {A, B}
  Key = {k}
  Type = {T, S}
  Scalar = {one, oneFloat, nan}
  Composite = {list}
  Form = {one}
  uniqueValue <- MCuniqueValue
  MaxNode = 2
  MaxEdge = 2
CONSTRAINT Focus
INVARIANTS
  TypeOK
  IndexesExact
  ConstraintsKept
  EdgesListed
PROPERTY RefinesPropertyGraph
