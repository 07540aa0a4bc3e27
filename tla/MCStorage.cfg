SPECIFICATION MCSpec
CONSTANTS
  Txn = {t1, t2}
  Key = {1, 2, 3}
  Value = {1, 2}
  Prefix <- Ranges
  Node = {1, 2}
  Stored <- All
  Asked <- Around
  Precision = 2
  Width = 3
  One = 2
  MinInt <- Least
  MaxInt <- Most
  maxExactInt <- Exact
  Finite <- Halves
  MaxFinite <- Largest
  Rounded <- TiesToEven
  SignBit = 8
  Byte = {0, 1, 255}
  MaxLen = 3
  MaxEntries = 2
  Id = {0, 255}
  Label <- OneLabel
  Type <- OneType
  PropName <- TwoKeys
  Given <- TwoNames
CONSTRAINT Focus
CHECK_DEADLOCK FALSE
INVARIANTS
  LookupsExact
  UniqueByEquality
  KeysExact
  CatalogExact
  OldBuildsKeptOut
PROPERTIES
  ImplementsStorage
