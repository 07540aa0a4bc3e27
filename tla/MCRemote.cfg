SPECIFICATION MCSpec
CONSTANTS
  c1 = c1
  c2 = c2
  c3 = c3
  Caller <- Callers
  Addr = {"voter1", "voter2"}
  maxIdle = 1
  MaxRestart = 1
  Voter = {1, 2}
  Origin = 0
  Unique = FALSE
  Deadline = FALSE
  MaxTerm = 2
  MaxFrame = 20
  MaxFault = 1
SYMMETRY Symmetry
CHECK_DEADLOCK FALSE
INVARIANTS
  ConnectionsAccounted
  SuccessApplied
  DuplicatesExplained
  HopsFollowElections
