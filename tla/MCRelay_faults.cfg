SPECIFICATION Spec
CONSTANTS
  d1 = d1 d2 = d2 c1 = c1 c2 = c2 none = none
  Events <- TwoEvents
  Dirs <- OneDir
  Conns <- TwoConns
  Original = d1
  None = none
  Paused = FALSE
  MaxBatch = 2
  SmallWindow = 1
  Attempts = 2
  MaxOpens = 3
  MaxFaults = 2
  MaxRestores = 0
CHECK_DEADLOCK FALSE
INVARIANTS TypeOK NoPermanentFailure
PROPERTIES ImplementsDelivery SuccessMeansStored
