SPECIFICATION FairSpec
CONSTANTS
  d1 = d1 d2 = d2 c1 = c1 c2 = c2 none = none
  Events <- FourEvents
  Dirs <- OneDir
  Conns <- TwoConns
  Original = d1
  None = none
  Paused = TRUE
  MaxBatch = 2
  SmallWindow = 1
  Attempts = 1
  MaxOpens = 1
  MaxFaults = 1
  MaxRestores = 0
CHECK_DEADLOCK FALSE
INVARIANTS CreditRespected
PROPERTY EventuallyDrained
