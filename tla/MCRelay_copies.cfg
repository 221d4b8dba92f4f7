SPECIFICATION Spec
CONSTANTS
  d1 = d1 d2 = d2 c1 = c1 c2 = c2 none = none
  Events <- ThreeEvents
  Dirs <- TwoDirs
  Conns <- TwoConns
  Original = d1
  None = none
  Paused = FALSE
  MaxBatch = 2
  SmallWindow = 1
  Attempts = 1
  MaxOpens = 3
  MaxFaults = 1
  MaxRestores = 1
CHECK_DEADLOCK FALSE
SYMMETRY AnyConn
INVARIANTS AckedIsCommitted OneLogCommitted BindIsReconnect
