SPECIFICATION Spec
CONSTANTS
  s1 = s1 s2 = s2 none = none
  Senders <- TwoSenders
  Skew = 1
  ProductionMax = 5
  Origin = 0
  Effectives = {2, 4}
  Rounds = {0, 2}
  Lags = {0}
  Unreliable = {s2}
  Finders = {s1}
  None = none
  MaxTime = 3
  MaxRecords <- OneEach
  MaxHoles = 1
  MaxBlocks = 1
CHECK_DEADLOCK FALSE
INVARIANTS SettledIsComplete FrontierProven 
