SPECIFICATION Spec
CONSTANTS
  none = none
  None = none
  Scopes <- TwoScopes
  Updates <- SomeUpdates
  MaxTime = 4
CHECK_DEADLOCK FALSE
INVARIANTS GoodIsProven GraceIsOneEpisode VerifiersAgree
PROPERTY LatchHolds
