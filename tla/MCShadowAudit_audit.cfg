SPECIFICATION Spec
CONSTANTS
  alice = alice bob = bob none = none
  None = none
  Ids <- ThreeIds
  Recipients <- Both
  Worths <- SomeWorths
  Unit = 2
  From = 1
  Until = 3
  MaxRows = 3
  MaxTime = 3
  MaxDamage = 1
CHECK_DEADLOCK FALSE
INVARIANTS HonestMatches MatchIsExplained
PROPERTY ImplementsReplay
