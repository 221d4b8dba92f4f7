SPECIFICATION Spec
CONSTANTS
  none = none
  None = none
  Bundles <- AllBundles
CHECK_DEADLOCK FALSE
INVARIANTS TypeOK WindowIsNewest WindowExact Conserved
