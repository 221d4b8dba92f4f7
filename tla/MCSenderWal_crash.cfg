SPECIFICATION FairSpec
CONSTANTS
  k1 = k1 k2 = k2 r1 = r1 r2 = r2 i1 = i1 i2 = i2 none = none
  Requests <- SomeRequests
  Receivers <- BothReceivers
  Incarnations <- BothIncarnations
  Contracts <- SomeContracts
  Caps <- SomeCaps
  None = none
  MaxWrites = 3
  MaxFaults = 1
  MaxCrashes = 2
INVARIANTS AnchorNeverLeads AnsweredIsDurable OneSequencePerKey
  RefusesOnlyTornLogs AnnouncedAckSurvives
PROPERTIES ImplementsDurableLog PinsArePermanent ComesBack
