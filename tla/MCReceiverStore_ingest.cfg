SPECIFICATION Spec
CONSTANTS
  s1 = s1 s2 = s2 s3 = s3 none = none
  Events <- MCEvents
  Sessions <- TwoSessions
  None = none
  Epochs = {"ep1", "ep2"}
  Identities = {"r1", "r2"}
  AdminIds = {"a1", "a2"}
  Logs <- MCLogs
  MaxBatch = 2
  MaxOpens = 3
  MaxFaults = 2
INVARIANTS OneHistory RowMatchesTables StoredInOrder LiveSessionOwnsStream
