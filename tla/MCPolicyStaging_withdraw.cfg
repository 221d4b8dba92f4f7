SPECIFICATION Spec
CONSTANTS
  s1 = s1 s2 = s2 none = none
  Senders <- MCSenders
  Scopes = {"parent", "aux"}
  Aux = "aux"
  None = none
  Requests <- MCRequests
  Effectives = {1, 2}
  Horizon = 3
  MaxGeneration = 2
CHECK_DEADLOCK FALSE
SYMMETRY AnySender
INVARIANT WithdrawalHolds
PROPERTY OneAnswer
