SPECIFICATION CandidateSpec
CONSTANTS
  b = b c = c w = w r1 = r1 r2 = r2 alice = alice bob = bob none = none
  Bases = {b, c}
  Witnesses = {none, w}
  Stacks <- SmallStacks
  Payees = {alice, bob}
  Heights = {1, 2}
  Activation = 2
  Allowed = {"BIP141"}
  Nil = none
  MaxTxs = 3
  MaxOutputs = 3
  MaxClaims = 2
CHECK_DEADLOCK FALSE
INVARIANTS CandidateTypeOK HeaderDeterminesCandidate PaymentsAreTheReward
