SPECIFICATION Spec
CONSTANTS
  Lengths = {0, 1, 127, 128, 252, 253, 300}
  Following <- PayloadStarts
CHECK_DEADLOCK FALSE
INVARIANT ReadsConsensusLengths
