SPECIFICATION Spec
CONSTANTS
  Jobs = {j1, j2}
  Recs = {r1}
  Target <- SameTarget
  Stalls = TRUE
  MaxActive = 2
  MaxRev = 3
  MaxEpoch = 2
  NoJob = NoJob
SYMMETRY JobSymmetry
INVARIANT ActiveTokenKept
CHECK_DEADLOCK FALSE
