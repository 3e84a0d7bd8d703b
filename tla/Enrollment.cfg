SPECIFICATION Spec
CONSTANTS
  Jobs = {j1, j2}
  Recs = {r1, r2}
  Target <- SameTarget
  Stalls = TRUE
  MaxActive = 2
  MaxRev = 3
  MaxEpoch = 2
  NoJob = NoJob
SYMMETRY Symmetry
CONSTRAINT Load
INVARIANTS
  RegisteredUsable
  LiveCredential
  SavedIsFinal
  RowsValid
CHECK_DEADLOCK FALSE
