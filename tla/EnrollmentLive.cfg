SPECIFICATION FairSpec
CONSTANTS
  Jobs = {j1, j2}
  Recs = {r1, r2}
  Target <- SameTarget
  Stalls = TRUE
  MaxActive = 1
  MaxRev = 3
  MaxEpoch = 1
  NoJob = NoJob
INVARIANTS
  TypeOK
  CapacityBound
PROPERTIES
  KeepsPromise
  RecoverEnds
CHECK_DEADLOCK FALSE
