SPECIFICATION FairSpec
CONSTANTS
  Jobs = {j1}
  Recs = {r1}
  Target <- SameTarget
  Stalls = FALSE
  MaxActive = 2
  MaxRev = 6
  MaxEpoch = 2
  NoJob = NoJob
PROPERTY StartupFinishesSaved
CHECK_DEADLOCK FALSE
