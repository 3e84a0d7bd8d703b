SPECIFICATION FairSpec
CONSTANTS
  Rots = {j1}
  Upds = {}
  Recs = {r1}
  First = First
  Removal = Removal
  NoOwner = NoOwner
  Stalls = FALSE
  MaxCrash = 1
PROPERTY StartupEnds
CHECK_DEADLOCK FALSE
