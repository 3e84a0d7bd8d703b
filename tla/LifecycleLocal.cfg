SPECIFICATION Spec
CONSTANTS
  Rots = {j1}
  Upds = {}
  Recs = {r1}
  First = First
  Removal = Removal
  NoOwner = NoOwner
  Stalls = FALSE
  MaxCrash = 0
INVARIANT LocalRemovalOpen
CHECK_DEADLOCK FALSE
