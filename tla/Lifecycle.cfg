SPECIFICATION Spec
CONSTANTS
  Rots = {j1, j2}
  Upds = {u1, u2}
  Recs = {r1, r2}
  First = First
  Removal = Removal
  NoOwner = NoOwner
  Stalls = TRUE
  MaxCrash = 1
SYMMETRY Symmetry
CONSTRAINT Load
INVARIANTS
  TypeOK
  RegisteredWorks
  TokenKept
  OneSaga
  CleanEnd
  UpdatesKept
CHECK_DEADLOCK FALSE
